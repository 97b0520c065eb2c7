-------------------------------- MODULE Cat --------------------------------
(***************************************************************************)
(* 'adsysctl service cat': listeners that receive all that the daemon      *)
(* prints (internal/stdforward); LogStream models what it logs.            *)
(*                                                                         *)
(* The first listener replaces a standard output by a pipe and starts a    *)
(* goroutine that copies what is printed to all listeners; the last one    *)
(* puts it back, closes the pipe and, if it was also the first one, waits  *)
(* for that goroutine while it holds the lock the goroutine needs.         *)
(***************************************************************************)
EXTENDS Naturals, Sequences, FiniteSets

CONSTANTS
  Cats,           \* calls of Cat, one per client
  Std,            \* the standard outputs, "stdout" and "stderr"
  None,
  MaxPrints       \* bound: messages printed by the daemon

VARIABLES
  pc,             \* where each call of Cat is
  once,           \* per output: the forwarder is initialised
  writers,        \* per output: the listeners to copy to
  captured,       \* per output: os.Stdout (os.Stderr) is the pipe
  lock,           \* per output: the listener that holds its lock while waiting
  gen,            \* per output: how many times it was initialised
  copier,         \* per output and initialisation: the pipe and its goroutine
  started,        \* per call and output: the goroutine this call started, or 0
  printed,        \* messages printed so far
  owed,           \* per call and output: what was printed while it listened
  received        \* per call and output: what it received

vars == <<pc, once, writers, captured, lock, gen, copier, started, printed, owed, received>>

Gens == 1..Cardinality(Cats)
Idle == [buf |-> <<>>, open |-> FALSE, hand |-> 0, ended |-> TRUE]
Fresh == [buf |-> <<>>, open |-> TRUE, hand |-> 0, ended |-> FALSE]

\* The stages of a call, in order, with the output each one is about.
Adds == [add_out |-> "stdout", add_err |-> "stderr"]
Removes == [rm_err |-> "stderr", rm_out |-> "stdout"]
Waits == [wait_err |-> "stderr", wait_out |-> "stdout"]
After == [add_out |-> "add_err", add_err |-> "listen", rm_err |-> "rm_out", rm_out |-> "ended",
          wait_err |-> "rm_out", wait_out |-> "ended"]
Waiting == [rm_err |-> "wait_err", rm_out |-> "wait_out"]

TypeOK ==
  /\ pc \in [Cats -> {"init", "listen", "ended"} \cup DOMAIN Adds \cup DOMAIN Removes \cup DOMAIN Waits]
  /\ once \in [Std -> BOOLEAN] /\ captured \in [Std -> BOOLEAN]
  /\ writers \in [Std -> SUBSET Cats] /\ lock \in [Std -> Cats \cup {None}]
  /\ gen \in [Std -> {0} \cup Gens] /\ started \in [Cats -> [Std -> {0} \cup Gens]]
  /\ \A d \in Std, g \in Gens : copier[d][g].hand \in 0..MaxPrints /\ Len(copier[d][g].buf) <= MaxPrints
  /\ printed \in 0..MaxPrints
  /\ \A c \in Cats, d \in Std : owed[c][d] \subseteq 1..MaxPrints /\ received[c][d] \subseteq 1..MaxPrints

Init ==
  /\ pc = [c \in Cats |-> "init"]
  /\ once = [d \in Std |-> FALSE] /\ captured = [d \in Std |-> FALSE]
  /\ writers = [d \in Std |-> {}] /\ lock = [d \in Std |-> None]
  /\ gen = [d \in Std |-> 0] /\ started = [c \in Cats |-> [d \in Std |-> 0]]
  /\ copier = [d \in Std |-> [g \in Gens |-> Idle]]
  /\ printed = 0
  /\ owed = [c \in Cats |-> [d \in Std |-> {}]] /\ received = [c \in Cats |-> [d \in Std |-> {}]]

----------------------------------------------------------------------------
\* Cat, authorised (Request models the authorisation).
Begin(c) ==
  /\ pc[c] = "init" /\ pc' = [pc EXCEPT ![c] = "add_out"]
  /\ UNCHANGED <<once, writers, captured, lock, gen, copier, started, printed, owed, received>>

\* addWriter: the initialisation, if it is the first one, and the new writer.
addWriter(c) ==
  LET d == Adds[pc[c]] IN
  /\ lock[d] = None
  /\ once' = [once EXCEPT ![d] = TRUE]
  /\ IF once[d]
       THEN UNCHANGED <<gen, copier, captured, started>>
       ELSE /\ gen' = [gen EXCEPT ![d] = @ + 1]
            /\ copier' = [copier EXCEPT ![d][gen[d] + 1] = Fresh]
            /\ captured' = [captured EXCEPT ![d] = TRUE]
            /\ started' = [started EXCEPT ![c][d] = gen[d] + 1]
  /\ writers' = [writers EXCEPT ![d] = @ \cup {c}]

Add(c) ==
  /\ pc[c] \in DOMAIN Adds
  /\ addWriter(c) /\ pc' = [pc EXCEPT ![c] = After[@]]
  /\ UNCHANGED <<lock, printed, owed, received>>

\* The client leaves: the deferred calls run in the reverse order.
Leave(c) ==
  /\ pc[c] = "listen" /\ pc' = [pc EXCEPT ![c] = "rm_err"]
  /\ UNCHANGED <<once, writers, captured, lock, gen, copier, started, printed, owed, received>>

\* The function addWriter returns, up to the wait for the goroutine.
\* Mutant: the pipe of the last listener stays open.
TeardownOpen(d) == captured' = [captured EXCEPT ![d] = FALSE] /\ UNCHANGED copier
Teardown(d) ==
  /\ captured' = [captured EXCEPT ![d] = FALSE]
  /\ copier' = [copier EXCEPT ![d][gen[d]].open = FALSE]

\* Mutant: the forwarder is not made ready for another initialisation.
ResetMissing(d) == UNCHANGED once
Reset(d) == once' = [once EXCEPT ![d] = FALSE]

Remove(c) ==
  /\ pc[c] \in DOMAIN Removes
  /\ LET d == Removes[pc[c]] IN
       /\ lock[d] = None
       /\ writers' = [writers EXCEPT ![d] = @ \ {c}]
       /\ IF writers'[d] # {}
            THEN pc' = [pc EXCEPT ![c] = After[@]] /\ UNCHANGED <<captured, copier, lock, once>>
            ELSE /\ Teardown(d)
                 /\ IF started[c][d] # 0
                      THEN /\ lock' = [lock EXCEPT ![d] = c] /\ pc' = [pc EXCEPT ![c] = Waiting[@]]
                           /\ UNCHANGED once
                      ELSE /\ Reset(d) /\ pc' = [pc EXCEPT ![c] = After[@]]
                           /\ UNCHANGED lock
  /\ UNCHANGED <<gen, started, printed, owed, received>>

\* wgIOCopy.Wait returns once the goroutine has reached the end of the pipe.
RemoveWaited(c) ==
  /\ pc[c] \in DOMAIN Waits
  /\ LET d == Waits[pc[c]] IN
       /\ copier[d][started[c][d]].ended
       /\ Reset(d) /\ lock' = [lock EXCEPT ![d] = None]
  /\ pc' = [pc EXCEPT ![c] = After[@]]
  /\ UNCHANGED <<writers, captured, gen, copier, started, printed, owed, received>>

----------------------------------------------------------------------------
\* The daemon prints a message on an output.
Emit(d) ==
  /\ printed < MaxPrints /\ printed' = printed + 1
  /\ copier' = IF captured[d] THEN [copier EXCEPT ![d][gen[d]].buf = Append(@, printed')] ELSE copier
  /\ owed' = [c \in Cats |-> IF c \in writers[d] THEN [owed[c] EXCEPT ![d] = @ \cup {printed'}] ELSE owed[c]]
  /\ UNCHANGED <<pc, once, writers, captured, lock, gen, started, received>>

\* io.Copy reads the pipe; Write prints the message on the real output.
CopyRead(d, g) ==
  /\ copier[d][g].buf # <<>> /\ copier[d][g].hand = 0
  /\ copier' = [copier EXCEPT ![d][g].buf = Tail(@), ![d][g].hand = Head(copier[d][g].buf)]
  /\ UNCHANGED <<pc, once, writers, captured, lock, gen, started, printed, owed, received>>

\* Write forwards it to the listeners, under the reader's side of the lock.
CopyWrite(d, g) ==
  /\ copier[d][g].hand # 0 /\ lock[d] = None
  /\ received' = [c \in Cats |->
       IF c \in writers[d] THEN [received[c] EXCEPT ![d] = @ \cup {copier[d][g].hand}] ELSE received[c]]
  /\ copier' = [copier EXCEPT ![d][g].hand = 0]
  /\ UNCHANGED <<pc, once, writers, captured, lock, gen, started, printed, owed>>

CopyEnd(d, g) ==
  /\ ~copier[d][g].open /\ ~copier[d][g].ended
  /\ copier[d][g].buf = <<>> /\ copier[d][g].hand = 0
  /\ copier' = [copier EXCEPT ![d][g].ended = TRUE]
  /\ UNCHANGED <<pc, once, writers, captured, lock, gen, started, printed, owed, received>>

Next ==
  \/ \E c \in Cats : Begin(c) \/ Add(c) \/ Leave(c) \/ Remove(c) \/ RemoveWaited(c)
  \/ \E d \in Std : Emit(d) \/ \E g \in Gens : CopyRead(d, g) \/ CopyWrite(d, g) \/ CopyEnd(d, g)

Spec == Init /\ [][Next]_vars

----------------------------------------------------------------------------
\* What goroutines still hold of an output.
InFlight(d) ==
  UNION {{copier[d][g].hand} \cup {copier[d][g].buf[i] : i \in DOMAIN copier[d][g].buf} : g \in Gens}

(* stdforward.go: a listener receives what the daemon prints while it listens, or    *)
(* it is still on its way, whoever initialised the forwarder and however often it    *)
(* was torn down before.                                                             *)
NothingPrintedIsMissed ==
  \A d \in Std : \A c \in writers[d] : owed[c][d] \subseteq received[c][d] \cup InFlight(d)

(* A listener waits for a goroutine that has output left, which needs the lock that  *)
(* the listener holds.                                                               *)
Stuck == \E d \in Std : lock[d] # None /\ \E g \in Gens : copier[d][g].hand # 0

Leaving(c) == pc[c] \in DOMAIN Removes \cup DOMAIN Waits

(* stdforward.go:113: a listener whose client has left is removed and its call ends. *)
RemoveReturns == \A c \in Cats : Leaving(c) ~> pc[c] = "ended"

(* The same, unless something is printed while the last listener goes.               *)
QuietRemoveReturns == \A c \in Cats : Leaving(c) ~> (pc[c] = "ended" \/ Stuck)
=============================================================================
