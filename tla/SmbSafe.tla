------------------------------- MODULE SmbSafe -------------------------------
(***************************************************************************)
(* Package internal/smbsafe: one goroutine arbitrates, over four unbuffered*)
(* channels, between libsmbclient calls (which replace the process-wide    *)
(* SIGCHLD handler) and executed commands (whose Wait() crashes when that  *)
(* handler is not Go's).  An unbuffered send is a rendezvous with the      *)
(* goroutine, so each send is one action guarded by the select the         *)
(* goroutine is blocked in.                                                *)
(***************************************************************************)
EXTENDS Naturals, FiniteSets

CONSTANTS
  Threads,    \* goroutines that fetch from SYSVOL or execute a command
  MaxCalls    \* bound: outermost WaitSmb/WaitExec calls one thread makes

ASSUME MaxCallsAssumption == MaxCalls \in Nat

VARIABLES
  loop,     \* the select the arbiter is in: "idle", "smb", "exec", or "restore"
  num,      \* numSmb or numExec of the inner loop
  sigchld,  \* the SIGCHLD handler in place: "go" or "samba"
  pc,       \* where each thread is
  held,     \* the requests granted and not given back, one per nesting level
  calls     \* outermost requests made so far by each thread

vars == <<loop, num, sigchld, pc, held, calls>>

\* fetch's goroutine asks once, and downloadDir asks again inside it.
Levels == {"outer", "nested"}

\* After downloadDir the goroutine of fetch only gives the mode back.
PCs == {"out", "wantSmb", "smb", "wantNested", "nested", "leaving", "wantExec", "exec"}

TypeOK ==
  /\ loop \in {"idle", "smb", "restore", "exec"}
  /\ num \in Nat
  /\ sigchld \in {"go", "samba"}
  /\ pc \in [Threads -> PCs]
  /\ held \in SUBSET (Threads \X Levels)
  /\ calls \in [Threads -> Nat]

Goto(t, from, to) == pc[t] = from /\ pc' = [pc EXCEPT ![t] = to]

Init ==
  /\ loop = "idle" /\ num = 0 /\ sigchld = "go"
  /\ pc = [t \in Threads |-> "out"]
  /\ held = {}
  /\ calls = [t \in Threads |-> 0]

-----------------------------------------------------------------------------
(* The callers. *)

\* A thread reaches its WaitSmb or WaitExec call and blocks in the send.
Ask(t, want) ==
  /\ calls[t] < MaxCalls
  /\ Goto(t, "out", want)
  /\ calls' = [calls EXCEPT ![t] = @ + 1]
  /\ UNCHANGED <<loop, num, sigchld, held>>

\* The goroutine of fetch calls downloadDir, which waits for the mode again.
AskNested(t) ==
  /\ Goto(t, "smb", "wantNested")
  /\ UNCHANGED <<loop, num, sigchld, held, calls>>

\* libsmbclient installs its own SIGCHLD handler during a call.
SmbCall(t) ==
  /\ pc[t] \in {"smb", "nested"}
  /\ sigchld' = "samba"
  /\ UNCHANGED <<loop, num, pc, held, calls>>

-----------------------------------------------------------------------------
(* The rendezvous of a caller with the arbiter. *)

\* Mutant: New requests of the current mode are not counted but made to wait.
GrantOnlyFromIdle(mode, t, level) ==
  /\ loop = "idle"
  /\ num' = 1
  /\ loop' = mode
  /\ held' = held \cup {<<t, level>>}
  /\ UNCHANGED <<sigchld, calls>>

\* The arbiter enters the mode from its outer select, or counts one more
\* request from the mode's inner select.
Grant(mode, t, level) ==
  /\ \/ loop = "idle" /\ num' = 1
     \/ loop = mode /\ num' = num + 1
  /\ loop' = mode
  /\ held' = held \cup {<<t, level>>}
  /\ UNCHANGED <<sigchld, calls>>

\* Mutant: The inner loop ends while one request is still running.
ReturnEarly(mode, t, level, next) ==
  /\ loop = mode
  /\ num' = num - 1
  /\ loop' = IF num' <= 1 THEN next ELSE mode
  /\ held' = held \ {<<t, level>>}
  /\ UNCHANGED <<sigchld, calls>>

\* The inner loop ends when the count is back to zero.
Return(mode, t, level, next) ==
  /\ loop = mode
  /\ num' = num - 1
  /\ loop' = IF num' = 0 THEN next ELSE mode
  /\ held' = held \ {<<t, level>>}
  /\ UNCHANGED <<sigchld, calls>>

WaitSmb(t) ==
  \/ Goto(t, "wantSmb", "smb") /\ Grant("smb", t, "outer")
  \/ Goto(t, "wantNested", "nested") /\ Grant("smb", t, "nested")

DoneSmb(t) ==
  \/ Goto(t, "smb", "out") /\ Return("smb", t, "outer", "restore")
  \/ Goto(t, "nested", "leaving") /\ Return("smb", t, "nested", "restore")
  \/ Goto(t, "leaving", "out") /\ Return("smb", t, "outer", "restore")

WaitExec(t) == Goto(t, "wantExec", "exec") /\ Grant("exec", t, "outer")

DoneExec(t) == Goto(t, "exec", "out") /\ Return("exec", t, "outer", "idle")

\* Mutant: The SIGCHLD handler is not restored when smb mode is left.
RestoreSigchildMissing ==
  /\ loop = "restore"
  /\ loop' = "idle"
  /\ UNCHANGED <<sigchld, num, pc, held, calls>>

\* C.restoresigchild(), before the arbiter goes back to its outer select.
RestoreSigchild ==
  /\ loop = "restore"
  /\ loop' = "idle"
  /\ sigchld' = "go"
  /\ UNCHANGED <<num, pc, held, calls>>

-----------------------------------------------------------------------------
Serve(t) == WaitSmb(t) \/ DoneSmb(t) \/ WaitExec(t) \/ DoneExec(t)

Next ==
  \/ \E t \in Threads :
       \/ \E want \in {"wantSmb", "wantExec"} : Ask(t, want)
       \/ AskNested(t)
       \/ SmbCall(t)
       \/ Serve(t)
  \/ RestoreSigchild

Spec == Init /\ [][Next]_vars

\* The Go scheduler runs the arbiter and every thread whose send can proceed;
\* nothing forces a thread to ask, nor to make an smb call.
FairSpec ==
  /\ Spec
  /\ WF_vars(RestoreSigchild)
  /\ \A t \in Threads : WF_vars(Serve(t))

-----------------------------------------------------------------------------
InSmb(t) == pc[t] \in {"smb", "wantNested", "nested", "leaving"}
InExec(t) == pc[t] = "exec"

SmbThreads == {t \in Threads : InSmb(t)}
ExecThreads == {t \in Threads : InExec(t)}

\* No command runs (and is waited for) while libsmbclient's SIGCHLD handler is
\* installed: the crash smbsafe exists to avoid ("any cmd.Wait() would segfault
\* when ran concurrently with this").
NoExecUnderSambaHandler == ExecThreads # {} => sigchld = "go"

\* A Done call never blocks: while a thread holds a mode, the arbiter sits in
\* that mode's inner select, so the deferred DoneSmb/DoneExec returns at once.
DoneNeverBlocks ==
  \A t \in Threads : /\ InSmb(t) => loop = "smb"
                     /\ InExec(t) => loop = "exec"

\* The nested WaitSmb of downloadDir, made while fetch's goroutine already holds
\* the mode, is always granted: the helper does not deadlock on itself.
NestedServed == \A t \in Threads : pc[t] = "wantNested" ~> pc[t] = "nested"

\* A command waiting for smb downloads to end is eventually executed, provided
\* each thread makes finitely many requests (MaxCalls).
ExecServed == \A t \in Threads : pc[t] = "wantExec" ~> pc[t] = "exec"

\* No request of a goroutine waits for ever: the nested one is granted under the
\* outer one, a command is granted once the downloads are over.
RequestsServed == NestedServed /\ ExecServed

\* The arbiter implements the mode lock its package comment promises.
Lock == INSTANCE ModeLock WITH smb <- SmbThreads, exec <- ExecThreads
ImplementsModeLock == Lock!Spec

-----------------------------------------------------------------------------
\* The arbiter's counter is the number of requests granted and not given back.
CountInv ==
  /\ IsFiniteSet(held)
  /\ num = Cardinality(held)

\* The requests held are those of the threads inside a mode.
HeldInv ==
  \A t \in Threads :
    /\ <<t, "outer">> \in held <=> (InSmb(t) \/ InExec(t))
    /\ <<t, "nested">> \in held <=> pc[t] = "nested"

\* The inductive invariant of init's goroutine: the count is the number of
\* requests held, every held request belongs to the select the arbiter is in, so
\* a Done call never blocks, and Go's SIGCHLD handler is back before a command
\* may be granted.
IInv ==
  /\ TypeOK
  /\ CountInv
  /\ HeldInv
  /\ DoneNeverBlocks
  /\ loop \in {"idle", "restore"} <=> held = {}
  /\ loop \in {"idle", "exec"} => sigchld = "go"
=============================================================================
