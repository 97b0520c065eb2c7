------------------------------ MODULE Requests ------------------------------
(***************************************************************************)
(* The requests of adsysctl and the listeners of the daemon's output.  They *)
(* share no state: focus is the one that moves.                            *)
(***************************************************************************)
EXTENDS Request

CONSTANTS
  Cats, Std, None, MaxPrints,
  MaxStreamLogs  \* bound: messages logged while clients listen

\* What the code has: two outputs, finitely many clients, and nobody to hold a lock.
OutputsAreTwo == Std = {"stdout", "stderr"} /\ IsFiniteSet(Cats) /\ None \notin Cats /\ MaxPrints \in Nat

ASSUME ListenersAssumption == OutputsAreTwo /\ MaxStreamLogs \in Nat

VARIABLES
  focus,
  catPc, once, writers, captured, lock, gen, copier, started, printed, owed, received,
  seen, fw, showCaller, wantsCaller, logger, streamLogs

K == INSTANCE Cat WITH pc <- catPc
G == INSTANCE LogStream WITH logs <- streamLogs, MaxLogs <- MaxStreamLogs

catVars == <<catPc, once, writers, captured, lock, gen, copier, started, printed, owed, received>>
logVars == <<seen, fw, showCaller, wantsCaller, logger, streamLogs>>
allVars == <<focus, vars, catVars, logVars>>

RequestsInit ==
  /\ focus \in {"request", "cat", "logs"}
  /\ Init /\ K!Init /\ G!Init
  /\ focus # "request" => cmd.kind = "info" /\ caller = "root" /\ domain
  /\ focus # "logs" => wantsCaller = {}

StepRequest == focus = "request" /\ Next /\ UNCHANGED <<focus, catVars, logVars>>
StepCat == focus = "cat" /\ K!Next /\ UNCHANGED <<focus, vars, logVars>>
StepLogs == focus = "logs" /\ G!Next /\ UNCHANGED <<focus, vars, catVars>>

RequestsNext == StepRequest \/ StepCat \/ StepLogs

\* The client's own goroutines run; the daemon's handler may hang at any step.  The
\* goroutines of the listeners run; the daemon need not print.
Fairness ==
  /\ WF_allVars(focus = "request" /\ (Timing \/ Recv \/ RecvEnd) /\ UNCHANGED <<focus, catVars, logVars>>)
  /\ \A c \in Cats :
       WF_allVars(focus = "cat" /\ (K!Add(c) \/ K!Remove(c) \/ K!RemoveWaited(c)) /\ UNCHANGED <<focus, vars, logVars>>)
  /\ \A d \in Std, g \in K!Gens :
       WF_allVars(focus = "cat" /\ (K!CopyRead(d, g) \/ K!CopyWrite(d, g) \/ K!CopyEnd(d, g)) /\ UNCHANGED <<focus, vars, logVars>>)

RequestsSpec == RequestsInit /\ [][RequestsNext]_allVars /\ Fairness

----------------------------------------------------------------------------
(* stdforward: a listener misses nothing of what is printed; logstreamer: one that    *)
(* wants callers gets them.                                                            *)
ListenersMissNothing == K!NothingPrintedIsMissed /\ G!CallersReachListeners

(* stdforward: the call of a listener whose client has left ends.          *)
RemoveReturns == K!RemoveReturns

(* stdforward: it does so unless something is printed as the last one goes. *)
QuietRemoveReturns == K!QuietRemoveReturns
=============================================================================
