------------------------------ MODULE Watcher ------------------------------
(***************************************************************************)
(* Package internal/watcher in adwatchd: a command goroutine starts and    *)
(* stops watch loops for two callers, the service manager (Start, then     *)
(* Stop) and the configuration watcher (UpdateDirs).  A watch loop gathers *)
(* file system events and, after a period without changes, bumps the       *)
(* version in the GPT.INI of the modified directories.  All channels are   *)
(* unbuffered.  Timers follow Go >= 1.23: Stop() is true for an expiry     *)
(* that nobody has received.                                               *)
(***************************************************************************)
EXTENDS Naturals, FiniteSets

CONSTANTS
  Dirs,         \* directories that may be watched
  InitialDirs,  \* the ones of the configuration New() was given
  MaxReloads,   \* bound: configuration reloads
  MaxChanges,   \* bound: changes of files
  MaxFailures   \* bound: directories that cannot be watched

ASSUME WatcherAssumption ==
  /\ InitialDirs \subseteq Dirs /\ InitialDirs # {}
  /\ MaxReloads \in Nat /\ MaxChanges \in Nat /\ MaxFailures \in Nat

Callers == {"service", "config"}
\* One watch loop for Start and one for each reload; 0 is none.
Loops == 1..(MaxReloads + 1)

VARIABLES
  phase,     \* the life of the process, as the service manager sees it
  at,        \* where each caller is in send()
  asked,     \* the directories UpdateDirs was given
  command,   \* where the command goroutine is
  sender,    \* whose command it is handling
  cmdErr,    \* the error it will answer with
  cur,       \* the last loop started, whose context ctx and cancel are
  watching,  \* the loop whose channel `watching` is, 0 for nil
  watch,     \* where each watch loop is
  dirs,      \* the directories of each loop
  parent,    \* the loop each loop's context derives from, 0 for the background
  cancelled, \* loops whose context is done
  events,    \* directories with an event waiting in each loop's channel
  modified,  \* modifiedRootDirs of each loop
  timer,     \* loops whose refresh timer is running
  seen,      \* history: directories with an event taken since the loop's last bump
  early,     \* history: a reload came before Start had returned
  budget     \* reloads, changes and failures left

callVars == <<phase, at, asked, early>>
commandVars == <<command, sender, cmdErr, cur, watching>>
loopVars == <<watch, dirs, parent, cancelled, events, modified, timer, seen>>
vars == <<callVars, commandVars, loopVars, budget>>

TypeOK ==
  /\ phase \in {"new", "starting", "running", "stopping", "ended"}
  /\ at \in [Callers -> {"out", "sendStop", "waitStop", "sendStart", "waitStart"}]
  /\ asked \in SUBSET Dirs
  /\ command \in {"recv", "init", "stopWait", "reply"}
  /\ sender \in Callers /\ cmdErr \in BOOLEAN
  /\ cur \in Loops \cup {0} /\ watching \in {0, cur}
  /\ watch \in [Loops -> {"none", "init", "hung", "select", "done"}]
  /\ dirs \in [Loops -> SUBSET Dirs]
  /\ parent \in [Loops -> Loops \cup {0}]
  /\ cancelled \subseteq 1..cur /\ timer \subseteq 1..cur
  /\ events \in [Loops -> SUBSET Dirs] /\ modified \in [Loops -> SUBSET Dirs]
  /\ seen \in [Loops -> SUBSET Dirs]
  /\ \A l \in Loops : seen[l] \subseteq modified[l] /\ modified[l] \subseteq dirs[l]
  /\ early \in BOOLEAN
  /\ budget \in [reloads : 0..MaxReloads, changes : 0..MaxChanges, failures : 0..MaxFailures]

Init ==
  /\ phase = "new" /\ at = [c \in Callers |-> "out"] /\ asked = {} /\ early = FALSE
  /\ command = "recv" /\ sender = "service" /\ cmdErr = FALSE /\ cur = 0 /\ watching = 0
  /\ watch = [l \in Loops |-> "none"] /\ dirs = [l \in Loops |-> {}]
  /\ parent = [l \in Loops |-> 0] /\ cancelled = {} /\ timer = {}
  /\ events = [l \in Loops |-> {}] /\ modified = [l \in Loops |-> {}]
  /\ seen = [l \in Loops |-> {}]
  /\ budget = [reloads |-> MaxReloads, changes |-> MaxChanges, failures |-> MaxFailures]

Up == phase # "ended"
Goto(c, from, to) == at[c] = from /\ at' = [at EXCEPT ![c] = to]

-----------------------------------------------------------------------------
(* The callers. *)

\* The service manager (external) starts the service once and stops it once.
Start ==
  /\ phase = "new" /\ phase' = "starting"
  /\ Goto("service", "out", "sendStart")
  /\ UNCHANGED <<asked, early, commandVars, loopVars, budget>>

Stop ==
  /\ phase = "running" /\ phase' = "stopping"
  /\ Goto("service", "out", "sendStop")
  /\ UNCHANGED <<asked, early, commandVars, loopVars, budget>>

\* Mutant: the new loop is started without stopping the previous one.
UpdateDirsNoStop(ds) ==
  /\ Up /\ Goto("config", "out", "sendStart")
  /\ budget.reloads > 0 /\ budget' = [budget EXCEPT !.reloads = @ - 1]
  /\ asked' = ds
  /\ early' = (early \/ phase \in {"new", "starting"})
  /\ UNCHANGED <<phase, commandVars, loopVars>>

\* UpdateDirs, under the configuration's mutex, once its checks have passed: a
\* stop whose error is only logged, then a start.
UpdateDirs(ds) ==
  /\ Up /\ Goto("config", "out", "sendStop")
  /\ budget.reloads > 0 /\ budget' = [budget EXCEPT !.reloads = @ - 1]
  /\ asked' = ds
  /\ early' = (early \/ phase \in {"new", "starting"})
  /\ UNCHANGED <<phase, commandVars, loopVars>>

\* The answer to a command.  A failed Start and the end of Stop end the process.
Reply ==
  /\ Up /\ command = "reply" /\ command' = "recv"
  /\ at' = [at EXCEPT ![sender] = IF sender = "config" /\ @ = "waitStop" THEN "sendStart" ELSE "out"]
  /\ phase' = IF sender = "config" THEN phase
              ELSE IF at[sender] = "waitStart" /\ ~cmdErr THEN "running" ELSE "ended"
  /\ UNCHANGED <<asked, early, sender, cmdErr, cur, watching, loopVars, budget>>

-----------------------------------------------------------------------------
(* The command goroutine. *)

\* startCmd: the service manager passes neither a context nor directories, so the
\* context derives from the one of the previous loop.
ReceiveStart(c) ==
  /\ Up /\ command = "recv" /\ command' = "init" /\ sender' = c
  /\ Goto(c, "sendStart", "waitStart")
  /\ cur' = cur + 1 /\ watching' = cur'
  /\ watch' = [watch EXCEPT ![cur'] = "init"]
  /\ dirs' = [dirs EXCEPT ![cur'] = IF c = "service" THEN InitialDirs ELSE asked]
  /\ parent' = [parent EXCEPT ![cur'] = IF c = "service" THEN cur ELSE 0]
  /\ cancelled' = IF c = "service" /\ cur \in cancelled THEN cancelled \cup {cur'} ELSE cancelled
  /\ UNCHANGED <<phase, asked, early, cmdErr, events, modified, timer, seen, budget>>

\* Mutant: the loop is waited for but its context is not cancelled.
ReceiveStopNoCancel(c) ==
  /\ Up /\ command = "recv" /\ sender' = c
  /\ Goto(c, "sendStop", "waitStop")
  /\ cmdErr' = (watching = 0)
  /\ command' = IF watching = 0 THEN "reply" ELSE "stopWait"
  /\ UNCHANGED <<phase, asked, early, cur, watching, loopVars, budget>>

\* stopCmd: nothing to stop, or the context is cancelled and the loop waited for.
ReceiveStop(c) ==
  /\ Up /\ command = "recv" /\ sender' = c
  /\ Goto(c, "sendStop", "waitStop")
  /\ cmdErr' = (watching = 0)
  /\ IF watching = 0
     THEN command' = "reply" /\ UNCHANGED cancelled
     ELSE command' = "stopWait" /\ cancelled' = cancelled \cup {cur}
  /\ UNCHANGED <<phase, asked, early, cur, watching, watch, dirs, parent, events, modified, timer,
                 seen, budget>>

Stopped ==
  /\ Up /\ command = "stopWait" /\ watch[watching] = "done"
  /\ command' = "reply" /\ watching' = 0
  /\ UNCHANGED <<callVars, sender, cmdErr, cur, loopVars, budget>>

-----------------------------------------------------------------------------
(* The watch loops. *)

LoopFrame == <<callVars, commandVars, dirs, parent, cancelled>>
Goes(l, from, to) == Up /\ watch[l] = from /\ watch' = [watch EXCEPT ![l] = to]

\* Every directory is watched, or one cannot be.  The command goroutine reads one
\* answer; after an error the loop carries on, and its next send never ends.
Watch(l) ==
  /\ command = "init" /\ command' = "reply"
  /\ \/ Goes(l, "init", "select") /\ cmdErr' = FALSE /\ UNCHANGED budget
     \/ /\ Goes(l, "init", "hung") /\ cmdErr' = TRUE
        /\ budget.failures > 0 /\ budget' = [budget EXCEPT !.failures = @ - 1]
  /\ UNCHANGED <<callVars, sender, cur, watching, dirs, parent, cancelled, events, modified, timer,
                 seen>>

\* A file below a directory changes (external); the loops that watch it are told.  The
\* events the loop skips (its own GPT.INI, a file gone before its stat, the first half of
\* a rename) change nothing and are left out.
Change(d) ==
  /\ Up /\ budget.changes > 0 /\ budget' = [budget EXCEPT !.changes = @ - 1]
  /\ events' = [l \in Loops |-> IF watch[l] \in {"select", "hung"} /\ d \in dirs[l]
                                THEN events[l] \cup {d} ELSE events[l]]
  /\ UNCHANGED <<LoopFrame, watch, modified, timer, seen>>

\* Mutant: only the first change of a directory arms the timer.
EventFirst(l, d) ==
  /\ Up /\ watch[l] = "select" /\ d \in events[l]
  /\ events' = [events EXCEPT ![l] = @ \ {d}]
  /\ modified' = [modified EXCEPT ![l] = @ \cup {d}]
  /\ seen' = [seen EXCEPT ![l] = @ \cup {d}]
  /\ timer' = IF d \in modified[l] THEN timer ELSE timer \cup {l}
  /\ UNCHANGED <<LoopFrame, watch, budget>>

\* An event: the root directory is remembered and the timer restarted.
Event(l, d) ==
  /\ Up /\ watch[l] = "select" /\ d \in events[l]
  /\ events' = [events EXCEPT ![l] = @ \ {d}]
  /\ modified' = [modified EXCEPT ![l] = @ \cup {d}]
  /\ seen' = [seen EXCEPT ![l] = @ \cup {d}]
  /\ timer' = timer \cup {l}
  /\ UNCHANGED <<LoopFrame, watch, budget>>

\* updateVersions bumps every directory of modifiedRootDirs, which is never reset.  Where
\* GPT.INI has no valid version that fails, which is logged and settles the change too.
updateVersions(l) == seen' = [seen EXCEPT ![l] = @ \ modified[l]]

\* The period without changes is over.
Refresh(l) ==
  /\ Up /\ watch[l] = "select" /\ l \in timer
  /\ timer' = timer \ {l}
  /\ updateVersions(l)
  /\ UNCHANGED <<LoopFrame, watch, events, modified, budget>>

\* The context of the loop, or one it derives from, is done.
ContextDone(l) == l \in cancelled \/ parent[l] \in cancelled

\* Mutant: changes still in their grace period are forgotten.
DoneNoFlush(l) ==
  /\ ContextDone(l) /\ Goes(l, "select", "done")
  /\ timer' = timer \ {l}
  /\ UNCHANGED <<LoopFrame, events, modified, seen, budget>>

\* A timer in progress is not waited for: its update is made at once.
Done(l) ==
  /\ ContextDone(l) /\ Goes(l, "select", "done")
  /\ timer' = timer \ {l}
  /\ IF l \in timer THEN updateVersions(l) ELSE UNCHANGED seen
  /\ UNCHANGED <<LoopFrame, events, modified, budget>>

-----------------------------------------------------------------------------
CommandStep == Reply \/ Stopped \/ \E c \in Callers : ReceiveStart(c) \/ ReceiveStop(c)
LoopStep(l) == Watch(l) \/ Refresh(l) \/ Done(l) \/ \E d \in Dirs : Event(l, d)

Next ==
  \/ Start \/ Stop
  \/ \E ds \in (SUBSET Dirs) \ {{}} : UpdateDirs(ds)
  \/ CommandStep
  \/ \E l \in Loops : LoopStep(l)
  \/ \E d \in Dirs : Change(d)

Spec == Init /\ [][Next]_vars

\* The goroutines that can proceed do, and a running timer expires; nothing forces
\* the service manager, the administrator or the files to do anything.
FairSpec ==
  /\ Spec
  /\ WF_vars(CommandStep)
  /\ \A l \in Loops : WF_vars(LoopStep(l))

-----------------------------------------------------------------------------
Hung == \E l \in Loops : watch[l] = "hung"

\* Stop does not block: the service manager expects an answer in a few seconds.
StopReturns == phase = "stopping" ~> phase = "ended"

\* What the code does guarantee: Stop and UpdateDirs end, unless a loop could not
\* watch one of its directories.
CallsReturnUnlessHung ==
  \A c \in Callers : at[c] # "out" ~> (at[c] = "out" \/ ~Up \/ Hung)

\* A change that a loop was told about is bumped, however many follow it, unless
\* the loop is asked to stop before it takes the event.
ChangesAreBumped ==
  \A l \in Loops, d \in Dirs :
    (watch[l] = "select" /\ d \in events[l])
       ~> (d \notin events[l] \cup seen[l] \/ ContextDone(l) \/ ~Up)

\* A loop that ends has bumped every change it took, its grace period over or not:
\* no update is missed because the service stops or its directories change.
StopFlushes == \A l \in Loops : watch[l] = "done" => seen[l] = {}

\* One loop at a time watches, unless the configuration was reloaded before Start
\* had returned: no change is bumped twice, no forgotten loop keeps old directories.
OneLoop == ~early => Cardinality({l \in Loops : watch[l] \in {"init", "select"}}) <= 1

\* The loops hand over to each other: the next one starts when the one before has
\* ended, and one that has ended owes nothing.
LoopsAreSound == TypeOK /\ StopFlushes /\ OneLoop
=============================================================================
