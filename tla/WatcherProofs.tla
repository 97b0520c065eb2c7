--------------------------- MODULE WatcherProofs ---------------------------
(***************************************************************************)
(* Proofs about adwatchd.  The watcher, for any directories and any        *)
(* number of reloads, changes and failures: a loop that ends has bumped    *)
(* what it took, and one loop at a time watches.  The installation of the  *)
(* service, for any number of fields, submissions, commands and failures:  *)
(* forms are valid and a success is one.                                   *)
(***************************************************************************)
EXTENDS Adwatchd, Sequences, FiniteSetTheorems, TLAPS

\* The starts that callers may still ask for: one of the service manager, one of
\* the reload in hand.
ServiceStarts == IF phase = "new" \/ at["service"] = "sendStart" THEN 1 ELSE 0
ReloadStarts == IF at["config"] \in {"sendStop", "waitStop", "sendStart"} THEN 1 ELSE 0

\* Every start has its loop: Loops is large enough.
CountInv == cur + ServiceStarts + ReloadStarts + budget.reloads <= MaxReloads + 1

\* The service manager's calls follow the life of the process.
PhaseInv ==
  /\ phase = "new" => at["service"] = "out"
  /\ phase = "starting" => at["service"] \in {"sendStart", "waitStart"}
  /\ phase = "running" => at["service"] = "out"
  /\ phase = "stopping" => at["service"] \in {"sendStop", "waitStop"}

\* The command goroutine serves one caller, who waits for it; nobody else does.
CommandInv ==
  /\ \A c \in Callers : at[c] \in {"waitStop", "waitStart"} <=> (Up /\ command # "recv" /\ sender = c)
  /\ command = "init" => at[sender] = "waitStart"

\* The state of a loop: nothing before it starts; events are of its directories;
\* without a running timer there is nothing to bump, and a loop that ended has none.
LoopInv ==
  \A l \in Loops :
    /\ l > cur => watch[l] = "none" /\ events[l] = {} /\ modified[l] = {} /\ seen[l] = {}
    /\ events[l] \subseteq dirs[l]
    /\ l \notin timer => seen[l] = {}
    /\ watch[l] = "done" => l \notin timer

\* Unless a reload came early, only the loop of `watching` watches: the start of the
\* service manager is the first one, and a reload stops the loop before it starts one.
AloneInv ==
  ~early =>
    /\ phase \in {"new", "starting"} => at["config"] = "out"
    /\ phase = "new" \/ at["service"] = "sendStart" => cur = 0
    /\ at["config"] = "sendStart" => watching = 0
    /\ at["config"] = "waitStop" /\ command = "reply" => watching = 0
    /\ \A l \in Loops : watch[l] \in {"init", "select"} => l = watching

Inv == TypeOK /\ CountInv /\ PhaseInv /\ CommandInv /\ LoopInv /\ AloneInv

USE DEF Callers

\* No loop exists before the first start.
LEMMA InitInv == Init => Inv
<1> SUFFICES ASSUME Init PROVE Inv
  OBVIOUS
<1> USE WatcherAssumption DEF Init
<1>1. TypeOK
  <2>1. budget \in [reloads : 0..MaxReloads, changes : 0..MaxChanges, failures : 0..MaxFailures]
    OBVIOUS
  <2>2. {early, cmdErr} \subseteq BOOLEAN
    OBVIOUS
  <2>3. cur \in Loops \cup {0} /\ watching \in {0, cur} /\ cancelled \subseteq 1..cur /\ timer \subseteq 1..cur
    OBVIOUS
  <2>4. \A l \in Loops : seen[l] \subseteq modified[l] /\ modified[l] \subseteq dirs[l]
    OBVIOUS
  <2> QED
    BY <2>1, <2>2, <2>3, <2>4 DEF TypeOK
<1>2. CountInv
  BY DEF CountInv, ServiceStarts, ReloadStarts
<1>3. PhaseInv
  BY DEF PhaseInv
<1>4. CommandInv
  BY DEF CommandInv
<1>5. LoopInv
  BY DEF LoopInv
<1>6. AloneInv
  BY DEF AloneInv
<1> QED
  BY <1>1, <1>2, <1>3, <1>4, <1>5, <1>6 DEF Inv

\* Start, Stop: the service manager sends its command.
LEMMA ServiceInv == ASSUME Inv, Start \/ Stop PROVE Inv'
<1> USE WatcherAssumption DEF Inv, Start, Stop, Goto, commandVars, loopVars
<1>1. TypeOK'
  BY ZenonT(60) DEF TypeOK
<1>2. CountInv'
  BY DEF CountInv, ServiceStarts, ReloadStarts, PhaseInv, TypeOK
<1>3. PhaseInv'
  BY DEF PhaseInv, TypeOK
<1>4. CommandInv'
  BY DEF CommandInv, TypeOK, Up
<1>5. LoopInv'
  BY DEF LoopInv
<1>6. AloneInv'
  BY DEF AloneInv, PhaseInv, TypeOK
<1> QED
  BY <1>1, <1>2, <1>3, <1>4, <1>5, <1>6

\* UpdateDirs: the configuration watcher sends its stop.
LEMMA UpdateDirsInv == ASSUME Inv, NEW ds \in (SUBSET Dirs) \ {{}}, UpdateDirs(ds) PROVE Inv'
<1> USE WatcherAssumption DEF Inv, UpdateDirs, Goto, commandVars, loopVars
<1>1. TypeOK'
  <2>1. budget' \in [reloads : 0..MaxReloads, changes : 0..MaxChanges, failures : 0..MaxFailures]
    BY DEF TypeOK
  <2>2. early' \in BOOLEAN
    BY Zenon DEF TypeOK
  <2> QED
    BY <2>1, <2>2 DEF TypeOK
<1>2. CountInv'
  <2>1. at["config"] = "out" /\ at'["config"] = "sendStop" /\ at'["service"] = at["service"]
    BY DEF TypeOK
  <2>2. budget.reloads \in Nat /\ budget'.reloads = budget.reloads - 1 /\ cur \in Nat
    BY DEF TypeOK, Loops
  <2> QED
    BY <2>1, <2>2 DEF CountInv, ServiceStarts, ReloadStarts
<1>3. PhaseInv'
  BY DEF PhaseInv, TypeOK
<1>4. CommandInv'
  BY DEF CommandInv, TypeOK, Up
<1>5. LoopInv'
  BY DEF LoopInv
<1>6. AloneInv'
  BY DEF AloneInv, TypeOK
<1> QED
  BY <1>1, <1>2, <1>3, <1>4, <1>5, <1>6

\* Reply: the caller is answered.
LEMMA ReplyInv == ASSUME Inv, Reply PROVE Inv'
<1> USE WatcherAssumption DEF Inv, Reply, loopVars
<1>0. /\ at[sender] \in {"waitStop", "waitStart"}
      /\ \A c \in Callers : c # sender => at'[c] = at[c] /\ at[c] \notin {"waitStop", "waitStart"}
      /\ at'[sender] = IF sender = "config" /\ at[sender] = "waitStop" THEN "sendStart" ELSE "out"
  BY DEF CommandInv, TypeOK
<1>1. TypeOK'
  BY <1>0 DEF TypeOK
<1>a. sender = "service" =>
        /\ at'["service"] = "out" /\ at'["config"] = at["config"] /\ phase' \in {"running", "ended"}
        /\ phase # "new" /\ at["service"] # "sendStart"
  BY <1>0 DEF PhaseInv, TypeOK
<1>b. sender = "config" =>
        /\ at'["service"] = at["service"] /\ phase' = phase
        /\ at'["config"] = IF at["config"] = "waitStop" THEN "sendStart" ELSE "out"
  <2> SUFFICES ASSUME sender = "config"
               PROVE  /\ at'["service"] = at["service"] /\ phase' = phase
                      /\ at'["config"] = IF at["config"] = "waitStop" THEN "sendStart" ELSE "out"
    OBVIOUS
  <2>1. at'["service"] = at["service"]
    BY <1>0
  <2>2. at'["config"] = IF at["config"] = "waitStop" THEN "sendStart" ELSE "out"
    BY <1>0
  <2> QED
    BY <2>1, <2>2
<1>c. sender \in {"service", "config"}
  BY DEF TypeOK
<1>2. CountInv'
  <2>1. ServiceStarts' = ServiceStarts
    BY <1>a, <1>b, <1>c DEF ServiceStarts
  <2>2. ReloadStarts' = ReloadStarts
    BY <1>0, <1>a, <1>b, <1>c DEF ReloadStarts
  <2> QED
    BY <2>1, <2>2 DEF CountInv
<1>3. PhaseInv'
  BY <1>a, <1>b, <1>c DEF PhaseInv
<1>4. CommandInv'
  BY <1>0 DEF CommandInv, TypeOK, Up
<1>5. LoopInv'
  BY DEF LoopInv
<1>6. AloneInv'
  BY <1>0 DEF AloneInv, PhaseInv, TypeOK
<1> QED
  BY <1>1, <1>2, <1>3, <1>4, <1>5, <1>6

\* ReceiveStart: a new loop, numbered within Loops.
LEMMA ReceiveStartInv == ASSUME Inv, NEW c \in Callers, ReceiveStart(c) PROVE Inv'
<1> USE WatcherAssumption DEF Inv, ReceiveStart, Goto
<1>0. /\ cur' \in Loops /\ cur' = cur + 1 /\ cur \in Nat
      /\ c = "service" => phase = "starting"
      /\ at'[c] = "waitStart" /\ \A x \in Callers : x # c => at'[x] = at[x]
  BY DEF CountInv, ServiceStarts, ReloadStarts, TypeOK, Loops, PhaseInv, Up
<1>1. TypeOK'
  <2>1. dirs' \in [Loops -> SUBSET Dirs]
    BY <1>0 DEF TypeOK
  <2>2. parent' \in [Loops -> Loops \cup {0}]
    BY <1>0 DEF TypeOK
  <2>3. cancelled' \subseteq 1..cur' /\ timer' \subseteq 1..cur'
    BY <1>0 DEF TypeOK
  <2>4. \A l \in Loops : seen'[l] \subseteq modified'[l] /\ modified'[l] \subseteq dirs'[l]
    BY <1>0 DEF TypeOK, LoopInv, Loops
  <2>5. watch' \in [Loops -> {"none", "init", "hung", "select", "done"}]
    BY <1>0 DEF TypeOK
  <2> QED
    BY <1>0, <2>1, <2>2, <2>3, <2>4, <2>5 DEF TypeOK
<1>2. CountInv'
  BY <1>0 DEF CountInv, ServiceStarts, ReloadStarts, TypeOK, PhaseInv
<1>3. PhaseInv'
  BY <1>0 DEF PhaseInv, TypeOK
<1>4. CommandInv'
  BY <1>0 DEF CommandInv, TypeOK, Up
<1>5. LoopInv'
  BY <1>0 DEF LoopInv, TypeOK, Loops
<1>6. AloneInv'
  <2> SUFFICES ASSUME ~early PROVE AloneInv!2'
    BY DEF AloneInv
  <2>1. watching = 0 \/ cur = 0
    BY DEF AloneInv
  <2>2. \A l \in Loops : watch[l] \notin {"init", "select"}
    BY <2>1, <1>0 DEF AloneInv, LoopInv, Loops, TypeOK
  <2>3. \A l \in Loops : watch'[l] \in {"init", "select"} => l = watching'
    BY <2>2, <1>0 DEF TypeOK
  <2>4. /\ phase' \in {"new", "starting"} => at'["config"] = "out"
        /\ ~(phase' = "new" \/ at'["service"] = "sendStart")
        /\ at'["config"] # "sendStart" /\ command' # "reply"
    <3>1. CASE c = "service"
      BY <1>0, <3>1 DEF AloneInv, TypeOK
    <3>2. CASE c = "config"
      <4>1. phase \notin {"new", "starting"} /\ Up
        BY <3>2 DEF AloneInv
      <4>2. at["service"] # "sendStart"
        BY <4>1 DEF PhaseInv, TypeOK, Up
      <4> QED
        BY <1>0, <3>2, <4>1, <4>2
    <3> QED
      BY <3>1, <3>2
  <2> QED
    BY <2>3, <2>4
<1> QED
  BY <1>1, <1>2, <1>3, <1>4, <1>5, <1>6

\* ReceiveStop: the loop's context is done, or there is nothing to stop.
LEMMA ReceiveStopInv == ASSUME Inv, NEW c \in Callers, ReceiveStop(c) PROVE Inv'
<1> USE WatcherAssumption DEF Inv, ReceiveStop, Goto
<1>0. at'[c] = "waitStop" /\ \A x \in Callers : x # c => at'[x] = at[x]
  BY DEF TypeOK
<1>1. TypeOK'
  <2>1. cancelled' \subseteq 1..cur'
    <3>1. watching # 0 => cur \in 1..cur
      BY DEF TypeOK, Loops
    <3> QED
      BY ZenonT(60), <3>1 DEF TypeOK
  <2>2. cmdErr' \in BOOLEAN
    BY Zenon
  <2> QED
    BY <2>1, <2>2 DEF TypeOK
<1>2. CountInv'
  BY <1>0 DEF CountInv, ServiceStarts, ReloadStarts, TypeOK
<1>3. PhaseInv'
  BY <1>0 DEF PhaseInv, TypeOK
<1>4. CommandInv'
  BY <1>0 DEF CommandInv, TypeOK, Up
<1>5. LoopInv'
  BY DEF LoopInv
<1>6. AloneInv'
  BY <1>0 DEF AloneInv, TypeOK
<1> QED
  BY <1>1, <1>2, <1>3, <1>4, <1>5, <1>6

\* Stopped: the loop that was waited for has ended.
LEMMA StoppedInv == ASSUME Inv, Stopped PROVE Inv'
<1> USE WatcherAssumption DEF Inv, Stopped, callVars, loopVars
<1>1. TypeOK'
  BY DEF TypeOK
<1>2. CountInv'
  BY DEF CountInv, ServiceStarts, ReloadStarts
<1>3. PhaseInv'
  BY DEF PhaseInv
<1>4. CommandInv'
  BY DEF CommandInv, Up
<1>5. LoopInv'
  BY DEF LoopInv
<1>6. AloneInv'
  BY DEF AloneInv, TypeOK
<1> QED
  BY <1>1, <1>2, <1>3, <1>4, <1>5, <1>6

\* A step of a loop leaves the callers and the command goroutine alone.
LEMMA LoopFrameInv ==
  ASSUME CountInv, PhaseInv, CommandInv, UNCHANGED <<callVars, commandVars>>,
         budget'.reloads = budget.reloads
  PROVE  CountInv' /\ PhaseInv' /\ CommandInv'
<1> USE DEF callVars, commandVars
<1>1. CountInv'
  BY DEF CountInv, ServiceStarts, ReloadStarts
<1>2. PhaseInv'
  BY DEF PhaseInv
<1>3. CommandInv'
  BY DEF CommandInv, Up
<1> QED
  BY <1>1, <1>2, <1>3

\* Watch: the loop watches its directories, or hangs.
LEMMA WatchInv == ASSUME Inv, NEW l \in Loops, Watch(l) PROVE Inv'
<1> USE WatcherAssumption DEF Inv, Watch, Goes, callVars
<1>0. watch'[l] \in {"select", "hung"} /\ \A x \in Loops : x # l => watch'[x] = watch[x]
  BY DEF TypeOK
<1>b. /\ budget' \in [reloads : 0..MaxReloads, changes : 0..MaxChanges, failures : 0..MaxFailures]
      /\ budget'.reloads = budget.reloads
  BY DEF TypeOK
<1>1. TypeOK'
  <2>1. cmdErr' \in BOOLEAN
    BY Zenon
  <2>2. watch' \in [Loops -> {"none", "init", "hung", "select", "done"}]
    BY DEF TypeOK
  <2> QED
    BY <1>b, <2>1, <2>2 DEF TypeOK
<1>2. CountInv'
  BY <1>b DEF CountInv, ServiceStarts, ReloadStarts
<1>3. PhaseInv'
  BY DEF PhaseInv
<1>4. CommandInv'
  BY DEF CommandInv, Up
<1>5. LoopInv'
  BY <1>0 DEF LoopInv, TypeOK
<1>6. AloneInv'
  <2>1. at["config"] # "waitStop"
    BY DEF CommandInv
  <2> QED
    BY <1>0, <2>1 DEF AloneInv
<1> QED
  BY <1>1, <1>2, <1>3, <1>4, <1>5, <1>6

\* Change: the loops that watch the directory have one more event.
LEMMA ChangeInv == ASSUME Inv, NEW d \in Dirs, Change(d) PROVE Inv'
<1> USE WatcherAssumption DEF Inv, Change, LoopFrame, callVars, commandVars
<1>b. /\ budget' \in [reloads : 0..MaxReloads, changes : 0..MaxChanges, failures : 0..MaxFailures]
      /\ budget'.reloads = budget.reloads
  BY DEF TypeOK
<1>1. TypeOK'
  BY <1>b DEF TypeOK
<1>2. CountInv' /\ PhaseInv' /\ CommandInv'
  BY <1>b, LoopFrameInv
<1>3. LoopInv'
  BY DEF LoopInv
<1>4. AloneInv'
  BY DEF AloneInv
<1> QED
  BY <1>1, <1>2, <1>3, <1>4

\* Event: the timer runs whenever there is something to bump.
LEMMA EventInv == ASSUME Inv, NEW l \in Loops, NEW d \in Dirs, Event(l, d) PROVE Inv'
<1> USE WatcherAssumption DEF Inv, Event, LoopFrame, callVars, commandVars
<1>0. /\ events'[l] = events[l] \ {d} /\ modified'[l] = modified[l] \cup {d} /\ seen'[l] = seen[l] \cup {d}
      /\ \A x \in Loops : x # l => events'[x] = events[x] /\ modified'[x] = modified[x] /\ seen'[x] = seen[x]
      /\ l <= cur /\ d \in dirs[l]
  BY DEF TypeOK, LoopInv, Loops
<1>1. TypeOK'
  <2>1. timer' \subseteq 1..cur'
    BY <1>0 DEF TypeOK, Loops
  <2>2. \A x \in Loops : seen'[x] \subseteq modified'[x] /\ modified'[x] \subseteq dirs'[x]
    BY <1>0 DEF TypeOK
  <2>3. events' \in [Loops -> SUBSET Dirs] /\ modified' \in [Loops -> SUBSET Dirs] /\ seen' \in [Loops -> SUBSET Dirs]
    BY DEF TypeOK
  <2> QED
    BY <2>1, <2>2, <2>3 DEF TypeOK
<1>2. CountInv' /\ PhaseInv' /\ CommandInv'
  BY LoopFrameInv
<1>3. LoopInv'
  BY <1>0 DEF LoopInv, TypeOK, Loops
<1>4. AloneInv'
  BY DEF AloneInv
<1> QED
  BY <1>1, <1>2, <1>3, <1>4

\* Refresh: what was seen is what was modified, so nothing is left to bump.
LEMMA RefreshInv == ASSUME Inv, NEW l \in Loops, Refresh(l) PROVE Inv'
<1> USE WatcherAssumption DEF Inv, Refresh, updateVersions, LoopFrame, callVars, commandVars
<1>0. seen'[l] = {} /\ \A x \in Loops : x # l => seen'[x] = seen[x]
  BY DEF TypeOK
<1>1. TypeOK'
  <2>1. seen' \in [Loops -> SUBSET Dirs]
    BY DEF TypeOK
  <2> QED
    BY <1>0, <2>1 DEF TypeOK
<1>2. CountInv' /\ PhaseInv' /\ CommandInv'
  BY LoopFrameInv
<1>3. LoopInv'
  BY <1>0 DEF LoopInv, TypeOK
<1>4. AloneInv'
  BY DEF AloneInv
<1> QED
  BY <1>1, <1>2, <1>3, <1>4

\* Done: as Refresh if the timer runs; if not, there was nothing to bump.
LEMMA DoneInv == ASSUME Inv, NEW l \in Loops, Done(l) PROVE Inv'
<1> USE WatcherAssumption DEF Inv, Done, Goes, updateVersions, LoopFrame, callVars, commandVars
<1>0. /\ seen'[l] = {} /\ watch'[l] = "done" /\ l <= cur
      /\ \A x \in Loops : x # l => seen'[x] = seen[x] /\ watch'[x] = watch[x]
  BY DEF TypeOK, LoopInv, Loops
<1>1. TypeOK'
  <2>1. seen' \in [Loops -> SUBSET Dirs]
    BY DEF TypeOK
  <2>2. watch' \in [Loops -> {"none", "init", "hung", "select", "done"}]
    BY DEF TypeOK
  <2> QED
    BY <1>0, <2>1, <2>2 DEF TypeOK
<1>2. CountInv' /\ PhaseInv' /\ CommandInv'
  BY LoopFrameInv
<1>3. LoopInv'
  BY <1>0 DEF LoopInv, TypeOK, Loops
<1>4. AloneInv'
  BY <1>0 DEF AloneInv
<1> QED
  BY <1>1, <1>2, <1>3, <1>4

\* Every step keeps the invariant.
LEMMA NextInv == Inv /\ [Next]_vars => Inv'
<1> SUFFICES ASSUME Inv, [Next]_vars PROVE Inv'
  OBVIOUS
<1>1. CASE UNCHANGED vars
  BY <1>1 DEF vars, callVars, commandVars, loopVars, Inv, TypeOK, CountInv, ServiceStarts, ReloadStarts,
              PhaseInv, CommandInv, LoopInv, AloneInv, Up
<1>2. CASE Start \/ Stop
  BY <1>2, ServiceInv
<1>3. CASE \E ds \in (SUBSET Dirs) \ {{}} : UpdateDirs(ds)
  BY <1>3, UpdateDirsInv
<1>4. CASE CommandStep
  BY <1>4, ReplyInv, StoppedInv, ReceiveStartInv, ReceiveStopInv DEF CommandStep
<1>5. CASE \E l \in Loops : LoopStep(l)
  BY <1>5, WatchInv, RefreshInv, DoneInv, EventInv DEF LoopStep
<1>6. CASE \E d \in Dirs : Change(d)
  BY <1>6, ChangeInv
<1> QED
  BY <1>1, <1>2, <1>3, <1>4, <1>5, <1>6 DEF Next

\* The invariant of the watcher holds of every state.
LEMMA Invariance == Spec => []Inv
  BY InitInv, NextInv, PTL DEF Spec

(* One loop at a time watches, unless the configuration was reloaded       *)
(* before Start had returned: a reload starts its loop only once the       *)
(* previous one has ended.                                                 *)
LEMMA LoopsAlternate == Inv => OneLoop
<1> SUFFICES ASSUME Inv, ~early
             PROVE  Cardinality({l \in Loops : watch[l] \in {"init", "select"}}) <= 1
  BY DEF OneLoop
<1> DEFINE S == {l \in Loops : watch[l] \in {"init", "select"}}
<1>1. S \subseteq {watching}
  BY DEF Inv, AloneInv
<1>2. IsFiniteSet({watching}) /\ Cardinality({watching}) = 1
  BY FS_Singleton
<1>3. IsFiniteSet(S) /\ Cardinality(S) <= Cardinality({watching})
  BY <1>1, <1>2, FS_Subset
<1> QED
  BY <1>2, <1>3

(* The watcher of a running adwatchd is the watcher: the installation of   *)
(* the service, in another process, leaves it alone.                       *)
LEMMA WatcherIsApart == AdwatchdSafety => Spec
<1>1. AdwatchdInit => Init
  BY DEF AdwatchdInit
<1>2. [AdwatchdNext]_allVars => [Next]_vars
  BY DEF AdwatchdNext, StepWatcher, StepInstaller, allVars
<1> QED
  BY <1>1, <1>2, PTL DEF AdwatchdSafety, Spec

(* Every start, of the service or of a reload, has a loop of its own; a    *)
(* watch loop that ends has bumped every change it took, its grace period  *)
(* over or not, since the timer runs as long as something is to be bumped; *)
(* and one loop at a time watches, since a reload starts its loop only     *)
(* once the previous one has ended.                                        *)
THEOREM LoopsHandOver == AdwatchdSafety => []LoopsAreSound
<1>1. Inv => TypeOK /\ StopFlushes
  BY DEF Inv, LoopInv, StopFlushes
<1>2. Inv => LoopsAreSound
  BY <1>1, LoopsAlternate DEF LoopsAreSound
<1> QED
  BY <1>2, Invariance, WatcherIsApart, PTL

-----------------------------------------------------------------------------
(* The installation of the service, in Installer and WatchdService.         *)

\* A field with a directory that was never there is one filled in from the old file and
\* not reached yet, or it has the focus and shows the error; once submitted, nothing is
\* typed.
FieldsInv ==
  /\ typing => ~loading /\ ~installed /\ \A j \in T!Jobs : job[j].stage = "none"
  /\ \A i \in DOMAIN inputs : inputs[i].value \notin Exists \cup {T!Blank} =>
       typing /\ focusIndex <= i /\ (focusIndex = i => inputs[i].err)

JobsInv ==
  \A j \in T!Jobs :
    /\ job[j].dirs \subseteq Exists
    /\ job[j].stage # "none" => job[j].conf \in Paths /\ job[1].stage # "none"
    /\ job[j].stage = "none" => call[j] = T!NoCall

\* The form or the commands, never both; a command foresees what its operation is for.
Foreseen(op) ==
  CASE op = "start" -> "running" [] op = "stop" -> "stopped" [] op = "uninstall" -> "none" [] OTHER -> "nothing"
CliInv ==
  /\ commands # 0 => \A j \in T!Jobs : job[j].stage = "none"
  /\ commands = 0 => call[T!Cli] = T!NoCall /\ foreseen = "nothing"
  /\ foreseen \in {"nothing", Foreseen(call[T!Cli].op)}
  /\ call[T!Cli].stage = "ok" /\ foreseen # "nothing" =>
       T!Status = foreseen \/ (foreseen = "stopped" /\ T!Status = "none")

\* The service, while a form that was submitted once works on it.
Present == {"stopped", "starting", "running", "stopping"}
Installed(c) == svc \in Present /\ svcConf = c
Untouched == IF prevConfig = NoPath THEN svc = "none" ELSE Installed(prevConfig)
Alone == \A j \in T!Jobs \ {1} : job[j].stage = "none"

FirstJobInv ==
  LET J == job[1]
      R == call[1]
  IN  /\ J.stage \in {"write", "act"} => Untouched /\ R = T!NoCall
      /\ J.stage \in {"act", "uninstall", "install", "msg"} \/ (J.stage = "done" /\ ~failed)
           => disk[J.conf] = J.dirs /\ J.dirs # {}
      /\ J.stage = "uninstall" => R.op = "uninstall" /\ (R.stage = "ok" => svc = "none")
      /\ J.stage = "install" =>
           /\ R.op = "install" /\ R.conf = J.conf
           /\ R.stage = "begin" => svc = "none"
           /\ R.stage \in {"wait", "ok"} => Installed(J.conf)
      /\ J.stage = "msg" \/ (J.stage = "done" /\ ~failed) => R.stage \in {"idle", "ok"} /\ Installed(J.conf)

InstallInv ==
  /\ commands = 0 /\ (\A j \in T!Jobs : job[j].stage = "none") => Untouched
  /\ installed => 1 \in T!Jobs /\ (Alone => job[1].stage = "done")
  /\ 1 \in T!Jobs /\ job[1].stage # "none" /\ Alone => FirstJobInv

InstallerInv == InstallerSetUp /\ T!TypeOK /\ FieldsInv /\ JobsInv /\ CliInv /\ InstallInv

\* The status that the manager reports.
LEMMA StatusIs ==
  ASSUME T!SvcTypeOK
  PROVE  /\ T!Status = "running" <=> svc \in {"starting", "running"}
         /\ T!Status = "stopped" <=> svc \in {"stopping", "stopped", "removing"}
         /\ T!Status = "none" <=> svc = "none"
BY DEF T!SvcTypeOK, T!Status

\* A request to the manager.
LEMMA AskFrame ==
  ASSUME NEW p \in Procs, NEW s, NEW next, T!Ask(p, s, next)
  PROVE  \/ svc' = s /\ call' = [call EXCEPT ![p].stage = next] /\ failures' = failures
         \/ /\ svc' = svc /\ call' = [call EXCEPT ![p].stage = "error"]
            /\ failures < MaxFailures /\ failures' = failures + 1
BY DEF T!Ask, T!To

Running == {"begin", "again", "remove", "wait"}

\* A step of a command changes its own stage only, and that of the service.
LEMMA CommandFrame ==
  ASSUME T!SvcTypeOK, NEW p \in Procs, T!Command(p)
  PROVE  /\ T!SvcTypeOK' /\ call[p].stage \in Running
         /\ \E s \in {"again", "remove", "wait", "ok", "error"} : call' = [call EXCEPT ![p].stage = s]
<1> USE WatcherAssumption DEF T!SvcTypeOK, Running
<1>1. CASE T!Start(p)
  BY <1>1, AskFrame DEF T!Start, T!Is, T!To
<1>2. CASE T!Stop(p)
  BY <1>2, AskFrame DEF T!Stop, T!Is, T!To
<1>3. CASE T!Restart(p)
  BY <1>3, AskFrame DEF T!Restart, T!Is, T!To
<1>4. CASE T!Install(p)
  BY <1>4, AskFrame DEF T!Install, T!Is, T!To
<1>5. CASE T!Uninstall(p)
  BY <1>5, AskFrame DEF T!Uninstall, T!Is, T!To
<1>6. CASE T!Reached(p)
  BY <1>6 DEF T!Reached, T!To
<1>7. CASE T!WaitEnds(p)
  BY <1>7, AskFrame DEF T!WaitEnds, T!TimedOut, T!To
<1> QED
  BY <1>1, <1>2, <1>3, <1>4, <1>5, <1>6, <1>7 DEF T!Command

\* start, stop and uninstall end well only in the state they are for.
LEMMA CommandReaches ==
  ASSUME T!SvcTypeOK, NEW p \in Procs, T!Command(p), call'[p].stage = "ok"
  PROVE  /\ call[p].op = "start" => svc' \in {"starting", "running"}
         /\ call[p].op = "stop" => svc' \in {"stopping", "stopped", "removing"}
         /\ call[p].op = "uninstall" => svc' = "none"
<1> USE DEF T!SvcTypeOK
<1>1. CASE T!Start(p)
  BY <1>1, AskFrame, StatusIs DEF T!Start, T!Is, T!To
<1>2. CASE T!Stop(p)
  BY <1>2, AskFrame, StatusIs DEF T!Stop, T!Is, T!To
<1>3. CASE T!Restart(p)
  BY <1>3 DEF T!Restart, T!Is
<1>4. CASE T!Install(p)
  BY <1>4 DEF T!Install, T!Is
<1>5. CASE T!Uninstall(p)
  BY <1>5, AskFrame, StatusIs DEF T!Uninstall, T!Is, T!To
<1>6. CASE T!Reached(p)
  BY <1>6, StatusIs DEF T!Reached, T!To, T!Expected
<1>7. CASE T!WaitEnds(p)
  BY <1>7, AskFrame DEF T!WaitEnds, T!TimedOut, T!To
<1> QED
  BY <1>1, <1>2, <1>3, <1>4, <1>5, <1>6, <1>7 DEF T!Command

\* install takes a service that is not there, and leaves one with its file.
LEMMA InstallReaches ==
  ASSUME T!SvcTypeOK, NEW p \in Procs, T!Command(p), call[p].op = "install",
         call[p].stage = "begin" => svc = "none",
         call[p].stage = "wait" => Installed(call[p].conf)
  PROVE  call'[p].stage \in {"wait", "ok", "error"} /\ (call'[p].stage \in {"wait", "ok"} => Installed(call[p].conf)')
<1> USE DEF T!SvcTypeOK, Installed, Present
<1>1. CASE T!Install(p)
  BY <1>1, AskFrame DEF T!Install, T!Is, T!To
<1>2. CASE T!Reached(p)
  BY <1>2 DEF T!Reached, T!To
<1>3. CASE T!WaitEnds(p)
  BY <1>3, AskFrame DEF T!WaitEnds, T!TimedOut, T!To
<1> QED
  BY <1>1, <1>2, <1>3 DEF T!Command, T!Start, T!Stop, T!Restart, T!Uninstall, T!Is

Field == [value : Values \cup {T!Blank}, err : BOOLEAN]

\* A function on an interval from 1 is a sequence.
LEMMA IsSeq ==
  ASSUME NEW S, NEW n \in Nat, NEW d \in [1..n -> S]
  PROVE  d \in Seq(S) /\ Len(d) = n /\ DOMAIN d = 1..n
OBVIOUS

\* The form starts with the fields of the old configuration, and no command.
LEMMA InstallerInit == InstallerSetUp /\ T!Init => InstallerInv
<1> SUFFICES ASSUME InstallerSetUp, T!Init PROVE InstallerInv
  OBVIOUS
<1> USE DEF InstallerSetUp
<1>n. PICK n \in 1..MaxInputs : \E v \in [1..n -> Values \cup {T!Blank}] :
        inputs = [i \in 1..n |-> [value |-> v[i], err |-> FALSE]]
  BY DEF T!Init
<1>1. PICK v \in [1..n -> Values \cup {T!Blank}] : inputs = [i \in 1..n |-> [value |-> v[i], err |-> FALSE]]
  BY <1>n
<1>2. /\ inputs \in Seq(Field) /\ Len(inputs) = n /\ DOMAIN inputs = 1..n /\ n \in Nat
      /\ \A i \in 1..n : inputs[i].value \in Values \cup {T!Blank}
  <2>1. n \in Nat /\ inputs \in [1..n -> Field]
    BY <1>1 DEF Field
  <2>2. inputs \in Seq(Field) /\ Len(inputs) = n /\ DOMAIN inputs = 1..n
    BY <2>1, IsSeq
  <2>3. \A i \in 1..n : inputs[i].value \in Values \cup {T!Blank}
    BY <1>1
  <2> QED
    BY <2>1, <2>2, <2>3
<1>3. T!TypeOK
  <2>1. T!SvcTypeOK
    BY WatcherAssumption DEF T!Init, T!SvcTypeOK, T!NoCall
  <2>2. inputs \in Seq([value : Values \cup {T!Blank}, err : BOOLEAN]) /\ Len(inputs) \in 1..MaxInputs
    BY <1>2 DEF Field
  <2>3. focusIndex \in 0..T!Submit /\ confInput \in Paths \cup {T!Blank}
    BY <1>2 DEF T!Init, T!Submit
  <2>4. {typing, loading, installed, failed, quit} \subseteq BOOLEAN
    BY DEF T!Init
  <2>5. /\ prevConfig \in Paths \cup {NoPath}
        /\ job \in [T!Jobs -> [stage : {"none", "write", "act", "uninstall", "install", "msg", "fail", "done"},
                               conf : Paths \cup {NoPath}, dirs : SUBSET Values]]
    BY DEF T!Init, T!NoJob
  <2>6. disk \in [Paths -> SUBSET Values] /\ there \subseteq Exists
    <3>1. T!Filled \subseteq Values
      BY <1>2 DEF T!Filled
    <3> QED
      BY <3>1 DEF T!Init
  <2>7. commands \in 0..MaxCommands /\ foreseen \in {"nothing", "running", "stopped", "none"}
    BY DEF T!Init
  <2> QED
    BY <2>1, <2>2, <2>3, <2>4, <2>5, <2>6, <2>7 DEF T!TypeOK
<1>4. FieldsInv
  BY <1>2 DEF T!Init, T!NoJob, FieldsInv, InstallerSetUp
<1>5. JobsInv
  BY DEF T!Init, T!NoJob, JobsInv
<1>6. CliInv
  BY DEF T!Init, T!NoCall, T!Cli, CliInv
<1>7. InstallInv
  BY DEF T!Init, T!NoJob, InstallInv, Untouched, Installed, Present
<1> QED
  BY <1>3, <1>4, <1>5, <1>6, <1>7 DEF InstallerInv

\* A field replaced by another one.
LEMMA SetField ==
  ASSUME NEW s \in Seq(Field), NEW k \in 1..Len(s), NEW x \in Field, NEW d, d = [s EXCEPT ![k] = x]
  PROVE  /\ d \in Seq(Field) /\ Len(d) = Len(s) /\ DOMAIN d = 1..Len(s)
         /\ d[k] = x /\ \A i \in 1..Len(s) : i # k => d[i] = s[i]
<1>1. Len(s) \in Nat /\ d \in [1..Len(s) -> Field]
  OBVIOUS
<1> QED BY <1>1

\* The end of Update on fields in which only those from the focus on may be invalid.
LEMMA RefreshKeeps ==
  ASSUME InstallerInv,
         NEW s \in Seq(Field), Len(s) \in 1..MaxInputs, NEW f \in 0..(Len(s) + 1), T!Refresh(s, f),
         confInput' \in Paths \cup {T!Blank},
         \A i \in DOMAIN s : s[i].value \notin Exists \cup {T!Blank} => typing /\ f <= i
  PROVE  InstallerInv'
<1> USE DEF InstallerInv
<1>1. /\ focusIndex' = f /\ quit' = installed
      /\ UNCHANGED <<typing, loading, installed, failed, prevConfig, job, disk, there, commands, foreseen>>
      /\ UNCHANGED <<svc, svcConf, call, failures>>
  BY DEF T!Refresh, T!svcVars
<1>2. ASSUME typing, ~installed, ~loading, f \in DOMAIN s
      PROVE  inputs' \in Seq(Field) /\ Len(inputs') = Len(s) /\ FieldsInv'
  <2> DEFINE x == [s[f] EXCEPT !.err = T!HasError(s, f)]
  <2>1. s[f] \in Field /\ f \in 1..Len(s)
    BY <1>2
  <2>2. x \in Field /\ x.value = s[f].value /\ x.err = T!HasError(s, f)
    BY <2>1 DEF Field, T!HasError
  <2>3. inputs' = [s EXCEPT ![f].err = T!HasError(s, f)]
    BY <1>2 DEF T!Refresh
  <2>4. inputs' = [s EXCEPT ![f] = x]
    BY <2>3
  <2> HIDE DEF x
  <2>5. /\ inputs' \in Seq(Field) /\ Len(inputs') = Len(s) /\ DOMAIN inputs' = 1..Len(s)
        /\ inputs'[f] = x /\ \A i \in 1..Len(s) : i # f => inputs'[i] = s[i]
    BY <2>1, <2>2, <2>4, SetField
  <2>6. s[f].value \notin Exists \cup {T!Blank} => T!HasError(s, f)
    BY DEF T!HasError, T!TypeOK
  <2>7. f # 0
    BY <1>2
  <2>8. FieldsInv'
    BY <1>1, <1>2, <2>2, <2>5, <2>6, <2>7 DEF FieldsInv
  <2> QED
    BY <2>5, <2>8
<1>3. ASSUME ~(typing /\ ~installed /\ ~loading /\ f \in DOMAIN s)
      PROVE  inputs' \in Seq(Field) /\ Len(inputs') = Len(s) /\ FieldsInv'
  <2>1. inputs' = s
    BY <1>3 DEF T!Refresh
  <2>2. FieldsInv'
    BY <1>1, <1>3, <2>1 DEF FieldsInv
  <2> QED
    BY <2>1, <2>2

<1>4. /\ inputs' \in Seq(Field) /\ Len(inputs') = Len(s) /\ FieldsInv'
  BY <1>2, <1>3
<1>5. T!TypeOK'
  <2>1. T!SvcTypeOK'
    BY <1>1 DEF T!TypeOK, T!SvcTypeOK
  <2>2. /\ inputs' \in Seq([value : Values \cup {T!Blank}, err : BOOLEAN]) /\ Len(inputs') \in 1..MaxInputs
        /\ focusIndex' \in 0..T!Submit'
    BY <1>1, <1>4 DEF Field, T!Submit
  <2>3. {typing, loading, installed, failed, quit}' \subseteq BOOLEAN
    BY <1>1 DEF T!TypeOK
  <2> QED
    BY <1>1, <2>1, <2>2, <2>3 DEF T!TypeOK
<1>6. InstallerSetUp' /\ JobsInv' /\ CliInv' /\ InstallInv'
  BY <1>1 DEF InstallerSetUp, JobsInv, CliInv, InstallInv, Alone, Untouched, Installed, FirstJobInv, T!Status, T!NoCall, T!Cli, T!Jobs
<1> QED
  BY <1>4, <1>5, <1>6

\* What the fields are before a key is handled.
LEMMA Fields ==
  ASSUME InstallerInv
  PROVE  /\ inputs \in Seq(Field) /\ Len(inputs) \in 1..MaxInputs /\ DOMAIN inputs = 1..Len(inputs)
         /\ focusIndex \in 0..(Len(inputs) + 1) /\ T!Submit = Len(inputs) + 1 /\ MaxInputs \in Nat
         /\ T!Blocked <=> focusIndex \in 1..Len(inputs) /\ inputs[focusIndex].err
         /\ \A i \in 1..Len(inputs) : inputs[i].value \notin Exists \cup {T!Blank} =>
              typing /\ focusIndex <= i /\ (focusIndex = i => focusIndex = 0 \/ T!Blocked)
BY DEF InstallerInv, InstallerSetUp, T!TypeOK, Field, T!Submit, T!Blocked, FieldsInv

\* Keys that change the form only.
LEMMA KeysKeep == ASSUME InstallerInv, T!Keys, ~T!EnterSubmit, ~T!Escape PROVE InstallerInv'
<1> USE Fields
<1> DEFINE Lone(s, f) == \A i \in DOMAIN s : s[i].value \notin Exists \cup {T!Blank} => typing /\ f <= i
<1>1. confInput \in Paths \cup {T!Blank}
  BY DEF InstallerInv, T!TypeOK
<1>2. ASSUME NEW f \in 0..(Len(inputs) + 1), T!Refresh(inputs, f), UNCHANGED confInput,
             \/ f <= focusIndex
             \/ focusIndex = 0 /\ f = 1
             \/ focusIndex # 0 /\ ~T!Blocked /\ f = focusIndex + 1
      PROVE  InstallerInv'
  <2>1. Lone(inputs, f)
    BY <1>2
  <2> QED
    BY <1>1, <1>2, <2>1, RefreshKeeps
<1>3. CASE T!Up
  <2>1. CASE T!Blocked \/ focusIndex = 0
    BY <1>2, <1>3, <2>1 DEF T!Up
  <2>2. CASE ~(T!Blocked \/ focusIndex = 0)
    BY <1>2, <1>3, <2>2 DEF T!Up
  <2> QED BY <2>1, <2>2
<1>4. CASE T!Down
  <2>1. CASE T!Blocked \/ focusIndex = T!Submit
    BY <1>2, <1>4, <2>1 DEF T!Down
  <2>2. CASE ~(T!Blocked \/ focusIndex = T!Submit)
    BY <1>2, <1>4, <2>2 DEF T!Down
  <2> QED BY <2>1, <2>2
<1>5. ASSUME focusIndex \in 1..Len(inputs), inputs[focusIndex].value = T!Blank
      PROVE  \A i \in DOMAIN inputs : inputs[i].value \notin Exists \cup {T!Blank} => typing /\ focusIndex < i
  BY <1>5
<1>6. ASSUME focusIndex \in 2..Len(inputs), inputs[focusIndex].value = T!Blank, UNCHANGED confInput,
             NEW f \in {focusIndex - 1, focusIndex},
             T!Refresh([i \in 1..(Len(inputs) - 1) |-> IF i < focusIndex THEN inputs[i] ELSE inputs[i + 1]], f)
      PROVE  InstallerInv'
  <2> DEFINE d == [i \in 1..(Len(inputs) - 1) |-> IF i < focusIndex THEN inputs[i] ELSE inputs[i + 1]]
  <2>0. /\ d \in [1..(Len(inputs) - 1) -> Field]
        /\ \A i \in 1..(Len(inputs) - 1) : d[i] = IF i < focusIndex THEN inputs[i] ELSE inputs[i + 1]
    BY <1>6
  <2> HIDE DEF d
  <2>1. d \in Seq(Field) /\ Len(d) = Len(inputs) - 1 /\ DOMAIN d = 1..(Len(inputs) - 1)
    <3>1. Len(inputs) - 1 \in Nat
      BY <1>6
    <3> QED
      BY <2>0, <3>1, IsSeq
  <2>2. Lone(d, f)
    <3>1. ASSUME NEW i \in 1..(Len(inputs) - 1), d[i].value \notin Exists \cup {T!Blank} PROVE typing /\ f <= i
      <4>1. CASE i < focusIndex
        BY <1>5, <1>6, <2>0, <3>1, <4>1
      <4>2. CASE i >= focusIndex
        <5>1. d[i] = inputs[i + 1] /\ i + 1 \in DOMAIN inputs
          BY <1>6, <2>0, <4>2
        <5> QED BY <1>5, <1>6, <3>1, <4>2, <5>1
      <4> QED BY <1>6, <4>1, <4>2
    <3> QED BY <2>1, <3>1
  <2>3. f \in 0..(Len(d) + 1) /\ Len(d) \in 1..MaxInputs
    BY <1>6, <2>1
  <2>4. T!Refresh(d, f)
    BY <1>6 DEF d
  <2> QED
    BY <1>1, <1>6, <2>1, <2>2, <2>3, <2>4, RefreshKeeps
<1>7. CASE T!Backspace
  <2>1. CASE focusIndex = T!Submit
    BY <1>2, <1>7, <2>1 DEF T!Backspace
  <2>2. CASE focusIndex # T!Submit /\ inputs[focusIndex].value # T!Blank
    BY <1>2, <1>7, <2>2 DEF T!Backspace
  <2>3. CASE focusIndex # T!Submit /\ inputs[focusIndex].value = T!Blank /\ focusIndex > 1
    BY <1>6, <1>7, <2>3 DEF T!Backspace
  <2>4. CASE focusIndex = 1 /\ focusIndex # T!Submit /\ inputs[focusIndex].value = T!Blank
    <3>1. T!Refresh(inputs, 0) /\ confInput' \in Paths \cup {T!Blank}
      BY <1>1, <1>7, <2>4 DEF T!Backspace
    <3>2. Lone(inputs, 0)
      BY <1>5, <2>4
    <3> QED
      BY <3>1, <3>2, RefreshKeeps
  <2> QED
    BY <1>7, <2>1, <2>2, <2>3, <2>4 DEF T!Backspace
<1>8. ASSUME NEW v \in Values \cup {T!Blank}, T!Type(v) PROVE InstallerInv'
  <2> DEFINE s == [inputs EXCEPT ![focusIndex].value = v]
             x == [inputs[focusIndex] EXCEPT !.value = v]
  <2>1. focusIndex \in 1..Len(inputs) /\ typing /\ inputs[focusIndex] \in Field
    BY <1>8 DEF T!Type
  <2>2. x \in Field
    BY <2>1 DEF Field
  <2>5. s = [inputs EXCEPT ![focusIndex] = x]
    OBVIOUS
  <2> HIDE DEF s, x
  <2>3. /\ s \in Seq(Field) /\ Len(s) = Len(inputs) /\ DOMAIN s = 1..Len(inputs)
        /\ Lone(s, focusIndex)
    BY <2>1, <2>2, <2>5, SetField
  <2>4. T!Refresh(s, focusIndex) /\ UNCHANGED confInput
    BY <1>8 DEF T!Type, s
  <2> QED
    BY <1>1, <2>1, <2>3, <2>4, RefreshKeeps
<1>9. ASSUME NEW c \in Paths \cup {T!Blank}, T!TypeConfig(c) PROVE InstallerInv'
  <2>1. focusIndex = 0 /\ T!Refresh(inputs, 0) /\ confInput' \in Paths \cup {T!Blank}
    BY <1>9 DEF T!TypeConfig
  <2>2. Lone(inputs, 0)
    BY <2>1
  <2> QED
    BY <2>1, <2>2, RefreshKeeps
<1>10. CASE T!EnterField
  <2>1. CASE focusIndex = 0
    BY <1>2, <1>10, <2>1 DEF T!EnterField
  <2>2. CASE focusIndex = 1 /\ inputs[1].value = T!Blank
    BY <1>2, <1>10, <2>2 DEF T!EnterField
  <2>3. CASE focusIndex > 1 /\ inputs[focusIndex].value = T!Blank /\ focusIndex # T!Submit
    BY <1>6, <1>10, <2>3 DEF T!EnterField
  <2>4. CASE focusIndex # 0 /\ focusIndex # T!Submit /\ inputs[focusIndex].value # T!Blank
    <3>1. CASE T!Blocked
      BY <1>2, <1>10, <2>4, <3>1 DEF T!EnterField
    <3>2. CASE ~T!Blocked
      <4> DEFINE d == [i \in 1..(Len(inputs) + 1) |->
                         IF i <= focusIndex THEN inputs[i] ELSE IF i = focusIndex + 1 THEN T!Empty ELSE inputs[i - 1]]
      <4>1. Len(inputs) < MaxInputs /\ T!Refresh(d, focusIndex + 1) /\ UNCHANGED confInput
        BY <1>10, <2>4, <3>2 DEF T!EnterField
      <4>0. /\ d \in [1..(Len(inputs) + 1) -> Field]
            /\ \A i \in 1..(Len(inputs) + 1) :
                 d[i] = IF i <= focusIndex THEN inputs[i] ELSE IF i = focusIndex + 1 THEN T!Empty ELSE inputs[i - 1]
        <5>1. T!Empty \in Field
          BY DEF T!Empty, Field
        <5> QED BY <2>4, <5>1
      <4> HIDE DEF d
      <4>2. d \in Seq(Field) /\ Len(d) = Len(inputs) + 1 /\ DOMAIN d = 1..(Len(inputs) + 1)
        <5>1. Len(inputs) + 1 \in Nat
          OBVIOUS
        <5> QED
          BY <4>0, <5>1, IsSeq
      <4>3. Lone(d, focusIndex + 1)
        <5>1. ASSUME NEW i \in 1..(Len(inputs) + 1), d[i].value \notin Exists \cup {T!Blank}
              PROVE  typing /\ focusIndex + 1 <= i
          <6>1. CASE i <= focusIndex
            <7>1. d[i] = inputs[i] /\ i \in 1..Len(inputs)
              BY <2>4, <4>0, <6>1
            <7> QED BY <2>4, <3>2, <5>1, <6>1, <7>1
          <6>2. CASE i = focusIndex + 1
            BY <2>4, <4>0, <5>1, <6>2 DEF T!Empty
          <6>3. CASE i > focusIndex + 1
            <7>1. d[i] = inputs[i - 1] /\ i - 1 \in 1..Len(inputs)
              BY <2>4, <4>0, <6>3
            <7> QED BY <2>4, <5>1, <6>3, <7>1
          <6> QED BY <2>4, <6>1, <6>2, <6>3
        <5> QED BY <4>2, <5>1
      <4>4. focusIndex + 1 \in 0..(Len(d) + 1) /\ Len(d) \in 1..MaxInputs
        BY <2>4, <4>1, <4>2
      <4> QED
        BY <1>1, <4>1, <4>2, <4>3, <4>4, RefreshKeeps
    <3> QED BY <3>1, <3>2
  <2> QED
    BY <1>10, <2>1, <2>2, <2>3, <2>4 DEF T!EnterField

<1> QED
  BY <1>3, <1>4, <1>7, <1>8, <1>9, <1>10 DEF T!Keys

Stages == {"none", "write", "act", "uninstall", "install", "msg", "fail", "done"}

\* The types of what the installation changes, and who works on it.
LEMMA JobFacts ==
  ASSUME InstallerInv
  PROVE  /\ job \in [T!Jobs -> [stage : Stages, conf : Paths \cup {NoPath}, dirs : SUBSET Values]]
         /\ call \in [Procs -> [op : T!Ops \cup {"none"}, conf : Paths \cup {NoPath},
                                stage : {"idle", "begin", "again", "remove", "wait", "ok", "error"}]]
         /\ T!Jobs \subseteq Procs /\ T!Cli \in Procs /\ T!Cli \notin T!Jobs
         /\ \A j \in T!Jobs : job[j].stage # "none" => 1 \in T!Jobs /\ commands = 0 /\ ~typing
BY DEF InstallerInv, InstallerSetUp, T!TypeOK, T!SvcTypeOK, Stages, T!Jobs, T!Cli, JobsInv, CliInv, FieldsInv

\* A form is submitted when no field has an error.
LEMMA SubmitKeeps == ASSUME InstallerInv, commands = 0, T!EnterSubmit PROVE InstallerInv'
<1> USE JobFacts, Fields DEF InstallerInv
<1>1. PICK j \in T!Jobs :
        /\ job[j].stage = "none" /\ \A k \in 1..(j - 1) : job[k].stage # "none"
        /\ job' = [job EXCEPT ![j] =
             [stage |-> "write", conf |-> IF confInput = T!Blank THEN T!DefaultConfig ELSE confInput,
              dirs |-> {inputs[i].value : i \in DOMAIN inputs} \ {T!Blank}]]
  BY DEF T!EnterSubmit, T!ConfigFile, T!Filled
<1>2. /\ typing' = FALSE /\ loading' = TRUE
      /\ UNCHANGED <<inputs, confInput, focusIndex, installed, failed, quit, prevConfig, disk, there, commands, foreseen>>
      /\ UNCHANGED <<svc, svcConf, call, failures>>
  BY DEF T!EnterSubmit, T!svcVars
<1> DEFINE c == IF confInput = T!Blank THEN T!DefaultConfig ELSE confInput
           ds == {inputs[i].value : i \in DOMAIN inputs} \ {T!Blank}
<1>3. c \in Paths
  BY DEF T!TypeOK, T!DefaultConfig, InstallerSetUp
<1>4. \A i \in DOMAIN inputs : inputs[i].value \in Exists \cup {T!Blank}
  BY DEF T!EnterSubmit
<1>5. ds \subseteq Exists /\ ds \subseteq Values
  BY <1>4 DEF InstallerSetUp
<1>6. job' = [job EXCEPT ![j] = [stage |-> "write", conf |-> c, dirs |-> ds]]
  BY <1>1
<1> HIDE DEF c, ds
<1>7. /\ job'[j] = [stage |-> "write", conf |-> c, dirs |-> ds]
      /\ \A k \in T!Jobs \ {j} : job'[k] = job[k]
      /\ job' \in [T!Jobs -> [stage : Stages, conf : Paths \cup {NoPath}, dirs : SUBSET Values]]
  BY <1>3, <1>5, <1>6 DEF Stages
<1>8. j = 1 \/ (job[1].stage # "none" /\ 1 \in T!Jobs)
  BY <1>1 DEF T!Jobs, InstallerSetUp
<1>9. j = 1 => ~installed /\ \A k \in T!Jobs : Alone' /\ k # 1 => job[k].stage = "none"
  BY <1>1, <1>7 DEF InstallInv, JobsInv, Alone, T!Jobs
<1>10. T!TypeOK'
  <2>1. T!SvcTypeOK'
    BY <1>2 DEF T!TypeOK, T!SvcTypeOK
  <2>2. {typing, loading, installed, failed, quit}' \subseteq BOOLEAN
    BY <1>2 DEF T!TypeOK
  <2> QED
    BY <1>2, <1>7, <2>1, <2>2 DEF T!TypeOK, T!Submit, Stages
<1>11. FieldsInv'
  BY <1>2, <1>4 DEF FieldsInv
<1>12. JobsInv'
  BY <1>2, <1>3, <1>5, <1>7, <1>8 DEF JobsInv, T!NoCall
<1>13. CliInv'
  BY <1>2 DEF CliInv, T!Cli, T!NoCall
<1>14. InstallInv'
  <2>1. CASE j = 1
    <3>1. Alone' => Untouched /\ call[1] = T!NoCall
      BY <1>1, <1>9, <2>1 DEF InstallInv, JobsInv
    <3>2. Alone' => FirstJobInv'
      BY <1>2, <1>7, <2>1, <3>1 DEF FirstJobInv, Untouched, Installed, T!NoCall
    <3> QED
      BY <1>2, <1>7, <1>9, <2>1, <3>2 DEF InstallInv
  <2>2. CASE j # 1
    <3>1. ~Alone'
      BY <1>7, <2>2 DEF Alone
    <3> QED
      BY <1>2, <1>7, <1>8, <3>1 DEF InstallInv
  <2> QED BY <2>1, <2>2
<1> QED
  BY <1>10, <1>11, <1>12, <1>13, <1>14 DEF InstallerSetUp, T!Jobs, T!Cli

\* Leaving the form changes none of its fields.
LEMMA EscapeKeeps == ASSUME InstallerInv, T!Escape PROVE InstallerInv'
<1> USE DEF InstallerInv
<1>1. /\ quit' = TRUE
      /\ UNCHANGED <<inputs, confInput, focusIndex, typing, loading, installed, failed, prevConfig>>
      /\ UNCHANGED <<job, disk, there, commands, foreseen, svc, svcConf, call, failures>>
  BY DEF T!Escape, T!svcVars
<1>2. T!TypeOK'
  <2>1. T!SvcTypeOK'
    BY <1>1 DEF T!TypeOK, T!SvcTypeOK
  <2>2. {typing, loading, installed, failed, quit}' \subseteq BOOLEAN
    BY <1>1 DEF T!TypeOK
  <2> QED
    BY <1>1, <2>1, <2>2 DEF T!TypeOK, T!Submit
<1>3. FieldsInv' /\ JobsInv' /\ CliInv'
  BY <1>1 DEF FieldsInv, JobsInv, CliInv, T!NoCall, T!Status, T!Cli
<1>4. InstallInv'
  BY <1>1 DEF InstallInv, Alone, Untouched, Installed, FirstJobInv, T!NoCall
<1> QED
  BY <1>2, <1>3, <1>4 DEF InstallerSetUp, T!Jobs, T!Cli

\* A submission that moves was submitted: what it does to the others' part.
LEMMA JobMoves ==
  ASSUME InstallerInv, NEW j \in T!Jobs, job[j].stage # "none", NEW s \in Stages \ {"none"}, T!JobTo(j, s)
  PROVE  /\ job' \in [T!Jobs -> [stage : Stages, conf : Paths \cup {NoPath}, dirs : SUBSET Values]]
         /\ job'[j].stage = s /\ job'[j].conf = job[j].conf /\ job'[j].dirs = job[j].dirs
         /\ \A k \in T!Jobs \ {j} : job'[k] = job[k]
         /\ (Alone' <=> Alone) /\ (Alone => j = 1)
<1> USE JobFacts
<1>1. /\ job' \in [T!Jobs -> [stage : Stages, conf : Paths \cup {NoPath}, dirs : SUBSET Values]]
      /\ job'[j].stage = s /\ job'[j].conf = job[j].conf /\ job'[j].dirs = job[j].dirs
      /\ \A k \in T!Jobs \ {j} : job'[k] = job[k]
  BY DEF T!JobTo
<1>2. \A k \in T!Jobs : job'[k].stage = "none" <=> job[k].stage = "none"
  BY <1>1
<1> QED
  BY <1>1, <1>2 DEF Alone, T!Jobs

\* The end of an installation is reported to the form.
LEMMA MsgKeeps == ASSUME InstallerInv, NEW j \in T!Jobs, T!InstallMsg(j) PROVE InstallerInv'
<1> USE JobFacts DEF InstallerInv
<1>1. /\ job[j].stage \in {"msg", "fail"} /\ T!JobTo(j, "done")
      /\ loading' = FALSE /\ installed' = TRUE /\ failed' = (failed \/ job[j].stage = "fail")
      /\ UNCHANGED <<inputs, confInput, focusIndex, typing, quit, prevConfig, disk, there, commands, foreseen>>
      /\ UNCHANGED <<svc, svcConf, call, failures>>
  BY DEF T!InstallMsg, T!JobTo, T!svcVars
<1>2. /\ job' \in [T!Jobs -> [stage : Stages, conf : Paths \cup {NoPath}, dirs : SUBSET Values]]
      /\ job'[j].stage = "done" /\ job'[j].conf = job[j].conf /\ job'[j].dirs = job[j].dirs
      /\ \A k \in T!Jobs \ {j} : job'[k] = job[k]
      /\ (Alone' <=> Alone) /\ (Alone => j = 1)
  BY <1>1, JobMoves DEF Stages
<1>3. T!TypeOK'
  <2>1. T!SvcTypeOK'
    BY <1>1 DEF T!TypeOK, T!SvcTypeOK
  <2>2. {typing, loading, installed, failed, quit}' \subseteq BOOLEAN
    BY <1>1 DEF T!TypeOK
  <2> QED
    BY <1>1, <1>2, <2>1, <2>2 DEF T!TypeOK, T!Submit, Stages
<1>4. FieldsInv'
  BY <1>1, <1>2 DEF FieldsInv
<1>5. JobsInv'
  BY <1>1, <1>2 DEF JobsInv, T!NoCall
<1>6. CliInv'
  BY <1>1, <1>2 DEF CliInv, T!NoCall, T!Cli
<1>7. InstallInv'
  <2>1. Alone' => FirstJobInv'
    BY <1>1, <1>2 DEF InstallInv, FirstJobInv, Installed
  <2> QED
    BY <1>1, <1>2, <2>1 DEF InstallInv
<1> QED
  BY <1>3, <1>4, <1>5, <1>6, <1>7 DEF InstallerSetUp, T!Jobs, T!Cli

\* A submission writes its own configuration.
LEMMA WriteKeeps == ASSUME InstallerInv, NEW j \in T!Jobs, T!WriteConfig(j) PROVE InstallerInv'
<1> USE JobFacts DEF InstallerInv
<1>1. /\ job[j].stage = "write"
      /\ UNCHANGED <<inputs, confInput, focusIndex, typing, loading, installed, failed, quit, prevConfig>>
      /\ UNCHANGED <<there, commands, foreseen, svc, svcConf, call, failures>>
  BY DEF T!WriteConfig, T!svcVars, T!form
<1>2. job[j].conf \in Paths
  BY <1>1 DEF JobsInv
<1>3. PICK s \in {"act", "fail"} :
        /\ T!JobTo(j, s)
        /\ s = "act" => T!Writable(job[j].dirs) /\ disk' = [disk EXCEPT ![job[j].conf] = job[j].dirs]
        /\ s = "fail" => disk' = disk
  BY DEF T!WriteConfig
<1>4. /\ job' \in [T!Jobs -> [stage : Stages, conf : Paths \cup {NoPath}, dirs : SUBSET Values]]
      /\ job'[j].stage = s /\ job'[j].conf = job[j].conf /\ job'[j].dirs = job[j].dirs
      /\ \A k \in T!Jobs \ {j} : job'[k] = job[k]
      /\ (Alone' <=> Alone) /\ (Alone => j = 1)
  BY <1>1, <1>3, JobMoves DEF Stages
<1>5. /\ disk' \in [Paths -> SUBSET Values]
      /\ s = "act" => disk'[job[j].conf] = job[j].dirs /\ job[j].dirs # {}
  BY <1>2, <1>3 DEF T!TypeOK, T!Writable
<1>6. T!TypeOK'
  <2>1. T!SvcTypeOK'
    BY <1>1 DEF T!TypeOK, T!SvcTypeOK
  <2>2. {typing, loading, installed, failed, quit}' \subseteq BOOLEAN
    BY <1>1 DEF T!TypeOK
  <2> QED
    BY <1>1, <1>4, <1>5, <2>1, <2>2 DEF T!TypeOK, T!Submit, Stages
<1>7. FieldsInv'
  BY <1>1, <1>4 DEF FieldsInv
<1>8. JobsInv'
  BY <1>1, <1>3, <1>4 DEF JobsInv, T!NoCall
<1>9. CliInv'
  BY <1>1 DEF CliInv, T!NoCall, T!Cli
<1>10. InstallInv'
  <2>1. Alone' => FirstJobInv'
    BY <1>1, <1>3, <1>4, <1>5 DEF InstallInv, FirstJobInv, Installed, Untouched, T!NoCall
  <2>2. installed' => 1 \in T!Jobs /\ ~Alone'
    BY <1>1, <1>4 DEF InstallInv
  <2> QED
    BY <1>1, <1>3, <1>4, <2>1, <2>2 DEF InstallInv
<1> QED
  BY <1>6, <1>7, <1>8, <1>9, <1>10 DEF InstallerSetUp, T!Jobs, T!Cli

\* A submission fails before it touches the service.
LEMMA InstallFailsKeeps == ASSUME InstallerInv, NEW j \in T!Jobs, T!InstallFails(j) PROVE InstallerInv'
<1> USE JobFacts DEF InstallerInv
<1>1. /\ job[j].stage \in {"write", "act"} /\ T!JobTo(j, "fail")
      /\ failures < MaxFailures /\ failures' = failures + 1
      /\ UNCHANGED <<inputs, confInput, focusIndex, typing, loading, installed, failed, quit, prevConfig>>
      /\ UNCHANGED <<there, commands, foreseen, svc, svcConf, call>>
  BY DEF T!InstallFails, T!form
<1>2. /\ job' \in [T!Jobs -> [stage : Stages, conf : Paths \cup {NoPath}, dirs : SUBSET Values]]
      /\ job'[j].stage = "fail" /\ job'[j].conf = job[j].conf /\ job'[j].dirs = job[j].dirs
      /\ \A k \in T!Jobs \ {j} : job'[k] = job[k]
      /\ (Alone' <=> Alone) /\ (Alone => j = 1)
  BY <1>1, JobMoves DEF Stages
<1>3. T!TypeOK'
  <2>1. T!SvcTypeOK'
    BY <1>1, WatcherAssumption DEF T!TypeOK, T!SvcTypeOK
  <2>2. {typing, loading, installed, failed, quit}' \subseteq BOOLEAN
    BY <1>1 DEF T!TypeOK
  <2>3. disk' \in [Paths -> SUBSET Values]
    BY DEF T!InstallFails, T!TypeOK
  <2> QED
    BY <1>1, <1>2, <2>1, <2>2, <2>3 DEF T!TypeOK, T!Submit, Stages
<1>4. FieldsInv' /\ JobsInv' /\ CliInv'
  BY <1>1, <1>2 DEF FieldsInv, JobsInv, CliInv, T!NoCall, T!Cli
<1>5. InstallInv'
  <2>1. Alone' => FirstJobInv'
    BY <1>2 DEF FirstJobInv
  <2>2. installed' => 1 \in T!Jobs /\ ~Alone'
    BY <1>1, <1>2 DEF InstallInv
  <2> QED
    BY <1>1, <1>2, <2>1, <2>2 DEF InstallInv
<1> QED
  BY <1>3, <1>4, <1>5 DEF InstallerSetUp, T!Jobs, T!Cli

\* A submission chooses what to do with the service it finds.
LEMMA ActionKeeps == ASSUME InstallerInv, NEW j \in T!Jobs, T!takeInstallAction(j) PROVE InstallerInv'
<1> USE JobFacts DEF InstallerInv
<1>1. /\ UNCHANGED <<inputs, confInput, focusIndex, typing, loading, installed, failed, quit, prevConfig>>
      /\ UNCHANGED <<disk, there, commands, foreseen, svc, svcConf, failures>>
  BY DEF T!takeInstallAction, T!form
<1> DEFINE Begun(op) == call' = [call EXCEPT ![j] = [op |-> op, conf |-> job[j].conf, stage |-> "begin"]]
<1>2. PICK s \in Stages \ {"none"} :
        /\ T!JobTo(j, s)
        /\ \/ job[j].stage = "act" /\ s = "msg" /\ prevConfig = job[j].conf /\ call' = call
           \/ job[j].stage = "act" /\ s = "uninstall" /\ Begun("uninstall")
           \/ job[j].stage = "act" /\ s = "install" /\ prevConfig = NoPath /\ Begun("install")
           \/ job[j].stage = "uninstall" /\ call[j].stage = "ok" /\ s = "install" /\ Begun("install")
           \/ s = "fail" /\ job[j].stage \in {"uninstall", "install"} /\ call' = call
           \/ job[j].stage = "install" /\ call[j].stage = "ok" /\ s = "msg" /\ call' = call
  <2>1. CASE job[j].stage = "act" /\ T!JobTo(j, T!FirstAction(j)) /\
             IF T!FirstAction(j) = "msg" THEN UNCHANGED call ELSE T!Begin(j, T!FirstAction(j), job[j].conf)
    <3>1. CASE prevConfig = job[j].conf
      <4>1. T!FirstAction(j) = "msg"
        BY <3>1 DEF T!FirstAction
      <4> QED BY <2>1, <3>1, <4>1 DEF Stages
    <3>2. CASE prevConfig # job[j].conf /\ prevConfig # NoPath
      <4>1. T!FirstAction(j) = "uninstall"
        BY <3>2 DEF T!FirstAction
      <4> QED BY <2>1, <3>2, <4>1 DEF Stages, T!Begin
    <3>3. CASE prevConfig # job[j].conf /\ prevConfig = NoPath
      <4>1. T!FirstAction(j) = "install"
        BY <3>3 DEF T!FirstAction
      <4> QED BY <2>1, <3>3, <4>1 DEF Stages, T!Begin
    <3> QED BY <3>1, <3>2, <3>3
  <2>2. CASE job[j].stage = "uninstall" /\ call[j].stage = "ok" /\ T!JobTo(j, "install")
             /\ T!Begin(j, "install", job[j].conf)
    BY <2>2 DEF Stages, T!Begin
  <2>3. CASE job[j].stage \in {"uninstall", "install"} /\ call[j].stage = "error" /\ T!JobTo(j, "fail") /\ UNCHANGED call
    BY <2>3 DEF Stages
  <2>4. CASE job[j].stage = "install" /\ call[j].stage = "ok" /\ T!JobTo(j, "msg") /\ UNCHANGED call
    BY <2>4 DEF Stages
  <2> QED
    BY <2>1, <2>2, <2>3, <2>4 DEF T!takeInstallAction
<1>3. /\ job' \in [T!Jobs -> [stage : Stages, conf : Paths \cup {NoPath}, dirs : SUBSET Values]]
      /\ job'[j].stage = s /\ job'[j].conf = job[j].conf /\ job'[j].dirs = job[j].dirs
      /\ \A k \in T!Jobs \ {j} : job'[k] = job[k]
      /\ (Alone' <=> Alone) /\ (Alone => j = 1)
  BY <1>2, JobMoves
<1>4. /\ \A p \in Procs \ {j} : call'[p] = call[p]
      /\ call' \in [Procs -> [op : T!Ops \cup {"none"}, conf : Paths \cup {NoPath},
                              stage : {"idle", "begin", "again", "remove", "wait", "ok", "error"}]]
  BY <1>2 DEF T!Ops
<1>5. T!TypeOK'
  <2>1. T!SvcTypeOK'
    BY <1>1, <1>4 DEF T!TypeOK, T!SvcTypeOK
  <2>2. {typing, loading, installed, failed, quit}' \subseteq BOOLEAN
    BY <1>1 DEF T!TypeOK
  <2> QED
    BY <1>1, <1>3, <2>1, <2>2 DEF T!TypeOK, T!Submit, Stages
<1>6. FieldsInv'
  BY <1>1, <1>2, <1>3 DEF FieldsInv
<1>7. JobsInv'
  <2>1. \A k \in T!Jobs \ {j} : job'[k] = job[k] /\ call'[k] = call[k]
    BY <1>3, <1>4
  <2>2. job[j].stage # "none" /\ job'[j].stage # "none" /\ (job[1].stage # "none" => job'[1].stage # "none")
    BY <1>2, <1>3
  <2> QED
    BY <1>3, <2>1, <2>2 DEF JobsInv, T!NoCall
<1>8. CliInv'
  BY <1>1, <1>2, <1>4 DEF CliInv, T!NoCall
<1>9. InstallInv'
  <2>1. Alone' => FirstJobInv'
    <3> SUFFICES ASSUME Alone' PROVE FirstJobInv'
      OBVIOUS
    <3>1. j = 1 /\ FirstJobInv /\ job[1].conf \in Paths
      BY <1>2, <1>3 DEF InstallInv, JobsInv
    <3>2. ~Begun("install") /\ ~Begun("uninstall") => call' = call
      BY <1>2
    <3>3. ASSUME NEW op, Begun(op) PROVE call'[1].op = op /\ call'[1].conf = job[1].conf /\ call'[1].stage = "begin"
      BY <3>1, <3>3
    <3> HIDE DEF Begun
    <3>4. CASE s = "msg"
      BY <1>1, <1>2, <1>3, <3>1, <3>4 DEF FirstJobInv, Installed, Untouched, InstallerSetUp, T!NoCall
    <3>5. CASE s = "uninstall"
      BY <1>1, <1>2, <1>3, <3>1, <3>3, <3>5 DEF FirstJobInv
    <3>6. CASE s = "install"
      BY <1>1, <1>2, <1>3, <3>1, <3>3, <3>6 DEF FirstJobInv, Untouched
    <3>7. CASE s = "fail"
      BY <1>1, <1>2, <1>3, <3>1, <3>7 DEF FirstJobInv
    <3> QED
      BY <1>2, <3>4, <3>5, <3>6, <3>7
  <2>2. installed' => 1 \in T!Jobs /\ ~Alone'
    BY <1>1, <1>2, <1>3 DEF InstallInv
  <2> QED
    BY <1>1, <1>2, <1>3, <2>1, <2>2 DEF InstallInv
<1> QED
  BY <1>5, <1>6, <1>7, <1>8, <1>9 DEF InstallerSetUp, T!Jobs, T!Cli

\* A step of the service manager or of a command leaves the form alone.
LEMMA ServiceFrame ==
  ASSUME InstallerInv, T!SvcTypeOK',
         UNCHANGED <<inputs, confInput, focusIndex, typing, loading, installed, failed, quit, prevConfig>>,
         UNCHANGED <<job, disk, there>>, commands' \in 0..MaxCommands,
         foreseen' \in {"nothing", "running", "stopped", "none"}
  PROVE  InstallerSetUp' /\ T!TypeOK' /\ FieldsInv' /\ (Alone' <=> Alone)
BY DEF InstallerInv, InstallerSetUp, T!Jobs, T!Cli, T!TypeOK, T!Submit, FieldsInv, Alone

\* A submission drives the service step by step.
LEMMA JobCommandKeeps == ASSUME InstallerInv, NEW j \in T!Jobs, T!JobCommand(j) PROVE InstallerInv'
<1> USE JobFacts DEF InstallerInv
<1>1. /\ T!Command(j) /\ UNCHANGED <<job, disk, there, commands, foreseen>>
      /\ UNCHANGED <<inputs, confInput, focusIndex, typing, loading, installed, failed, quit, prevConfig>>
  BY DEF T!JobCommand, T!form
<1>2. /\ T!SvcTypeOK /\ T!SvcTypeOK' /\ call[j].stage \in Running
      /\ \E s \in {"again", "remove", "wait", "ok", "error"} : call' = [call EXCEPT ![j].stage = s]
  BY <1>1, CommandFrame DEF T!TypeOK
<1>3. /\ call'[j].op = call[j].op /\ call'[j].conf = call[j].conf
      /\ \A p \in Procs \ {j} : call'[p] = call[p]
  BY <1>2
<1>4. job[j].stage # "none"
  BY <1>2 DEF JobsInv, T!NoCall, Running
<1>5. commands = 0
  BY <1>4
<1>6. InstallerSetUp' /\ T!TypeOK' /\ FieldsInv' /\ (Alone' <=> Alone)
  BY <1>1, <1>2, ServiceFrame DEF T!TypeOK
<1>7. JobsInv'
  BY <1>1, <1>3, <1>4 DEF JobsInv, T!NoCall
<1>8. CliInv'
  BY <1>1, <1>3, <1>5 DEF CliInv, T!NoCall
<1>9. InstallInv'
  <2>1. Alone => FirstJobInv'
    <3> SUFFICES ASSUME Alone PROVE FirstJobInv'
      OBVIOUS
    <3>1. j = 1 /\ FirstJobInv
      BY <1>4 DEF Alone, InstallInv
    <3>2. job[1].stage \notin {"write", "act", "msg"} /\ ~(job[1].stage = "done" /\ ~failed)
      BY <1>2, <3>1 DEF FirstJobInv, T!NoCall, Running
    <3>3. CASE job[1].stage = "uninstall"
      <4>1. call[1].op = "uninstall"
        BY <3>1, <3>3 DEF FirstJobInv
      <4>2. call'[1].op = "uninstall" /\ (call'[1].stage = "ok" => svc' = "none")
        BY <1>1, <1>2, <1>3, <3>1, <4>1, CommandReaches
      <4> QED
        BY <1>1, <3>1, <3>3, <4>2 DEF FirstJobInv
    <3>4. CASE job[1].stage = "install"
      <4>1. /\ call[1].op = "install" /\ call[1].conf = job[1].conf
            /\ call[1].stage = "begin" => svc = "none"
            /\ call[1].stage = "wait" => Installed(call[1].conf)
        BY <3>1, <3>4 DEF FirstJobInv
      <4>2. /\ call'[1].stage \in {"wait", "ok", "error"}
            /\ call'[1].stage \in {"wait", "ok"} => Installed(call[1].conf)'
        BY <1>1, <1>2, <3>1, <4>1, InstallReaches
      <4>3. call'[1].op = "install" /\ call'[1].conf = job[1].conf
        BY <1>3, <3>1, <4>1
      <4> QED
        BY <1>1, <3>1, <3>4, <4>1, <4>2, <4>3 DEF FirstJobInv, Installed
    <3> QED
      BY <1>1, <3>1, <3>2, <3>3, <3>4 DEF FirstJobInv
  <2> QED
    BY <1>1, <1>4, <1>6, <2>1 DEF InstallInv
<1> QED
  BY <1>6, <1>7, <1>8, <1>9

\* A command of 'adwatchd service' begins only without a form.
LEMMA CliBeginKeeps == ASSUME InstallerInv, NEW op \in T!Ops, T!CliBegin(op) PROVE InstallerInv'
<1> USE JobFacts DEF InstallerInv
<1>1. /\ commands < MaxCommands /\ commands' = commands + 1 /\ foreseen' = Foreseen(op)
      /\ \A j \in T!Jobs : job[j].stage = "none"
      /\ call' = [call EXCEPT ![T!Cli] = [op |-> op, conf |-> Default, stage |-> "begin"]]
      /\ UNCHANGED <<job, disk, there, svc, svcConf, failures>>
      /\ UNCHANGED <<inputs, confInput, focusIndex, typing, loading, installed, failed, quit, prevConfig>>
  BY DEF T!CliBegin, T!Begin, T!form, Foreseen
<1>2. /\ call'[T!Cli].op = op /\ call'[T!Cli].stage = "begin"
      /\ \A p \in Procs \ {T!Cli} : call'[p] = call[p]
      /\ call' \in [Procs -> [op : T!Ops \cup {"none"}, conf : Paths \cup {NoPath},
                              stage : {"idle", "begin", "again", "remove", "wait", "ok", "error"}]]
  BY <1>1 DEF InstallerSetUp
<1>3. T!SvcTypeOK'
  BY <1>1, <1>2 DEF T!TypeOK, T!SvcTypeOK
<1>4. commands' \in 0..MaxCommands /\ commands' # 0 /\ foreseen' \in {"nothing", "running", "stopped", "none"}
  BY <1>1 DEF T!TypeOK, InstallerSetUp, Foreseen
<1>5. InstallerSetUp' /\ T!TypeOK' /\ FieldsInv' /\ (Alone' <=> Alone)
  BY <1>1, <1>3, <1>4, ServiceFrame
<1>6. JobsInv'
  BY <1>1, <1>2 DEF JobsInv, T!NoCall
<1>7. CliInv'
  BY <1>1, <1>2, <1>4 DEF CliInv, Foreseen
<1>8. InstallInv'
  BY <1>1, <1>4, <1>5 DEF InstallInv
<1> QED
  BY <1>5, <1>6, <1>7, <1>8

\* A command drives the service step by step.
LEMMA CliCommandKeeps == ASSUME InstallerInv, T!CliCommand PROVE InstallerInv'
<1> USE JobFacts DEF InstallerInv
<1>1. /\ T!Command(T!Cli) /\ UNCHANGED <<job, disk, there, commands, foreseen>>
      /\ UNCHANGED <<inputs, confInput, focusIndex, typing, loading, installed, failed, quit, prevConfig>>
  BY DEF T!CliCommand, T!form
<1>2. /\ T!SvcTypeOK /\ T!SvcTypeOK' /\ call[T!Cli].stage \in Running
      /\ \E s \in {"again", "remove", "wait", "ok", "error"} : call' = [call EXCEPT ![T!Cli].stage = s]
  BY <1>1, CommandFrame DEF T!TypeOK
<1>3. /\ call'[T!Cli].op = call[T!Cli].op
      /\ \A p \in Procs \ {T!Cli} : call'[p] = call[p]
  BY <1>2
<1>4. commands # 0 /\ \A j \in T!Jobs : job[j].stage = "none"
  BY <1>2 DEF CliInv, T!NoCall, Running
<1>5. InstallerSetUp' /\ T!TypeOK' /\ FieldsInv' /\ (Alone' <=> Alone)
  BY <1>1, <1>2, ServiceFrame DEF T!TypeOK
<1>6. JobsInv'
  BY <1>1, <1>3, <1>4 DEF JobsInv, T!NoCall
<1>7. CliInv'
  <2>1. ASSUME call'[T!Cli].stage = "ok", foreseen # "nothing" PROVE T!Status' = foreseen
    <3>1. foreseen = Foreseen(call[T!Cli].op)
      BY <2>1 DEF CliInv
    <3>2. /\ call[T!Cli].op = "start" => svc' \in {"starting", "running"}
          /\ call[T!Cli].op = "stop" => svc' \in {"stopping", "stopped", "removing"}
          /\ call[T!Cli].op = "uninstall" => svc' = "none"
      BY <1>1, <1>2, <2>1, CommandReaches
    <3> QED
      BY <2>1, <3>1, <3>2 DEF Foreseen, T!Status
  <2> QED
    BY <1>1, <1>3, <1>4, <2>1 DEF CliInv, Foreseen
<1>8. InstallInv'
  BY <1>1, <1>4, <1>5 DEF InstallInv
<1> QED
  BY <1>5, <1>6, <1>7, <1>8

\* The service manager only does what it was asked.
LEMMA ManagerKeeps == ASSUME InstallerInv, T!Manager PROVE InstallerInv'
<1> USE JobFacts DEF InstallerInv
<1>1. /\ UNCHANGED <<job, disk, there, commands, call>>
      /\ UNCHANGED <<inputs, confInput, focusIndex, typing, loading, installed, failed, quit, prevConfig>>
      /\ foreseen' \in {"nothing", foreseen}
  BY DEF T!Manager, T!ManagerStep, T!ServiceEnds, T!form
<1>2. T!SvcTypeOK'
  BY WatcherAssumption DEF T!TypeOK, T!SvcTypeOK, T!Manager, T!ManagerStep, T!ServiceEnds
<1>3. /\ svc # "none" /\ svc' # svc
      /\ svc \in Present => svc' \in Present /\ svcConf' = svcConf
      /\ foreseen' # "nothing" => \/ svc = "starting" /\ svc' = "running"
                                  \/ svc = "stopping" /\ svc' = "stopped"
                                  \/ svc = "removing" /\ svc' = "none"
  <2>1. CASE T!ManagerStep
    BY <2>1 DEF T!ManagerStep, Present
  <2>2. CASE T!ServiceEnds
    BY <2>2 DEF T!ServiceEnds, Present, T!Manager, T!TypeOK, T!SvcTypeOK
  <2> QED
    BY <2>1, <2>2 DEF T!Manager
<1>4. InstallerSetUp' /\ T!TypeOK' /\ FieldsInv' /\ (Alone' <=> Alone)
  BY <1>1, <1>2, ServiceFrame DEF T!TypeOK
<1>5. JobsInv'
  BY <1>1 DEF JobsInv, T!NoCall
<1>6. CliInv'
  BY <1>1, <1>3 DEF CliInv, T!NoCall, T!Status, Foreseen
<1>7. InstallInv'
  <2>1. /\ Untouched => Untouched'
        /\ \A c : Installed(c) => svc' \in Present /\ svcConf' = c
    BY <1>1, <1>3 DEF Untouched, Installed
  <2>2. FirstJobInv => FirstJobInv'
    BY <1>1, <1>3, <2>1 DEF FirstJobInv, Installed, T!NoCall
  <2> QED
    BY <1>1, <1>4, <2>1, <2>2 DEF InstallInv
<1> QED
  BY <1>4, <1>5, <1>6, <1>7

\* A directory that vanishes changes nothing in the form.
LEMMA VanishKeeps == ASSUME InstallerInv, NEW v \in Exists, T!Vanish(v) PROVE InstallerInv'
<1> USE DEF InstallerInv
<1>1. /\ UNCHANGED <<inputs, confInput, focusIndex, typing, loading, installed, failed, quit, prevConfig>>
      /\ UNCHANGED <<job, disk, commands, foreseen, svc, svcConf, call, failures>>
      /\ there' \subseteq Exists
  BY DEF T!Vanish, T!form, T!svcVars, T!TypeOK
<1>2. T!SvcTypeOK'
  BY <1>1 DEF T!TypeOK, T!SvcTypeOK
<1>3. T!TypeOK'
  BY <1>1, <1>2 DEF T!TypeOK, T!Submit
<1>4. FieldsInv' /\ JobsInv' /\ CliInv'
  BY <1>1 DEF FieldsInv, JobsInv, CliInv, T!NoCall, T!Status, T!Cli
<1>5. InstallInv'
  BY <1>1 DEF InstallInv, Alone, Untouched, Installed, FirstJobInv, T!NoCall
<1> QED
  BY <1>3, <1>4, <1>5 DEF InstallerSetUp, T!Jobs, T!Cli

\* Every step of the form, the commands and the service manager keeps the invariant.
LEMMA InstallerNext == InstallerInv /\ [T!Next]_(T!vars) => InstallerInv'
<1> SUFFICES ASSUME InstallerInv, [T!Next]_(T!vars) PROVE InstallerInv'
  OBVIOUS
<1>1. CASE UNCHANGED T!vars
  <2>1. /\ UNCHANGED <<inputs, confInput, focusIndex, typing, loading, installed, failed, quit, prevConfig>>
        /\ UNCHANGED <<job, disk, there, commands, foreseen, svc, svcConf, call, failures>>
    BY <1>1 DEF T!vars, T!form, T!svcVars
  <2>2. T!SvcTypeOK'
    BY <2>1 DEF InstallerInv, T!TypeOK, T!SvcTypeOK
  <2>3. InstallerSetUp' /\ T!TypeOK' /\ FieldsInv' /\ (Alone' <=> Alone)
    BY <2>1, <2>2, ServiceFrame DEF InstallerInv, T!TypeOK
  <2>4. JobsInv' /\ CliInv' /\ InstallInv'
    BY <2>1, <2>3 DEF InstallerInv, JobsInv, CliInv, InstallInv, FirstJobInv, Untouched, Installed, T!NoCall, T!Status
  <2> QED BY <2>3, <2>4 DEF InstallerInv
<1>2. CASE commands = 0 /\ T!Keys
  BY <1>2, KeysKeep, SubmitKeeps, EscapeKeeps
<1>3. ASSUME NEW j \in T!Jobs, T!InstallMsg(j) \/ T!WriteConfig(j) \/ T!InstallFails(j) \/ T!takeInstallAction(j) \/ T!JobCommand(j)
      PROVE  InstallerInv'
  BY <1>3, MsgKeeps, WriteKeeps, InstallFailsKeeps, ActionKeeps, JobCommandKeeps
<1> QED
  BY <1>1, <1>2, <1>3, VanishKeeps, CliBeginKeeps, CliCommandKeeps, ManagerKeeps DEF T!Next

\* The installation of the service is apart from the watcher that runs.
LEMMA InstallerInvariance == AdwatchdSafety => []InstallerInv
<1>1. AdwatchdInit => InstallerInv
  BY InstallerAssumption, InstallerInit DEF AdwatchdInit
<1>2. [AdwatchdNext]_allVars => [T!Next]_(T!vars)
  BY DEF AdwatchdNext, StepWatcher, StepInstaller, allVars, installerVars, T!vars, T!form, T!svcVars
<1> QED
  BY <1>1, <1>2, InstallerNext, PTL DEF AdwatchdSafety

\* watchdtui.go: whatever keys are pressed, with any number of fields filled in from a file
\* found, given or left by the service, and although directories vanish meanwhile, the
\* focus stays on the form and only directories that existed are submitted.
THEOREM FormsAreValid == AdwatchdSafety => []FormIsSound
<1>1. InstallerInv => FormIsSound
  BY DEF InstallerInv, JobsInv, T!FormIsSound, FormIsSound
<1> QED
  BY <1>1, InstallerInvariance, PTL

\* watchdservice.go, watchdtui.go: a form submitted once that reports no error has left
\* its service installed with its file, and a command that reports success has reached
\* its state, however the service manager refuses, is slow, or loses the service.
THEOREM SuccessIsReached == AdwatchdSafety => []SuccessIsInstalled
<1>1. ASSUME InstallerInv PROVE SuccessIsInstalled
  <2>1. ASSUME installed, ~failed, \A j \in T!Jobs \ {1} : job[j].stage = "none"
        PROVE  /\ svc \notin {"none", "removing"} /\ svcConf = job[1].conf
               /\ disk[job[1].conf] = job[1].dirs /\ job[1].dirs # {}
    <3>1. job[1].stage = "done" /\ FirstJobInv
      BY <1>1, <2>1 DEF InstallerInv, InstallInv, Alone
    <3> QED
      BY <2>1, <3>1 DEF FirstJobInv, Installed, Present
  <2> QED
    BY <1>1, <2>1 DEF InstallerInv, CliInv, SuccessIsInstalled, T!SuccessIsInstalled
<1> QED
  BY <1>1, InstallerInvariance, PTL
=============================================================================
