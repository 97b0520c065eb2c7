--------------------------- MODULE WatchdService ---------------------------
(***************************************************************************)
(* Package internal/watchdservice: the commands that install, start, stop  *)
(* and remove adwatchd as a system service.  The service manager does what *)
(* it is asked to later, or not at all; a command polls its state until it *)
(* is the expected one or a few seconds have passed.                       *)
(***************************************************************************)
EXTENDS Naturals

CONSTANTS
  Procs,        \* who runs commands: 0 the administrator, 1.. the forms submitted
  Paths,        \* configuration files
  NoPath,
  MaxFailures   \* bound: requests refused, services that end by themselves

VARIABLES
  svc,          \* the service, as its manager knows it
  svcConf,      \* the configuration file in its arguments
  call,         \* the command of each process
  failures

svcVars == <<svc, svcConf, call, failures>>

Ops == {"start", "stop", "restart", "install", "uninstall"}
NoCall == [op |-> "none", conf |-> NoPath, stage |-> "idle"]

SvcTypeOK ==
  /\ svc \in {"none", "stopped", "starting", "running", "stopping", "removing"}
  /\ svcConf \in Paths \cup {NoPath} /\ failures \in 0..MaxFailures
  /\ call \in [Procs -> [op : Ops \cup {"none"}, conf : Paths \cup {NoPath},
                         stage : {"idle", "begin", "again", "remove", "wait", "ok", "error"}]]

\* What the manager reports: a transition counts as where it leads to.
Status ==
  CASE svc \in {"starting", "running"} -> "running"
    [] svc \in {"stopping", "stopped", "removing"} -> "stopped"
    [] OTHER -> "none"

Begin(p, op, c) ==
  /\ call[p].stage \in {"idle", "ok", "error"}
  /\ call' = [call EXCEPT ![p] = [op |-> op, conf |-> c, stage |-> "begin"]]

To(p, s) == call' = [call EXCEPT ![p].stage = s]
Is(p, op, s) == call[p].op = op /\ call[p].stage = s

\* A request to the manager: accepted, and the service moves, or refused.
Ask(p, s, next) ==
  \/ svc' = s /\ To(p, next) /\ UNCHANGED failures
  \/ failures < MaxFailures /\ failures' = failures + 1 /\ To(p, "error") /\ UNCHANGED svc

Start(p) ==
  /\ Is(p, "start", "begin")
  /\ CASE Status = "none" -> To(p, "error") /\ UNCHANGED <<svc, failures>>
       [] Status = "running" -> To(p, "ok") /\ UNCHANGED <<svc, failures>>
       [] OTHER -> Ask(p, "starting", "wait")
  /\ UNCHANGED svcConf

Stop(p) ==
  /\ Is(p, "stop", "begin")
  /\ CASE Status = "none" -> To(p, "error") /\ UNCHANGED <<svc, failures>>
       [] Status = "stopped" -> To(p, "ok") /\ UNCHANGED <<svc, failures>>
       [] OTHER -> Ask(p, "stopping", "wait")
  /\ UNCHANGED svcConf

\* Restart waits neither for the stop nor for the start.
Restart(p) ==
  /\ \/ /\ Is(p, "restart", "begin")
        /\ CASE Status = "none" -> To(p, "error") /\ UNCHANGED <<svc, failures>>
             [] Status = "running" -> Ask(p, "stopping", "again")
             [] OTHER -> To(p, "again") /\ UNCHANGED <<svc, failures>>
     \/ Is(p, "restart", "again") /\ Ask(p, "starting", "ok")
  /\ UNCHANGED svcConf

\* Install: the service exists, but its manager need not start it.
Install(p) ==
  /\ Is(p, "install", "begin")
  /\ IF svc = "none"
       THEN Ask(p, "stopped", "wait") /\ svcConf' = IF svc' = "stopped" THEN call[p].conf ELSE svcConf
       ELSE To(p, "error") /\ UNCHANGED <<svc, svcConf, failures>>

Uninstall(p) ==
  /\ \/ /\ Is(p, "uninstall", "begin")
        /\ CASE Status = "none" -> To(p, "ok") /\ UNCHANGED <<svc, failures>>
             [] Status = "running" -> Ask(p, "stopping", "remove")
             [] OTHER -> To(p, "remove") /\ UNCHANGED <<svc, failures>>
     \/ Is(p, "uninstall", "remove") /\ Ask(p, "removing", "wait")
  /\ UNCHANGED svcConf

\* What a command waits for.
Expected == [start |-> "running", stop |-> "stopped", install |-> "running", uninstall |-> "none"]

\* waitForStatus: the status is the expected one, ...
Reached(p) ==
  /\ call[p].stage = "wait" /\ Status = Expected[call[p].op] /\ To(p, "ok")
  /\ UNCHANGED <<svc, svcConf, failures>>

\* ... or the time is over, which is an error; Install then starts the service itself.
\* Mutant: the end of the wait is a success.
TimedOutIsReached(p) == To(p, "ok") /\ UNCHANGED <<svc, failures>>
TimedOut(p) ==
  IF call[p].op = "install" THEN Ask(p, "starting", "ok") ELSE To(p, "error") /\ UNCHANGED <<svc, failures>>

WaitEnds(p) ==
  /\ call[p].stage = "wait" /\ Status # Expected[call[p].op] /\ TimedOut(p)
  /\ UNCHANGED svcConf

Command(p) == Start(p) \/ Stop(p) \/ Restart(p) \/ Install(p) \/ Uninstall(p) \/ Reached(p) \/ WaitEnds(p)

\* The service manager: transitions end; a service may end by itself.
ManagerStep ==
  /\ svc' = (CASE svc = "starting" -> "running" [] svc = "stopping" -> "stopped" [] svc = "removing" -> "none"
               [] OTHER -> svc)
  /\ svc' # svc /\ svcConf' = IF svc' = "none" THEN NoPath ELSE svcConf
  /\ UNCHANGED <<call, failures>>

ServiceEnds ==
  /\ svc \in {"starting", "running"} /\ svc' = "stopped"
  /\ failures < MaxFailures /\ failures' = failures + 1
  /\ UNCHANGED <<svcConf, call>>
=============================================================================
