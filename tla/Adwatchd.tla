------------------------------ MODULE Adwatchd ------------------------------
(***************************************************************************)
(* adwatchd: the watcher of a running service, and the installation of     *)
(* that service.  They run in different processes: focus is the one that   *)
(* moves.                                                                  *)
(***************************************************************************)
EXTENDS Watcher

CONSTANTS Procs, Paths, NoPath, Values, Exists, Default, MaxSubmits, MaxInputs, MaxCommands

VARIABLES
  focus,
  svc, svcConf, call, failures,
  inputs, confInput, focusIndex, typing, loading, installed, failed, quit, prevConfig,
  job, disk, there, commands, foreseen

T == INSTANCE Installer

\* The default file is a file, a directory that exists is one that can be typed, and the
\* form's submissions and the command line are processes.
InstallerSetUp ==
  /\ Default \in Paths /\ NoPath \notin Paths /\ Exists \subseteq Values /\ T!Blank \notin Values
  /\ MaxSubmits \in Nat /\ MaxInputs \in Nat \ {0} /\ MaxCommands \in Nat
  /\ T!Jobs \cup {T!Cli} \subseteq Procs

ASSUME InstallerAssumption == InstallerSetUp

installerVars == <<svc, svcConf, call, failures, inputs, confInput, focusIndex, typing, loading, installed,
                   failed, quit, prevConfig, job, disk, there, commands, foreseen>>
allVars == <<focus, vars, installerVars>>

\* The service installed before has the default file: once there is one, its file is
\* the default, and the two files are interchangeable.
AdwatchdInit ==
  /\ focus \in {"watcher", "installer"}
  /\ Init /\ T!Init
  /\ prevConfig \in {NoPath, Default}
  /\ focus = "watcher" => prevConfig = NoPath /\ inputs = <<T!Empty>> /\ confInput = T!Blank

StepWatcher == focus = "watcher" /\ Next /\ UNCHANGED <<focus, installerVars>>
StepInstaller == focus = "installer" /\ T!Next /\ UNCHANGED <<focus, vars>>

AdwatchdNext == StepWatcher \/ StepInstaller

\* The fairness of the watcher's goroutines, as in FairSpec of Watcher.
Fairness ==
  /\ WF_allVars(focus = "watcher" /\ CommandStep /\ UNCHANGED <<focus, installerVars>>)
  /\ \A l \in Loops : WF_allVars(focus = "watcher" /\ LoopStep(l) /\ UNCHANGED <<focus, installerVars>>)

AdwatchdSafety == AdwatchdInit /\ [][AdwatchdNext]_allVars
AdwatchdSpec == AdwatchdSafety /\ Fairness

----------------------------------------------------------------------------
(* The terminal interface: only valid forms are submitted.                 *)
FormIsSound == T!FormIsSound

(* The terminal interface and the service commands: a success is one.      *)
SuccessIsInstalled == T!SuccessIsInstalled
=============================================================================
