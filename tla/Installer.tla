----------------------------- MODULE Installer -----------------------------
(***************************************************************************)
(* The terminal interface of adwatchd (internal/watchdtui): a form with a  *)
(* configuration file and directories, and the goroutine that writes the   *)
(* file and installs the service once the form is submitted.  Keys are     *)
(* still handled while that goroutine runs.                                *)
(*                                                                         *)
(* An administrator who uses the commands of 'adwatchd service' instead is *)
(* the process Cli.                                                        *)
(***************************************************************************)
EXTENDS WatchdService, Sequences, FiniteSets

CONSTANTS
  Values,       \* what may be typed as a directory
  Exists,       \* those that are directories when the form is opened
  Default,      \* the default configuration file
  MaxSubmits,   \* bound: how often the form is submitted
  MaxInputs,    \* bound: fields of the form
  MaxCommands   \* bound: commands of the administrator

Jobs == 1..MaxSubmits
Cli == 0

VARIABLES
  inputs,       \* the fields for directories: value and whether it shows an error
  confInput,    \* the field for the configuration file, Blank for the default
  focusIndex,   \* 0 for that file, then the directories, then the submit button
  typing, loading, installed, failed, quit,
  prevConfig,   \* the file of the service installed before, or NoPath
  job,          \* each submission: its stage, file and directories
  disk,         \* what the form has written in each configuration file, {} if nothing whole
  there,        \* the directories that still exist
  commands,     \* commands of the administrator so far
  foreseen      \* what a successful command of the administrator promises

form == <<inputs, confInput, focusIndex, typing, loading, installed, failed, quit, prevConfig>>
vars == <<form, job, disk, there, commands, foreseen, svcVars>>

\* A field with nothing in it.
Blank == ""

NoJob == [stage |-> "none", conf |-> NoPath, dirs |-> {}]
Submit == Len(inputs) + 1
Empty == [value |-> Blank, err |-> FALSE]

\* The file of the form, the one of the service if the field is blank, and its directories.
DefaultConfig == IF prevConfig # NoPath THEN prevConfig ELSE Default
ConfigFile == IF confInput = Blank THEN DefaultConfig ELSE confInput
Filled == {inputs[i].value : i \in DOMAIN inputs} \ {Blank}

TypeOK ==
  /\ SvcTypeOK
  /\ inputs \in Seq([value : Values \cup {Blank}, err : BOOLEAN]) /\ Len(inputs) \in 1..MaxInputs
  /\ focusIndex \in 0..Submit /\ confInput \in Paths \cup {Blank}
  /\ {typing, loading, installed, failed, quit} \subseteq BOOLEAN
  /\ prevConfig \in Paths \cup {NoPath}
  /\ job \in [Jobs -> [stage : {"none", "write", "act", "uninstall", "install", "msg", "fail", "done"},
                       conf : Paths \cup {NoPath}, dirs : SUBSET Values]]
  /\ disk \in [Paths -> SUBSET Values] /\ there \subseteq Exists /\ commands \in 0..MaxCommands
  /\ foreseen \in {"nothing", "running", "stopped", "none"}

\* initialModel: one field per directory of the file that was given, else of the one of
\* the service, else of the one that is found; they may be gone by now.
Init ==
  /\ prevConfig \in Paths \cup {NoPath} /\ confInput \in Paths \cup {Blank}
  /\ \E n \in 1..MaxInputs : \E v \in [1..n -> Values \cup {Blank}] :
       inputs = [i \in 1..n |-> [value |-> v[i], err |-> FALSE]]
  /\ disk = [p \in Paths |-> {}] /\ there = Exists
  /\ focusIndex = 0
  /\ typing = TRUE /\ loading = FALSE /\ installed = FALSE /\ failed = FALSE /\ quit = FALSE
  /\ job = [j \in Jobs |-> NoJob] /\ commands = 0 /\ foreseen = "nothing"
  /\ svcConf = prevConfig /\ svc = IF prevConfig = NoPath THEN "none" ELSE "running"
  /\ call = [p \in Procs |-> NoCall] /\ failures = 0

----------------------------------------------------------------------------
\* updateDirInputErrorAndStyle.
\* Mutant: any directory is fine.
HasErrorNever(s, i) == s[i].value = Blank /\ Len(s) = 1
HasError(s, i) == IF s[i].value = Blank THEN Len(s) = 1 ELSE s[i].value \notin there

\* The end of Update: quit once installed, else refresh the field with the focus.
Refresh(s, f) ==
  /\ focusIndex' = f
  /\ inputs' = IF typing /\ ~installed /\ ~loading /\ f \in DOMAIN s THEN [s EXCEPT ![f].err = HasError(s, f)] ELSE s
  /\ quit' = installed
  /\ UNCHANGED <<typing, loading, installed, failed, prevConfig, job, disk, there, commands, foreseen, svcVars>>

Blocked == focusIndex \in DOMAIN inputs /\ inputs[focusIndex].err

\* Mutant: nothing stops the focus at the first field.
UpFurther ==
  /\ ~quit
  /\ Refresh(inputs, IF Blocked THEN focusIndex ELSE focusIndex - 1)
  /\ UNCHANGED confInput
Up ==
  /\ ~quit
  /\ Refresh(inputs, IF Blocked \/ focusIndex = 0 THEN focusIndex ELSE focusIndex - 1)
  /\ UNCHANGED confInput

Down ==
  /\ ~quit
  /\ Refresh(inputs, IF Blocked \/ focusIndex = Submit THEN focusIndex ELSE focusIndex + 1)
  /\ UNCHANGED confInput

\* Backspace where there is nothing to erase.  From the first field it is also handled by
\* the one above, the configuration file, and erases a character there.
Backspace ==
  /\ ~quit /\ focusIndex # 0
  /\ CASE focusIndex = Submit -> Refresh(inputs, focusIndex - 1)
       [] focusIndex # Submit /\ inputs[focusIndex].value # Blank -> Refresh(inputs, focusIndex)
       [] focusIndex # Submit /\ inputs[focusIndex].value = Blank /\ focusIndex > 1 ->
            Refresh([i \in 1..(Len(inputs) - 1) |-> IF i < focusIndex THEN inputs[i] ELSE inputs[i + 1]], focusIndex - 1)
       [] OTHER -> Refresh(inputs, focusIndex - 1)
  /\ confInput' \in IF focusIndex = 1 /\ inputs[1].value = Blank /\ confInput # Blank /\ typing
                    THEN Paths \cup {Blank} ELSE {confInput}

\* Characters typed or erased in the field with the focus.
Type(v) ==
  /\ ~quit /\ typing /\ ~loading /\ ~installed /\ focusIndex \in DOMAIN inputs
  /\ Refresh([inputs EXCEPT ![focusIndex].value = v], focusIndex)
  /\ UNCHANGED confInput

TypeConfig(c) ==
  /\ ~quit /\ typing /\ ~loading /\ ~installed /\ focusIndex = 0 /\ confInput' = c
  /\ Refresh(inputs, 0)

\* Enter on a field: delete an empty one, else insert one below it.
EnterField ==
  /\ ~quit /\ focusIndex # Submit
  /\ CASE focusIndex = 0 -> Refresh(inputs, 1)
       [] focusIndex = 1 /\ inputs[1].value = Blank -> Refresh(inputs, 1)
       [] focusIndex > 1 /\ inputs[focusIndex].value = Blank ->
            Refresh([i \in 1..(Len(inputs) - 1) |-> IF i < focusIndex THEN inputs[i] ELSE inputs[i + 1]], focusIndex)
       [] OTHER ->
            IF Blocked THEN Refresh(inputs, focusIndex)
            ELSE /\ Len(inputs) < MaxInputs
                 /\ Refresh([i \in 1..(Len(inputs) + 1) |->
                       IF i <= focusIndex THEN inputs[i] ELSE IF i = focusIndex + 1 THEN Empty ELSE inputs[i - 1]],
                      focusIndex + 1)
  /\ UNCHANGED confInput

\* Enter on the submit button, which is not disabled by a submission under way.
EnterSubmit ==
  /\ ~quit /\ focusIndex = Submit
  /\ \E j \in Jobs :
       /\ job[j].stage = "none" /\ \A k \in 1..(j - 1) : job[k].stage # "none"
       /\ job' = [job EXCEPT ![j] =
            [stage |-> "write", conf |-> ConfigFile, dirs |-> Filled]]
  /\ typing' = FALSE /\ loading' = TRUE
  /\ UNCHANGED <<inputs, confInput, focusIndex, installed, failed, quit, prevConfig, disk, there, commands, foreseen, svcVars>>

Escape ==
  /\ ~quit /\ quit' = TRUE
  /\ UNCHANGED <<inputs, confInput, focusIndex, typing, loading, installed, failed, prevConfig,
                 job, disk, there, commands, foreseen, svcVars>>

\* The message of a submission that has ended.
InstallMsg(j) ==
  /\ ~quit /\ job[j].stage \in {"msg", "fail"}
  /\ loading' = FALSE /\ installed' = TRUE /\ failed' = (failed \/ job[j].stage = "fail")
  /\ job' = [job EXCEPT ![j].stage = "done"]
  /\ UNCHANGED <<inputs, confInput, focusIndex, typing, quit, prevConfig, disk, there, commands, foreseen, svcVars>>

----------------------------------------------------------------------------
\* installService, in its goroutine, which ends with the program.
JobTo(j, s) == job' = [job EXCEPT ![j].stage = s]

\* WriteConfig refuses an empty list and missing directories.
Writable(ds) == ds # {} /\ ds \subseteq there

WriteConfig(j) ==
  /\ ~quit /\ job[j].stage = "write"
  /\ IF Writable(job[j].dirs)
       THEN disk' = [disk EXCEPT ![job[j].conf] = job[j].dirs] /\ JobTo(j, "act")
       ELSE JobTo(j, "fail") /\ UNCHANGED disk
  /\ UNCHANGED <<form, there, commands, foreseen, svcVars>>

\* The file cannot be written, perhaps only half way, or the service not be described.
InstallFails(j) ==
  /\ ~quit /\ job[j].stage \in {"write", "act"} /\ JobTo(j, "fail")
  /\ failures < MaxFailures /\ failures' = failures + 1
  /\ UNCHANGED disk \/ (job[j].stage = "write" /\ disk' = [disk EXCEPT ![job[j].conf] = {}])
  /\ UNCHANGED <<form, there, commands, foreseen, svc, svcConf, call>>

\* takeInstallAction: nothing if the running service has this file; else uninstall
\* the old one, and install.
\* Mutant: an installed service is left alone.
FirstActionKept(j) == IF prevConfig # NoPath THEN "msg" ELSE "install"
FirstAction(j) ==
  IF prevConfig = job[j].conf THEN "msg" ELSE IF prevConfig # NoPath THEN "uninstall" ELSE "install"

takeInstallAction(j) ==
  /\ ~quit
  /\ \/ /\ job[j].stage = "act" /\ JobTo(j, FirstAction(j))
        /\ IF FirstAction(j) = "msg" THEN UNCHANGED call ELSE Begin(j, FirstAction(j), job[j].conf)
     \/ /\ job[j].stage = "uninstall" /\ call[j].stage = "ok" /\ JobTo(j, "install")
        /\ Begin(j, "install", job[j].conf)
     \/ /\ job[j].stage \in {"uninstall", "install"} /\ call[j].stage = "error" /\ JobTo(j, "fail")
        /\ UNCHANGED call
     \/ job[j].stage = "install" /\ call[j].stage = "ok" /\ JobTo(j, "msg") /\ UNCHANGED call
  /\ UNCHANGED <<form, disk, there, commands, foreseen, svc, svcConf, failures>>

JobCommand(j) == ~quit /\ Command(j) /\ UNCHANGED <<form, job, disk, there, commands, foreseen>>

\* 'adwatchd service', instead of the form, which is left as it was opened on no directory.
CliBegin(op) ==
  /\ commands < MaxCommands /\ commands' = commands + 1
  /\ inputs = <<Empty>> /\ confInput = Blank /\ focusIndex = 0 /\ ~quit /\ \A j \in Jobs : job[j].stage = "none"
  /\ Begin(Cli, op, Default)
  /\ foreseen' = (CASE op = "start" -> "running" [] op = "stop" -> "stopped" [] op = "uninstall" -> "none"
                    [] OTHER -> "nothing")
  /\ UNCHANGED <<form, job, disk, there, svc, svcConf, failures>>

CliCommand == Command(Cli) /\ UNCHANGED <<form, job, disk, there, commands, foreseen>>

\* The service manager is no part of the program.
Manager ==
  /\ ManagerStep \/ ServiceEnds
  /\ foreseen' = IF failures' # failures THEN "nothing" ELSE foreseen
  /\ UNCHANGED <<form, job, disk, there, commands>>

Vanish(v) ==
  /\ v \in there /\ there' = there \ {v} /\ UNCHANGED <<form, job, disk, commands, foreseen, svcVars>>

Keys ==
  \/ Up \/ Down \/ Backspace \/ EnterField \/ EnterSubmit \/ Escape
  \/ \E v \in Values \cup {Blank} : Type(v)
  \/ \E c \in Paths \cup {Blank} : TypeConfig(c)

Next ==
  \/ commands = 0 /\ (Keys \/ \E v \in Exists : Vanish(v))
  \/ \E j \in Jobs : InstallMsg(j) \/ WriteConfig(j) \/ InstallFails(j) \/ takeInstallAction(j) \/ JobCommand(j)
  \/ \E op \in Ops : CliBegin(op)
  \/ CliCommand
  \/ Manager

Spec == Init /\ [][Next]_vars

----------------------------------------------------------------------------
(* watchdtui.go: whatever keys are pressed, the focus stays on the form, the form    *)
(* keeps a field for a directory, and only directories that existed are submitted:   *)
(* an invalid field cannot be left, not even one of several that were filled in from *)
(* an old file, and none can be passed by.                                           *)
FormIsSound ==
  /\ TypeOK
  /\ \A j \in Jobs : job[j].dirs \subseteq Exists

(* A form submitted once that reports no error has left a service that is installed  *)
(* with a file that names the directories; a command of 'adwatchd service' that      *)
(* reports success has reached its state.                                            *)
SuccessIsInstalled ==
  /\ (installed /\ ~failed /\ (\A j \in Jobs \ {1} : job[j].stage = "none")) =>
       /\ svc \notin {"none", "removing"} /\ svcConf = job[1].conf
       /\ disk[job[1].conf] = job[1].dirs /\ job[1].dirs # {}
  /\ call[Cli].stage = "ok" /\ foreseen # "nothing" =>
       Status = foreseen \/ (foreseen = "stopped" /\ Status = "none")
=============================================================================
