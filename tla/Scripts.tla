------------------------------ MODULE Scripts ------------------------------
(***************************************************************************)
(* Package internal/policies/scripts, for one object (a user or the        *)
(* machine).  The daemon prepares the directory <run>/<object>/scripts in  *)
(* ApplyPolicy; a systemd unit runs `adsysd runscripts` on it, in other    *)
(* processes: once when the session starts and once when it stops.  The    *)
(* two sides meet only through the files of that directory.  Each update   *)
(* carries its own version of the scripts.                                 *)
(***************************************************************************)
EXTENDS Naturals, FiniteSets

CONSTANTS
  MaxUpdates,   \* bound: updates, each with a version of its own
  MaxSessions   \* bound: starts of the unit

ASSUME ScriptsAssumption == MaxUpdates \in Nat /\ MaxSessions \in Nat

\* logon or startup, and logoff or shutdown.
Lifecycles == {"start", "stop"}

VARIABLES
  isComputer, \* the object is the machine
  dir,        \* the scripts directory
  apply,      \* where ApplyPolicy is; the object's mutex allows one at a time
  entries,    \* its entries: which lifecycles have scripts
  updates,    \* updates so far; the last one is the version being applied
  failed,     \* whether the last ApplyPolicy returned an error
  unit,       \* the state of the systemd unit
  run,        \* where RunScripts is
  sessions,   \* sessions so far
  session,    \* history: version the session in progress started with
  ran,        \* history: versions of the scripts the session has run
  raced,      \* history: ApplyPolicy was at work before the session had its flag
  killed,     \* history: a session was killed and no later one has stopped
  given,      \* history: the entries of each update
  torn,       \* history: the daemon was killed while it removed the directory
  reached     \* history: the last update that began to replace the directory

applyVars == <<apply, entries, updates, failed, given, torn, reached>>
unitVars == <<unit, run, sessions, session, ran, raced, killed>>
vars == <<isComputer, dir, applyVars, unitVars>>

Versions == 0..MaxUpdates
NoDir == [made |-> FALSE, scripts |-> 0, orders |-> {}, ready |-> FALSE, running |-> FALSE]

TypeOK ==
  /\ isComputer \in BOOLEAN
  /\ dir \in [made : BOOLEAN, scripts : Versions, orders : SUBSET Lifecycles,
              ready : BOOLEAN, running : BOOLEAN]
  /\ ~dir.made => dir = NoDir
  /\ apply \in {"idle", "remove", "mkdir", "dump", "order", "startUnit", "starting"}
  /\ entries \in SUBSET Lifecycles
  /\ updates \in Versions
  /\ failed \in BOOLEAN
  /\ unit \in {"inactive", "starting", "active", "stopping"}
  /\ run \in {"none", "check", "flag", "open", "exec", "end"}
  /\ sessions \in 0..MaxSessions
  /\ session \in Versions
  /\ ran \in SUBSET Versions
  /\ raced \in BOOLEAN /\ killed \in BOOLEAN
  /\ given \in [1..MaxUpdates -> SUBSET Lifecycles]
  /\ torn \in BOOLEAN /\ reached \in Versions

Init ==
  /\ isComputer \in BOOLEAN
  /\ dir = NoDir
  /\ apply = "idle" /\ entries = {} /\ updates = 0 /\ failed = FALSE
  /\ unit = "inactive" /\ run = "none" /\ sessions = 0
  /\ session = 0 /\ ran = {} /\ raced = FALSE /\ killed = FALSE
  /\ given = [v \in 1..MaxUpdates |-> {}] /\ torn = FALSE /\ reached = 0

-----------------------------------------------------------------------------
(* ApplyPolicy. *)

\* RunScripts has been started for a session but has not created its flag.
NoFlagYet == unit = "starting" /\ run \in {"check", "flag"}

\* ApplyPolicy is changing the directory.
Preparing == apply \in {"remove", "mkdir", "dump", "order"}

Begin(es) ==
  /\ apply = "idle" /\ updates < MaxUpdates
  /\ updates' = updates + 1 /\ entries' = es
  /\ given' = [given EXCEPT ![updates'] = es]
  /\ UNCHANGED <<isComputer, dir, torn, unit, run, sessions, session, ran, killed>>

\* A user is looked up first; an error there is returned before anything is touched.
LookupFails == ~isComputer /\ failed' = TRUE /\ UNCHANGED <<apply, reached, raced>>

Replace ==
  /\ apply' = "remove" /\ reached' = updates' /\ failed' = FALSE
  /\ raced' = (raced \/ NoFlagYet)

\* Mutant: a session in progress does not stop the update.
ApplyPolicyAlways(es) == Begin(es) /\ (LookupFails \/ Replace)

\* Nothing is done while a session is in progress.
ApplyPolicy(es) ==
  /\ Begin(es)
  /\ \/ LookupFails
     \/ dir.running /\ failed' = FALSE /\ UNCHANGED <<apply, reached, raced>>
     \/ ~dir.running /\ Replace

\* No entry ends the update; there may also be entries that list no script.
AfterRemove == {"mkdir"} \cup (IF entries = {} THEN {"idle"} ELSE {})

\* Mutant: the previous scripts are kept until they are overwritten.
ApplyRemoveNothing ==
  /\ apply = "remove" /\ apply' \in AfterRemove
  /\ UNCHANGED <<isComputer, dir, entries, updates, failed, given, torn, reached, unitVars>>

\* RemoveAll deletes the files one by one, in no particular order...
Unlink ==
  /\ \/ dir.scripts # 0 /\ dir' = [dir EXCEPT !.scripts = 0]
     \/ \E l \in dir.orders : dir' = [dir EXCEPT !.orders = @ \ {l}]
     \/ dir.ready /\ dir' = [dir EXCEPT !.ready = FALSE]
     \/ dir.running /\ dir' = [dir EXCEPT !.running = FALSE]
  /\ UNCHANGED <<apply, failed, torn>>

\* ... and then the directory, which fails if RunScripts has created its flag in it
\* meanwhile.
Rmdir ==
  /\ dir \in {NoDir, [NoDir EXCEPT !.made = TRUE]}
  /\ dir' = NoDir /\ apply' \in AfterRemove
  /\ torn' = FALSE /\ UNCHANGED failed

RmdirFails ==
  /\ dir = [NoDir EXCEPT !.made = TRUE, !.running = TRUE]
  /\ apply' = "idle" /\ failed' = TRUE
  /\ UNCHANGED <<dir, torn>>

ApplyRemove ==
  /\ apply = "remove"
  /\ Unlink \/ Rmdir \/ RmdirFails
  /\ UNCHANGED <<isComputer, entries, updates, given, reached, unitVars>>

ApplyMkdir ==
  /\ apply = "mkdir"
  /\ dir' = [dir EXCEPT !.made = TRUE]
  /\ apply' = "dump"
  /\ UNCHANGED <<isComputer, entries, updates, failed, given, torn, reached, unitVars>>

\* The scripts are dumped from the assets; there may be no assets, or a script of
\* the policy may be missing from them or be a directory.
ApplyDump ==
  /\ apply = "dump"
  /\ \/ dir' = [dir EXCEPT !.scripts = updates] /\ apply' = "order" /\ UNCHANGED failed
     \/ dir' \in {dir, [dir EXCEPT !.scripts = updates]} /\ apply' = "idle" /\ failed' = TRUE
  /\ UNCHANGED <<isComputer, entries, updates, given, torn, reached, unitVars>>

\* One order file per lifecycle that has scripts.
ApplyOrder(l) ==
  /\ apply = "order" /\ l \in entries \ dir.orders
  /\ dir' = [dir EXCEPT !.orders = @ \cup {l}]
  /\ UNCHANGED <<isComputer, applyVars, unitVars>>

\* Mutant: the ready flag does not wait for the order files.
ApplyReadyEarly ==
  /\ apply = "order"
  /\ dir' = [dir EXCEPT !.ready = TRUE]
  /\ apply' = IF entries = dir.orders
              THEN IF isComputer /\ "start" \in dir.orders THEN "startUnit" ELSE "idle"
              ELSE apply
  /\ UNCHANGED <<isComputer, entries, updates, failed, given, torn, reached, unitVars>>

\* The ready flag comes last; a user's part ends here, and so does the machine's
\* when it has no startup script.
ApplyReady ==
  /\ apply = "order" /\ entries = dir.orders
  /\ dir' = [dir EXCEPT !.ready = TRUE]
  /\ apply' = IF isComputer /\ "start" \in dir.orders THEN "startUnit" ELSE "idle"
  /\ UNCHANGED <<isComputer, entries, updates, failed, given, torn, reached, unitVars>>

UnitStarts ==
  /\ unit = "inactive" /\ dir.ready /\ sessions < MaxSessions
  /\ unit' = "starting" /\ run' = "check"
  /\ sessions' = sessions + 1
  /\ session' = 0 /\ ran' = {}
  /\ raced' = Preparing
  /\ UNCHANGED killed

\* StartUnit on the machine's unit, and the wait for its job, which fails if the
\* unit does and succeeds if systemd skips the unit.
ApplyStartUnit ==
  /\ apply = "startUnit"
  /\ \/ UnitStarts
     \/ (unit # "inactive" \/ ~dir.ready \/ sessions = MaxSessions) /\ UNCHANGED unitVars
  /\ apply' = "starting"
  /\ UNCHANGED <<isComputer, dir, entries, updates, failed, given, torn, reached>>

ApplyStarted ==
  /\ apply = "starting" /\ unit # "starting"
  /\ apply' = "idle" /\ failed' \in {FALSE, unit = "inactive"}
  /\ UNCHANGED <<isComputer, dir, entries, updates, given, torn, reached, unitVars>>

\* The daemon is killed: the directory stays as it is.
DaemonCrash ==
  /\ apply # "idle" /\ apply' = "idle"
  /\ torn' = (torn \/ apply = "remove")
  /\ UNCHANGED <<isComputer, dir, entries, updates, failed, given, reached, unitVars>>

-----------------------------------------------------------------------------
(* The systemd unit (external), and the RunScripts processes it starts. *)

\* A session starts, or default.target is reached; ConditionPathExists=.ready.
SessionStart ==
  /\ UnitStarts
  /\ UNCHANGED <<isComputer, dir, applyVars>>

SessionStop ==
  /\ unit = "active"
  /\ unit' = "stopping" /\ run' = "check"
  /\ UNCHANGED <<isComputer, dir, applyVars, sessions, session, ran, raced, killed>>

\* The processes of the session are killed: ExecStop is not run.
SessionKill ==
  /\ unit # "inactive"
  /\ unit' = "inactive" /\ run' = "none"
  /\ killed' = TRUE
  /\ UNCHANGED <<isComputer, dir, applyVars, sessions, session, ran, raced>>

RunFrame == <<isComputer, applyVars, sessions>>
RunFails == unit' = "inactive" /\ run' = "none"

\* RunScripts refuses a directory that is not ready.
RunCheck ==
  /\ run = "check"
  /\ IF dir.ready THEN run' = "flag" /\ UNCHANGED unit ELSE RunFails
  /\ UNCHANGED <<RunFrame, dir, session, ran, raced, killed>>

\* Mutant: the flag is created even if the directory is gone.
RunFlagAnyway ==
  /\ run = "flag"
  /\ dir' = [dir EXCEPT !.running = TRUE] /\ run' = "open"
  /\ UNCHANGED <<RunFrame, unit, session, ran, raced, killed>>

\* The session flag is created, if the directory is still there.
RunFlag ==
  /\ run = "flag"
  /\ IF dir.made
     THEN dir' = [dir EXCEPT !.running = TRUE] /\ run' = "open" /\ UNCHANGED unit
     ELSE RunFails /\ UNCHANGED dir
  /\ UNCHANGED <<RunFrame, session, ran, raced, killed>>

\* The order file is opened; it may be missing (--allow-order-missing).
RunOpen ==
  /\ run = "open"
  /\ IF (IF unit = "starting" THEN "start" ELSE "stop") \in dir.orders
     THEN run' = "exec" ELSE run' = "end"
  /\ session' = IF unit = "starting" THEN dir.scripts ELSE session
  /\ UNCHANGED <<RunFrame, dir, unit, ran, raced, killed>>

\* The next script of the list is executed, from the directory as it is now; a
\* failure to execute it is only logged.
RunExec ==
  /\ run = "exec"
  /\ ran' = IF dir.scripts # 0 THEN ran \cup {dir.scripts} ELSE ran
  /\ run' \in {"exec", "end"}
  /\ UNCHANGED <<RunFrame, dir, unit, session, raced, killed>>

\* Mutant: logoff leaves the session flag.
RunEndKeepsFlag ==
  /\ run = "end" /\ run' = "none"
  /\ IF unit = "starting"
     THEN unit' = "active" /\ UNCHANGED <<dir, killed>>
     ELSE unit' = "inactive" /\ killed' = FALSE /\ UNCHANGED dir
  /\ UNCHANGED <<RunFrame, session, ran, raced>>

\* logoff and shutdown remove the session flag when they return.
RunEnd ==
  /\ run = "end" /\ run' = "none"
  /\ IF unit = "starting"
     THEN unit' = "active" /\ UNCHANGED <<dir, killed>>
     ELSE unit' = "inactive" /\ dir' = [dir EXCEPT !.running = FALSE] /\ killed' = FALSE
  /\ UNCHANGED <<RunFrame, session, ran, raced>>

-----------------------------------------------------------------------------
ApplyStep ==
  \/ ApplyRemove \/ ApplyMkdir \/ ApplyDump \/ ApplyReady
  \/ \E l \in Lifecycles : ApplyOrder(l)
  \/ ApplyStartUnit \/ ApplyStarted
RunStep == RunCheck \/ RunFlag \/ RunOpen \/ RunExec \/ RunEnd

Next ==
  \/ \E es \in SUBSET Lifecycles : ApplyPolicy(es)
  \/ ApplyStep \/ DaemonCrash
  \/ SessionStart \/ SessionStop \/ SessionKill
  \/ RunStep

Spec == Init /\ [][Next]_vars

-----------------------------------------------------------------------------
\* Transactional sessions: whatever is published meanwhile, a session runs at
\* logoff the scripts of the version it had at logon.
SessionKeepsVersion == unit # "inactive" => ran \subseteq {session}

\* What the two flags do guarantee: a session runs scripts of one version only,
\* provided no update was at work when it created its session flag.
UnracedSessionKeepsVersion == ~raced => SessionKeepsVersion

\* A directory that is marked as ready holds the scripts and all the order files
\* of one update, even if the daemon was killed while preparing it, so no session
\* runs half of a policy; unless the directory is being removed, or the daemon was
\* killed while it removed it.
ReadyMeansComplete ==
  (dir.ready /\ apply # "remove" /\ ~torn)
     => dir.scripts # 0 /\ dir.orders = given[dir.scripts]

\* Older scripts do not outlive an update that got past the user and the session flag:
\* from then on only its own scripts may be ready, whether it succeeds, fails or is
\* killed (but for a kill inside the removal), and if it fails for a user none are.  An
\* update that was turned away before, by either, leaves the scripts that were there.
OlderScriptsAreGone ==
  /\ (dir.ready /\ apply # "remove" /\ ~torn) => dir.scripts = reached
  /\ (failed /\ ~isComputer /\ reached = updates) => ~dir.ready

\* The session flag outlives no session, unless one was killed or raced with an
\* update: otherwise later updates would be ignored for ever.
FlagMeansSession == (dir.running /\ unit = "inactive") => killed \/ raced
-----------------------------------------------------------------------------
\* What each step of ApplyPolicy may count on from the previous ones.
PrepareInv ==
  /\ dir.scripts <= updates /\ reached <= updates
  /\ dir.ready => dir.made
  /\ apply # "idle" => updates > 0 /\ given[updates] = entries /\ ~failed /\ reached = updates
  /\ apply = "mkdir" => dir = NoDir
  /\ apply \in {"dump", "order"} => dir.made /\ ~dir.ready
  /\ apply = "dump" => dir.scripts = 0 /\ dir.orders = {}
  /\ apply = "order" => dir.scripts = updates
  /\ apply \in {"startUnit", "starting"} => isComputer

\* A session that no update disturbed before it had its flag: the flag keeps
\* updates away, so that the directory is the one it started with.
SessionInv ==
  /\ run = "none" <=> unit \in {"inactive", "active"}
  /\ (unit # "inactive" /\ ~raced) =>
       /\ ~Preparing /\ dir.ready
       /\ IF NoFlagYet THEN ran = {}
          ELSE /\ dir.running
               /\ IF unit = "starting" /\ run = "open" THEN ran = {}
                  ELSE session = dir.scripts /\ ran \subseteq {session}

\* The inductive invariant of the two sides of the directory.
IInv ==
  /\ TypeOK
  /\ PrepareInv
  /\ SessionInv
  /\ ReadyMeansComplete
  /\ OlderScriptsAreGone
  /\ FlagMeansSession
=============================================================================
