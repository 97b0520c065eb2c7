--------------------------- MODULE ScriptsProofs ---------------------------
(***************************************************************************)
(* The two flags of the scripts directory keep the updates and the session *)
(* apart, for any number of updates and sessions.  The invariant IInv of   *)
(* Scripts says what each step of ApplyPolicy may count on, and what the   *)
(* session flag protects once it is there; each lemma takes it through one *)
(* action.                                                                 *)
(***************************************************************************)
EXTENDS Scripts, TLAPS

USE DEF Versions, Lifecycles

\* The bounds are numbers (updates and sessions are counted from 0).
LEMMA Bounds == MaxUpdates \in Nat /\ MaxSessions \in Nat
  BY ScriptsAssumption DEF ScriptsAssumption

\* The invariant holds of the empty directory that New() leaves.
LEMMA InitIInv == Init => IInv
<1> SUFFICES ASSUME Init PROVE IInv OBVIOUS
<1> USE Bounds DEF Init, NoDir
<1>1. TypeOK
  <2>1. dir \in [made : BOOLEAN, scripts : Versions, orders : SUBSET Lifecycles,
                 ready : BOOLEAN, running : BOOLEAN]
    OBVIOUS
  <2>2. updates \in Versions /\ session \in Versions /\ sessions \in 0..MaxSessions
        /\ ran \in SUBSET Versions
    OBVIOUS
  <2>3. given \in [1..MaxUpdates -> SUBSET Lifecycles]
    OBVIOUS
  <2> QED BY <2>1, <2>2, <2>3 DEF TypeOK
<1>2. PrepareInv
  BY DEF PrepareInv
<1>3. SessionInv
  BY DEF SessionInv
<1>4. ReadyMeansComplete /\ OlderScriptsAreGone /\ FlagMeansSession
  BY DEF ReadyMeansComplete, OlderScriptsAreGone, FlagMeansSession
<1> QED BY <1>1, <1>2, <1>3, <1>4 DEF IInv

\* An update replaces the directory only if it found its user and no session flag.
LEMMA ApplyPolicyStep == ASSUME IInv, NEW es \in SUBSET Lifecycles, ApplyPolicy(es) PROVE IInv'
<1> USE Bounds DEF IInv, ApplyPolicy, Begin, LookupFails, Replace
<1>1. TypeOK'
  <2>1. raced' \in BOOLEAN /\ failed' \in BOOLEAN
    BY DEF NoFlagYet, TypeOK
  <2>2. updates' \in Versions /\ given' \in [1..MaxUpdates -> SUBSET Lifecycles] /\ reached' \in Versions
    BY DEF TypeOK
  <2>3. apply' \in {"idle", "remove"} /\ entries' = es
    OBVIOUS
  <2> QED BY ZenonT(60), <2>1, <2>2, <2>3 DEF TypeOK
<1>2. PrepareInv'
  BY DEF TypeOK, PrepareInv, NoDir
<1>3. SessionInv' /\ FlagMeansSession'
  BY DEF TypeOK, PrepareInv, SessionInv, FlagMeansSession, Preparing, NoFlagYet, NoDir
<1>4. ReadyMeansComplete'
  BY DEF TypeOK, PrepareInv, ReadyMeansComplete, NoDir
<1>5. OlderScriptsAreGone'
  BY DEF TypeOK, PrepareInv, OlderScriptsAreGone, NoDir
<1> QED BY <1>1, <1>2, <1>3, <1>4, <1>5

\* RemoveAll, file by file.
LEMMA ApplyRemoveStep == ASSUME IInv, ApplyRemove PROVE IInv'
<1> USE Bounds DEF IInv, ApplyRemove, unitVars
<1> DEFINE Dirs == [made : BOOLEAN, scripts : Versions, orders : SUBSET Lifecycles,
                    ready : BOOLEAN, running : BOOLEAN]
<1>0. SessionInv'
  BY DEF TypeOK, PrepareInv, SessionInv, Preparing, NoFlagYet, NoDir, Unlink, Rmdir, RmdirFails
<1>1. CASE Unlink
  <2>1. dir.made /\ dir \in Dirs
    BY <1>1 DEF TypeOK, NoDir, Unlink
  <2>2. dir' \in Dirs /\ dir'.made
    <3>1. CASE dir' = [dir EXCEPT !.scripts = 0]
      BY <2>1, <3>1
    <3>2. ASSUME NEW l \in dir.orders, dir' = [dir EXCEPT !.orders = @ \ {l}]
          PROVE  dir' \in Dirs /\ dir'.made
      BY <2>1, <3>2
    <3>3. CASE dir' = [dir EXCEPT !.ready = FALSE]
      BY <2>1, <3>3
    <3>4. CASE dir' = [dir EXCEPT !.running = FALSE]
      BY <2>1, <3>4
    <3> QED BY <1>1, <3>1, <3>2, <3>3, <3>4 DEF Unlink
  <2>3. TypeOK'
    BY <1>1, <2>2 DEF TypeOK, Unlink
  <2>4. PrepareInv'
    BY <1>1, <2>2 DEF TypeOK, PrepareInv, Unlink
  <2>5. ReadyMeansComplete'
    BY <1>1 DEF ReadyMeansComplete, Unlink
  <2>6. OlderScriptsAreGone' /\ FlagMeansSession'
    BY <1>1, <2>1, <2>2 DEF TypeOK, OlderScriptsAreGone, FlagMeansSession, Unlink
  <2> QED BY <1>0, <2>3, <2>4, <2>5, <2>6
<1>2. CASE Rmdir
  <2>1. NoDir \in Dirs /\ ~NoDir.ready /\ ~NoDir.running /\ NoDir.scripts = 0
    BY DEF NoDir
  <2>2. TypeOK'
    <3>1. apply' \in {"idle", "mkdir"}
      BY <1>2 DEF Rmdir, AfterRemove
    <3>2. dir' \in Dirs /\ (~dir'.made => dir' = NoDir)
      BY <1>2, <2>1 DEF Rmdir
    <3> QED BY ZenonT(60), <1>2, <3>1, <3>2 DEF TypeOK, Rmdir
  <2>3. PrepareInv' /\ ReadyMeansComplete' /\ OlderScriptsAreGone' /\ FlagMeansSession'
    BY <1>2, <2>1 DEF TypeOK, PrepareInv, ReadyMeansComplete, OlderScriptsAreGone,
                      FlagMeansSession, Rmdir, AfterRemove
  <2> QED BY <1>0, <2>2, <2>3
<1>3. CASE RmdirFails
  BY <1>0, <1>3 DEF TypeOK, PrepareInv, ReadyMeansComplete, OlderScriptsAreGone,
                    FlagMeansSession, NoDir, RmdirFails
<1> QED BY <1>1, <1>2, <1>3

\* The directory is made.
LEMMA ApplyMkdirStep == ASSUME IInv, ApplyMkdir PROVE IInv'
<1> USE Bounds DEF IInv, ApplyMkdir, unitVars
<1>1. TypeOK'
  BY DEF TypeOK, PrepareInv, NoDir
<1>2. PrepareInv'
  BY DEF TypeOK, PrepareInv, NoDir
<1>3. SessionInv' /\ FlagMeansSession'
  BY DEF TypeOK, PrepareInv, SessionInv, FlagMeansSession, Preparing, NoFlagYet, NoDir
<1>4. ReadyMeansComplete' /\ OlderScriptsAreGone'
  BY DEF TypeOK, PrepareInv, ReadyMeansComplete, OlderScriptsAreGone, NoDir
<1> QED BY <1>1, <1>2, <1>3, <1>4

\* The scripts are dumped, or the update fails before the ready flag.
LEMMA ApplyDumpStep == ASSUME IInv, ApplyDump PROVE IInv'
<1> USE Bounds DEF IInv, ApplyDump, unitVars
<1>1. TypeOK'
  BY ZenonT(60) DEF TypeOK, PrepareInv, NoDir
<1>2. PrepareInv'
  BY DEF TypeOK, PrepareInv, NoDir
<1>3. SessionInv' /\ FlagMeansSession'
  BY DEF TypeOK, PrepareInv, SessionInv, FlagMeansSession, Preparing, NoFlagYet, NoDir
<1>4. ReadyMeansComplete' /\ OlderScriptsAreGone'
  BY DEF TypeOK, PrepareInv, ReadyMeansComplete, OlderScriptsAreGone, NoDir
<1> QED BY <1>1, <1>2, <1>3, <1>4

\* An order file is written.
LEMMA ApplyOrderStep == ASSUME IInv, NEW l \in Lifecycles, ApplyOrder(l) PROVE IInv'
<1> USE Bounds DEF IInv, ApplyOrder, applyVars, unitVars
<1>1. TypeOK'
  BY DEF TypeOK, PrepareInv, NoDir
<1>2. PrepareInv'
  BY DEF TypeOK, PrepareInv, NoDir
<1>3. SessionInv' /\ FlagMeansSession'
  BY DEF TypeOK, PrepareInv, SessionInv, FlagMeansSession, Preparing, NoFlagYet, NoDir
<1>4. ReadyMeansComplete' /\ OlderScriptsAreGone'
  BY DEF TypeOK, PrepareInv, ReadyMeansComplete, OlderScriptsAreGone, NoDir
<1> QED BY <1>1, <1>2, <1>3, <1>4

\* The ready flag: the order files are all there.
LEMMA ApplyReadyStep == ASSUME IInv, ApplyReady PROVE IInv'
<1> USE Bounds DEF IInv, ApplyReady, unitVars
<1>1. TypeOK'
  BY DEF TypeOK, PrepareInv, NoDir
<1>2. PrepareInv'
  BY DEF TypeOK, PrepareInv, NoDir
<1>3. SessionInv' /\ FlagMeansSession'
  BY DEF TypeOK, PrepareInv, SessionInv, FlagMeansSession, Preparing, NoFlagYet, NoDir
<1>4. ReadyMeansComplete' /\ OlderScriptsAreGone'
  BY DEF TypeOK, PrepareInv, ReadyMeansComplete, OlderScriptsAreGone, NoDir
<1> QED BY <1>1, <1>2, <1>3, <1>4

\* The machine's unit is started.
LEMMA ApplyStartUnitStep == ASSUME IInv, ApplyStartUnit PROVE IInv'
<1> USE Bounds DEF IInv, ApplyStartUnit, unitVars, UnitStarts
<1>1. TypeOK'
  <2>1. CASE UnitStarts
    BY <2>1 DEF TypeOK, Preparing
  <2>2. CASE UNCHANGED unitVars
    BY <2>2 DEF TypeOK
  <2> QED BY <2>1, <2>2
<1>2. PrepareInv'
  BY DEF TypeOK, PrepareInv, NoDir
<1>3. SessionInv' /\ FlagMeansSession'
  BY DEF TypeOK, PrepareInv, SessionInv, FlagMeansSession, Preparing, NoFlagYet, NoDir
<1>4. ReadyMeansComplete' /\ OlderScriptsAreGone'
  BY DEF TypeOK, PrepareInv, ReadyMeansComplete, OlderScriptsAreGone, NoDir
<1> QED BY <1>1, <1>2, <1>3, <1>4

\* The job of the machine's unit ends.
LEMMA ApplyStartedStep == ASSUME IInv, ApplyStarted PROVE IInv'
<1> USE Bounds DEF IInv, ApplyStarted, unitVars
<1>1. TypeOK'
  BY ZenonT(60) DEF TypeOK, PrepareInv, NoDir
<1>2. PrepareInv'
  BY DEF TypeOK, PrepareInv, NoDir
<1>3. SessionInv' /\ FlagMeansSession'
  BY DEF TypeOK, PrepareInv, SessionInv, FlagMeansSession, Preparing, NoFlagYet, NoDir
<1>4. ReadyMeansComplete' /\ OlderScriptsAreGone'
  BY DEF TypeOK, PrepareInv, ReadyMeansComplete, OlderScriptsAreGone, NoDir
<1> QED BY <1>1, <1>2, <1>3, <1>4

\* A crash of the daemon at any step of an update.
LEMMA DaemonCrashStep == ASSUME IInv, DaemonCrash PROVE IInv'
<1> USE Bounds DEF IInv, DaemonCrash, unitVars
<1>1. TypeOK'
  BY DEF TypeOK, PrepareInv, NoDir
<1>2. PrepareInv'
  BY DEF TypeOK, PrepareInv, NoDir
<1>3. SessionInv' /\ FlagMeansSession'
  BY DEF TypeOK, PrepareInv, SessionInv, FlagMeansSession, Preparing, NoFlagYet, NoDir
<1>4. ReadyMeansComplete' /\ OlderScriptsAreGone'
  BY DEF TypeOK, PrepareInv, ReadyMeansComplete, OlderScriptsAreGone, NoDir
<1> QED BY <1>1, <1>2, <1>3, <1>4

\* A session starts on a ready directory.
LEMMA SessionStartStep == ASSUME IInv, SessionStart PROVE IInv'
<1> USE Bounds DEF IInv, SessionStart, applyVars, UnitStarts
<1>1. TypeOK'
  BY DEF TypeOK, Preparing
<1>2. PrepareInv'
  BY DEF TypeOK, PrepareInv, NoDir
<1>3. SessionInv' /\ FlagMeansSession'
  BY DEF TypeOK, PrepareInv, SessionInv, FlagMeansSession, Preparing, NoFlagYet, NoDir
<1>4. ReadyMeansComplete' /\ OlderScriptsAreGone'
  BY DEF TypeOK, PrepareInv, ReadyMeansComplete, OlderScriptsAreGone, NoDir
<1> QED BY <1>1, <1>2, <1>3, <1>4

\* A session stops.
LEMMA SessionStopStep == ASSUME IInv, SessionStop PROVE IInv'
<1> USE Bounds DEF IInv, SessionStop, applyVars
<1>1. TypeOK'
  BY DEF TypeOK, PrepareInv, NoDir
<1>2. PrepareInv'
  BY DEF TypeOK, PrepareInv, NoDir
<1>3. SessionInv' /\ FlagMeansSession'
  BY DEF TypeOK, PrepareInv, SessionInv, FlagMeansSession, Preparing, NoFlagYet, NoDir
<1>4. ReadyMeansComplete' /\ OlderScriptsAreGone'
  BY DEF TypeOK, PrepareInv, ReadyMeansComplete, OlderScriptsAreGone, NoDir
<1> QED BY <1>1, <1>2, <1>3, <1>4

\* A session is killed.
LEMMA SessionKillStep == ASSUME IInv, SessionKill PROVE IInv'
<1> USE Bounds DEF IInv, SessionKill, applyVars
<1>1. TypeOK'
  BY DEF TypeOK, PrepareInv, NoDir
<1>2. PrepareInv'
  BY DEF TypeOK, PrepareInv, NoDir
<1>3. SessionInv' /\ FlagMeansSession'
  BY DEF TypeOK, PrepareInv, SessionInv, FlagMeansSession, Preparing, NoFlagYet, NoDir
<1>4. ReadyMeansComplete' /\ OlderScriptsAreGone'
  BY DEF TypeOK, PrepareInv, ReadyMeansComplete, OlderScriptsAreGone, NoDir
<1> QED BY <1>1, <1>2, <1>3, <1>4

\* RunScripts checks the ready flag.
LEMMA RunCheckStep == ASSUME IInv, RunCheck PROVE IInv'
<1> USE Bounds DEF IInv, RunCheck, applyVars, RunFrame, RunFails
<1>1. TypeOK'
  BY DEF TypeOK, PrepareInv, NoDir
<1>2. PrepareInv'
  BY DEF TypeOK, PrepareInv, NoDir
<1>3. SessionInv' /\ FlagMeansSession'
  BY DEF TypeOK, PrepareInv, SessionInv, FlagMeansSession, Preparing, NoFlagYet, NoDir
<1>4. ReadyMeansComplete' /\ OlderScriptsAreGone'
  BY DEF TypeOK, PrepareInv, ReadyMeansComplete, OlderScriptsAreGone, NoDir
<1> QED BY <1>1, <1>2, <1>3, <1>4

\* RunScripts creates the session flag.
LEMMA RunFlagStep == ASSUME IInv, RunFlag PROVE IInv'
<1> USE Bounds DEF IInv, RunFlag, applyVars, RunFrame, RunFails
<1>1. TypeOK'
  <2>1. CASE dir.made
    BY ZenonT(60), <2>1 DEF TypeOK
  <2>2. CASE ~dir.made
    BY <2>2 DEF TypeOK
  <2> QED BY <2>1, <2>2
<1>2. PrepareInv'
  BY DEF TypeOK, PrepareInv, NoDir
<1>3. SessionInv' /\ FlagMeansSession'
  BY DEF TypeOK, PrepareInv, SessionInv, FlagMeansSession, Preparing, NoFlagYet, NoDir
<1>4. ReadyMeansComplete' /\ OlderScriptsAreGone'
  BY DEF TypeOK, PrepareInv, ReadyMeansComplete, OlderScriptsAreGone, NoDir
<1> QED BY <1>1, <1>2, <1>3, <1>4

\* RunScripts opens the order file.
LEMMA RunOpenStep == ASSUME IInv, RunOpen PROVE IInv'
<1> USE Bounds DEF IInv, RunOpen, applyVars, RunFrame
<1>1. TypeOK'
  BY DEF TypeOK, PrepareInv, NoDir
<1>2. PrepareInv'
  BY DEF TypeOK, PrepareInv, NoDir
<1>3. SessionInv' /\ FlagMeansSession'
  BY DEF TypeOK, PrepareInv, SessionInv, FlagMeansSession, Preparing, NoFlagYet, NoDir
<1>4. ReadyMeansComplete' /\ OlderScriptsAreGone'
  BY DEF TypeOK, PrepareInv, ReadyMeansComplete, OlderScriptsAreGone, NoDir
<1> QED BY <1>1, <1>2, <1>3, <1>4

\* RunScripts executes a script.
LEMMA RunExecStep == ASSUME IInv, RunExec PROVE IInv'
<1> USE Bounds DEF IInv, RunExec, applyVars, RunFrame
<1>1. TypeOK'
  <2>1. dir.scripts \in Versions
    BY DEF TypeOK
  <2>2. ran' \in SUBSET Versions
    BY <2>1 DEF TypeOK
  <2> QED BY <2>2 DEF TypeOK
<1>2. PrepareInv'
  BY DEF TypeOK, PrepareInv, NoDir
<1>3. SessionInv' /\ FlagMeansSession'
  BY DEF TypeOK, PrepareInv, SessionInv, FlagMeansSession, Preparing, NoFlagYet, NoDir
<1>4. ReadyMeansComplete' /\ OlderScriptsAreGone'
  BY DEF TypeOK, PrepareInv, ReadyMeansComplete, OlderScriptsAreGone, NoDir
<1> QED BY <1>1, <1>2, <1>3, <1>4

\* RunScripts returns.
LEMMA RunEndStep == ASSUME IInv, RunEnd PROVE IInv'
<1> USE Bounds DEF IInv, RunEnd, applyVars, RunFrame
<1>1. TypeOK'
  <2>1. CASE unit = "starting"
    BY <2>1 DEF TypeOK
  <2>2. CASE unit # "starting"
    <3>1. ~dir'.made => dir' = NoDir
      BY <2>2 DEF TypeOK, NoDir
    <3> QED BY ZenonT(60), <2>2, <3>1 DEF TypeOK
  <2> QED BY <2>1, <2>2
<1>2. PrepareInv'
  BY DEF TypeOK, PrepareInv, NoDir
<1>3. SessionInv' /\ FlagMeansSession'
  BY DEF TypeOK, PrepareInv, SessionInv, FlagMeansSession, Preparing, NoFlagYet, NoDir
<1>4. ReadyMeansComplete' /\ OlderScriptsAreGone'
  BY DEF TypeOK, PrepareInv, ReadyMeansComplete, OlderScriptsAreGone, NoDir
<1> QED BY <1>1, <1>2, <1>3, <1>4

\* Every step keeps the invariant, and so does a stuttering step.
LEMMA NextIInv == IInv /\ [Next]_vars => IInv'
<1> SUFFICES ASSUME IInv, [Next]_vars PROVE IInv' OBVIOUS
<1>1. CASE \E es \in SUBSET Lifecycles : ApplyPolicy(es)
  BY <1>1, ApplyPolicyStep
<1>2. CASE ApplyStep
  BY <1>2, ApplyRemoveStep, ApplyMkdirStep, ApplyDumpStep, ApplyReadyStep, ApplyOrderStep,
     ApplyStartUnitStep, ApplyStartedStep DEF ApplyStep
<1>3. CASE DaemonCrash
  BY <1>3, DaemonCrashStep
<1>4. CASE SessionStart \/ SessionStop \/ SessionKill
  BY <1>4, SessionStartStep, SessionStopStep, SessionKillStep
<1>5. CASE RunStep
  BY <1>5, RunCheckStep, RunFlagStep, RunOpenStep, RunExecStep, RunEndStep DEF RunStep
<1>6. CASE UNCHANGED vars
  BY <1>6 DEF vars, applyVars, unitVars, IInv, TypeOK, PrepareInv, SessionInv, ReadyMeansComplete,
              OlderScriptsAreGone, FlagMeansSession, Preparing, NoFlagYet
<1> QED BY <1>1, <1>2, <1>3, <1>4, <1>5, <1>6 DEF Next

\* For any number of updates and sessions, both sides of the scripts directory keep
\* the invariant of their flags.
THEOREM Inductive == Spec => []IInv
  BY InitIInv, NextIInv, PTL DEF Spec

\* A directory that is ready holds all of one update's scripts and order files,
\* wherever the daemon was killed but in the removal of the directory.
THEOREM ReadyIsComplete == Spec => []ReadyMeansComplete
<1>1. IInv => ReadyMeansComplete
  BY DEF IInv
<1> QED BY <1>1, Inductive, PTL

\* A session that had its flag before any update looked for it runs the scripts of
\* one version only.
THEOREM SessionIsTransactional == Spec => []UnracedSessionKeepsVersion
<1>1. IInv => UnracedSessionKeepsVersion
  BY DEF IInv, SessionInv, UnracedSessionKeepsVersion, SessionKeepsVersion
<1> QED BY <1>1, Inductive, PTL

\* An update that began to replace the directory leaves no older scripts to run, however
\* it ends but for a kill inside the removal; one that fails for a user leaves none.
THEOREM OlderScriptsGo == Spec => []OlderScriptsAreGone
<1>1. IInv => OlderScriptsAreGone
  BY DEF IInv
<1> QED BY <1>1, Inductive, PTL

\* A session flag without a session means a killed session or a race.
THEOREM FlagIsASession == Spec => []FlagMeansSession
<1>1. IInv => FlagMeansSession
  BY DEF IInv
<1> QED BY <1>1, Inductive, PTL
=============================================================================
