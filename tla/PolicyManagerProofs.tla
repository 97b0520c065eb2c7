------------------------ MODULE PolicyManagerProofs ------------------------
(***************************************************************************)
(* The cache, the templates and the order of the managers are right for    *)
(* any number of updates, objects, managers and versions, through failures *)
(* and crashes.  The argument: the mutex of an object has one holder, so   *)
(* what an update found, enforced and wrote is still there when it goes on *)
(* (LockInv, ProgressInv); it hands to the managers what the expansion of  *)
(* dynamic values let through (RulesInv); and without a crash the file of  *)
(* an object is a saved one unless its writer is about to write (FileInv). *)
(***************************************************************************)
EXTENDS PolicyManager, TLAPS

\* ApplyPolicies holds the mutex of the object from its lock to its deferred unlock.
Holding == {"locked", "run", "gdm", "save", "write", "assets", "unlock"}

\* Every manager has been waited for, and none has failed.
Enforced(p) == pc[p] \in {"gdm", "save", "write", "assets"} \/ (pc[p] = "unlock" /\ ~err[p])

\* Rules without an invalid template, and for the machine without one about a user.
GoodRules(o, r) ==
  /\ \A m \in Managers \cup {Gdm} : r[m] \notin BadTemplate
  /\ \A m \in ProManagers : r[m] \notin BadProTemplate
  /\ o = Computer => \A m \in Managers \cup {Gdm} : r[m] \notin UserTemplate

LockInv ==
  /\ \A p \in Procs, o \in Objects : objectMu[o] = p <=> pc[p] \in Holding /\ object[p] = o
  /\ \A p \in Procs : muMu = p <=> pc[p] = "map"

RulesInv ==
  \A p \in Procs : pc[p] \in {"run", "gdm"} =>
    /\ rules[p][Dconf] = pols[p].gpos /\ rules[p][Gdm] = pols[p].gpos
    /\ \A m \in Managers : rules[p][m] = pols[p].gpos \/ (m \in ProManagers /\ rules[p][m] = 0)
    /\ GoodRules(object[p], rules[p])

ProgressInv ==
  \A p \in Procs :
    /\ pc[p] = "run" => \A m \in Managers :
         running[p][m] = "ok" => applied[object[p]][m] = rules[p][m]
    /\ Enforced(p) => applied[object[p]][Dconf] = pols[p].gpos
    /\ pc[p] = "assets" => cache[object[p]].gpos = pols[p].gpos

AppliedInv == \A o \in Objects : GoodRules(o, applied[o])

FileInv ==
  budget.crashes = MaxCrashes =>
    \A o \in Objects : \/ cache[o].gpos \in saved[o] \cup {Missing}
                       \/ \E q \in Procs : pc[q] = "write" /\ object[q] = o

Inv == /\ TypeOK /\ LockInv /\ RulesInv /\ ProgressInv /\ AppliedInv
       /\ CacheIsWhatWasApplied /\ SavedAssetsMatchRules /\ FileInv

-----------------------------------------------------------------------------
(* The constants, and the parts of a typed state. *)

\* The empty policy has no template; a version and its assets are versions.
LEMMA Constants ==
  /\ 0 \in Versions /\ 1 \in Versions /\ Missing \notin Versions
  /\ 0 \notin BadTemplate /\ 0 \notin BadProTemplate /\ 0 \notin UserTemplate
  /\ \A v \in Versions : AssetsOf(v) \in Versions
  /\ Dconf \in Managers /\ Dconf # Gdm /\ Dconf \notin ProManagers /\ Gdm \notin ProManagers
  /\ Computer \in Objects /\ NoOne \notin Procs
  BY PolicyManagerAssumption DEF PolicyManagerAssumption, Versions, Missing, AssetsOf, Managers, Objects

\* Writing one of the two files of an object.
LEMMA FileTypes ==
  ASSUME NEW c \in [gpos : Versions \cup {Missing}, assets : Versions], NEW v \in Versions
  PROVE  /\ [c EXCEPT !.gpos = v] \in [gpos : Versions \cup {Missing}, assets : Versions]
         /\ [c EXCEPT !.assets = v] \in [gpos : Versions \cup {Missing}, assets : Versions]
  OBVIOUS

\* What is left to do and to fail is counted down to 0.
LEMMA BudgetStep ==
  ASSUME TypeOK
  PROVE  LET Budget == [calls : 0..MaxCalls, failures : 0..MaxFailures, crashes : 0..MaxCrashes] IN
         /\ budget.calls > 0 => [budget EXCEPT !.calls = @ - 1] \in Budget
         /\ budget.failures > 0 => [budget EXCEPT !.failures = @ - 1] \in Budget
         /\ budget.crashes > 0 => [budget EXCEPT !.crashes = @ - 1] \in Budget
<1>1. /\ budget.calls \in 0..MaxCalls /\ budget.failures \in 0..MaxFailures
      /\ budget.crashes \in 0..MaxCrashes
  BY DEF TypeOK
<1>2. /\ budget.calls > 0 => budget.calls - 1 \in 0..MaxCalls
      /\ budget.failures > 0 => budget.failures - 1 \in 0..MaxFailures
      /\ budget.crashes > 0 => budget.crashes - 1 \in 0..MaxCrashes
  BY <1>1, PolicyManagerAssumption DEF PolicyManagerAssumption
<1> QED BY <1>1, <1>2 DEF TypeOK

\* The mutex of an object keeps the updates of the object apart.
LEMMA OneHolder ==
  ASSUME LockInv, NEW p \in Procs, NEW q \in Procs, pc[p] \in Holding, pc[q] \in Holding,
         object[p] = object[q], object[p] \in Objects
  PROVE  p = q
  BY DEF LockInv

\* The daemon starts with no policy in force and none in the cache.
LEMMA InitInv == Init => Inv
<1> SUFFICES ASSUME Init PROVE Inv OBVIOUS
<1> USE Constants, PolicyManagerAssumption DEF Init, PolicyManagerAssumption
<1>1. TypeOK
  <2>1. Nothing \in InForce /\ EmptyPolicies \in Policies
    BY DEF Nothing, InForce, EmptyPolicies, Policies
  <2>2. budget \in [calls : 0..MaxCalls, failures : 0..MaxFailures, crashes : 0..MaxCrashes]
    OBVIOUS
  <2>3. cache \in [Objects -> [gpos : Versions \cup {Missing}, assets : Versions]]
    OBVIOUS
  <2>4. running \in [Procs -> [Managers -> {"run", "ok", "failed"}]]
    OBVIOUS
  <2> QED BY <2>1, <2>2, <2>3, <2>4 DEF TypeOK
<1>2. LockInv /\ RulesInv /\ ProgressInv /\ SavedAssetsMatchRules
  BY DEF LockInv, Holding, RulesInv, ProgressInv, Enforced, SavedAssetsMatchRules
<1>3. AppliedInv
  BY DEF AppliedInv, GoodRules, Nothing, Managers
<1>4. CacheIsWhatWasApplied /\ FileInv
  BY DEF CacheIsWhatWasApplied, FileInv
<1> QED BY <1>1, <1>2, <1>3, <1>4 DEF Inv
-----------------------------------------------------------------------------
(* Getting the policies: no mutex is held, only the update's own Policies change. *)

\* The versions of AD are no part of the argument.
LEMMA PublishStep == ASSUME Inv, Publish PROVE Inv'
<1> USE DEF Inv, Publish, lockVars, historyVars
<1>1. TypeOK'
  BY PolicyManagerAssumption DEF TypeOK, PolicyManagerAssumption, Versions
<1>2. LockInv' /\ RulesInv' /\ ProgressInv' /\ SavedAssetsMatchRules'
  BY DEF LockInv, RulesInv, ProgressInv, Enforced, SavedAssetsMatchRules
<1>3. AppliedInv' /\ CacheIsWhatWasApplied' /\ FileInv'
  BY DEF AppliedInv, CacheIsWhatWasApplied, FileInv
<1> QED BY <1>1, <1>2, <1>3

\* An update starts, for any object: it counts on nothing yet.
LEMMA UpdateStep ==
  ASSUME Inv, NEW p \in Procs, NEW o \in Objects, NEW purge \in BOOLEAN, Update(p, o, purge)
  PROVE  Inv'
<1> USE Constants DEF Inv, Update, Goto, GetFrame, lockVars, historyVars
<1>1. TypeOK'
  <2>1. EmptyPolicies \in Policies
    BY DEF EmptyPolicies, Policies
  <2>2. budget' \in [calls : 0..MaxCalls, failures : 0..MaxFailures, crashes : 0..MaxCrashes]
    BY BudgetStep
  <2> QED BY <2>1, <2>2 DEF TypeOK
<1>2. pc'[p] \in {"apply", "get"} /\ pc[p] = "idle"
  BY DEF TypeOK
<1>3. \A q \in Procs : q # p => /\ pc'[q] = pc[q] /\ object'[q] = object[q] /\ pols'[q] = pols[q]
                                /\ err'[q] = err[q]
  BY DEF TypeOK
<1>4. LockInv' /\ RulesInv' /\ ProgressInv' /\ SavedAssetsMatchRules'
  BY <1>2, <1>3 DEF LockInv, Holding, RulesInv, ProgressInv, Enforced, SavedAssetsMatchRules
<1>5. AppliedInv' /\ CacheIsWhatWasApplied'
  BY DEF AppliedInv, CacheIsWhatWasApplied
<1>6. FileInv'
  BY <1>2, <1>3 DEF FileInv, TypeOK
<1> QED BY <1>1, <1>4, <1>5, <1>6

\* The policies are had online, from the cache, or not at all.
LEMMA GetStepStep == ASSUME Inv, NEW p \in Procs, GetStep(p) PROVE Inv'
<1> USE Constants DEF Inv, Goto, GetFrame, lockVars, historyVars
<1>0. /\ pc[p] \in {"get", "getAssets"} /\ pc'[p] \in {"apply", "idle", "getAssets"}
      /\ \A q \in Procs : q # p => pc'[q] = pc[q] /\ pols'[q] = pols[q]
      /\ UNCHANGED <<remote, cache, applied, muMu, objectMu, object, rules, running, err, settled, saved>>
      /\ budget'.crashes = budget.crashes
  BY DEF GetStep, GetOnline, GetFails, Fails, CacheRead, CacheMissing, CacheReadAssets, TypeOK
<1>1. TypeOK'
  <2>1. pols' \in [Procs -> Policies]
    <3>1. CASE GetOnline(p)
      BY <3>1 DEF GetOnline, TypeOK, Policies
    <3>2. CASE GetFails(p) \/ CacheMissing(p)
      BY <3>2 DEF GetFails, CacheMissing, TypeOK
    <3>3. CASE CacheRead(p)
      BY ZenonT(60), <3>3 DEF CacheRead, TypeOK, Policies
    <3>4. CASE CacheReadAssets(p)
      <4> DEFINE a == cache[object[p]].assets
      <4>1. a \in Versions /\ (a # 0) \in BOOLEAN /\ pols[p] \in Policies
        BY DEF TypeOK
      <4>2. [[pols[p] EXCEPT !.assets = a] EXCEPT !.fromCache = (a # 0)] \in Policies
        BY <4>1 DEF Policies
      <4>3. pols' = [pols EXCEPT ![p] = [[pols[p] EXCEPT !.assets = a] EXCEPT !.fromCache = (a # 0)]]
        BY <3>4 DEF CacheReadAssets, TypeOK
      <4> QED BY <4>2, <4>3 DEF TypeOK
    <3> QED BY <3>1, <3>2, <3>3, <3>4 DEF GetStep
  <2>2. budget' \in [calls : 0..MaxCalls, failures : 0..MaxFailures, crashes : 0..MaxCrashes]
    BY BudgetStep DEF TypeOK, GetStep, GetOnline, GetFails, Fails, CacheRead, CacheMissing, CacheReadAssets
  <2>3. pc' = [pc EXCEPT ![p] = pc'[p]]
    BY DEF TypeOK, GetStep, GetOnline, GetFails, CacheRead, CacheMissing, CacheReadAssets
  <2> QED BY <1>0, <2>1, <2>2, <2>3 DEF TypeOK
<1>2. LockInv' /\ RulesInv' /\ ProgressInv' /\ SavedAssetsMatchRules'
  BY <1>0 DEF LockInv, Holding, RulesInv, ProgressInv, Enforced, SavedAssetsMatchRules
<1>3. AppliedInv' /\ CacheIsWhatWasApplied'
  BY <1>0 DEF AppliedInv, CacheIsWhatWasApplied
<1>4. FileInv'
  <2>1. \A q \in Procs : pc[q] = "write" => pc'[q] = "write"
    BY <1>0
  <2> QED BY <1>0, <2>1 DEF FileInv
<1> QED BY <1>1, <1>2, <1>3, <1>4
-----------------------------------------------------------------------------
(* ApplyPolicies: from the lock of the map to the managers. *)

\* The mutex of the map is only waited for.
LEMMA LockMapStep == ASSUME Inv, NEW p \in Procs, LockMap(p) PROVE Inv'
<1> USE Constants DEF Inv, LockMap, Goto, ApplyFrame
<1>1. TypeOK'
  BY DEF TypeOK
<1>2. /\ pc[p] = "apply" /\ pc'[p] = "map"
      /\ \A q \in Procs : q # p => pc'[q] = pc[q]
  BY DEF TypeOK
<1>3. LockInv' /\ RulesInv' /\ ProgressInv' /\ SavedAssetsMatchRules'
  BY <1>2 DEF LockInv, Holding, RulesInv, ProgressInv, Enforced, SavedAssetsMatchRules
<1>4. AppliedInv' /\ CacheIsWhatWasApplied'
  BY DEF AppliedInv, CacheIsWhatWasApplied
<1>5. FileInv'
  BY <1>2 DEF FileInv
<1> QED BY <1>1, <1>3, <1>4, <1>5

\* The mutex of the object is taken: nobody held it.
LEMMA LockObjectStep == ASSUME Inv, NEW p \in Procs, LockObject(p) PROVE Inv'
<1> USE Constants DEF Inv, LockObject, Goto, ApplyFrame
<1>1. TypeOK'
  BY DEF TypeOK
<1>2. /\ pc[p] = "map" /\ pc'[p] = "locked" /\ object[p] \in Objects
      /\ \A q \in Procs : q # p => pc'[q] = pc[q]
      /\ objectMu[object[p]] = NoOne /\ objectMu'[object[p]] = p
      /\ \A o \in Objects : o # object[p] => objectMu'[o] = objectMu[o]
  BY DEF TypeOK
<1>3. LockInv'
  BY <1>2 DEF LockInv, Holding, TypeOK
<1>4. RulesInv' /\ ProgressInv' /\ SavedAssetsMatchRules'
  BY <1>2 DEF RulesInv, ProgressInv, Enforced, SavedAssetsMatchRules
<1>5. AppliedInv' /\ CacheIsWhatWasApplied'
  BY <1>2 DEF AppliedInv, CacheIsWhatWasApplied
<1>6. FileInv'
  BY <1>2 DEF FileInv
<1> QED BY <1>1, <1>3, <1>4, <1>5, <1>6

\* What the expansion lets through is good for every manager: a machine without Pro
\* gets none of the rules that were not expanded.
LEMMA ExpandedRules ==
  ASSUME NEW v \in Versions, NEW o \in Objects, NEW pro \in BOOLEAN
  PROVE  /\ filterRules(v, pro) \in InForce
         /\ filterRules(v, pro)[Dconf] = v /\ filterRules(v, pro)[Gdm] = v
         /\ \A m \in Managers : filterRules(v, pro)[m] = v \/ (m \in ProManagers /\ filterRules(v, pro)[m] = 0)
         /\ expandDynamicValues(v, dynamicValuesContext(o), pro) => GoodRules(o, filterRules(v, pro))
<1> USE Constants DEF filterRules
<1>1. filterRules(v, pro) \in InForce
  BY DEF InForce
<1>2. /\ filterRules(v, pro)[Dconf] = v /\ filterRules(v, pro)[Gdm] = v
      /\ \A m \in Managers : filterRules(v, pro)[m] = v \/ (m \in ProManagers /\ filterRules(v, pro)[m] = 0)
  OBVIOUS
<1>3. ASSUME expandDynamicValues(v, dynamicValuesContext(o), pro)
      PROVE  GoodRules(o, filterRules(v, pro))
  <2>1. v \notin BadTemplate /\ (pro => v \notin BadProTemplate) /\ (o = Computer => v \notin UserTemplate)
    BY <1>3 DEF expandDynamicValues, Expand, dynamicValuesContext
  <2>2. ProManagers \subseteq Managers
    BY DEF Managers
  <2> QED BY <2>1, <2>2 DEF GoodRules
<1> QED BY <1>1, <1>2, <1>3

\* The rules are filtered and expanded, or the call ends with an error.
LEMMA PrepareStep == ASSUME Inv, NEW p \in Procs, NEW pro \in BOOLEAN, Prepare(p, pro) PROVE Inv'
<1> USE Constants DEF Inv, Prepare, ApplyFrame, lockVars
<1> DEFINE v == pols[p].gpos
           good == expandDynamicValues(v, dynamicValuesContext(object[p]), pro)
<1>0. v \in Versions /\ object[p] \in Objects
  BY DEF TypeOK, Policies
<1>1. /\ pc[p] = "locked" /\ good => pc'[p] = "run"
      /\ ~good => pc'[p] = "unlock" /\ err'[p] = TRUE
      /\ rules'[p] = filterRules(v, pro)
      /\ \A m \in Managers : running'[p][m] = "run"
      /\ \A q \in Procs : q # p => /\ pc'[q] = pc[q] /\ rules'[q] = rules[q] /\ err'[q] = err[q]
                                   /\ running'[q] = running[q]
  BY DEF TypeOK
<1>2. TypeOK'
  <2>1. rules' \in [Procs -> InForce]
    BY <1>0, ExpandedRules DEF TypeOK
  <2>2. running' \in [Procs -> [Managers -> {"run", "ok", "failed"}]]
    BY DEF TypeOK
  <2>3. err' \in [Procs -> BOOLEAN]
    BY DEF TypeOK
  <2> QED BY <2>1, <2>2, <2>3 DEF TypeOK
<1>3. LockInv'
  BY <1>1 DEF LockInv, Holding
<1>4. RulesInv'
  BY <1>0, <1>1, ExpandedRules DEF RulesInv
<1>5. ProgressInv' /\ SavedAssetsMatchRules'
  BY <1>1 DEF ProgressInv, Enforced, SavedAssetsMatchRules
<1>6. AppliedInv' /\ CacheIsWhatWasApplied'
  BY DEF AppliedInv, CacheIsWhatWasApplied
<1>7. FileInv'
  BY <1>1 DEF FileInv
<1> QED BY <1>2, <1>3, <1>4, <1>5, <1>6, <1>7

\* Good rules stay good when a manager takes one from good rules.
LEMMA EnforceGood ==
  ASSUME TypeOK, AppliedInv, NEW p \in Procs, GoodRules(object[p], rules[p]),
         NEW m \in Managers \cup {Gdm}, Enforce(p, m) \/ UNCHANGED applied
  PROVE  AppliedInv' /\ applied' \in [Objects -> InForce]
<1>1. rules[p][m] \in Versions /\ object[p] \in Objects
  BY DEF TypeOK, InForce
<1>2. applied' \in [Objects -> InForce]
  <2>1. CASE UNCHANGED applied
    BY <2>1 DEF TypeOK
  <2>2. CASE Enforce(p, m)
    <3>1. [applied[object[p]] EXCEPT ![m] = rules[p][m]] \in InForce
      BY <1>1 DEF TypeOK, InForce
    <3> QED BY <1>1, <2>2, <3>1 DEF TypeOK, Enforce
  <2> QED BY <2>1, <2>2
<1>3. \A o \in Objects, k \in Managers \cup {Gdm} :
        applied'[o][k] = applied[o][k] \/ (o = object[p] /\ k = m /\ applied'[o][k] = rules[p][m])
  <2>1. CASE UNCHANGED applied
    BY <2>1
  <2>2. CASE Enforce(p, m)
    BY <1>1, <2>2 DEF TypeOK, InForce, Enforce
  <2> QED BY <2>1, <2>2
<1>4. ProManagers \subseteq Managers
  BY DEF Managers
<1>5. ASSUME NEW o \in Objects PROVE GoodRules(o, applied'[o])
  <2>1. \A k \in Managers \cup {Gdm} : applied'[o][k] \notin BadTemplate
    BY <1>3 DEF AppliedInv, GoodRules
  <2>2. \A k \in ProManagers : applied'[o][k] \notin BadProTemplate
    BY <1>3, <1>4 DEF AppliedInv, GoodRules
  <2>3. o = Computer => \A k \in Managers \cup {Gdm} : applied'[o][k] \notin UserTemplate
    BY <1>3 DEF AppliedInv, GoodRules
  <2> QED BY <2>1, <2>2, <2>3 DEF GoodRules
<1> QED BY <1>2, <1>5 DEF AppliedInv
\* A manager ends: what it enforced is its own, for an object nobody else works on.
LEMMA ManagerApplyStep == ASSUME Inv, NEW p \in Procs, NEW m \in Managers, ManagerApply(p, m) PROVE Inv'
<1> USE Constants DEF Inv, ManagerApply, ApplyFrame, lockVars
<1>0. /\ pc[p] = "run" /\ object[p] \in Objects /\ objectMu[object[p]] = p
      /\ UNCHANGED <<remote, object, pols, saved, cache, muMu, objectMu, pc, rules, err, settled>>
  BY DEF TypeOK, LockInv, Holding
<1>1. AppliedInv' /\ applied' \in [Objects -> InForce]
  BY <1>0, EnforceGood DEF RulesInv
<1>2. TypeOK' /\ budget'.crashes = budget.crashes
  <2>1. running' \in [Procs -> [Managers -> {"run", "ok", "failed"}]]
    <3>1. CASE running' = [running EXCEPT ![p][m] = "ok"]
      BY <3>1 DEF TypeOK
    <3>2. CASE running' = [running EXCEPT ![p][m] = "failed"]
      BY <3>2 DEF TypeOK
    <3> QED BY <3>1, <3>2
  <2>2. budget' \in [calls : 0..MaxCalls, failures : 0..MaxFailures, crashes : 0..MaxCrashes]
    BY BudgetStep DEF Fails, TypeOK
  <2>3. budget'.crashes = budget.crashes
    BY DEF Fails, TypeOK
  <2> QED BY <1>0, <1>1, <2>1, <2>2, <2>3 DEF TypeOK
<1>3. /\ \A o \in Objects : o # object[p] => applied'[o] = applied[o]
      /\ \A k \in Managers : k # m => applied'[object[p]][k] = applied[object[p]][k]
      /\ \A q \in Procs : q # p => running'[q] = running[q]
      /\ \A k \in Managers : k # m => running'[p][k] = running[p][k]
      /\ running'[p][m] = "ok" => applied'[object[p]][m] = rules[p][m]
  BY <1>0 DEF TypeOK, InForce, Enforce
<1>4. \A q \in Procs : pc[q] \in Holding /\ object[q] = object[p] => q = p
  BY <1>0, OneHolder DEF Holding
<1>5. LockInv' /\ RulesInv' /\ SavedAssetsMatchRules'
  BY <1>0 DEF LockInv, RulesInv, SavedAssetsMatchRules
<1>6. ProgressInv'
  BY <1>0, <1>3, <1>4 DEF ProgressInv, Enforced, Holding, TypeOK
<1>7. CacheIsWhatWasApplied'
  BY <1>0, <1>3 DEF CacheIsWhatWasApplied
<1>8. FileInv'
  BY <1>0, <1>2 DEF FileInv
<1> QED BY <1>1, <1>2, <1>5, <1>6, <1>7, <1>8

\* The managers have ended; none has failed if the call goes on.
LEMMA WaitStep == ASSUME Inv, NEW p \in Procs, Wait(p) PROVE Inv'
<1> USE Constants DEF Inv, Wait, ApplyFrame, lockVars
<1>1. /\ pc[p] = "run" /\ pc'[p] \in {"unlock", "gdm", "save"}
      /\ pc'[p] = "unlock" => err'[p] = TRUE
      /\ pc'[p] # "unlock" => running[p][Dconf] = "ok"
      /\ \A q \in Procs : q # p => pc'[q] = pc[q] /\ err'[q] = err[q]
  BY DEF TypeOK
<1>2. TypeOK'
  BY DEF TypeOK
<1>3. LockInv' /\ RulesInv'
  BY <1>1 DEF LockInv, Holding, RulesInv
<1>4. ProgressInv'
  BY <1>1 DEF ProgressInv, Enforced, RulesInv
<1>5. SavedAssetsMatchRules'
  BY <1>1 DEF SavedAssetsMatchRules
<1>6. AppliedInv' /\ CacheIsWhatWasApplied'
  BY DEF AppliedInv, CacheIsWhatWasApplied
<1>7. FileInv'
  BY <1>1 DEF FileInv
<1> QED BY <1>2, <1>3, <1>4, <1>5, <1>6, <1>7

\* GDM comes last: dconf is what it was.
LEMMA GdmApplyStep == ASSUME Inv, NEW p \in Procs, GdmApply(p) PROVE Inv'
<1> USE Constants DEF Inv, GdmApply, ApplyFrame, lockVars
<1>0. /\ pc[p] = "gdm" /\ object[p] \in Objects /\ objectMu[object[p]] = p
      /\ UNCHANGED <<remote, object, pols, saved, cache, muMu, objectMu, rules, running, settled>>
  BY DEF TypeOK, LockInv, Holding
<1>1. AppliedInv' /\ applied' \in [Objects -> InForce]
  BY <1>0, EnforceGood DEF RulesInv
<1>2. TypeOK' /\ budget'.crashes = budget.crashes
  <2>1. pc' \in [Procs -> {"idle", "get", "getAssets", "apply", "map", "locked", "run", "gdm",
                           "save", "write", "assets", "unlock"}]
        /\ err' \in [Procs -> BOOLEAN]
    BY DEF TypeOK
  <2>2. budget' \in [calls : 0..MaxCalls, failures : 0..MaxFailures, crashes : 0..MaxCrashes]
    BY BudgetStep DEF Fails, TypeOK
  <2>3. budget'.crashes = budget.crashes
    BY DEF Fails, TypeOK
  <2> QED BY <1>0, <1>1, <2>1, <2>2, <2>3 DEF TypeOK
<1>3. /\ \A o \in Objects : o # object[p] => applied'[o] = applied[o]
      /\ \A k \in Managers : applied'[object[p]][k] = applied[object[p]][k]
  BY <1>0, PolicyManagerAssumption DEF TypeOK, InForce, Enforce, PolicyManagerAssumption
<1>4. /\ pc'[p] \in {"save", "unlock"} /\ (pc'[p] = "unlock" => err'[p] = TRUE)
      /\ \A q \in Procs : q # p => pc'[q] = pc[q] /\ err'[q] = err[q]
  BY DEF TypeOK
<1>5. LockInv' /\ RulesInv' /\ SavedAssetsMatchRules'
  BY <1>0, <1>4 DEF LockInv, Holding, RulesInv, SavedAssetsMatchRules
<1>6. ProgressInv'
  BY <1>0, <1>3, <1>4 DEF ProgressInv, Enforced, TypeOK
<1>7. CacheIsWhatWasApplied'
  BY <1>0, <1>3 DEF CacheIsWhatWasApplied
<1>8. FileInv'
  BY <1>0, <1>2, <1>4 DEF FileInv
<1> QED BY <1>1, <1>2, <1>5, <1>6, <1>7, <1>8
-----------------------------------------------------------------------------
(* Save, the deferred unlock, and a crash. *)

\* The file is truncated by the one holder of the mutex: the file is empty until the
\* same update writes it.
LEMMA SaveTruncateStep == ASSUME Inv, NEW p \in Procs, SaveTruncate(p) PROVE Inv'
<1> USE Constants DEF Inv, SaveTruncate, Goto, SaveFrame, lockVars
<1>0. /\ pc[p] = "save" /\ pc'[p] = "write" /\ object[p] \in Objects /\ objectMu[object[p]] = p
      /\ \A q \in Procs : q # p => pc'[q] = pc[q]
      /\ \A o \in Objects : o # object[p] => cache'[o] = cache[o]
      /\ UNCHANGED <<remote, applied, muMu, objectMu, object, pols, rules, running, err, settled, budget, saved>>
  BY DEF TypeOK, LockInv, Holding
<1>1. TypeOK'
  <2>1. [cache[object[p]] EXCEPT !.gpos = 0] \in [gpos : Versions \cup {Missing}, assets : Versions]
    <3>1. cache[object[p]] \in [gpos : Versions \cup {Missing}, assets : Versions]
      BY <1>0 DEF TypeOK
    <3> QED BY <3>1, FileTypes
  <2>2. cache' = [cache EXCEPT ![object[p]] = [cache[object[p]] EXCEPT !.gpos = 0]]
    OBVIOUS
  <2>3. cache' \in [Objects -> [gpos : Versions \cup {Missing}, assets : Versions]]
    BY <1>0, <2>1, <2>2 DEF TypeOK
  <2> QED BY <1>0, <2>3 DEF TypeOK
<1>2. \A q \in Procs : pc[q] \in Holding /\ object[q] = object[p] => q = p
  BY <1>0, OneHolder DEF Holding
<1>3. LockInv' /\ RulesInv'
  BY <1>0 DEF LockInv, Holding, RulesInv
<1>4. ProgressInv' /\ SavedAssetsMatchRules'
  BY <1>0, <1>2 DEF ProgressInv, Enforced, SavedAssetsMatchRules, Holding, TypeOK
<1>5. AppliedInv' /\ CacheIsWhatWasApplied'
  BY <1>0 DEF AppliedInv, CacheIsWhatWasApplied
<1>6. FileInv'
  BY <1>0 DEF FileInv
<1> QED BY <1>1, <1>3, <1>4, <1>5, <1>6

\* The file holds what the update applied, and that is saved now.
LEMMA SaveWriteStep == ASSUME Inv, NEW p \in Procs, SaveWrite(p) PROVE Inv'
<1> USE Constants DEF Inv, SaveWrite, Goto, SaveFrame, lockVars
<1>0. /\ pc[p] = "write" /\ pc'[p] = "assets" /\ object[p] \in Objects /\ objectMu[object[p]] = p
      /\ \A q \in Procs : q # p => pc'[q] = pc[q]
      /\ \A o \in Objects : o # object[p] => cache'[o] = cache[o] /\ saved'[o] = saved[o]
      /\ cache'[object[p]].gpos = pols[p].gpos /\ pols[p].gpos \in saved'[object[p]]
      /\ UNCHANGED <<remote, applied, muMu, objectMu, object, pols, rules, running, err, settled, budget>>
  BY DEF TypeOK, LockInv, Holding
<1>1. TypeOK'
  <2>0. pols[p].gpos \in Versions
    BY DEF TypeOK, Policies
  <2>1. [cache[object[p]] EXCEPT !.gpos = pols[p].gpos] \in [gpos : Versions \cup {Missing}, assets : Versions]
    <3>1. cache[object[p]] \in [gpos : Versions \cup {Missing}, assets : Versions]
      BY <1>0 DEF TypeOK
    <3> QED BY <2>0, <3>1, FileTypes
  <2>2. cache' = [cache EXCEPT ![object[p]] = [cache[object[p]] EXCEPT !.gpos = pols[p].gpos]]
    OBVIOUS
  <2>3. cache' \in [Objects -> [gpos : Versions \cup {Missing}, assets : Versions]]
    BY <1>0, <2>1, <2>2 DEF TypeOK
  <2>4. saved' \in [Objects -> SUBSET Versions]
    BY <1>0, <2>0 DEF TypeOK
  <2> QED BY <1>0, <2>3, <2>4 DEF TypeOK
<1>2. \A q \in Procs : pc[q] \in Holding /\ object[q] = object[p] => q = p
  BY <1>0, OneHolder DEF Holding
<1>3. LockInv' /\ RulesInv'
  BY <1>0 DEF LockInv, Holding, RulesInv
<1>4. ProgressInv' /\ SavedAssetsMatchRules'
  BY <1>0, <1>2 DEF ProgressInv, Enforced, SavedAssetsMatchRules, Holding, TypeOK
<1>5. AppliedInv' /\ CacheIsWhatWasApplied'
  BY <1>0 DEF AppliedInv, CacheIsWhatWasApplied
<1>6. FileInv'
  <2> SUFFICES ASSUME budget.crashes = MaxCrashes, NEW o \in Objects
               PROVE  \/ cache'[o].gpos \in saved'[o] \cup {Missing}
                      \/ \E q \in Procs : pc'[q] = "write" /\ object'[q] = o
    BY <1>0 DEF FileInv
  <2>1. CASE o = object[p]
    BY <1>0, <2>1
  <2>2. CASE o # object[p]
    BY <1>0, <2>2 DEF FileInv
  <2> QED BY <2>1, <2>2
<1> QED BY <1>1, <1>3, <1>4, <1>5, <1>6

\* The assets follow, or stay if they are those of the cache.
LEMMA SaveAssetsStep == ASSUME Inv, NEW p \in Procs, SaveAssets(p) PROVE Inv'
<1> USE Constants DEF Inv, SaveAssets, Goto, SaveFrame, lockVars
<1> DEFINE kept == [cache[object[p]] EXCEPT !.assets = pols[p].assets]
<1>0. /\ pc[p] = "assets" /\ pc'[p] = "unlock" /\ object[p] \in Objects /\ objectMu[object[p]] = p
      /\ \A q \in Procs : q # p => pc'[q] = pc[q]
      /\ \A o \in Objects : o # object[p] => cache'[o] = cache[o]
      /\ cache'[object[p]].gpos = cache[object[p]].gpos
      /\ pols[p].fromCache \/ cache'[object[p]].assets = pols[p].assets
      /\ UNCHANGED <<remote, applied, muMu, objectMu, object, pols, rules, running, err, settled, budget, saved>>
  BY DEF TypeOK, LockInv, Holding
<1>1. TypeOK'
  <2>1. kept \in [gpos : Versions \cup {Missing}, assets : Versions]
    <3>1. cache[object[p]] \in [gpos : Versions \cup {Missing}, assets : Versions]
      BY <1>0 DEF TypeOK
    <3>2. pols[p].assets \in Versions
      BY DEF TypeOK, Policies
    <3> QED BY <3>1, <3>2, FileTypes
  <2>2. cache' = cache \/ cache' = [cache EXCEPT ![object[p]] = kept]
    OBVIOUS
  <2>3. cache' \in [Objects -> [gpos : Versions \cup {Missing}, assets : Versions]]
    BY <1>0, <2>1, <2>2 DEF TypeOK
  <2> QED BY <1>0, <2>3 DEF TypeOK
<1>2. \A q \in Procs : pc[q] \in Holding /\ object[q] = object[p] => q = p
  BY <1>0, OneHolder DEF Holding
<1>3. LockInv' /\ RulesInv'
  BY <1>0 DEF LockInv, Holding, RulesInv
<1>4. ProgressInv'
  BY <1>0, <1>2 DEF ProgressInv, Enforced, Holding, TypeOK
<1>5. SavedAssetsMatchRules'
  BY <1>0, <1>2 DEF SavedAssetsMatchRules, ProgressInv, Holding, TypeOK
<1>6. AppliedInv' /\ CacheIsWhatWasApplied'
  BY <1>0 DEF AppliedInv, CacheIsWhatWasApplied
<1>7. FileInv'
  <2>1. \A o \in Objects : cache'[o].gpos = cache[o].gpos
    BY <1>0
  <2> QED BY <1>0, <2>1 DEF FileInv
<1> QED BY <1>1, <1>3, <1>4, <1>5, <1>6, <1>7

\* The mutex is released: what the update applied is what it left in the cache.
LEMMA UnlockStep == ASSUME Inv, NEW p \in Procs, Unlock(p) PROVE Inv'
<1> USE Constants DEF Inv, Unlock, Goto, ApplyFrame
<1>0. /\ pc[p] = "unlock" /\ pc'[p] = "idle" /\ object[p] \in Objects /\ objectMu[object[p]] = p
      /\ \A q \in Procs : q # p => pc'[q] = pc[q]
      /\ \A o \in Objects : o # object[p] => objectMu'[o] = objectMu[o] /\ settled'[o] = settled[o]
      /\ settled'[object[p]] = ~err[p]
      /\ UNCHANGED <<remote, object, pols, saved, cache, applied, muMu, rules, running, err, budget>>
  BY DEF TypeOK, LockInv, Holding
<1>1. TypeOK'
  BY <1>0 DEF TypeOK
<1>2. \A q \in Procs : pc[q] \in Holding /\ object[q] = object[p] => q = p
  BY <1>0, OneHolder DEF Holding
<1>3. LockInv'
  BY <1>0, <1>2 DEF LockInv, Holding, TypeOK
<1>4. RulesInv' /\ ProgressInv' /\ SavedAssetsMatchRules'
  BY <1>0 DEF RulesInv, ProgressInv, Enforced, SavedAssetsMatchRules
<1>5. AppliedInv'
  BY <1>0 DEF AppliedInv
<1>6. CacheIsWhatWasApplied'
  <2> SUFFICES ASSUME NEW o \in Objects, objectMu'[o] = NoOne, settled'[o]
               PROVE  cache[o].gpos = applied[o][Dconf]
    BY <1>0 DEF CacheIsWhatWasApplied
  <2>1. CASE o = object[p]
    <3>1. ~err[p]
      BY <1>0, <2>1
    <3> QED BY <1>0, <2>1, <3>1 DEF SavedAssetsMatchRules, ProgressInv, Enforced
  <2>2. CASE o # object[p]
    BY <1>0, <2>2 DEF CacheIsWhatWasApplied
  <2> QED BY <2>1, <2>2
<1>7. FileInv'
  BY <1>0 DEF FileInv
<1> QED BY <1>1, <1>3, <1>4, <1>5, <1>6, <1>7

\* The daemon is killed: nobody counts on anything, an object in hand is unsettled.
LEMMA CrashStep == ASSUME Inv, Crash PROVE Inv'
<1> USE Constants DEF Inv, Crash
<1>1. TypeOK' /\ budget'.crashes # MaxCrashes
  <2>1. budget' \in [calls : 0..MaxCalls, failures : 0..MaxFailures, crashes : 0..MaxCrashes]
    BY BudgetStep
  <2>2. budget'.crashes # MaxCrashes
    BY PolicyManagerAssumption DEF TypeOK, PolicyManagerAssumption
  <2>3. settled' \in [Objects -> BOOLEAN]
    BY DEF TypeOK
  <2> QED BY <2>1, <2>2, <2>3 DEF TypeOK
<1>2. LockInv' /\ RulesInv' /\ ProgressInv' /\ SavedAssetsMatchRules'
  BY DEF LockInv, Holding, RulesInv, ProgressInv, Enforced, SavedAssetsMatchRules
<1>3. AppliedInv' /\ CacheIsWhatWasApplied' /\ FileInv'
  BY <1>1 DEF AppliedInv, CacheIsWhatWasApplied, FileInv
<1> QED BY <1>1, <1>2, <1>3
-----------------------------------------------------------------------------
(* The theorems. *)

\* Every step of ApplyPolicies keeps the invariant.
LEMMA ApplyStepStep == ASSUME Inv, NEW p \in Procs, ApplyStep(p) PROVE Inv'
  BY LockMapStep, LockObjectStep, PrepareStep, ManagerApplyStep, WaitStep, GdmApplyStep,
     SaveTruncateStep, SaveWriteStep, SaveAssetsStep, UnlockStep DEF ApplyStep

\* So does every step of the daemon.
LEMMA NextInv == Inv /\ [Next]_vars => Inv'
<1> SUFFICES ASSUME Inv, [Next]_vars PROVE Inv' OBVIOUS
<1>1. CASE Next
  BY <1>1, PublishStep, UpdateStep, GetStepStep, ApplyStepStep, CrashStep DEF Next
<1>2. CASE UNCHANGED vars
  BY <1>2 DEF vars, Inv, TypeOK, LockInv, RulesInv, ProgressInv, Enforced, AppliedInv,
     CacheIsWhatWasApplied, SavedAssetsMatchRules, FileInv
<1> QED BY <1>1, <1>2

\* The invariant holds of every state of the daemon.
LEMMA Invariance == Spec => []Inv
  BY InitInv, NextInv, PTL DEF Spec

\* ApplyPolicies and Save: the cache of an object stands for what is in force, whatever
\* updates overlap, fail or are cut short by a crash, for any number of them.
THEOREM CacheSoundness == Spec => []CacheIsSound
<1>1. Inv => CacheIsSound
  BY DEF Inv, CacheIsSound
<1> QED BY <1>1, Invariance, PTL

\* filterRules and expandDynamicValues: no manager is ever given an invalid template.
THEOREM TemplatesFailClosed == Spec => []BadTemplateNeverApplied
<1>1. Inv => BadTemplateNeverApplied
  BY DEF Inv, AppliedInv, GoodRules, BadTemplateNeverApplied
<1> QED BY <1>1, Invariance, PTL

\* ApplyPolicies waits for the mutex of an object with the mutex of the map in hand: this
\* never ends in a deadlock, since the holder of an object's mutex needs no other.
THEOREM DeadlockFreedom == Spec => []UpdatesCanProceed
<1>1. ASSUME Inv, NEW p \in Procs, pc[p] # "idle" PROVE \E q \in Procs : CanProceed(q)
  <2> USE <1>1, Constants DEF Inv
  <2>1. ASSUME NEW q \in Procs, pc[q] = "map" PROVE \E r \in Procs : CanProceed(r)
    <3>1. CASE objectMu[object[q]] = NoOne
      BY <2>1, <3>1 DEF CanProceed
    <3>2. CASE objectMu[object[q]] # NoOne
      <4>1. PICK r \in Procs : objectMu[object[q]] = r
        BY <3>2 DEF TypeOK
      <4>2. pc[r] \in Holding
        BY <4>1 DEF LockInv, TypeOK
      <4> QED BY <4>2 DEF CanProceed, Holding
    <3> QED BY <3>1, <3>2
  <2>2. CASE pc[p] = "apply"
    <3>1. muMu = NoOne \/ (muMu \in Procs /\ pc[muMu] = "map")
      BY DEF TypeOK, LockInv
    <3> QED BY <2>1, <2>2, <3>1 DEF CanProceed
  <2>3. CASE pc[p] # "apply"
    BY <2>1, <2>3 DEF CanProceed
  <2> QED BY <2>2, <2>3
<1>2. Inv => UpdatesCanProceed
  BY <1>1 DEF UpdatesCanProceed
<1> QED BY <1>2, Invariance, PTL

\* ApplyPolicies waits for the managers before GDM: what GDM is given is what the
\* machine's dconf database has, whatever other updates of the machine are under way.
THEOREM GdmComesLast == Spec => GdmAfterMachineDconf
<1>1. ASSUME Inv, [Next]_vars, applied'[Computer][Gdm] # applied[Computer][Gdm]
      PROVE  applied'[Computer][Gdm] = applied[Computer][Dconf]
  <2> USE Constants, <1>1
  <2>1. Next /\ applied' # applied
    BY DEF vars
  <2>2. PICK p \in Procs : GdmApply(p) \/ \E m \in Managers : ManagerApply(p, m)
    BY <2>1 DEF Next, Publish, Update, GetStep, GetOnline, GetFails, CacheRead, CacheMissing,
       CacheReadAssets, GetFrame, ApplyStep, LockMap, LockObject, Prepare, Wait, SaveTruncate, SaveWrite,
       SaveAssets, SaveFrame, Unlock, Crash
  <2>3. object[p] \in Objects /\ applied \in [Objects -> InForce]
    BY DEF Inv, TypeOK
  <2>4. ASSUME NEW m \in Managers, ManagerApply(p, m) PROVE FALSE
    BY <2>3, <2>4, PolicyManagerAssumption DEF ManagerApply, Enforce, InForce, PolicyManagerAssumption
  <2>5. CASE GdmApply(p)
    <3>1. Enforce(p, Gdm) /\ pc[p] = "gdm"
      BY <2>1, <2>5 DEF GdmApply
    <3>2. object[p] = Computer /\ applied'[Computer][Gdm] = rules[p][Gdm]
      BY <2>3, <3>1 DEF Enforce, InForce
    <3>3. rules[p][Gdm] = pols[p].gpos /\ applied[Computer][Dconf] = pols[p].gpos
      BY <3>1, <3>2 DEF Inv, RulesInv, ProgressInv, Enforced
    <3> QED BY <3>2, <3>3
  <2> QED BY <2>2, <2>4, <2>5
<1> QED BY <1>1, Invariance, PTL DEF Spec, GdmAfterMachineDconf

\* NewFromCache reads without the mutex of the object: what it reads is a saved policy,
\* unless it meets an update that has truncated the file, or a crash did.
THEOREM ReadsAreSaved == Spec => UndisturbedReadIsSavedPolicies
<1>1. ASSUME Inv, [Next]_vars, NEW p \in Procs, pc[p] = "get", pc'[p] = "getAssets",
             budget.crashes = MaxCrashes,
             \A q \in Procs : ~(pc[q] = "write" /\ object[q] = object[p])
      PROVE  pols'[p].gpos \in saved[object[p]]
  <2> USE <1>1
  <2>1. Next
    BY DEF vars
  <2>2. pc \in [Procs -> {"idle", "get", "getAssets", "apply", "map", "locked", "run", "gdm",
                          "save", "write", "assets", "unlock"}]
    BY DEF Inv, TypeOK
  <2>3. CacheRead(p)
    <3>1. ~Publish /\ ~Crash
      BY DEF Publish, Crash
    <3>2. \A q \in Procs, o \in Objects, purge \in BOOLEAN : ~Update(q, o, purge)
      BY <2>2 DEF Update, Goto
    <3>3. \A q \in Procs : ~ApplyStep(q)
      BY <2>2 DEF ApplyStep, LockMap, LockObject, Prepare, ManagerApply, Wait, GdmApply,
         SaveTruncate, SaveWrite, SaveAssets, Unlock, Goto
    <3>4. \A q \in Procs : GetStep(q) => q = p /\ CacheRead(q)
      BY <2>2 DEF GetStep, GetOnline, GetFails, CacheRead, CacheMissing, CacheReadAssets, Goto
    <3> QED BY <2>1, <3>1, <3>2, <3>3, <3>4 DEF Next
  <2>4. object[p] \in Objects
    BY DEF Inv, TypeOK
  <2>5. cache[object[p]].gpos \in saved[object[p]]
    BY <2>3, <2>4 DEF CacheRead, Inv, FileInv
  <2> QED BY <2>3, <2>5 DEF CacheRead, Inv, TypeOK, Policies
<1>2. Inv /\ [Next]_vars =>
        [\A p \in Procs :
           /\ pc[p] = "get" /\ pc'[p] = "getAssets"
           /\ budget.crashes = MaxCrashes
           /\ \A q \in Procs : ~(pc[q] = "write" /\ object[q] = object[p])
           => pols'[p].gpos \in saved[object[p]]]_vars
  BY <1>1
<1> QED BY <1>2, Invariance, PTL DEF Spec, UndisturbedReadIsSavedPolicies
-----------------------------------------------------------------------------
(* The refinement: the object an update holds the mutex of is the one it works on. *)

\* The holder of the mutex of an object is an update in ApplyPolicies for it, so that
\* the version applied is that of its Policies.
LEMMA HolderVersion ==
  ASSUME Inv
  PROVE  /\ \A p \in Procs : pc[p] \in Holding =>
              object[p] \in Objects /\ current[object[p]] = pols[p].gpos /\ pols[p].gpos # Missing
         /\ \A o \in Objects : current[o] = Missing <=> objectMu[o] = NoOne
         /\ \A o \in Objects : objectMu[o] # NoOne =>
              objectMu[o] \in Procs /\ pc[objectMu[o]] \in Holding
<1> USE Constants DEF Inv
<1>1. \A p \in Procs : pols[p].gpos \in Versions /\ object[p] \in Objects
  BY DEF TypeOK, Policies
<1>2. \A o \in Objects : objectMu[o] # NoOne => objectMu[o] \in Procs /\ pc[objectMu[o]] \in Holding
  BY DEF TypeOK, LockInv
<1> QED BY <1>1, <1>2 DEF current, LockInv

\* A step that leaves the mutex of every object and the Policies of the updates that hold
\* one alone leaves the versions being applied alone.
LEMMA CurrentKept ==
  ASSUME Inv, UNCHANGED objectMu, \A q \in Procs : pc[q] \in Holding => pols'[q] = pols[q]
  PROVE  UNCHANGED current
<1>1. \A o \in Objects : objectMu[o] # NoOne => pols'[objectMu[o]] = pols[objectMu[o]]
  BY HolderVersion
<1> QED BY <1>1 DEF current

\* Before its lock of an object an update changes nothing its callers see.
LEMMA HiddenRefines ==
  ASSUME Inv,
         \/ Publish
         \/ \E p \in Procs : \/ \E o \in Objects, purge \in BOOLEAN : Update(p, o, purge)
                            \/ GetStep(p) \/ LockMap(p)
                            \/ \E pro \in BOOLEAN : Prepare(p, pro)
                            \/ Wait(p)
  PROVE  UNCHANGED Updates!vars
<1>1. UNCHANGED <<objectMu, applied, cache, settled>>
  BY DEF Publish, Update, GetStep, GetOnline, GetFails, CacheRead, CacheMissing, CacheReadAssets,
     GetFrame, LockMap, Prepare, Wait, ApplyFrame, lockVars, historyVars
<1>2. \A q \in Procs : pc[q] \in Holding => pols'[q] = pols[q]
  BY ZenonT(60) DEF Inv, TypeOK, Holding, Goto, Publish, Update, GetStep, GetOnline, GetFails, CacheRead,
     CacheMissing, CacheReadAssets, LockMap, Prepare, Wait, ApplyFrame
<1> QED BY <1>1, <1>2, CurrentKept DEF Updates!vars

\* The lock of the object begins its update: it was free.
LEMMA LockObjectRefines ==
  ASSUME Inv, NEW p \in Procs, LockObject(p)
  PROVE  \E v \in Versions : Updates!Begin(object[p], v)
<1> USE Constants DEF LockObject, Goto, ApplyFrame
<1>1. pols[p].gpos \in Versions /\ object[p] \in Objects /\ objectMu \in [Objects -> Procs \cup {NoOne}]
  BY DEF Inv, TypeOK, Policies
<1>2. current[object[p]] = Missing
  BY <1>1, HolderVersion
<1>3. current' = [current EXCEPT ![object[p]] = pols[p].gpos]
  BY <1>1 DEF current
<1> QED BY <1>1, <1>2, <1>3 DEF Updates!Begin

\* What a manager puts in force is the version of the update, or nothing for want of Pro.
LEMMA EnforceRefines ==
  ASSUME Inv, NEW p \in Procs, NEW m \in Managers \cup {Gdm},
         pc[p] \in {"run", "gdm"}, Enforce(p, m) \/ UNCHANGED applied,
         UNCHANGED <<objectMu, cache, settled, pols>>
  PROVE  Updates!Enforce(object[p], m) \/ UNCHANGED Updates!vars
<1>1. UNCHANGED current
  BY CurrentKept
<1>2. current[object[p]] = pols[p].gpos /\ current[object[p]] # Missing
  BY HolderVersion DEF Holding
<1>3. rules[p][m] = pols[p].gpos \/ (m \in ProManagers /\ rules[p][m] = 0)
  BY DEF Inv, RulesInv
<1> QED BY <1>1, <1>2, <1>3 DEF Enforce, Updates!Enforce, Updates!vars

\* Save writes the file of an object whose version is in force.
LEMMA SaveRefines ==
  ASSUME Inv, NEW p \in Procs, SaveTruncate(p) \/ SaveWrite(p)
  PROVE  \E o \in Objects : Updates!Write(o)
<1> USE DEF SaveTruncate, SaveWrite, Goto, SaveFrame, lockVars
<1>1. /\ pc[p] \in {"save", "write"} /\ object[p] \in Objects
      /\ cache \in [Objects -> [gpos : Versions \cup {Missing}, assets : Versions]]
  BY DEF Inv, TypeOK
<1>2. UNCHANGED current
  BY CurrentKept
<1>3. current[object[p]] = pols[p].gpos /\ current[object[p]] # Missing
  BY <1>1, HolderVersion DEF Holding
<1>4. applied[object[p]][Dconf] = pols[p].gpos
  BY <1>1 DEF Inv, ProgressInv, Enforced
<1>5. \E v \in {0, pols[p].gpos} : /\ cache'[object[p]].gpos = v
                                  /\ \A o \in Objects : o # object[p] => cache'[o] = cache[o]
  BY <1>1
<1>6. \E v \in {0, pols[p].gpos} :
         [o \in Objects |-> cache'[o].gpos] = [[o \in Objects |-> cache[o].gpos] EXCEPT ![object[p]] = v]
  BY <1>1, <1>5
<1> QED BY <1>1, <1>2, <1>3, <1>4, <1>6 DEF Updates!Write

\* The assets are beside the rules of the cache.
LEMMA SaveAssetsRefines ==
  ASSUME Inv, NEW p \in Procs, SaveAssets(p) PROVE UNCHANGED Updates!vars
<1> USE DEF SaveAssets, Goto, SaveFrame, lockVars
<1>1. /\ object[p] \in Objects
      /\ cache \in [Objects -> [gpos : Versions \cup {Missing}, assets : Versions]]
  BY DEF Inv, TypeOK
<1>2. \A o \in Objects : cache'[o].gpos = cache[o].gpos
  BY <1>1
<1>3. UNCHANGED current
  BY CurrentKept
<1> QED BY <1>2, <1>3 DEF Updates!vars

\* The deferred unlock ends the update; without an error all of it is done.
LEMMA UnlockRefines ==
  ASSUME Inv, NEW p \in Procs, Unlock(p) PROVE \E ok \in BOOLEAN : Updates!End(object[p], ok)
<1> USE DEF Unlock, Goto, ApplyFrame
<1>1. /\ object[p] \in Objects /\ pc[p] = "unlock"
      /\ objectMu \in [Objects -> Procs \cup {NoOne}]
  BY DEF Inv, TypeOK
<1>2. (~err[p]) \in BOOLEAN
  BY Zenon
<1>3. current[object[p]] = pols[p].gpos /\ current[object[p]] # Missing
  BY <1>1, HolderVersion DEF Holding
<1>4. current' = [current EXCEPT ![object[p]] = Missing]
  BY <1>1 DEF current
<1>5. ~err[p] => cache[object[p]].gpos = pols[p].gpos /\ applied[object[p]][Dconf] = pols[p].gpos
  BY <1>1 DEF Inv, SavedAssetsMatchRules, ProgressInv, Enforced
<1>6. Updates!End(object[p], ~err[p])
  BY <1>1, <1>3, <1>4, <1>5 DEF Updates!End
<1> QED BY <1>2, <1>6

\* A crash cuts every update short.
LEMMA CrashRefines == ASSUME Inv, Crash PROVE Updates!Kill
<1>1. current' = [o \in Objects |-> Missing]
  BY DEF Crash, current
<1>2. \A o \in Objects : current[o] = Missing <=> objectMu[o] = NoOne
  BY HolderVersion
<1>3. settled' = [o \in Objects |-> settled[o] /\ current[o] = Missing]
  BY <1>2, Zenon DEF Crash
<1> QED BY <1>1, <1>3 DEF Crash, Updates!Kill

\* ApplyPolicies, with its two mutexes, its goroutines and Save, implements
\* ObjectUpdates: overlapping updates of an object are applied one after the other, a
\* failure or a crash leaves nothing but the versions of updates, and an update that
\* went well left its version in force and in the cache.
THEOREM Serialisation == Spec => ImplementsObjectUpdates
<1>1. Init => Updates!Init
  BY Constants DEF Init, Updates!Init, current, Nothing
<1>2. Inv /\ [Next]_vars => [Updates!Next]_(Updates!vars)
  <2> SUFFICES ASSUME Inv, [Next]_vars PROVE [Updates!Next]_(Updates!vars)
    OBVIOUS
  <2>1. \A p \in Procs : object[p] \in Objects
    BY DEF Inv, TypeOK
  <2>2. ASSUME NEW p \in Procs, ApplyStep(p) PROVE [Updates!Next]_(Updates!vars)
    <3>1. CASE LockMap(p) \/ (\E pro \in BOOLEAN : Prepare(p, pro)) \/ Wait(p)
      BY <3>1, HiddenRefines
    <3>2. CASE LockObject(p)
      BY <2>1, <3>2, LockObjectRefines DEF Updates!Next
    <3>3. ASSUME NEW m \in Managers, ManagerApply(p, m) PROVE [Updates!Next]_(Updates!vars)
      <4>1. Updates!Enforce(object[p], m) \/ UNCHANGED Updates!vars
        BY <3>3, EnforceRefines DEF ManagerApply, ApplyFrame, lockVars
      <4> QED BY <2>1, <4>1 DEF Updates!Next
    <3>4. CASE GdmApply(p)
      <4>1. Updates!Enforce(object[p], Gdm) \/ UNCHANGED Updates!vars
        BY <3>4, EnforceRefines DEF GdmApply, ApplyFrame, lockVars
      <4> QED BY <2>1, <4>1 DEF Updates!Next
    <3>5. CASE SaveTruncate(p) \/ SaveWrite(p)
      BY <3>5, SaveRefines DEF Updates!Next
    <3>6. CASE SaveAssets(p)
      BY <3>6, SaveAssetsRefines
    <3>7. CASE Unlock(p)
      BY <2>1, <3>7, UnlockRefines DEF Updates!Next
    <3> QED BY <2>2, <3>1, <3>2, <3>3, <3>4, <3>5, <3>6, <3>7 DEF ApplyStep
  <2>3. CASE Crash
    BY <2>3, CrashRefines DEF Updates!Next
  <2>4. CASE UNCHANGED vars
    BY <2>4 DEF vars, Updates!vars, current
  <2> QED BY <2>2, <2>3, <2>4, HiddenRefines DEF Next
<1> QED BY <1>1, <1>2, Invariance, PTL DEF Spec, ImplementsObjectUpdates, Updates!Spec
=============================================================================
