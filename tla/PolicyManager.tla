--------------------------- MODULE PolicyManager ---------------------------
(***************************************************************************)
(* Package internal/policies: concurrent policy updates, from the policies *)
(* obtained for an object (online, from the cache, or none for a purge) to *)
(* ApplyPolicies, its managers and the cache written by Save.  The content *)
(* of a policy is its version; 0 is the empty policy.  What GetPolicies    *)
(* does online is module AD; here it returns the version of the moment.    *)
(***************************************************************************)
EXTENDS Integers, FiniteSets

CONSTANTS
  Procs,        \* concurrent updates
  Users,        \* the users of the machine
  Computer,     \* the machine itself
  FreeManagers, \* managers available to any machine; one of them is Dconf
  ProManagers,  \* managers of ProOnlyRules
  Dconf, Gdm,   \* Gdm runs after the others, and for the machine only
  WithAssets,   \* versions that come with assets
  BadTemplate,  \* versions with an invalid dynamic value in a free rule
  BadProTemplate, \* versions with an invalid dynamic value in a Pro rule
  UserTemplate, \* versions with a dynamic value about the user in a free rule
  CanBeOffline, \* whether the machine may be offline
  MaxVersion,   \* bound: versions published on AD
  MaxCalls,     \* bound: updates
  MaxFailures,  \* bound: failures of AD or of a manager
  MaxCrashes,   \* bound: crashes of the daemon
  NoOne         \* a mutex is free

Objects == Users \cup {Computer}
Managers == FreeManagers \cup ProManagers
Versions == 0..MaxVersion
Missing == -1   \* no policy was ever saved for the object

ASSUME PolicyManagerAssumption ==
  /\ Computer \notin Users /\ NoOne \notin Procs
  /\ Dconf \in FreeManagers /\ Gdm \notin Managers /\ FreeManagers \cap ProManagers = {}
  /\ WithAssets \cup BadTemplate \cup BadProTemplate \cup UserTemplate \subseteq Versions \ {0}
  /\ CanBeOffline \in BOOLEAN
  /\ MaxVersion \in Nat \ {0} /\ MaxCalls \in Nat /\ MaxFailures \in Nat /\ MaxCrashes \in Nat

VARIABLES
  remote,    \* the version AD would serve now
  cache,     \* <policies cache dir>/<object>: the two files
  applied,   \* the version each manager has in force for each object
  muMu,      \* holder of the mutex of the map
  objectMu,  \* holder of the mutex of each object
  pc,        \* where each update is
  object,    \* the object it is for
  pols,      \* the Policies it works on
  rules,     \* what it hands to each manager
  running,   \* the state of each manager's goroutine
  err,       \* the error it returns
  settled,   \* history: the last ApplyPolicies of the object succeeded
  saved,     \* history: the versions saved for each object
  budget     \* updates, failures and crashes left

vars == <<remote, cache, applied, muMu, objectMu, pc, object, pols, rules, running, err,
          settled, saved, budget>>

Policies == [gpos : Versions, assets : Versions, fromCache : BOOLEAN]
InForce == [Managers \cup {Gdm} -> Versions]
Nothing == [m \in Managers \cup {Gdm} |-> 0]

TypeOK ==
  /\ remote \in Versions
  /\ cache \in [Objects -> [gpos : Versions \cup {Missing}, assets : Versions]]
  /\ applied \in [Objects -> InForce]
  /\ muMu \in Procs \cup {NoOne}
  /\ objectMu \in [Objects -> Procs \cup {NoOne}]
  /\ pc \in [Procs -> {"idle", "get", "getAssets", "apply", "map", "locked", "run", "gdm",
                       "save", "write", "assets", "unlock"}]
  /\ object \in [Procs -> Objects]
  /\ pols \in [Procs -> Policies]
  /\ rules \in [Procs -> InForce]
  /\ running \in [Procs -> [Managers -> {"run", "ok", "failed"}]]
  /\ err \in [Procs -> BOOLEAN]
  /\ settled \in [Objects -> BOOLEAN]
  /\ saved \in [Objects -> SUBSET Versions]
  /\ budget \in [calls : 0..MaxCalls, failures : 0..MaxFailures, crashes : 0..MaxCrashes]

AssetsOf(v) == IF v \in WithAssets THEN v ELSE 0
EmptyPolicies == [gpos |-> 0, assets |-> 0, fromCache |-> FALSE]

Init ==
  /\ remote = 1
  /\ cache = [o \in Objects |-> [gpos |-> Missing, assets |-> 0]]
  /\ applied = [o \in Objects |-> Nothing]
  /\ muMu = NoOne /\ objectMu = [o \in Objects |-> NoOne]
  /\ pc = [p \in Procs |-> "idle"] /\ object = [p \in Procs |-> Computer]
  /\ pols = [p \in Procs |-> EmptyPolicies] /\ rules = [p \in Procs |-> Nothing]
  /\ running = [p \in Procs |-> [m \in Managers |-> "run"]]
  /\ err = [p \in Procs |-> FALSE]
  /\ settled = [o \in Objects |-> FALSE] /\ saved = [o \in Objects |-> {}]
  /\ budget = [calls |-> MaxCalls, failures |-> MaxFailures, crashes |-> MaxCrashes]

Goto(p, from, to) == pc[p] = from /\ pc' = [pc EXCEPT ![p] = to]
Fails == budget.failures > 0 /\ budget' = [budget EXCEPT !.failures = @ - 1]

lockVars == <<muMu, objectMu>>
historyVars == <<settled, saved>>

-----------------------------------------------------------------------------
(* updatePolicyFor: the policies of the object. *)

\* A new version is published on AD (external).
Publish ==
  /\ remote < MaxVersion /\ remote' = remote + 1
  /\ UNCHANGED <<cache, applied, lockVars, pc, object, pols, rules, running, err, historyVars,
                 budget>>

GetFrame == <<remote, cache, applied, lockVars, rules, running, historyVars>>

\* An update starts; a purge applies empty policies.
Update(p, o, purge) ==
  /\ Goto(p, "idle", IF purge THEN "apply" ELSE "get")
  /\ budget.calls > 0 /\ budget' = [budget EXCEPT !.calls = @ - 1]
  /\ object' = [object EXCEPT ![p] = o]
  /\ pols' = [pols EXCEPT ![p] = EmptyPolicies]
  /\ err' = [err EXCEPT ![p] = FALSE]
  /\ UNCHANGED GetFrame

\* GetPolicies, online.
GetOnline(p) ==
  /\ Goto(p, "get", "apply")
  /\ pols' = [pols EXCEPT ![p] = [gpos |-> remote, assets |-> AssetsOf(remote),
                                  fromCache |-> FALSE]]
  /\ UNCHANGED <<GetFrame, object, err, budget>>

GetFails(p) ==
  /\ Goto(p, "get", "idle") /\ Fails
  /\ UNCHANGED <<GetFrame, object, pols, err>>

\* Mutant: a missing policies file is an empty policy.
CacheReadMissingIsEmpty(p) ==
  /\ CanBeOffline /\ Goto(p, "get", "getAssets")
  /\ pols' = [pols EXCEPT ![p].gpos = IF cache[object[p]].gpos = Missing THEN 0
                                      ELSE cache[object[p]].gpos]
  /\ UNCHANGED <<GetFrame, object, err, budget>>

\* NewFromCache reads the policies file, whose absence is an error, and then the
\* assets, without the object's mutex.
CacheRead(p) ==
  /\ CanBeOffline
  /\ cache[object[p]].gpos # Missing /\ Goto(p, "get", "getAssets")
  /\ pols' = [pols EXCEPT ![p].gpos = cache[object[p]].gpos]
  /\ UNCHANGED <<GetFrame, object, err, budget>>

CacheMissing(p) ==
  /\ CanBeOffline
  /\ cache[object[p]].gpos = Missing /\ Goto(p, "get", "idle")
  /\ UNCHANGED <<GetFrame, object, pols, err, budget>>

CacheReadAssets(p) ==
  /\ Goto(p, "getAssets", "apply")
  /\ pols' = [pols EXCEPT ![p].assets = cache[object[p]].assets,
                          ![p].fromCache = cache[object[p]].assets # 0]
  /\ UNCHANGED <<GetFrame, object, err, budget>>

-----------------------------------------------------------------------------
(* ApplyPolicies. *)

ApplyFrame == <<remote, object, pols, saved>>

LockMap(p) ==
  /\ Goto(p, "apply", "map")
  /\ muMu = NoOne /\ muMu' = p
  /\ UNCHANGED <<ApplyFrame, cache, applied, objectMu, rules, running, err, settled,
                 budget>>

\* Mutant: the object's mutex is not waited for.
LockObjectUnguarded(p) ==
  /\ Goto(p, "map", "locked")
  /\ objectMu' = [objectMu EXCEPT ![object[p]] = p]
  /\ muMu' = NoOne
  /\ UNCHANGED <<ApplyFrame, cache, applied, rules, running, err, settled, budget>>

\* Mutant: the map's mutex is not released.
LockObjectKeepsMap(p) ==
  /\ Goto(p, "map", "locked")
  /\ objectMu[object[p]] = NoOne /\ objectMu' = [objectMu EXCEPT ![object[p]] = p]
  /\ UNCHANGED <<ApplyFrame, cache, applied, muMu, rules, running, err, settled, budget>>

\* The object's mutex is waited for with the map's mutex held.
LockObject(p) ==
  /\ Goto(p, "map", "locked")
  /\ objectMu[object[p]] = NoOne /\ objectMu' = [objectMu EXCEPT ![object[p]] = p]
  /\ muMu' = NoOne
  /\ UNCHANGED <<ApplyFrame, cache, applied, rules, running, err, settled, budget>>

\* filterRules, when the machine is not attached to Ubuntu Pro.
filterRules(v, pro) ==
  [m \in Managers \cup {Gdm} |-> IF m \in ProManagers /\ ~pro THEN 0 ELSE v]

\* The context of the expansion: that of the machine has no user.
dynamicValuesContext(o) == [isComputer |-> o = Computer]

\* Expand refuses a malformed or unknown placeholder, and a user's one for the machine.
Expand(v, ctx) == v \notin BadTemplate /\ (ctx.isComputer => v \notin UserTemplate)

\* Mutant: the rules are expanded as those of a user.
expandDynamicValuesAnyUser(v, ctx, pro) == Expand(v, [isComputer |-> FALSE]) /\ (pro => v \notin BadProTemplate)

\* expandDynamicValues over the rules that are left.
expandDynamicValues(v, ctx, pro) == Expand(v, ctx) /\ (pro => v \notin BadProTemplate)

\* Filter, then expand: an invalid template ends the call before any manager runs.
Prepare(p, pro) ==
  /\ pc[p] = "locked"
  /\ rules' = [rules EXCEPT ![p] = filterRules(pols[p].gpos, pro)]
  /\ running' = [running EXCEPT ![p] = [m \in Managers |-> "run"]]
  /\ IF expandDynamicValues(pols[p].gpos, dynamicValuesContext(object[p]), pro)
     THEN pc' = [pc EXCEPT ![p] = "run"] /\ UNCHANGED err
     ELSE pc' = [pc EXCEPT ![p] = "unlock"] /\ err' = [err EXCEPT ![p] = TRUE]
  /\ UNCHANGED <<ApplyFrame, cache, applied, lockVars, settled, budget>>

Enforce(p, m) == applied' = [applied EXCEPT ![object[p]][m] = rules[p][m]]

\* The goroutine of a manager ends; one that fails may have done its work or not.
ManagerApply(p, m) ==
  /\ pc[p] = "run" /\ running[p][m] = "run"
  /\ \/ /\ running' = [running EXCEPT ![p][m] = "ok"]
        /\ Enforce(p, m) /\ UNCHANGED budget
     \/ /\ running' = [running EXCEPT ![p][m] = "failed"]
        /\ Enforce(p, m) \/ UNCHANGED applied
        /\ Fails
  /\ UNCHANGED <<ApplyFrame, cache, lockVars, pc, rules, err, settled>>

\* Mutant: the error of the group is not looked at.
WaitIgnoresErrors(p) ==
  /\ pc[p] = "run" /\ \A m \in Managers : running[p][m] # "run"
  /\ pc' = [pc EXCEPT ![p] = IF object[p] = Computer THEN "gdm" ELSE "save"]
  /\ UNCHANGED <<ApplyFrame, cache, applied, lockVars, rules, running, err, settled,
                 budget>>

\* g.Wait(): any error ends the call.
Wait(p) ==
  /\ pc[p] = "run" /\ \A m \in Managers : running[p][m] # "run"
  /\ IF \E m \in Managers : running[p][m] = "failed"
     THEN pc' = [pc EXCEPT ![p] = "unlock"] /\ err' = [err EXCEPT ![p] = TRUE]
     ELSE /\ pc' = [pc EXCEPT ![p] = IF object[p] = Computer THEN "gdm" ELSE "save"]
          /\ UNCHANGED err
  /\ UNCHANGED <<ApplyFrame, cache, applied, lockVars, rules, running, settled, budget>>

GdmApply(p) ==
  /\ pc[p] = "gdm"
  /\ \/ /\ pc' = [pc EXCEPT ![p] = "save"]
        /\ Enforce(p, Gdm) /\ UNCHANGED <<err, budget>>
     \/ /\ pc' = [pc EXCEPT ![p] = "unlock"] /\ err' = [err EXCEPT ![p] = TRUE]
        /\ Enforce(p, Gdm) \/ UNCHANGED applied
        /\ Fails
  /\ UNCHANGED <<ApplyFrame, cache, lockVars, rules, running, settled>>

-----------------------------------------------------------------------------
(* Save. *)

SaveFrame == <<remote, applied, lockVars, object, pols, rules, running, err, settled,
               budget>>

\* os.WriteFile truncates the policies file: an empty file is an empty policy.
SaveTruncate(p) ==
  /\ Goto(p, "save", "write")
  /\ cache' = [cache EXCEPT ![object[p]].gpos = 0]
  /\ UNCHANGED <<SaveFrame, saved>>

SaveWrite(p) ==
  /\ Goto(p, "write", "assets")
  /\ cache' = [cache EXCEPT ![object[p]].gpos = pols[p].gpos]
  /\ saved' = [saved EXCEPT ![object[p]] = @ \cup {pols[p].gpos}]
  /\ UNCHANGED SaveFrame

\* Mutant: the assets of the previous policies are left behind.
SaveAssetsKeepsOld(p) ==
  /\ Goto(p, "assets", "unlock")
  /\ cache' = IF pols[p].fromCache \/ pols[p].assets = 0 THEN cache
              ELSE [cache EXCEPT ![object[p]].assets = pols[p].assets]
  /\ UNCHANGED <<SaveFrame, saved>>

\* The assets are removed, kept if they were opened from this very path, or
\* replaced by renaming a copy.
SaveAssets(p) ==
  /\ Goto(p, "assets", "unlock")
  /\ cache' = IF pols[p].fromCache THEN cache
              ELSE [cache EXCEPT ![object[p]].assets = pols[p].assets]
  /\ UNCHANGED <<SaveFrame, saved>>

\* The deferred unlock of the object's mutex.
Unlock(p) ==
  /\ Goto(p, "unlock", "idle")
  /\ objectMu' = [objectMu EXCEPT ![object[p]] = NoOne]
  /\ settled' = [settled EXCEPT ![object[p]] = ~err[p]]
  /\ UNCHANGED <<ApplyFrame, cache, applied, muMu, rules, running, err, budget>>

\* The daemon is killed: what is on disk remains.
Crash ==
  /\ budget.crashes > 0 /\ budget' = [budget EXCEPT !.crashes = @ - 1]
  /\ pc' = [p \in Procs |-> "idle"]
  /\ muMu' = NoOne /\ objectMu' = [o \in Objects |-> NoOne]
  /\ settled' = [o \in Objects |-> settled[o] /\ objectMu[o] = NoOne]
  /\ UNCHANGED <<remote, cache, applied, object, pols, rules, running, err, saved>>

-----------------------------------------------------------------------------
GetStep(p) == GetOnline(p) \/ GetFails(p) \/ CacheRead(p) \/ CacheMissing(p) \/ CacheReadAssets(p)
ApplyStep(p) ==
  \/ LockMap(p) \/ LockObject(p)
  \/ \E pro \in BOOLEAN : Prepare(p, pro)
  \/ \E m \in Managers : ManagerApply(p, m)
  \/ Wait(p) \/ GdmApply(p)
  \/ SaveTruncate(p) \/ SaveWrite(p) \/ SaveAssets(p) \/ Unlock(p)

Next ==
  \/ Publish
  \/ \E p \in Procs :
       \/ \E o \in Objects, purge \in BOOLEAN : Update(p, o, purge)
       \/ GetStep(p) \/ ApplyStep(p)
  \/ Crash

Spec == Init /\ [][Next]_vars

-----------------------------------------------------------------------------
\* When nobody is applying policies for an object and the last time went well, the
\* cache holds what dconf has in force: the next offline update changes nothing.
CacheIsWhatWasApplied ==
  \A o \in Objects : (objectMu[o] = NoOne /\ settled[o]) => cache[o].gpos = applied[o][Dconf]

\* An invalid dynamic value fails closed: no manager is ever given rules of a
\* version with an invalid template, on a Pro machine or not, and the machine none of
\* a version that is about its user.
BadTemplateNeverApplied ==
  \A o \in Objects :
    /\ \A m \in Managers \cup {Gdm} : applied[o][m] \notin BadTemplate
    /\ \A m \in ProManagers : applied[o][m] \notin BadProTemplate
    /\ o = Computer => \A m \in Managers \cup {Gdm} : applied[o][m] \notin UserTemplate

\* GDM is only given a policy once the machine's dconf database has the same one.
GdmAfterMachineDconf ==
  [][applied'[Computer][Gdm] # applied[Computer][Gdm]
       => applied'[Computer][Gdm] = applied[Computer][Dconf]]_vars

\* An update that succeeds leaves in the cache the rules it applied together with
\* their own assets, whatever updates of the object overlap it; one whose assets
\* are the cached ones leaves those in place.
SavedAssetsMatchRules ==
  \A p \in Procs : (pc[p] = "unlock" /\ ~err[p])
                      => LET o == object[p] IN
                         /\ cache[o].gpos = pols[p].gpos
                         /\ pols[p].fromCache \/ cache[o].assets = pols[p].assets

\* The cache of an object stands for what is in force: its rules after an update that
\* went well, with the assets of those rules.
CacheIsSound == TypeOK /\ CacheIsWhatWasApplied /\ SavedAssetsMatchRules

\* Policies taken from the cache are ones that were saved in it, unless an update
\* is, or was when the daemon was killed, between truncating and writing the file.
UndisturbedReadIsSavedPolicies ==
  [][\A p \in Procs :
       /\ pc[p] = "get" /\ pc'[p] = "getAssets"
       /\ budget.crashes = MaxCrashes
       /\ \A q \in Procs : ~(pc[q] = "write" /\ object[q] = object[p])
       => pols'[p].gpos \in saved[object[p]]]_vars

\* Policies taken from the cache are ones that were saved in it.
CacheReadIsSavedPolicies ==
  \A p \in Procs : pc[p] = "getAssets" => pols[p].gpos \in saved[object[p]]

\* An update in its course waits for nothing but the map's mutex and its object's: a
\* goroutine of a manager always ends.
CanProceed(p) ==
  /\ pc[p] # "idle"
  /\ pc[p] = "apply" => muMu = NoOne
  /\ pc[p] = "map" => objectMu[object[p]] = NoOne

\* No deadlock: an update that waits for an object's mutex with the map's mutex
\* held delays the updates of other objects, but some update can always proceed.
UpdatesCanProceed ==
  (\E p \in Procs : pc[p] # "idle") => \E p \in Procs : CanProceed(p)

\* Each object as its callers see it: the version of the update that holds its mutex.
current == [o \in Objects |-> IF objectMu[o] = NoOne THEN Missing ELSE pols[objectMu[o]].gpos]

Updates == INSTANCE ObjectUpdates WITH
  Managers <- Managers \cup {Gdm}, Main <- Dconf, Withheld <- ProManagers,
  Empty <- 0, None <- Missing,
  inForce <- applied, file <- [o \in Objects |-> cache[o].gpos]

\* The two mutexes, the goroutines of the managers and Save implement ObjectUpdates:
\* overlapping updates of an object are applied one after the other, never mixed.
ImplementsObjectUpdates == Updates!Spec
=============================================================================
