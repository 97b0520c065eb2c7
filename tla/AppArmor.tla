------------------------------ MODULE AppArmor ------------------------------
(***************************************************************************)
(* The apparmor manager (internal/policies/apparmor): the directory of the *)
(* machine's profiles, swapped with a new one and restored on failure; the *)
(* file of each user, a hat that every machine profile includes; and what  *)
(* the kernel has loaded.  A mutex makes calls exclusive, not crash proof. *)
(***************************************************************************)
EXTENDS Naturals, FiniteSets

CONSTANTS
  Files,        \* profile files, each with one policy of the same name
  Users,
  NoUser,       \* the call is for the machine
  Policies,     \* machine policies: [files : entry, assets : dumped files, ver]
  UserPolicies, \* contents of a user's profile, positive numbers
  MaxUpdates,   \* bound: calls of ApplyPolicy
  MaxFaults     \* bound: failures of apparmor_parser and crashes

\* A directory: absent, or files of one version.
NoDir == [there |-> FALSE, files |-> {}, ver |-> 0]
Dir(fs, v) == [there |-> TRUE, files |-> fs, ver |-> v]
NoPolicy == [files |-> {}, assets |-> {}, ver |-> 0]

VARIABLES
  cur, old, new, \* machine, machine.old and machine.new
  userFile,      \* content of each user's file, 0 if there is none
  loaded, hat,   \* the kernel: version of each profile, and of its hat for each user; 0 if none
  pc, policy,    \* the call that holds the mutex, and its machine policy
  who, oldContent, \* the user of the call and the content it replaced
  prev,          \* prevPolicies: on disk and loaded when the call began
  result,        \* what the last call returned
  updates, faults,
  before,        \* history: the directory when the call began
  orphans,       \* history: profiles that a crash or a partial load left without a file
  missed         \* history: users whose hats a crash, or a load that failed midway, left without their file

vars == <<cur, old, new, userFile, loaded, hat, pc, policy, who, oldContent, prev, result,
          updates, faults, before, orphans, missed>>

disk == <<cur, old, new, userFile>>
kernel == <<loaded, hat>>
call == <<policy, who, oldContent, prev, before>>

Loaded == {f \in Files : loaded[f] # 0}
Versions == {0} \cup {p.ver : p \in Policies}
Dirs == {NoDir} \cup {Dir(fs, v) : fs \in SUBSET Files, v \in Versions}

TypeOK ==
  /\ {cur, old, new, before} \subseteq Dirs
  /\ userFile \in [Users -> {0} \cup UserPolicies] /\ loaded \in [Files -> Versions]
  /\ hat \in [Files -> [Users -> {0} \cup UserPolicies]]
  /\ pc \in {"idle", "dumped", "moved", "swapped", "unload", "load", "remove", "reload"}
  /\ policy \in Policies \cup {NoPolicy} /\ who \in Users \cup {NoUser}
  /\ oldContent \in {0} \cup UserPolicies
  /\ prev \subseteq Files /\ orphans \subseteq Files /\ missed \subseteq Users
  /\ result \in {"none", "nil", "error"} /\ updates \in 0..MaxUpdates /\ faults \in 0..MaxFaults

NoHat == [u \in Users |-> 0]

Init ==
  /\ cur = NoDir /\ old = NoDir /\ new = NoDir /\ userFile = NoHat
  /\ loaded = [f \in Files |-> 0] /\ hat = [f \in Files |-> NoHat]
  /\ pc = "idle" /\ policy = NoPolicy /\ who = NoUser /\ oldContent = 0 /\ prev = {}
  /\ result = "none" /\ updates = 0 /\ faults = 0
  /\ before = NoDir /\ orphans = {} /\ missed = {}

Count == updates < MaxUpdates /\ updates' = updates + 1 /\ UNCHANGED faults
Fault == faults < MaxFaults /\ faults' = faults + 1 /\ UNCHANGED updates
Quiet == UNCHANGED <<updates, faults>>
Step(from, to) == pc = from /\ pc' = to
Return(r) == pc' = "idle" /\ result' = r

\* ApplyPolicy, when apparmor_parser is not installed.
NoParser(entries) ==
  /\ pc = "idle" /\ Count
  /\ Return(IF entries THEN "error" ELSE "nil") /\ before' = cur /\ policy' = NoPolicy
  /\ UNCHANGED <<disk, kernel, who, oldContent, prev, orphans, missed>>

\* policiesFromFiles over filesInDir: each file holds one profile.
policiesFromFiles(dir) == dir.files

\* filesFromEntry: every file the entry names must be among the assets.
filesFromEntry(p, dir) == p.files \subseteq dir.files

\* removeUnusedAssets: the files the entry does not name are deleted.
removeUnusedAssets(p, dir) == Dir(dir.files \cap p.files, dir.ver)

\* writeIfChanged: the file, and the content that was there.
writeIfChanged(u, v) ==
  userFile' = [userFile EXCEPT ![u] = v] /\ oldContent' = userFile[u]

\* applyMachinePolicy: what is loaded of the directory, stale directories removed,
\* the assets dumped next to it.  A failure of the dump is returned.
applyMachinePolicy(p) ==
  /\ Step("idle", "dumped") /\ Count
  /\ cur' = IF cur.there THEN cur ELSE Dir({}, 0)
  /\ before' = cur /\ prev' = policiesFromFiles(cur) \cap Loaded
  /\ old' = NoDir /\ new' = Dir(p.assets, p.ver)
  /\ policy' = p /\ who' = NoUser /\ result' = "none"
  /\ UNCHANGED <<userFile, kernel, oldContent, orphans, missed>>

RenameOld ==
  /\ Step("dumped", "moved") /\ old' = cur /\ cur' = NoDir /\ Quiet
  /\ UNCHANGED <<new, userFile, kernel, call, result, orphans, missed>>

RenameNew ==
  /\ Step("moved", "swapped") /\ cur' = new /\ new' = NoDir /\ Quiet
  /\ UNCHANGED <<old, userFile, kernel, call, result, orphans, missed>>

\* Mutant: the new files are left in place.
cleanupOldApparmorDirMissing == old' = NoDir /\ UNCHANGED <<cur, new, userFile>>

\* The deferred restore: the old directory, if it is still there, is put back.
cleanupOldApparmorDir ==
  /\ cur' = IF old.there THEN old ELSE cur
  /\ old' = NoDir
  /\ UNCHANGED <<new, userFile>>

\* A file of the entry that was not dumped is an error; the other assets are deleted.
CheckFiles ==
  /\ pc = "swapped" /\ Quiet
  /\ \/ /\ filesFromEntry(policy, cur) /\ pc' = "unload"
        /\ cur' = removeUnusedAssets(policy, cur) /\ UNCHANGED <<old, new, userFile, result>>
     \/ /\ ~filesFromEntry(policy, cur)
        /\ Return("error") /\ cleanupOldApparmorDir
  /\ UNCHANGED <<kernel, call, orphans, missed>>

\* A profile goes with its hats: unloadPolicies skips the hats of a parent it unloads.
Unload(fs) ==
  /\ loaded' = [f \in Files |-> IF f \in fs THEN 0 ELSE loaded[f]]
  /\ hat' = [f \in Files |-> IF f \in fs THEN NoHat ELSE hat[f]]

\* Mutant: what the new policy has not is left loaded.
UnloadRemovedNothing ==
  /\ Step("unload", "load") /\ Unload({})
  /\ UNCHANGED <<disk, call, result, orphans, missed>> /\ Quiet

\* unloadPolicies(difference(prevPolicies, newPolicies))
UnloadRemoved ==
  /\ Step("unload", "load") /\ Unload(prev \ policiesFromFiles(cur))
  /\ orphans' = orphans \ (prev \ policiesFromFiles(cur))
  /\ UNCHANGED <<disk, call, result, missed>> /\ Quiet

\* apparmor_parser -r: profiles and the hats they include, as they are on disk.
Load(fs) ==
  /\ loaded' = [f \in Files |-> IF f \in fs THEN cur.ver ELSE loaded[f]]
  /\ hat' = [f \in Files |-> IF f \in fs THEN userFile ELSE hat[f]]

LoadMachine ==
  /\ pc = "load" /\ Return("nil") /\ Load(cur.files)
  /\ old' = NoDir /\ missed' = {} /\ orphans' = orphans \ cur.files
  /\ UNCHANGED <<cur, new, userFile, call>> /\ Quiet

\* The parser fails while it lists, unloads or loads (some profiles may be gone, or
\* loaded), and the files are restored.
MachineFails ==
  /\ pc \in {"unload", "load"} /\ Fault /\ Return("error")
  /\ IF pc = "load" THEN \E fs \in SUBSET cur.files : Load(fs)
     ELSE \E fs \in SUBSET (prev \ policiesFromFiles(cur)) : Unload(fs)
  /\ cleanupOldApparmorDir
  /\ orphans' = orphans \cup (IF pc = "load" THEN cur.files \ cur'.files ELSE {})
  /\ UNCHANGED <<call, missed>>

\* The dump of the assets, or the listing of the policies, fails before anything moved.
ApplyFails(u) ==
  /\ pc = "idle" /\ Fault /\ Return("error")
  /\ before' = cur /\ cur' = (IF u = NoUser /\ ~cur.there THEN Dir({}, 0) ELSE cur)
  /\ policy' = NoPolicy
  /\ UNCHANGED <<old, new, userFile, kernel, who, oldContent, prev, orphans, missed>>

\* The policies that the files declare and that are loaded: of the machine, or the hats
\* of a user, which the profiles include only while the user has a file.
declared(u) ==
  {f \in policiesFromFiles(cur) \cap Loaded : u = NoUser \/ (userFile[u] # 0 /\ hat[f][u] # 0)}

unloadPolicies(u, fs) ==
  IF u = NoUser THEN Unload(fs)
  ELSE /\ hat' = [f \in Files |-> IF f \in fs THEN [hat[f] EXCEPT ![u] = 0] ELSE hat[f]]
       /\ UNCHANGED loaded

\* unloadAllRules: what is declared is unloaded, and the path removed.
unloadAllRules(u) ==
  /\ Step("idle", "remove") /\ Count /\ who' = u /\ policy' = NoPolicy /\ before' = cur /\ result' = "none"
  /\ unloadPolicies(u, declared(u))
  /\ orphans' = IF u = NoUser THEN orphans \ cur.files ELSE orphans
  /\ UNCHANGED <<disk, oldContent, prev, missed>>

\* apparmor_parser -R fails, perhaps after some of the policies.
UnloadAllFails(u) ==
  /\ pc = "idle" /\ Fault /\ Return("error") /\ policy' = NoPolicy /\ before' = cur
  /\ \E fs \in SUBSET declared(u) :
       unloadPolicies(u, fs) /\ missed' = IF fs = {} THEN missed ELSE missed \cup ({u} \cap Users)
  /\ UNCHANGED <<disk, who, oldContent, prev, orphans>>

\* A hat that was missed and that the user's file did not declare is still loaded.
RemovePath ==
  /\ pc = "remove" /\ Return("nil") /\ Quiet
  /\ IF who = NoUser THEN cur' = NoDir /\ UNCHANGED <<userFile, missed>>
     ELSE /\ userFile' = [userFile EXCEPT ![who] = 0] /\ UNCHANGED cur
          /\ missed' = IF userFile[who] = 0 THEN missed ELSE missed \ {who}
  /\ UNCHANGED <<old, new, kernel, call, orphans>>

\* applyUserPolicy: the file is written unless it is the same; machine profiles are
\* reloaded if there are any.
applyUserPolicy(u, v) ==
  /\ pc = "idle" /\ Count /\ before' = cur /\ policy' = NoPolicy /\ who' = u
  /\ writeIfChanged(u, v)
  /\ IF userFile[u] = v \/ ~cur.there THEN Return("nil") ELSE pc' = "reload" /\ result' = "none"
  /\ UNCHANGED <<cur, old, new, kernel, prev, orphans, missed>>

ReloadForUser ==
  /\ pc = "reload" /\ Return("nil") /\ Load(cur.files)
  /\ missed' = {} /\ orphans' = orphans \ cur.files
  /\ UNCHANGED <<disk, call>> /\ Quiet

\* The parser fails, perhaps after some profiles: the old content is put back.
ReloadFails ==
  /\ pc = "reload" /\ Fault /\ Return("error")
  /\ \E fs \in SUBSET cur.files :
       Load(fs) /\ missed' = IF fs = {} THEN missed ELSE missed \cup {who}
  /\ userFile' = [userFile EXCEPT ![who] = oldContent]
  /\ UNCHANGED <<cur, old, new, call, orphans>>

Crash ==
  /\ pc # "idle" /\ Fault /\ Return("none")
  /\ orphans' = orphans \cup (Loaded \ cur.files)
  /\ missed' = IF pc \in {"remove", "reload"} THEN missed \cup ({who} \cap Users) ELSE missed
  /\ UNCHANGED <<disk, kernel, call>>

Next ==
  \/ \E e \in BOOLEAN : NoParser(e)
  \/ \E p \in Policies : applyMachinePolicy(p)
  \/ RenameOld \/ RenameNew \/ CheckFiles \/ UnloadRemoved \/ LoadMachine \/ MachineFails
  \/ \E u \in Users \cup {NoUser} : unloadAllRules(u) \/ UnloadAllFails(u) \/ ApplyFails(u)
  \/ \E u \in Users, v \in UserPolicies : applyUserPolicy(u, v)
  \/ RemovePath \/ ReloadForUser \/ ReloadFails \/ Crash

Spec == Init /\ [][Next]_vars

----------------------------------------------------------------------------
(* Between two calls every profile of adsys that the kernel has loaded has *)
(* its file in the machine directory, from which alone later calls find    *)
(* what to unload, and its hats are the files of the users.  Excepted are  *)
(* the profiles and the hats that a crash, or a parser that failed midway, *)
(* has left behind.                                                        *)
KernelFollowsFiles ==
  pc = "idle" =>
    /\ Loaded \ orphans \subseteq cur.files
    /\ \A f \in Loaded \ orphans, u \in Users \ missed : hat[f][u] = userFile[u]

(* An update that returns an error leaves the directory of the machine as  *)
(* it found it, at whatever step it failed; one that succeeds leaves the   *)
(* profiles of its entry, all loaded in their version.                     *)
FilesAreAllOrNothing ==
  pc = "idle" =>
    /\ result = "error" => cur.files = before.files /\ cur.ver = before.ver
    /\ result = "nil" /\ policy # NoPolicy /\ who = NoUser =>
         cur = Dir(policy.files, policy.ver) /\ \A f \in policy.files : loaded[f] = policy.ver

(* Files and kernel agree, and an update is all or nothing.                *)
ProfilesAreConsistent == KernelFollowsFiles /\ FilesAreAllOrNothing
=============================================================================
