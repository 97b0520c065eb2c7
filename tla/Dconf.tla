------------------------------- MODULE Dconf -------------------------------
(***************************************************************************)
(* The dconf manager (internal/policies/dconf): ApplyPolicy writes the     *)
(* defaults and the locks of an object, and asks dconf to compile all the  *)
(* databases when one of them has changed.  Users (gdm is one) run in      *)
(* parallel, the machine alone.                                            *)
(***************************************************************************)
EXTENDS Naturals, Sequences, SequencesExt, FiniteSets

CONSTANTS
  Machine, Users,  \* the objects
  Policies,        \* what AD may hold for an object: sequences of entries
  NoFile,          \* a file that does not exist
  MaxUpdates,      \* bound: calls of ApplyPolicy
  MaxFaults        \* bound: failures of "dconf update" and crashes

Objects == {Machine} \cup Users

VARIABLES
  defaults, locks, \* the adsys files of each object: their content
  compiled,        \* the database dconf made of both, for each object
  profile,         \* users with a profile that names their database
  pc, policy,      \* each object's call, and its entries
  changed,         \* needsRefresh
  result,          \* what the last call of an object returned
  updates, faults, \* number of calls and of faults
  lost             \* history: an update that was due was not made, and none since

vars == <<defaults, locks, compiled, profile, pc, policy, changed, result, updates, faults, lost>>

\* normalizeBoolean, the removal of quotes from integers, and the quotes and brackets
\* that strings and lists get.
normalizeValue(meta, value) ==
  CASE meta = "b" /\ value \in {"y", "yes", "on"} -> "true"
    [] meta = "b" /\ value \in {"n", "no", "off"} -> "false"
    [] meta = "i" /\ value = "'1'" -> "1"
    [] meta = "s" /\ value = "v" -> "'v'"
    [] meta = "as" /\ value = "v" -> "['v']"
    [] meta = "ai" /\ value = "1" -> "[1]"
    [] OTHER -> value

\* The variants the provider of signatures accepts; no signature accepts none.
checkSignature(meta, value) ==
  \/ meta = "b" /\ value \in {"true", "false"}
  \/ meta = "i" /\ value = "1"
  \/ meta = "s" /\ value = "'v'"
  \/ meta = "as" /\ value = "['v']"
  \/ meta = "ai" /\ value = "[1]"

Normalized(e) == normalizeValue(e.meta, e.value)
Rejected(p) == \E i \in DOMAIN p : ~p[i].disabled /\ ~checkSignature(p[i].meta, Normalized(p[i]))

\* Content of the two files: values of the enabled entries, keys of all.
DataOf(p) == LET on == SelectSeq(p, LAMBDA e : ~e.disabled)
             IN  [i \in DOMAIN on |-> <<on[i].key, Normalized(on[i])>>]
LocksOf(p) == [i \in DOMAIN p |-> p[i].key]

TypeOK ==
  /\ defaults \in [Objects -> {NoFile} \cup {DataOf(p) : p \in Policies}]
  /\ locks \in [Objects -> {NoFile} \cup {LocksOf(p) : p \in Policies}]
  /\ profile \subseteq Users
  /\ pc \in [Objects -> {"idle", "defaults", "locks", "refresh", "update"}]
  /\ policy \in [Objects -> Policies]
  /\ changed \in [Objects -> BOOLEAN] /\ result \in [Objects -> {"none", "nil", "error"}]
  /\ updates \in 0..MaxUpdates /\ faults \in 0..MaxFaults /\ lost \in BOOLEAN

Init ==
  /\ defaults = [o \in Objects |-> NoFile] /\ locks = [o \in Objects |-> NoFile]
  /\ compiled = [o \in Objects |-> NoFile] /\ profile = {}
  /\ pc = [o \in Objects |-> "idle"] /\ policy = [o \in Objects |-> CHOOSE p \in Policies : TRUE]
  /\ changed = [o \in Objects |-> FALSE] /\ result = [o \in Objects |-> "none"]
  /\ updates = 0 /\ faults = 0 /\ lost = FALSE

Goto(o, from, to) == pc[o] = from /\ pc' = [pc EXCEPT ![o] = to]
Return(o, r) == result' = [result EXCEPT ![o] = r]

\* dconfMu: the machine writes alone, users share.
LockFree(o) == pc[Machine] = "idle" /\ (o = Machine => \A u \in Users : pc[u] = "idle")

\* A user's policy needs the locks of the machine.
MachineReady(o) == o = Machine \/ locks[Machine] # NoFile

writeProfile(o) == profile' = profile \cup ({o} \cap Users)

\* ApplyPolicy up to the first file: the profile of a user, then every entry.
ApplyPolicy(o, p) ==
  /\ updates < MaxUpdates /\ updates' = updates + 1
  /\ LockFree(o) /\ pc[o] = "idle"
  /\ \/ /\ MachineReady(o) /\ ~Rejected(p)
        /\ pc' = [pc EXCEPT ![o] = "defaults"] /\ writeProfile(o)
        /\ policy' = [policy EXCEPT ![o] = p] /\ changed' = [changed EXCEPT ![o] = FALSE]
        /\ Return(o, "none")
     \/ /\ ~MachineReady(o) \/ Rejected(p)
        /\ IF MachineReady(o) THEN writeProfile(o) ELSE UNCHANGED profile
        /\ Return(o, "error") /\ UNCHANGED <<pc, policy, changed>>
  /\ UNCHANGED <<defaults, locks, compiled, faults, lost>>

\* Mutant: a file that did not exist before is not a change.
writeIfChangedExisting(file, o, content) ==
  /\ file' = [file EXCEPT ![o] = content]
  /\ changed' = [changed EXCEPT ![o] = @ \/ (file[o] # NoFile /\ file[o] # content)]

\* writeIfChanged: a new file renamed into place, unless the content is the same.
writeIfChanged(file, o, content) ==
  /\ file' = [file EXCEPT ![o] = content]
  /\ changed' = [changed EXCEPT ![o] = @ \/ file[o] # content]

WriteDefaults(o) ==
  /\ Goto(o, "defaults", "locks")
  /\ writeIfChanged(defaults, o, DataOf(policy[o]))
  /\ UNCHANGED <<locks, compiled, profile, policy, result, updates, faults, lost>>

WriteLocks(o) ==
  /\ Goto(o, "locks", "refresh")
  /\ writeIfChanged(locks, o, LocksOf(policy[o]))
  /\ UNCHANGED <<defaults, compiled, profile, policy, result, updates, faults, lost>>

dconfNeedsUpdate(o) == compiled[o] = NoFile

\* Something changed, or the database of the machine or of the object is missing.
NeedsRefresh(o) == changed[o] \/ dconfNeedsUpdate(Machine) \/ dconfNeedsUpdate(o)

Refresh(o) ==
  /\ \/ NeedsRefresh(o) /\ Goto(o, "refresh", "update") /\ UNCHANGED result
     \/ ~NeedsRefresh(o) /\ Goto(o, "refresh", "idle") /\ Return(o, "nil")
  /\ UNCHANGED <<defaults, locks, compiled, profile, policy, changed, updates, faults, lost>>

\* "dconf update" compiles the database of every object from its files.
Update(o) ==
  /\ Goto(o, "update", "idle") /\ Return(o, "nil")
  /\ compiled' = [x \in Objects |-> IF locks[x] = NoFile /\ defaults[x] = NoFile THEN NoFile
                                    ELSE <<defaults[x], locks[x]>>]
  /\ lost' = FALSE
  /\ UNCHANGED <<defaults, locks, profile, policy, changed, updates, faults>>

\* Its failure is not returned.
UpdateFails(o) ==
  /\ faults < MaxFaults /\ faults' = faults + 1
  /\ Goto(o, "update", "idle") /\ Return(o, "nil")
  /\ lost' = TRUE
  /\ UNCHANGED <<defaults, locks, compiled, profile, policy, changed, updates>>

\* The daemon is killed: files are kept, the updates due are forgotten.
Crash ==
  /\ faults < MaxFaults /\ faults' = faults + 1
  /\ \E o \in Objects : pc[o] # "idle"
  /\ pc' = [o \in Objects |-> "idle"]
  /\ lost' = (lost \/ \E o \in Objects : pc[o] # "idle" /\ changed[o])
  /\ UNCHANGED <<defaults, locks, compiled, profile, policy, changed, result, updates>>

Next ==
  \/ \E o \in Objects, p \in Policies : ApplyPolicy(o, p)
  \/ \E o \in Objects : WriteDefaults(o) \/ WriteLocks(o) \/ Refresh(o) \/ Update(o) \/ UpdateFails(o)
  \/ Crash

Spec == Init /\ [][Next]_vars

----------------------------------------------------------------------------
(* An object whose policy is reported as applied has it in force: the      *)
(* database dconf reads is the one of its files, although other objects    *)
(* compile it too while its files are half written, and although a call    *)
(* that finds nothing changed compiles nothing.  Not once an update that   *)
(* was due has failed or was cut by a crash: no later call repeats it.     *)
AppliedIsCompiled ==
  \A o \in Objects :
    result[o] = "nil" /\ pc[o] = "idle" /\ ~lost => compiled[o] = <<defaults[o], locks[o]>>
=============================================================================
