-------------------------- MODULE ManagersProofs --------------------------
(***************************************************************************)
(* Proofs about the managers of the policies, each for any policies and    *)
(* any number of updates and faults.                                       *)
(***************************************************************************)
EXTENDS Managers, FiniteSetTheorems, WellFoundedInduction, TLAPS

(* The managers share no state: a step of one is none of the others.       *)
LEMMA ManagersAreApart ==
  [ManagersNext]_allVars =>
    [A!Next]_(A!vars) /\ [C!Next]_(C!vars) /\ [D!Next]_(D!vars) /\ [M!Next]_(M!vars) /\ [P!Next]_(P!vars)
<1> SUFFICES ASSUME [ManagersNext]_allVars
             PROVE  [A!Next]_(A!vars) /\ [C!Next]_(C!vars) /\ [D!Next]_(D!vars) /\ [M!Next]_(M!vars) /\ [P!Next]_(P!vars)
  OBVIOUS
<1>0. \/ UNCHANGED <<aaVars, dconfVars, mountVars, privVars, certVars>>
      \/ A!Next /\ UNCHANGED <<dconfVars, mountVars, privVars, certVars>>
      \/ D!Next /\ UNCHANGED <<aaVars, mountVars, privVars, certVars>>
      \/ M!Next /\ UNCHANGED <<aaVars, dconfVars, privVars, certVars>>
      \/ P!Next /\ UNCHANGED <<aaVars, dconfVars, mountVars, certVars>>
      \/ C!Next /\ UNCHANGED <<aaVars, dconfVars, mountVars, privVars>>
  BY DEF ManagersNext, StepScripts, StepAppArmor, StepDconf, StepMount, StepPrivilege, StepCertificate, allVars
<1>1. A!Next \/ UNCHANGED A!vars
  BY <1>0 DEF aaVars, A!vars
<1>2. C!Next \/ UNCHANGED C!vars
  BY <1>0 DEF certVars, C!vars, C!store, C!history
<1>3. D!Next \/ UNCHANGED D!vars
  BY <1>0 DEF dconfVars, D!vars
<1>4. M!Next \/ UNCHANGED M!vars
  BY <1>0 DEF mountVars, M!vars
<1>5. P!Next \/ UNCHANGED P!vars
  BY <1>0 DEF privVars, P!vars
<1> QED
  BY <1>1, <1>2, <1>3, <1>4, <1>5

----------------------------------------------------------------------------
(* The certificate manager. *)

\* What certmonger has and what the cache records differ by the authority the script
\* is between, by the enrolments and removals that were cut off, and by refusals.
\* While the script runs, what it has still to handle is what separates the machine
\* from its policy.
CertificateInv ==
  /\ known \subseteq CAs /\ enrolled \subseteq CAs
  /\ refused \subseteq known \cup between /\ hollow \subseteq known
  /\ enrolled \subseteq known \cup stray \cup between
  /\ known \cup between \subseteq enrolled \cup refused \cup hollow \cup (between \cap known)
  /\ todo \subseteq CAs /\ between \subseteq todo /\ \A c, d \in between : c = d
  /\ ~cache => known = {}
  /\ certPc \in {"idle", "enroll", "unenroll"} => todo = {}
  /\ certPc \in {"enroll", "enrolling"} => acted = "enroll"
  /\ certPc \in {"unenroll", "cleaning"} => acted = "unenroll"
  /\ certPc \in {"enrolling", "cleaning"} => tools /\ cache
  /\ certPc = "enrolling" => CAs \ todo \subseteq known \cup skipped
  /\ certPc = "cleaning" => todo = known
  /\ C!EnrollmentFollowsPolicy

\* The machine is not enrolled yet.
LEMMA CertificateInit == C!Init => CertificateInv
  BY DEF C!Init, CertificateInv, C!EnrollmentFollowsPolicy

\* Every step of the certificate manager and of its script keeps the invariant.
LEMMA CertificateNext == CertificateInv /\ [C!Next]_C!vars => CertificateInv'
<1> SUFFICES ASSUME CertificateInv, [C!Next]_C!vars PROVE CertificateInv'
  OBVIOUS
<1> USE DEF CertificateInv, C!EnrollmentFollowsPolicy, C!store, C!history, C!Frame
<1>1. CASE UNCHANGED C!vars
  BY <1>1 DEF C!vars
<1>2. ASSUME NEW online \in BOOLEAN, NEW p \in CertificatePolicies, C!ApplyPolicy(online, p) PROVE CertificateInv'
  BY <1>2 DEF C!ApplyPolicy, C!Action
<1>3. CASE C!ScriptStarts
  BY <1>3 DEF C!ScriptStarts, C!ScriptEnds
<1>4. CASE C!ScriptDone
  BY <1>4 DEF C!ScriptDone, C!ScriptEnds
<1>5. CASE C!ScriptKilled
  BY <1>5 DEF C!ScriptKilled, C!ScriptStops
<1>6. ASSUME NEW c \in CAs, C!AlreadyApplied(c) PROVE CertificateInv'
  BY <1>6 DEF C!AlreadyApplied
<1>7. ASSUME NEW c \in CAs, C!Getcert(c) PROVE CertificateInv'
  BY <1>7 DEF C!Getcert
<1>8. ASSUME NEW c \in CAs, C!EnrollFails(c) PROVE CertificateInv'
  BY <1>8 DEF C!EnrollFails
<1>9. ASSUME NEW c \in CAs, C!Record(c) PROVE CertificateInv'
  BY <1>9 DEF C!Record
<1>10. ASSUME NEW c \in CAs, C!RemoveCA(c) PROVE CertificateInv'
  BY <1>10 DEF C!RemoveCA
<1>11. ASSUME NEW c \in CAs, C!Forget(c) PROVE CertificateInv'
  BY <1>11 DEF C!Forget
<1>12. ASSUME NEW c \in CAs, C!ForgetFails(c) PROVE CertificateInv'
  BY <1>12 DEF C!ForgetFails, C!ScriptStops
<1> QED
  BY <1>1, <1>2, <1>3, <1>4, <1>5, <1>6, <1>7, <1>8, <1>9, <1>10, <1>11, <1>12 DEF C!Next

\* The bounds are numbers.
LEMMA Bounds == MaxApplies \in Nat /\ MaxFaults \in Nat
  BY ManagersAssumption

\* Counting up to a bound.
LEMMA CountedUp ==
  ASSUME NEW b \in Nat, NEW n \in 0..b
  PROVE  0 \in 0..b /\ (n < b => n + 1 \in 0..b)
  OBVIOUS

\* The state of the certificate manager is typed.
LEMMA CertificateTypes ==
  /\ C!Init => C!TypeOK
  /\ CertificateInv /\ C!TypeOK /\ [C!Next]_C!vars => C!TypeOK'
<1> USE Bounds DEF C!TypeOK, C!store, C!history, C!Frame
<1>1. ASSUME C!Init PROVE C!TypeOK
  <2>1. cache \in BOOLEAN /\ tools \in BOOLEAN
    BY <1>1, Zenon DEF C!Init
  <2> QED BY <1>1, <2>1, CountedUp DEF C!Init
<1>2. ASSUME CertificateInv, C!TypeOK, [C!Next]_C!vars PROVE C!TypeOK'
  <2> USE <1>2
  <2>1. CASE UNCHANGED C!vars
    BY <2>1 DEF C!vars
  <2>2. ASSUME NEW online \in BOOLEAN, NEW p \in CertificatePolicies, C!ApplyPolicy(online, p) PROVE C!TypeOK'
    <3>1. C!Action(p) \in {"skip", "error", "enroll", "unenroll"}
      BY DEF C!Action
    <3> QED BY <2>2, <3>1, CountedUp DEF C!ApplyPolicy
  <2>3. CASE C!ScriptStarts
    BY ZenonT(60), <2>3 DEF C!ScriptStarts, C!ScriptEnds, CertificateInv
  <2>4. CASE C!ScriptDone
    BY <2>4 DEF C!ScriptDone, C!ScriptEnds
  <2>5. CASE C!ScriptKilled
    BY <2>5, CountedUp DEF C!ScriptKilled, C!ScriptStops
  <2>6. ASSUME NEW c \in CAs, C!AlreadyApplied(c) \/ C!Getcert(c) \/ C!EnrollFails(c) PROVE C!TypeOK'
    BY <2>6 DEF C!AlreadyApplied, C!Getcert, C!EnrollFails
  <2>7. ASSUME NEW c \in CAs, C!Record(c) \/ C!RemoveCA(c) \/ C!Forget(c) PROVE C!TypeOK'
    BY <2>7 DEF C!Record, C!RemoveCA, C!Forget
  <2>8. ASSUME NEW c \in CAs, C!ForgetFails(c) PROVE C!TypeOK'
    BY <2>8 DEF C!ForgetFails, C!ScriptStops
  <2> QED BY <2>1, <2>2, <2>3, <2>4, <2>5, <2>6, <2>7, <2>8 DEF C!Next
<1> QED BY <1>1, <1>2

(* The certificate manager: a call that succeeds leaves the machine where  *)
(* its policy puts it, enrolled or not, although scripts of earlier calls  *)
(* were killed at any point, authorities were unreachable or refused, and  *)
(* although the call runs no script when the cache directory is missing;   *)
(* the exceptions are the authorities of which a step was cut off or       *)
(* failed.                                                                 *)
THEOREM EnrollmentIsRight == ManagersSpec => []EnrollmentFollowsPolicy
<1>1. CertificateInv /\ C!TypeOK => EnrollmentFollowsPolicy
  BY DEF CertificateInv, EnrollmentFollowsPolicy
<1>2. ManagersInit => CertificateInv /\ C!TypeOK
  BY CertificateInit, CertificateTypes DEF ManagersInit
<1> QED
  BY <1>1, <1>2, CertificateNext, CertificateTypes, ManagersAreApart, PTL DEF ManagersSpec

----------------------------------------------------------------------------
(* The dconf manager. *)

\* A function of the objects.
OfObjects(f) == f = [o \in D!Objects |-> f[o]]

\* The database of an object is the one "dconf update" would make of its files.
Fresh(o) ==
  compiled[o] = IF locks[o] = NoFile /\ defaults[o] = NoFile THEN NoFile ELSE <<defaults[o], locks[o]>>

\* Unless an update was lost, a database is fresh or the call that writes its files
\* has noted the change.  An object that was applied once has its locks for ever.
DconfInv ==
  /\ LocksAreFiles
  /\ OfObjects(defaults) /\ OfObjects(locks) /\ OfObjects(compiled) /\ OfObjects(dconfPolicy)
  /\ dconfPc \in [D!Objects -> {"idle", "defaults", "locks", "refresh", "update"}]
  /\ dconfResult \in [D!Objects -> {"none", "nil", "error"}]
  /\ changed \in [D!Objects -> BOOLEAN]
  /\ \A o \in D!Objects :
       /\ dconfPc[o] # "idle" => dconfPolicy[o] \in DconfPolicies
       /\ dconfPc[o] \in {"refresh", "update"} \/ dconfResult[o] = "nil" => locks[o] # NoFile
       /\ ~lost => Fresh(o) \/ (dconfPc[o] \in {"locks", "refresh", "update"} /\ changed[o])
       /\ ~lost /\ dconfResult[o] = "nil" /\ dconfPc[o] = "idle" => compiled[o] = <<defaults[o], locks[o]>>

\* No database is compiled yet.
LEMMA DconfInit == LocksAreFiles /\ D!Init => DconfInv
  BY DEF D!Init, DconfInv, OfObjects, Fresh

\* Every step of the dconf manager keeps the invariant.
LEMMA DconfNext == DconfInv /\ [D!Next]_D!vars => DconfInv'
<1> SUFFICES ASSUME DconfInv, [D!Next]_D!vars PROVE DconfInv'
  OBVIOUS
<1> USE DEF DconfInv, OfObjects, Fresh, D!Goto, D!Return
<1>1. CASE UNCHANGED D!vars
  BY <1>1 DEF D!vars, LocksAreFiles
<1>2. ASSUME NEW o \in D!Objects, NEW p \in DconfPolicies, D!ApplyPolicy(o, p) PROVE DconfInv'
  <2>1. UNCHANGED <<defaults, locks, compiled, lost>> /\ dconfPc[o] = "idle"
    BY <1>2 DEF D!ApplyPolicy
  <2>2. CASE /\ dconfPc' = [dconfPc EXCEPT ![o] = "defaults"] /\ dconfPolicy' = [dconfPolicy EXCEPT ![o] = p]
             /\ changed' = [changed EXCEPT ![o] = FALSE] /\ dconfResult' = [dconfResult EXCEPT ![o] = "none"]
    BY <2>1, <2>2 DEF LocksAreFiles
  <2>3. CASE UNCHANGED <<dconfPc, dconfPolicy, changed>> /\ dconfResult' = [dconfResult EXCEPT ![o] = "error"]
    BY <2>1, <2>3 DEF LocksAreFiles
  <2> QED
    BY <1>2, <2>2, <2>3 DEF D!ApplyPolicy
<1>3. ASSUME NEW o \in D!Objects, D!WriteDefaults(o) PROVE DconfInv'
  BY <1>3 DEF D!WriteDefaults, D!writeIfChanged, LocksAreFiles
<1>4. ASSUME NEW o \in D!Objects, D!WriteLocks(o) PROVE DconfInv'
  BY <1>4 DEF D!WriteLocks, D!writeIfChanged, LocksAreFiles
<1>5. ASSUME NEW o \in D!Objects, D!Refresh(o) PROVE DconfInv'
  BY <1>5 DEF D!Refresh, D!NeedsRefresh, D!dconfNeedsUpdate, LocksAreFiles
<1>6. ASSUME NEW o \in D!Objects, D!Update(o) PROVE DconfInv'
  BY <1>6 DEF D!Update, LocksAreFiles
<1>7. ASSUME NEW o \in D!Objects, D!UpdateFails(o) PROVE DconfInv'
  BY <1>7 DEF D!UpdateFails, LocksAreFiles
<1>8. CASE D!Crash
  BY <1>8 DEF D!Crash, LocksAreFiles
<1> QED
  BY <1>1, <1>2, <1>3, <1>4, <1>5, <1>6, <1>7, <1>8 DEF D!Next

\* The state of the dconf manager is typed.
LEMMA DconfTypes ==
  /\ D!Init => D!TypeOK
  /\ DconfInv /\ D!TypeOK /\ [D!Next]_D!vars => D!TypeOK'
<1> USE Bounds DEF D!TypeOK
<1>1. ASSUME D!Init PROVE D!TypeOK
  <2>1. (CHOOSE p \in DconfPolicies : TRUE) \in DconfPolicies
    BY ManagersAssumption
  <2>2. lost \in BOOLEAN /\ changed \in [D!Objects -> BOOLEAN]
    BY <1>1, Zenon DEF D!Init
  <2>3. /\ defaults \in [D!Objects -> {NoFile} \cup {D!DataOf(p) : p \in DconfPolicies}]
        /\ locks \in [D!Objects -> {NoFile} \cup {D!LocksOf(p) : p \in DconfPolicies}]
    BY <1>1 DEF D!Init
  <2> QED BY <1>1, <2>1, <2>2, <2>3 DEF D!Init
<1>2. ASSUME DconfInv, D!TypeOK, [D!Next]_D!vars PROVE D!TypeOK'
  <2> USE <1>2 DEF D!Goto, D!Return
  <2>1. CASE UNCHANGED D!vars
    BY <2>1 DEF D!vars
  <2>2. ASSUME NEW o \in D!Objects, NEW p \in DconfPolicies, D!ApplyPolicy(o, p) PROVE D!TypeOK'
    <3> QED BY ZenonT(60), <2>2, CountedUp DEF D!ApplyPolicy, D!writeProfile
  <2>3. ASSUME NEW o \in D!Objects, D!WriteDefaults(o) \/ D!WriteLocks(o) PROVE D!TypeOK'
    <3>1. dconfPolicy[o] \in DconfPolicies
      OBVIOUS
    <3>2. CASE D!WriteDefaults(o)
      BY <3>1, <3>2 DEF D!WriteDefaults, D!writeIfChanged
    <3>3. CASE D!WriteLocks(o)
      BY <3>1, <3>3 DEF D!WriteLocks, D!writeIfChanged
    <3> QED BY <2>3, <3>2, <3>3
  <2>4. ASSUME NEW o \in D!Objects, D!Refresh(o) \/ D!Update(o) \/ D!UpdateFails(o) PROVE D!TypeOK'
    BY ZenonT(60), <2>4, CountedUp DEF D!Refresh, D!Update, D!UpdateFails
  <2>5. CASE D!Crash
    BY <2>5, CountedUp DEF D!Crash
  <2> QED BY <2>1, <2>2, <2>3, <2>4, <2>5 DEF D!Next
<1> QED BY <1>1, <1>2

(* The dconf manager: an object whose policy is reported as applied has it *)
(* in the database dconf reads, unless an update that was due has failed   *)
(* or was cut by a crash, however the calls of the users interleave.       *)
THEOREM DconfInForce == ManagersSpec => []AppliedIsCompiled
<1>1. DconfInv /\ D!TypeOK => AppliedIsCompiled
  BY DEF DconfInv, D!AppliedIsCompiled, AppliedIsCompiled
<1>2. ManagersInit => DconfInv /\ D!TypeOK
  BY ManagersAssumption, DconfInit, DconfTypes DEF ManagersInit
<1> QED
  BY <1>1, <1>2, DconfNext, DconfTypes, ManagersAreApart, PTL DEF ManagersSpec

----------------------------------------------------------------------------
(* The privilege manager. *)

\* The format that the installed polkit reads.
Installed == IF reserved THEN "rules" ELSE "conf"

\* A call chooses the format of the installed polkit, since without its new rules the
\* distribution has files in the old directory; both files hold the policy of the call
\* once they are renamed, and agree before.
PrivilegeInv ==
  /\ SystemIsApart
  /\ reserved \in BOOLEAN /\ (~reserved => legacy)
  /\ polkit = [f \in Formats |-> polkit[f]]
  /\ privPc # "idle" => format = Installed
  /\ privPc \in {"opened", "written", "renamed"} => privPolicy \in PrivilegePolicies
  /\ privPc = "written" => newSudo = P!Sudo(privPolicy)
  /\ privPc = "renamed" => sudoers = P!Sudo(privPolicy)
  /\ privPc \in {"written", "renamed"} => newPolkit = P!Polkit(privPolicy, format)
  /\ privPc = "removed" => sudoers = NoFile
  /\ privPc \in {"idle", "opened", "written", "both"} /\ ~privTorn => P!SudoGrants = P!PolkitGrants
  /\ privPc \in {"idle", "opened", "written", "renamed", "both", "removed"}

\* A policy in both files gives root to the same people in both.
SamePolicy ==
  \A p \in PrivilegePolicies :
    SystemIsApart /\ sudoers = P!Sudo(p) /\ polkit[Installed] = P!Polkit(p, Installed)
      => P!SudoGrants = P!PolkitGrants

\* Whatever the format of polkit, the administrators of one policy are the same in both files.
LEMMA SamePolicyAgrees == SamePolicy
<1> SUFFICES ASSUME NEW p \in PrivilegePolicies, SystemIsApart, sudoers = P!Sudo(p),
                    polkit[Installed] = P!Polkit(p, Installed)
             PROVE  P!SudoGrants = P!PolkitGrants
  BY DEF SamePolicy
<1> DEFINE sys == P!getSystemPolkitAdminIdentities(Installed)
           admins == P!ClientAdmins(p)
<1> HIDE DEF sys, admins
<1>0. Installed \in Formats
  BY DEF Installed, Formats
<1>1. sudoers # NoFile /\ polkit[Installed] # NoFile /\ sys # {} /\ sys \cap admins = {}
  BY <1>0 DEF SystemIsApart, sys, admins
<1>2. sudoers = [deny |-> ~P!AllowLocalAdmins(p), admins |-> admins]
  BY DEF P!Sudo, admins
<1>3. P!SudoGrants = [local |-> P!AllowLocalAdmins(p), clients |-> admins]
  <2>1. CASE P!AllowLocalAdmins(p)
    <3>0. (~P!AllowLocalAdmins(p)) = FALSE
      BY <2>1, Zenon
    <3>1. sudoers = [deny |-> FALSE, admins |-> admins]
      BY <1>2, <3>0, Zenon
    <3>2. (~sudoers.deny) = TRUE /\ sudoers.admins = admins
      BY <3>1
    <3>3. P!SudoGrants = [local |-> TRUE, clients |-> admins]
      BY <1>1, <3>2, Zenon DEF P!SudoGrants
    <3> QED
      BY <2>1, <3>3 DEF P!AllowLocalAdmins
  <2>2. CASE ~P!AllowLocalAdmins(p)
    <3>0. (~P!AllowLocalAdmins(p)) = TRUE
      BY <2>2, Zenon
    <3>1. sudoers = [deny |-> TRUE, admins |-> admins]
      BY <1>2, <3>0, Zenon
    <3>2. (~sudoers.deny) = FALSE /\ sudoers.admins = admins
      BY <3>1
    <3>3. P!SudoGrants = [local |-> FALSE, clients |-> admins]
      BY <1>1, <3>2, Zenon DEF P!SudoGrants
    <3> QED
      BY <2>2, <3>3 DEF P!AllowLocalAdmins
  <2> QED
    BY <2>1, <2>2
<1>4. P!PolkitGrants = IF ~polkit[Installed].rule THEN [local |-> TRUE, clients |-> {}]
                       ELSE [local |-> sys \subseteq polkit[Installed].ids, clients |-> polkit[Installed].ids \ sys]
  BY <1>1 DEF P!PolkitGrants, Installed, sys
<1>5. CASE P!AllowLocalAdmins(p) /\ admins = {}
  <2>1. polkit[Installed] = [rule |-> FALSE, ids |-> {}]
    BY <1>5 DEF P!Polkit, admins
  <2>2. ~polkit[Installed].rule
    BY <2>1
  <2> QED
    BY <1>3, <1>4, <1>5, <2>2 DEF P!AllowLocalAdmins
<1>6. CASE P!AllowLocalAdmins(p) /\ admins # {}
  <2>1. polkit[Installed] = [rule |-> TRUE, ids |-> admins \cup sys]
    BY <1>6 DEF P!Polkit, admins, sys
  <2>2. sys \subseteq polkit[Installed].ids /\ polkit[Installed].ids \ sys = admins /\ polkit[Installed].rule
    BY <2>1, <1>1
  <2> QED
    BY <1>3, <1>4, <1>6, <2>2 DEF P!AllowLocalAdmins
<1>7. CASE ~P!AllowLocalAdmins(p)
  <2>1. polkit[Installed] = [rule |-> TRUE, ids |-> admins]
    BY <1>7 DEF P!Polkit, admins
  <2>2. ~(sys \subseteq polkit[Installed].ids) /\ polkit[Installed].ids \ sys = admins /\ polkit[Installed].rule
    BY <2>1, <1>1
  <2> QED
    BY <1>3, <1>4, <1>7, <2>2 DEF P!AllowLocalAdmins
<1> QED
  BY <1>5, <1>6, <1>7

\* The files that count are left alone, or agree as before.
LEMMA GrantsKept ==
  ASSUME UNCHANGED <<sudoers, polkit, reserved>> PROVE (P!SudoGrants = P!PolkitGrants)' <=> (P!SudoGrants = P!PolkitGrants)
  BY DEF P!SudoGrants, P!PolkitGrants, P!getSystemPolkitAdminIdentities, P!FromConf, P!FromRules, P!Before

\* Without a policy both follow the system.
LEMMA PrivilegeInit == SystemIsApart /\ P!Init => PrivilegeInv
<1> SUFFICES ASSUME SystemIsApart, P!Init PROVE PrivilegeInv
  OBVIOUS
<1>1. P!SudoGrants = P!PolkitGrants
  BY DEF P!Init, P!SudoGrants, P!PolkitGrants
<1> QED
  BY <1>1 DEF P!Init, PrivilegeInv, Formats

\* The call takes the format that the installed polkit reads.
LEMMA FormatIsInstalled == PrivilegeInv => P!Format = Installed
  BY DEF PrivilegeInv, P!Format, P!isOldPolkit, P!OldDir, Installed

\* Every step of the privilege manager keeps the invariant.
LEMMA PrivilegeNext == PrivilegeInv /\ [P!Next]_P!vars => PrivilegeInv'
<1> SUFFICES ASSUME PrivilegeInv, [P!Next]_P!vars PROVE PrivilegeInv'
  OBVIOUS
<1>0. SystemIsApart' <=> SystemIsApart
  OBVIOUS
<1> USE <1>0 DEF PrivilegeInv, P!Places, P!Quiet, P!Count, P!Fault
<1>1. CASE UNCHANGED P!vars
  BY <1>1, GrantsKept DEF P!vars, Installed
<1>2. ASSUME NEW p \in PrivilegePolicies, P!Open(p) PROVE PrivilegeInv'
  BY <1>2, GrantsKept, FormatIsInstalled DEF P!Open, Installed
<1>3. CASE P!IdentitiesFail
  BY <1>3, GrantsKept DEF P!IdentitiesFail, Installed
<1>4. CASE P!Write
  BY <1>4, GrantsKept DEF P!Write, Installed
<1>5. CASE P!RenameSudoers
  BY <1>5 DEF P!RenameSudoers, Installed
<1>6. CASE P!RenamePolkit
  <2>1. /\ sudoers' = P!Sudo(privPolicy) /\ privPolicy \in PrivilegePolicies /\ reserved' = reserved /\ privPc' = "both"
        /\ polkit'[Installed] = P!Polkit(privPolicy, Installed) /\ polkit' = [f \in Formats |-> polkit'[f]]
    BY <1>6 DEF P!RenamePolkit, Installed, Formats
  <2>2. Installed' = Installed
    BY <2>1 DEF Installed
  <2>3. SamePolicy'
    BY SamePolicyAgrees, PTL
  <2>4. (P!SudoGrants = P!PolkitGrants)'
    BY <2>1, <2>2, <2>3 DEF SamePolicy
  <2> QED
    BY <1>6, <2>1, <2>2, <2>4 DEF P!RenamePolkit
<1>7. CASE P!RemoveSudoers
  BY <1>7, FormatIsInstalled DEF P!RemoveSudoers, Installed
<1>8. CASE P!RemovePolkit
  <2>1. /\ sudoers' = NoFile /\ reserved' = reserved /\ privPc' = "idle"
        /\ polkit'[Installed] = NoFile /\ polkit' = [f \in Formats |-> polkit'[f]]
    BY <1>8 DEF P!RemovePolkit, Installed, Formats
  <2>2. (P!SudoGrants = P!PolkitGrants)'
    BY <2>1 DEF P!SudoGrants, P!PolkitGrants, Installed
  <2> QED
    BY <1>8, <2>1, <2>2 DEF P!RemovePolkit
<1>9. CASE P!Crash
  BY <1>9, GrantsKept DEF P!Crash, Installed
<1>11. CASE P!RemoveOldPolkit
  <2>1. polkit' = [f \in Formats |-> polkit'[f]] /\ polkit'[Installed] = polkit[Installed]
    BY <1>11 DEF P!RemoveOldPolkit, Installed, Formats
  <2>2. (P!SudoGrants = P!PolkitGrants)' <=> (P!SudoGrants = P!PolkitGrants)
    BY <1>11, <2>1 DEF P!RemoveOldPolkit, Installed, P!SudoGrants, P!PolkitGrants,
       P!getSystemPolkitAdminIdentities, P!FromConf, P!FromRules, P!Before
  <2> QED
    BY <1>11, <2>1, <2>2 DEF P!RemoveOldPolkit, Installed
<1>10. CASE P!UpgradePolkit
  BY <1>10 DEF P!UpgradePolkit
<1> QED
  BY <1>1, <1>2, <1>3, <1>4, <1>5, <1>6, <1>7, <1>8, <1>9, <1>10, <1>11 DEF P!Next

\* The state of the privilege manager is typed.
LEMMA PrivilegeTypes ==
  /\ P!Init => P!TypeOK
  /\ PrivilegeInv /\ P!TypeOK /\ [P!Next]_P!vars => P!TypeOK'
<1> USE Bounds DEF P!TypeOK
<1>1. ASSUME P!Init PROVE P!TypeOK
  <2>1. leftover \in BOOLEAN /\ reserved \in BOOLEAN /\ legacy \in BOOLEAN /\ privTorn \in BOOLEAN
    BY <1>1, Zenon DEF P!Init
  <2> QED BY <1>1, <2>1 DEF P!Init
<1>2. ASSUME PrivilegeInv, P!TypeOK, [P!Next]_P!vars PROVE P!TypeOK'
  <2> USE <1>2, CountedUp DEF P!Places, P!Quiet, P!Count, P!Fault
  <2>1. CASE UNCHANGED P!vars
    BY <2>1 DEF P!vars
  <2>2. ASSUME NEW p \in PrivilegePolicies, P!Open(p) PROVE P!TypeOK'
    BY <2>2 DEF P!Open, P!Format, P!isOldPolkit
  <2>3. CASE P!IdentitiesFail \/ P!Crash
    BY <2>3 DEF P!IdentitiesFail, P!Crash
  <2>4. CASE P!Write
    BY <2>4 DEF P!Write, PrivilegeInv
  <2>5. CASE P!RenameSudoers \/ P!RemovePolkit \/ P!UpgradePolkit
    <3>1. privTorn' \in BOOLEAN /\ reserved' \in BOOLEAN /\ legacy' \in BOOLEAN
      BY <2>5, Zenon DEF P!RenameSudoers, P!RemovePolkit, P!UpgradePolkit
    <3> QED BY <2>5, <3>1 DEF P!RenameSudoers, P!RemovePolkit, P!UpgradePolkit
  <2>6. CASE P!RenamePolkit \/ P!RemoveOldPolkit
    BY <2>6 DEF P!RenamePolkit, P!RemoveOldPolkit
  <2>7. CASE P!RemoveSudoers
    BY <2>7 DEF P!RemoveSudoers, P!Format
  <2> QED BY <2>1, <2>2, <2>3, <2>4, <2>5, <2>6, <2>7 DEF P!Next
<1> QED BY <1>1, <1>2

(* The privilege manager: between two calls, successful or not, sudo and   *)
(* polkit give root to the same people, whichever format the installed     *)
(* polkit reads; excepted is the time from a call that ends between the    *)
(* two renames or removals, or from an upgrade of polkit, to the next one. *)
THEOREM PrivilegesAgree == ManagersSpec => []SudoAndPolkitAgree
<1>1. PrivilegeInv /\ P!TypeOK => SudoAndPolkitAgree
  BY DEF PrivilegeInv, P!SudoAndPolkitAgree, SudoAndPolkitAgree
<1>2. ManagersInit => PrivilegeInv /\ P!TypeOK
  BY ManagersAssumption, PrivilegeInit, PrivilegeTypes DEF ManagersInit
<1> QED
  BY <1>1, <1>2, PrivilegeNext, PrivilegeTypes, ManagersAreApart, PTL DEF ManagersSpec

----------------------------------------------------------------------------
(* The apparmor manager. *)

Contents == {0} \cup UserPolicies

\* The profiles that the kernel should have, and their hats for everyone but one user.
Known == A!Loaded \ orphans
HatsExcept(us) == \A f \in Known, u \in Users \ (missed \cup us) : hat[f][u] = userFile[u]

SameDir(d, e) == d.files = e.files /\ d.ver = e.ver

AppArmorTypes ==
  /\ EntriesAreFiles
  /\ userFile \in [Users -> Contents] /\ oldContent \in Contents
  /\ hat \in [Files -> [Users -> Contents]] /\ profiles = [f \in Files |-> profiles[f]]
  /\ aaPc \in {"idle", "dumped", "moved", "swapped", "unload", "load", "remove", "reload"}
  /\ cur.there \in BOOLEAN /\ (~cur.there => cur.files = {} /\ cur.ver = 0)
  /\ aaPc \in {"remove", "reload"} => who \in Users \cup {NoUser}
  /\ aaPc = "reload" => who \in Users

\* While the directories are swapped the old one is what a failure restores.
DirsInv ==
  /\ aaPc \in {"dumped", "moved", "swapped", "unload", "load"} => aaPolicy \in AppArmorPolicies /\ who = NoUser
  /\ aaPc = "dumped" => cur.there /\ SameDir(cur, before)
  /\ aaPc \in {"moved", "swapped", "unload", "load"} => old.there /\ SameDir(old, before)
  /\ aaPc \in {"dumped", "moved"} => new = A!Dir(aaPolicy.assets, aaPolicy.ver)
  /\ aaPc = "swapped" => cur = A!Dir(aaPolicy.assets, aaPolicy.ver)
  /\ aaPc \in {"unload", "load"} => cur = A!Dir(aaPolicy.files, aaPolicy.ver)
  /\ aaPc \in {"remove", "reload"} => aaPolicy = A!NoPolicy /\ cur = before
  /\ A!FilesAreAllOrNothing

\* The old directory covers all that is loaded, and the new one does too once the
\* profiles that are not in it are unloaded; the hats in hand are known.
KernelInv ==
  /\ aaPc = "dumped" => prev = cur.files \cap A!Loaded
  /\ aaPc \in {"moved", "swapped", "unload"} => prev = old.files \cap A!Loaded
  /\ aaPc \in {"moved", "swapped", "unload", "load"} => Known \subseteq old.files
  /\ aaPc \notin {"moved", "swapped", "unload"} => Known \subseteq cur.files
  /\ aaPc = "remove" /\ who = NoUser => Known = {}
  /\ aaPc = "remove" /\ who # NoUser /\ (who \notin missed \/ userFile[who] # 0) =>
       \A f \in Known : hat[f][who] = 0
  /\ aaPc = "reload" /\ who \notin missed => \A f \in Known : hat[f][who] = oldContent
  /\ HatsExcept(IF aaPc \in {"remove", "reload"} THEN {who} ELSE {})

AppArmorInv == AppArmorTypes /\ DirsInv /\ KernelInv

\* No profile is written or loaded yet.
LEMMA AppArmorInit == EntriesAreFiles /\ A!Init => AppArmorInv
<1> SUFFICES ASSUME EntriesAreFiles, A!Init PROVE AppArmorInv
  OBVIOUS
<1> USE DEF A!Init, A!NoDir, A!NoHat, A!NoPolicy
<1>1. Known = {}
  BY DEF Known, A!Loaded
<1>2. A!FilesAreAllOrNothing
  BY DEF A!FilesAreAllOrNothing
<1>3. HatsExcept(IF aaPc \in {"remove", "reload"} THEN {who} ELSE {})
  BY <1>1 DEF HatsExcept
<1> QED
  BY <1>1, <1>2, <1>3 DEF AppArmorInv, AppArmorTypes, DirsInv, KernelInv, Contents

\* What is loaded and known after a load of the profiles fs, or after fs are unloaded.
LEMMA LoadedAfterLoad ==
  ASSUME NEW fs, A!Load(fs) PROVE A!Loaded' \subseteq A!Loaded \cup fs
  BY DEF A!Load, A!Loaded

\* Unloading files removes their profiles and no others.
LEMMA LoadedAfterUnload ==
  ASSUME NEW fs, A!Unload(fs) PROVE A!Loaded' = A!Loaded \ fs
  BY DEF A!Unload, A!Loaded

\* Loading and unloading keep the profiles of users typed.
LEMMA HatsTyped ==
  ASSUME AppArmorInv, NEW fs, A!Load(fs) \/ A!Unload(fs)
  PROVE  hat' \in [Files -> [Users -> Contents]] /\ profiles' = [f \in Files |-> profiles'[f]]
  BY DEF AppArmorInv, AppArmorTypes, A!Load, A!Unload, A!NoHat, Contents

\* A step that leaves the kernel and the files of the users alone.
LEMMA KernelKept ==
  ASSUME UNCHANGED <<profiles, hat, userFile, orphans, missed>>
  PROVE  /\ A!Loaded' = A!Loaded /\ Known' = Known
         /\ \A us : HatsExcept(us)' <=> HatsExcept(us)
  BY DEF A!Loaded, Known, HatsExcept

\* NoParser, ApplyFails: an error before anything was moved.
LEMMA EarlyErrorInv ==
  ASSUME AppArmorInv, \/ \E e \in BOOLEAN : A!NoParser(e)
                      \/ \E u \in Users \cup {NoUser} : A!ApplyFails(u)
  PROVE  AppArmorInv'
<1> USE DEF AppArmorInv, A!NoParser, A!ApplyFails, A!Return, A!disk, A!kernel
<1>0. UNCHANGED <<profiles, hat, userFile, oldContent, orphans, missed>> /\ aaPc = "idle" /\ aaPc' = "idle"
  OBVIOUS
<1>c. cur' = cur \/ (~cur.there /\ cur' = A!Dir({}, 0))
  OBVIOUS
<1>d. cur'.there \in BOOLEAN /\ (~cur'.there => cur'.files = {} /\ cur'.ver = 0) /\ SameDir(cur', cur)
  <2>1. CASE cur' = cur
    BY <2>1 DEF AppArmorTypes, SameDir
  <2>2. CASE ~cur.there /\ cur' = A!Dir({}, 0)
    <3>1. cur'.there = TRUE /\ cur'.files = {} /\ cur'.ver = 0
      BY <2>2 DEF A!Dir
    <3> QED
      BY <2>2, <3>1 DEF AppArmorTypes, SameDir
  <2> QED
    BY <1>c, <2>1, <2>2
<1>4a. before' = cur /\ aaPolicy' = A!NoPolicy
  OBVIOUS
<1>1. AppArmorTypes'
  BY <1>0, <1>d DEF AppArmorTypes, EntriesAreFiles
<1>2. DirsInv'
  BY <1>0, <1>d, <1>4a DEF DirsInv, A!FilesAreAllOrNothing, SameDir
<1>3. KernelInv'
  BY <1>0, <1>d, KernelKept DEF KernelInv, SameDir
<1> QED
  BY <1>1, <1>2, <1>3

\* applyMachinePolicy, RenameOld, RenameNew, CheckFiles: the directories are swapped,
\* or swapped back.
LEMMA SwapInv ==
  ASSUME AppArmorInv, \/ \E p \in AppArmorPolicies : A!applyMachinePolicy(p)
                      \/ A!RenameOld \/ A!RenameNew \/ A!CheckFiles
  PROVE  AppArmorInv'
<1> USE DEF AppArmorInv, A!Step, A!kernel, A!call
<1>0. UNCHANGED <<profiles, hat, userFile, oldContent, orphans, missed>>
  BY DEF A!applyMachinePolicy, A!RenameOld, A!RenameNew, A!CheckFiles, A!cleanupOldApparmorDir
<1>1. ASSUME NEW p \in AppArmorPolicies, A!applyMachinePolicy(p) PROVE AppArmorInv'
  <2>c. cur' = (IF cur.there THEN cur ELSE A!Dir({}, 0)) /\ aaPc = "idle" /\ aaPc' = "dumped"
    BY <1>1 DEF A!applyMachinePolicy
  <2>d. cur'.there = TRUE /\ SameDir(cur', cur)
    BY <2>c DEF AppArmorTypes, A!Dir, SameDir
  <2>1. AppArmorTypes'
    BY <1>0, <2>c, <2>d DEF AppArmorTypes, EntriesAreFiles
  <2>2. DirsInv'
    BY <1>1, <2>c, <2>d DEF DirsInv, A!applyMachinePolicy, A!FilesAreAllOrNothing, SameDir
  <2>3. KernelInv'
    BY <1>0, <1>1, <2>c, <2>d, KernelKept DEF KernelInv, A!applyMachinePolicy, A!policiesFromFiles, SameDir
  <2> QED
    BY <2>1, <2>2, <2>3
<1>2. CASE A!RenameOld
  <2>1. AppArmorTypes'
    BY <1>0, <1>2 DEF AppArmorTypes, A!RenameOld, A!NoDir, EntriesAreFiles
  <2>2. DirsInv'
    BY <1>2 DEF DirsInv, A!RenameOld, A!FilesAreAllOrNothing, SameDir
  <2>3. KernelInv'
    BY <1>0, <1>2, KernelKept DEF KernelInv, A!RenameOld
  <2> QED
    BY <2>1, <2>2, <2>3
<1>3. CASE A!RenameNew
  <2>1. AppArmorTypes'
    <3>1. cur'.there = TRUE /\ aaPc' = "swapped"
      BY <1>3 DEF DirsInv, A!RenameNew, A!Dir
    <3> QED
      BY <1>0, <3>1 DEF AppArmorTypes, EntriesAreFiles
  <2>2. DirsInv'
    BY <1>3 DEF DirsInv, A!RenameNew, A!FilesAreAllOrNothing
  <2>3. KernelInv'
    BY <1>0, <1>3, KernelKept DEF KernelInv, A!RenameNew
  <2> QED
    BY <2>1, <2>2, <2>3
<1>4. CASE A!CheckFiles
  <2>1. CASE aaPc' = "unload" /\ cur' = A!removeUnusedAssets(aaPolicy, cur) /\ A!filesFromEntry(aaPolicy, cur) /\ UNCHANGED old
    <3>1. cur' = A!Dir(aaPolicy.files, aaPolicy.ver) /\ aaPc = "swapped"
      <4>1. aaPc = "swapped" /\ cur.files = aaPolicy.assets /\ cur.ver = aaPolicy.ver
        BY <1>4 DEF A!CheckFiles, DirsInv, A!Dir
      <4>2. cur.files \cap aaPolicy.files = aaPolicy.files
        BY <2>1 DEF A!filesFromEntry
      <4> QED
        BY <2>1, <4>1, <4>2 DEF A!removeUnusedAssets
    <3>2. AppArmorTypes'
      BY <1>0, <2>1, <3>1 DEF AppArmorTypes, A!Dir, EntriesAreFiles
    <3>3. DirsInv'
      BY <1>4, <2>1, <3>1 DEF DirsInv, A!CheckFiles, A!FilesAreAllOrNothing
    <3>4. KernelInv'
      BY <1>0, <1>4, <2>1, <3>1, KernelKept DEF KernelInv, A!CheckFiles
    <3> QED
      BY <3>2, <3>3, <3>4
  <2>2. CASE A!Return("error") /\ A!cleanupOldApparmorDir
    <3>1. cur' = old /\ aaPc = "swapped" /\ aaPc' = "idle" /\ aaResult' = "error" /\ old.there /\ SameDir(old, before)
      BY <1>4, <2>2 DEF A!CheckFiles, DirsInv, A!cleanupOldApparmorDir, A!Return
    <3>2. AppArmorTypes'
      BY <1>0, <3>1 DEF AppArmorTypes, EntriesAreFiles
    <3>3. DirsInv'
      BY <1>4, <3>1 DEF DirsInv, A!CheckFiles, A!FilesAreAllOrNothing, SameDir
    <3>4. KernelInv'
      BY <1>0, <3>1, KernelKept DEF KernelInv
    <3> QED
      BY <3>2, <3>3, <3>4
  <2> QED
    BY <1>4, <2>1, <2>2 DEF A!CheckFiles
<1> QED
  BY <1>1, <1>2, <1>3, <1>4

\* UnloadRemoved: what is still loaded is in both directories.
LEMMA UnloadInv == ASSUME AppArmorInv, A!UnloadRemoved PROVE AppArmorInv'
<1> USE DEF AppArmorInv
<1> DEFINE gone == prev \ cur.files
<1>0. /\ UNCHANGED <<cur, old, new, userFile, aaPolicy, who, oldContent, prev, before, aaResult, missed>>
      /\ aaPc = "unload" /\ aaPc' = "load" /\ A!Unload(gone) /\ orphans' = orphans \ gone
  BY DEF A!UnloadRemoved, A!Step, A!disk, A!call, A!policiesFromFiles
<1>1. A!Loaded' = A!Loaded \ gone
  BY <1>0, LoadedAfterUnload
<1>2. Known' \subseteq Known
  BY <1>0, <1>1 DEF Known
<1>3. AppArmorTypes'
  BY <1>0, HatsTyped DEF AppArmorTypes, EntriesAreFiles
<1>4. DirsInv'
  BY <1>0 DEF DirsInv, A!FilesAreAllOrNothing, SameDir
<1>5. KernelInv'
  <2>1. Known' \subseteq old.files
    BY <1>0, <1>2 DEF KernelInv
  <2>2. Known' \subseteq cur.files
    BY <1>0, <1>1, <1>2 DEF KernelInv, Known
  <2>3. HatsExcept({})'
    <3>1. \A f \in Known' : f \in Known /\ hat'[f] = hat[f]
      BY <1>0, <1>1, <1>2 DEF A!Unload, A!Loaded, Known
    <3> QED
      BY <1>0, <3>1 DEF KernelInv, HatsExcept
  <2> QED
    BY <1>0, <2>1, <2>2, <2>3 DEF KernelInv
<1> QED
  BY <1>3, <1>4, <1>5

\* The profiles of fs are loaded, from the directory d: the known ones are in d, and
\* their hats are the files of the users.
LEMMA HatsAfterLoad ==
  ASSUME AppArmorInv, NEW fs, A!Load(fs), UNCHANGED userFile, NEW us, HatsExcept(us),
         Known' \subseteq Known \cup fs, missed \subseteq missed'
  PROVE  HatsExcept(us)'
<1>1. ASSUME NEW f \in Known', NEW u \in Users \ (missed' \cup us) PROVE hat'[f][u] = userFile'[u]
  <2>1. f \in Files
    BY DEF Known, A!Loaded
  <2>2. CASE f \in fs
    BY <2>1, <2>2 DEF A!Load
  <2>3. CASE f \notin fs
    BY <1>1, <2>1, <2>3 DEF A!Load, HatsExcept
  <2> QED
    BY <2>2, <2>3
<1> QED
  BY <1>1 DEF HatsExcept

\* A load of the whole directory: nobody is missed.
LEMMA HatsAfterFullLoad ==
  ASSUME AppArmorInv, A!Load(cur.files), UNCHANGED userFile, Known' \subseteq cur.files, NEW us
  PROVE  HatsExcept(us)'
<1>1. ASSUME NEW f \in Known', NEW u \in Users PROVE hat'[f][u] = userFile'[u]
  BY <1>1 DEF A!Load, Known, A!Loaded
<1> QED
  BY <1>1 DEF HatsExcept

\* LoadMachine: every profile of the entry is loaded.
LEMMA LoadMachineInv == ASSUME AppArmorInv, A!LoadMachine PROVE AppArmorInv'
<1> USE DEF AppArmorInv
<1>0. /\ UNCHANGED <<cur, new, userFile, aaPolicy, who, oldContent, prev, before>>
      /\ aaPc = "load" /\ aaPc' = "idle" /\ aaResult' = "nil" /\ A!Load(cur.files)
      /\ orphans' = orphans \ cur.files /\ missed' = {}
  BY DEF A!LoadMachine, A!Return, A!call
<1>1. Known' \subseteq cur.files
  BY <1>0, LoadedAfterLoad DEF Known, KernelInv
<1>2. AppArmorTypes'
  BY <1>0, HatsTyped DEF AppArmorTypes, EntriesAreFiles
<1>3. DirsInv'
  <2>1. cur = A!Dir(aaPolicy.files, aaPolicy.ver) /\ aaPolicy \in AppArmorPolicies
    BY <1>0 DEF DirsInv
  <2>2. \A f \in aaPolicy.files : profiles'[f] = aaPolicy.ver
    BY <1>0, <2>1 DEF A!Load, AppArmorTypes, EntriesAreFiles, A!Dir
  <2> QED
    BY <1>0, <2>1, <2>2 DEF DirsInv, A!FilesAreAllOrNothing
<1>4. KernelInv'
  BY <1>0, <1>1, HatsAfterFullLoad DEF KernelInv
<1> QED
  BY <1>2, <1>3, <1>4

\* MachineFails: the old directory is restored, and what was loaded of the new one
\* only is an orphan.
LEMMA MachineFailsInv == ASSUME AppArmorInv, A!MachineFails PROVE AppArmorInv'
<1> USE DEF AppArmorInv
<1>0. /\ UNCHANGED <<new, userFile, aaPolicy, who, oldContent, prev, before, missed>>
      /\ aaPc \in {"unload", "load"} /\ aaPc' = "idle" /\ aaResult' = "error"
      /\ cur' = old /\ old.there /\ SameDir(old, before)
      /\ orphans' = orphans \cup (IF aaPc = "load" THEN cur.files \ old.files ELSE {})
  BY DEF A!MachineFails, A!Return, A!call, A!cleanupOldApparmorDir, DirsInv
<1>1. PICK fs \in SUBSET (IF aaPc = "load" THEN cur.files ELSE prev \ cur.files) :
              IF aaPc = "load" THEN A!Load(fs) ELSE A!Unload(fs)
  BY DEF A!MachineFails, A!policiesFromFiles
<1>2. Known' \subseteq (IF aaPc = "load" THEN Known \cup fs ELSE Known \ fs) \cap old.files
  BY <1>0, <1>1, LoadedAfterLoad, LoadedAfterUnload DEF Known, KernelInv
<1>3. AppArmorTypes'
  BY <1>0, <1>1, HatsTyped DEF AppArmorTypes, EntriesAreFiles
<1>4. DirsInv'
  BY <1>0 DEF DirsInv, A!FilesAreAllOrNothing, SameDir
<1>5. KernelInv'
  <2>1. HatsExcept({})'
    <3>1. CASE aaPc = "load"
      BY <1>0, <1>1, <1>2, <3>1, HatsAfterLoad DEF KernelInv
    <3>2. CASE aaPc = "unload"
      <4>1. \A f \in Known' : f \in Known /\ hat'[f] = hat[f]
        BY <1>1, <1>2, <3>2 DEF A!Unload, A!Loaded, Known
      <4> QED
        BY <1>0, <3>2, <4>1 DEF KernelInv, HatsExcept
    <3> QED
      BY <1>0, <3>1, <3>2
  <2> QED
    BY <1>0, <1>2, <2>1 DEF KernelInv
<1> QED
  BY <1>3, <1>4, <1>5

\* What unloading policies of the machine, or of a user, does to the kernel.
LEMMA Unloading ==
  ASSUME AppArmorInv, NEW u \in Users \cup {NoUser}, NEW fs \in SUBSET cur.files, A!unloadPolicies(u, fs)
  PROVE  /\ hat' \in [Files -> [Users -> Contents]] /\ profiles' = [f \in Files |-> profiles'[f]]
         /\ A!Loaded' = IF u = NoUser THEN A!Loaded \ fs ELSE A!Loaded
         /\ \A f \in A!Loaded', x \in Users : hat'[f][x] = IF x = u /\ f \in fs THEN 0 ELSE hat[f][x]
<1> USE DEF AppArmorInv
<1>1. CASE u = NoUser
  <2>1. A!Unload(fs)
    BY <1>1 DEF A!unloadPolicies
  <2>2. A!Loaded' = A!Loaded \ fs
    BY <2>1, LoadedAfterUnload
  <2>3. \A f \in A!Loaded' : f \in Files /\ f \notin fs /\ hat'[f] = hat[f]
    BY <2>1, <2>2 DEF A!Unload, A!Loaded
  <2> QED
    BY <1>1, <2>1, <2>2, <2>3, HatsTyped
<1>2. CASE u # NoUser
  <2>1. hat' = [f \in Files |-> IF f \in fs THEN [hat[f] EXCEPT ![u] = 0] ELSE hat[f]] /\ profiles' = profiles
    BY <1>2 DEF A!unloadPolicies
  <2>2. A!Loaded' = A!Loaded /\ A!Loaded \subseteq Files
    BY <2>1 DEF A!Loaded
  <2>3. hat' \in [Files -> [Users -> Contents]] /\ profiles' = [f \in Files |-> profiles'[f]]
    BY <2>1 DEF AppArmorTypes, Contents
  <2>4. \A f \in A!Loaded, x \in Users : hat'[f][x] = IF x = u /\ f \in fs THEN 0 ELSE hat[f][x]
    BY <2>1, <2>2 DEF AppArmorTypes
  <2> QED
    BY <1>2, <2>2, <2>3, <2>4
<1> QED
  BY <1>1, <1>2

\* unloadAllRules: of the machine, all that is known; of a user, the hats that the
\* user's file declares.
LEMMA UnloadAllInv ==
  ASSUME AppArmorInv, NEW u \in Users \cup {NoUser}, A!unloadAllRules(u) PROVE AppArmorInv'
<1> USE DEF AppArmorInv
<1> DEFINE fs == A!declared(u)
<1>0. /\ UNCHANGED <<cur, old, new, userFile, oldContent, prev, missed>>
      /\ aaPc = "idle" /\ aaPc' = "remove" /\ aaResult' = "none" /\ who' = u
      /\ aaPolicy' = A!NoPolicy /\ before' = cur /\ A!unloadPolicies(u, fs)
      /\ orphans' = IF u = NoUser THEN orphans \ cur.files ELSE orphans
  BY DEF A!unloadAllRules, A!disk, A!Step
<1>d. DirsInv'
  BY <1>0 DEF DirsInv, A!FilesAreAllOrNothing
<1>f. fs \subseteq cur.files
  BY DEF A!declared, A!policiesFromFiles
<1>t. AppArmorTypes'
  BY <1>0, <1>f, Unloading DEF AppArmorTypes, EntriesAreFiles
<1>h. /\ A!Loaded' = IF u = NoUser THEN A!Loaded \ fs ELSE A!Loaded
      /\ \A f \in A!Loaded', x \in Users : hat'[f][x] = IF x = u /\ f \in fs THEN 0 ELSE hat[f][x]
  BY <1>0, <1>f, Unloading
<1>k. Known \subseteq cur.files /\ HatsExcept({})
  BY <1>0 DEF KernelInv
<1>1. CASE u = NoUser
  <2>1. fs = cur.files \cap A!Loaded
    BY <1>1 DEF A!declared, A!policiesFromFiles
  <2>2. Known' = {}
    BY <1>0, <1>1, <1>h, <1>k, <2>1 DEF Known
  <2>3. KernelInv'
    BY <1>0, <1>1, <2>2 DEF KernelInv, HatsExcept
  <2> QED
    BY <1>d, <1>t, <2>3
<1>2. CASE u # NoUser
  <2>1. Known' = Known
    BY <1>0, <1>2, <1>h DEF Known
  <2>2. \A f \in Known, x \in Users \ {u} : hat'[f][x] = hat[f][x]
    BY <1>2, <1>h DEF Known
  <2>3. ASSUME NEW f \in Known, u \notin missed \/ userFile[u] # 0 PROVE hat'[f][u] = 0
    <3>1. f \in cur.files \cap A!Loaded /\ u \in Users
      BY <1>2, <1>k DEF Known
    <3>2. CASE hat[f][u] = 0
      BY <1>2, <1>h, <3>1, <3>2
    <3>3. CASE hat[f][u] # 0
      <4>1. userFile[u] # 0
        BY <1>k, <2>3, <3>1, <3>3 DEF HatsExcept
      <4>2. f \in fs
        BY <3>1, <3>3, <4>1 DEF A!declared, A!policiesFromFiles
      <4> QED
        BY <1>2, <1>h, <3>1, <4>2
    <3> QED
      BY <3>2, <3>3
  <2>4. HatsExcept({u})'
    BY <1>0, <1>k, <2>1, <2>2 DEF HatsExcept
  <2>5. KernelInv'
    BY <1>0, <1>2, <1>k, <2>1, <2>3, <2>4 DEF KernelInv
  <2> QED
    BY <1>d, <1>t, <2>5
<1> QED
  BY <1>1, <1>2

\* UnloadAllFails: what is loaded still has its file, and a user whose hats are partly
\* gone is missed.
LEMMA UnloadAllFailsInv ==
  ASSUME AppArmorInv, NEW u \in Users \cup {NoUser}, A!UnloadAllFails(u) PROVE AppArmorInv'
<1> USE DEF AppArmorInv
<1>0. /\ UNCHANGED <<cur, old, new, userFile, who, oldContent, prev, orphans>>
      /\ aaPc = "idle" /\ aaPc' = "idle" /\ aaResult' = "error" /\ aaPolicy' = A!NoPolicy /\ before' = cur
  BY DEF A!UnloadAllFails, A!disk, A!Return
<1>1. PICK fs \in SUBSET A!declared(u) :
        A!unloadPolicies(u, fs) /\ missed' = IF fs = {} THEN missed ELSE missed \cup ({u} \cap Users)
  BY DEF A!UnloadAllFails
<1>f. fs \subseteq cur.files
  BY DEF A!declared, A!policiesFromFiles
<1>2. DirsInv'
  BY <1>0 DEF DirsInv, A!FilesAreAllOrNothing
<1>3. AppArmorTypes'
  BY <1>0, <1>1, <1>f, Unloading DEF AppArmorTypes, EntriesAreFiles
<1>h. /\ A!Loaded' = IF u = NoUser THEN A!Loaded \ fs ELSE A!Loaded
      /\ \A f \in A!Loaded', x \in Users : hat'[f][x] = IF x = u /\ f \in fs THEN 0 ELSE hat[f][x]
  BY <1>1, <1>f, Unloading
<1>k. Known \subseteq cur.files /\ HatsExcept({}) /\ Known' \subseteq Known /\ Known' \subseteq A!Loaded'
  BY <1>0, <1>h DEF KernelInv, Known
<1>4. HatsExcept({})'
  <2>1. ASSUME NEW f \in Known', NEW x \in Users \ missed' PROVE hat'[f][x] = userFile'[x]
    <3>1. x \notin missed /\ (x # u \/ fs = {})
      BY <1>1, <2>1
    <3> QED
      BY <1>0, <1>h, <1>k, <2>1, <3>1 DEF HatsExcept
  <2> QED
    BY <2>1 DEF HatsExcept
<1>5. KernelInv'
  BY <1>0, <1>k, <1>4 DEF KernelInv
<1> QED
  BY <1>2, <1>3, <1>5

\* RemovePath: the directory goes, or the file of the user.
LEMMA RemovePathInv == ASSUME AppArmorInv, A!RemovePath PROVE AppArmorInv'
<1> USE DEF AppArmorInv
<1>0. /\ UNCHANGED <<old, new, profiles, hat, aaPolicy, who, oldContent, prev, before, orphans>>
      /\ aaPc = "remove" /\ aaPc' = "idle" /\ aaResult' = "nil" /\ aaPolicy = A!NoPolicy
  BY DEF A!RemovePath, A!Return, A!kernel, A!call, DirsInv
<1>k. Known' = Known
  BY <1>0 DEF Known, A!Loaded
<1>d. DirsInv'
  BY <1>0 DEF DirsInv, A!FilesAreAllOrNothing
<1>1. CASE who = NoUser
  <2>1. cur' = A!NoDir /\ UNCHANGED <<userFile, missed>> /\ Known' = {}
    BY <1>0, <1>1, <1>k DEF A!RemovePath, KernelInv
  <2>2. AppArmorTypes'
    BY <1>0, <2>1 DEF AppArmorTypes, EntriesAreFiles, A!NoDir
  <2>3. KernelInv'
    BY <1>0, <2>1 DEF KernelInv, HatsExcept
  <2> QED
    BY <1>d, <2>2, <2>3
<1>2. CASE who # NoUser
  <2>1. cur' = cur /\ userFile' = [userFile EXCEPT ![who] = 0]
        /\ missed' = IF userFile[who] = 0 THEN missed ELSE missed \ {who}
    BY <1>2 DEF A!RemovePath
  <2>2. AppArmorTypes'
    BY <1>0, <2>1 DEF AppArmorTypes, EntriesAreFiles, Contents
  <2>3. \A u \in Users : userFile'[u] = IF u = who THEN 0 ELSE userFile[u]
    BY <2>1 DEF AppArmorTypes
  <2>4. KernelInv'
    BY <1>0, <1>2, <1>k, <2>1, <2>3 DEF KernelInv, HatsExcept
  <2> QED
    BY <1>d, <2>2, <2>4
<1> QED
  BY <1>1, <1>2

\* applyUserPolicy: the file is written, to be loaded if there are profiles.
LEMMA ApplyUserInv ==
  ASSUME AppArmorInv, NEW u \in Users, NEW v \in UserPolicies, A!applyUserPolicy(u, v) PROVE AppArmorInv'
<1> USE DEF AppArmorInv
<1>0. /\ UNCHANGED <<cur, old, new, profiles, hat, prev, orphans, missed>>
      /\ aaPc = "idle" /\ before' = cur /\ aaPolicy' = A!NoPolicy /\ who' = u
      /\ userFile' = [userFile EXCEPT ![u] = v] /\ oldContent' = userFile[u]
      /\ IF userFile[u] = v \/ ~cur.there THEN aaPc' = "idle" /\ aaResult' = "nil" ELSE aaPc' = "reload" /\ aaResult' = "none"
  BY DEF A!applyUserPolicy, A!writeIfChanged, A!Return, A!kernel
<1>1. Known' = Known /\ Known \subseteq cur.files
  BY <1>0 DEF Known, A!Loaded, KernelInv
<1>2. \A x \in Users : userFile'[x] = IF x = u THEN v ELSE userFile[x]
  BY <1>0 DEF AppArmorTypes
<1>3. AppArmorTypes'
  BY <1>0 DEF AppArmorTypes, EntriesAreFiles, Contents
<1>4. DirsInv'
  BY <1>0 DEF DirsInv, A!FilesAreAllOrNothing
<1>5. KernelInv'
  <2>1. CASE aaPc' = "idle"
    <3>1. HatsExcept({})'
      BY <1>0, <1>1, <1>2, <2>1 DEF KernelInv, HatsExcept, AppArmorTypes
    <3> QED
      BY <1>0, <1>1, <2>1, <3>1 DEF KernelInv
  <2>2. CASE aaPc' = "reload"
    BY <1>0, <1>1, <1>2, <2>2 DEF KernelInv, HatsExcept
  <2> QED
    BY <1>0, <2>1, <2>2
<1> QED
  BY <1>3, <1>4, <1>5

\* ReloadForUser: every hat is loaded.
LEMMA ReloadInv == ASSUME AppArmorInv, A!ReloadForUser PROVE AppArmorInv'
<1> USE DEF AppArmorInv
<1>0. /\ UNCHANGED <<cur, old, new, userFile, aaPolicy, who, oldContent, prev, before>>
      /\ aaPc = "reload" /\ aaPc' = "idle" /\ aaResult' = "nil" /\ A!Load(cur.files)
      /\ orphans' = orphans \ cur.files /\ missed' = {} /\ aaPolicy = A!NoPolicy
  BY DEF A!ReloadForUser, A!Return, A!disk, A!call, DirsInv
<1>1. Known' \subseteq cur.files
  BY <1>0, LoadedAfterLoad DEF Known, KernelInv
<1>2. AppArmorTypes'
  BY <1>0, HatsTyped DEF AppArmorTypes, EntriesAreFiles
<1>3. DirsInv'
  BY <1>0 DEF DirsInv, A!FilesAreAllOrNothing
<1>4. KernelInv'
  BY <1>0, <1>1, HatsAfterFullLoad DEF KernelInv
<1> QED
  BY <1>2, <1>3, <1>4

\* ReloadFails: the file is restored; the hats are as before, or the user is missed.
LEMMA ReloadFailsInv == ASSUME AppArmorInv, A!ReloadFails PROVE AppArmorInv'
<1> USE DEF AppArmorInv
<1>0. /\ UNCHANGED <<cur, old, new, aaPolicy, who, oldContent, prev, before, orphans>>
      /\ aaPc = "reload" /\ aaPc' = "idle" /\ aaResult' = "error" /\ aaPolicy = A!NoPolicy /\ cur = before
      /\ userFile' = [userFile EXCEPT ![who] = oldContent] /\ who \in Users
  BY DEF A!ReloadFails, A!Return, A!call, DirsInv, AppArmorTypes
<1>1. PICK fs \in SUBSET cur.files : A!Load(fs) /\ missed' = IF fs = {} THEN missed ELSE missed \cup {who}
  BY DEF A!ReloadFails
<1>2. Known' \subseteq Known \cup fs /\ Known' \subseteq cur.files
  BY <1>0, <1>1, LoadedAfterLoad DEF Known, KernelInv
<1>3. \A u \in Users : userFile'[u] = IF u = who THEN oldContent ELSE userFile[u]
  BY <1>0 DEF AppArmorTypes
<1>4. AppArmorTypes'
  BY <1>0, <1>1, HatsTyped DEF AppArmorTypes, EntriesAreFiles
<1>5. DirsInv'
  BY <1>0 DEF DirsInv, A!FilesAreAllOrNothing
<1>6. HatsExcept({})'
  <2>1. ASSUME NEW f \in Known', NEW u \in Users \ missed' PROVE hat'[f][u] = userFile'[u]
    <3>0. f \in Files
      BY DEF Known, A!Loaded
    <3>1. CASE f \in fs
      BY <1>1, <1>3, <2>1, <3>0, <3>1 DEF A!Load
    <3>2. CASE f \notin fs
      <4>1. hat'[f] = hat[f] /\ f \in Known
        BY <1>1, <1>2, <3>0, <3>2 DEF A!Load
      <4> QED
        BY <1>0, <1>1, <1>3, <2>1, <4>1 DEF KernelInv, HatsExcept
    <3> QED
      BY <3>1, <3>2
  <2> QED
    BY <2>1 DEF HatsExcept
<1>7. KernelInv'
  BY <1>0, <1>2, <1>6 DEF KernelInv
<1> QED
  BY <1>4, <1>5, <1>7

\* Crash: what has no file in the directory is an orphan, and the user of the call is
\* missed if the hats were being changed.
LEMMA AppArmorCrashInv == ASSUME AppArmorInv, A!Crash PROVE AppArmorInv'
<1> USE DEF AppArmorInv
<1>0. /\ UNCHANGED <<cur, old, new, userFile, profiles, hat, aaPolicy, who, oldContent, prev, before>>
      /\ aaPc' = "idle" /\ aaResult' = "none" /\ orphans' = orphans \cup (A!Loaded \ cur.files)
      /\ missed' = IF aaPc \in {"remove", "reload"} THEN missed \cup ({who} \cap Users) ELSE missed
  BY DEF A!Crash, A!Return, A!disk, A!kernel, A!call
<1>1. Known' \subseteq Known \cap cur.files
  BY <1>0 DEF Known, A!Loaded
<1>2. AppArmorTypes'
  BY <1>0 DEF AppArmorTypes, EntriesAreFiles
<1>3. DirsInv'
  BY <1>0 DEF DirsInv, A!FilesAreAllOrNothing
<1>4. HatsExcept({})'
  BY <1>0, <1>1 DEF KernelInv, HatsExcept
<1>5. KernelInv'
  BY <1>0, <1>1, <1>4 DEF KernelInv
<1> QED
  BY <1>2, <1>3, <1>5

\* Every step of the apparmor manager keeps the invariant.
LEMMA AppArmorNext == AppArmorInv /\ [A!Next]_A!vars => AppArmorInv'
<1> SUFFICES ASSUME AppArmorInv, [A!Next]_A!vars PROVE AppArmorInv'
  OBVIOUS
<1>1. CASE UNCHANGED A!vars
  <2>1. UNCHANGED <<cur, old, new, userFile, profiles, hat, aaPc, aaPolicy, who, oldContent, prev, aaResult, before, orphans, missed>>
    BY <1>1 DEF A!vars
  <2>2. AppArmorTypes' /\ DirsInv'
    BY <2>1 DEF AppArmorInv, AppArmorTypes, EntriesAreFiles, DirsInv, SameDir, A!FilesAreAllOrNothing
  <2>3. KernelInv'
    BY <2>1, KernelKept DEF AppArmorInv, KernelInv
  <2> QED
    BY <2>2, <2>3 DEF AppArmorInv
<1> QED
  BY <1>1, EarlyErrorInv, SwapInv, UnloadInv, LoadMachineInv, MachineFailsInv, UnloadAllInv, UnloadAllFailsInv, RemovePathInv,
     ApplyUserInv, ReloadInv, ReloadFailsInv, AppArmorCrashInv DEF A!Next

\* A directory of profile files.
LEMMA DirTypes ==
  /\ A!NoDir \in A!Dirs /\ 0 \in A!Versions
  /\ \A fs \in SUBSET Files, v \in A!Versions : A!Dir(fs, v) \in A!Dirs
  /\ \A d \in A!Dirs : d.files \subseteq Files /\ d.ver \in A!Versions
<1>1. A!NoDir \in A!Dirs /\ 0 \in A!Versions
  BY DEF A!Dirs, A!Versions
<1>2. \A fs \in SUBSET Files, v \in A!Versions : A!Dir(fs, v) \in A!Dirs
  BY DEF A!Dirs
<1>3. \A d \in A!Dirs : d.files \subseteq Files /\ d.ver \in A!Versions
  BY <1>1 DEF A!Dirs, A!Dir, A!NoDir
<1> QED BY <1>1, <1>2, <1>3

\* What a load, or an unload, does to the kernel is typed.
LEMMA KernelTypes ==
  ASSUME A!TypeOK, NEW fs, A!Load(fs) \/ A!Unload(fs)
  PROVE  profiles' \in [Files -> A!Versions] /\ hat' \in [Files -> [Users -> {0} \cup UserPolicies]]
  BY DirTypes DEF A!TypeOK, A!Load, A!Unload, A!NoHat

\* The state of the apparmor manager is typed.
LEMMA AppArmorTypeOK ==
  /\ A!Init => A!TypeOK
  /\ AppArmorInv /\ A!TypeOK /\ [A!Next]_A!vars => A!TypeOK'
<1> USE Bounds DEF A!TypeOK
<1>1. ASSUME A!Init PROVE A!TypeOK
  BY <1>1, DirTypes DEF A!Init, A!NoHat
<1>2. ASSUME AppArmorInv, A!TypeOK, [A!Next]_A!vars PROVE A!TypeOK'
  <2> USE <1>2, CountedUp, DirTypes DEF A!Quiet, A!Count, A!Fault, A!Step, A!Return, A!disk, A!kernel, A!call
  <2>1. CASE UNCHANGED A!vars
    BY <2>1 DEF A!vars
  <2>2. ASSUME NEW e \in BOOLEAN, A!NoParser(e) PROVE A!TypeOK'
    BY <2>2 DEF A!NoParser
  <2>3. ASSUME NEW p \in AppArmorPolicies, A!applyMachinePolicy(p) PROVE A!TypeOK'
    <3>1. p.assets \subseteq Files /\ p.ver \in A!Versions
      BY DEF AppArmorInv, AppArmorTypes, EntriesAreFiles, A!Versions
    <3>2. A!Dir(p.assets, p.ver) \in A!Dirs /\ A!Dir({}, 0) \in A!Dirs
      BY <3>1
    <3> QED BY <2>3, <3>2 DEF A!applyMachinePolicy, A!policiesFromFiles
  <2>4. CASE A!RenameOld \/ A!RenameNew
    BY <2>4 DEF A!RenameOld, A!RenameNew
  <2>5. CASE A!CheckFiles
    <3>1. A!removeUnusedAssets(aaPolicy, cur) \in A!Dirs
      BY DEF A!removeUnusedAssets
    <3> QED BY <2>5, <3>1 DEF A!CheckFiles, A!cleanupOldApparmorDir
  <2>6. CASE A!UnloadRemoved
    BY <2>6, KernelTypes DEF A!UnloadRemoved
  <2>7. CASE A!LoadMachine
    BY <2>7, KernelTypes DEF A!LoadMachine
  <2>8. CASE A!MachineFails
    <3>1. profiles' \in [Files -> A!Versions] /\ hat' \in [Files -> [Users -> {0} \cup UserPolicies]]
      BY <2>8, KernelTypes DEF A!MachineFails
    <3> QED BY <2>8, <3>1 DEF A!MachineFails, A!cleanupOldApparmorDir
  <2>9. ASSUME NEW u \in Users \cup {NoUser}, A!unloadAllRules(u) PROVE A!TypeOK'
    <3>1. profiles' \in [Files -> A!Versions] /\ hat' \in [Files -> [Users -> {0} \cup UserPolicies]]
      <4>1. CASE u = NoUser
        BY <2>9, <4>1, KernelTypes DEF A!unloadAllRules, A!unloadPolicies
      <4>2. CASE u # NoUser
        BY <2>9, <4>2 DEF A!unloadAllRules, A!unloadPolicies
      <4> QED BY <4>1, <4>2
    <3> QED BY <2>9, <3>1 DEF A!unloadAllRules
  <2>10. ASSUME NEW u \in Users \cup {NoUser}, A!ApplyFails(u) PROVE A!TypeOK'
    <3>1. A!Dir({}, 0) \in A!Dirs
      OBVIOUS
    <3> QED BY <2>10, <3>1 DEF A!ApplyFails
  <2>16. ASSUME NEW u \in Users \cup {NoUser}, A!UnloadAllFails(u) PROVE A!TypeOK'
    <3>1. PICK fs \in SUBSET A!declared(u) :
            A!unloadPolicies(u, fs) /\ missed' = IF fs = {} THEN missed ELSE missed \cup ({u} \cap Users)
      BY <2>16 DEF A!UnloadAllFails
    <3>2. profiles' \in [Files -> A!Versions] /\ hat' \in [Files -> [Users -> {0} \cup UserPolicies]]
      <4>1. CASE u = NoUser
        BY <3>1, <4>1, KernelTypes DEF A!unloadPolicies
      <4>2. CASE u # NoUser
        BY <3>1, <4>2 DEF A!unloadPolicies
      <4> QED BY <4>1, <4>2
    <3> QED BY <2>16, <3>1, <3>2 DEF A!UnloadAllFails
  <2>11. ASSUME NEW u \in Users, NEW v \in UserPolicies, A!applyUserPolicy(u, v) PROVE A!TypeOK'
    BY <2>11 DEF A!applyUserPolicy, A!writeIfChanged
  <2>12. CASE A!RemovePath
    BY <2>12 DEF A!RemovePath
  <2>13. CASE A!ReloadForUser
    BY <2>13, KernelTypes DEF A!ReloadForUser
  <2>14. CASE A!ReloadFails
    <3>1. profiles' \in [Files -> A!Versions] /\ hat' \in [Files -> [Users -> {0} \cup UserPolicies]]
      BY <2>14, KernelTypes DEF A!ReloadFails
    <3> QED BY <2>14, <3>1 DEF A!ReloadFails, AppArmorInv, AppArmorTypes
  <2>15. CASE A!Crash
    BY <2>15 DEF A!Crash, A!Loaded
  <2> QED
    BY <2>1, <2>2, <2>3, <2>4, <2>5, <2>6, <2>7, <2>8, <2>9, <2>10, <2>11, <2>12, <2>13, <2>14, <2>15, <2>16 DEF A!Next
<1> QED BY <1>1, <1>2

(* The apparmor manager: between two calls the kernel runs what the files  *)
(* say, but for what a crash or a parser that failed midway left behind;   *)
(* an update that fails leaves the directory of the machine as it found    *)
(* it, and one that succeeds leaves the profiles of its entry, all loaded. *)
THEOREM ProfilesFollowFiles == ManagersSpec => []ProfilesAreConsistent
<1>1. AppArmorInv /\ A!TypeOK => ProfilesAreConsistent
  BY DEF AppArmorInv, DirsInv, KernelInv, HatsExcept, Known, A!ProfilesAreConsistent, A!KernelFollowsFiles, ProfilesAreConsistent
<1>2. ManagersInit => AppArmorInv /\ A!TypeOK
  BY ManagersAssumption, AppArmorInit, AppArmorTypeOK DEF ManagersInit
<1> QED
  BY <1>1, <1>2, AppArmorNext, AppArmorTypeOK, ManagersAreApart, PTL DEF ManagersSpec

----------------------------------------------------------------------------
(* The mount manager. *)

MountTypes ==
  /\ files \in [M!Names -> M!Contents \cup {NoFile}]
  /\ unitLoaded \in [M!Names -> M!Contents \cup {NoFile}]
  /\ active \in [M!Names -> M!Contents \cup {NoFile}]
  /\ mountPc \in {"idle", "clean", "write", "enable"}
  /\ DOMAIN want \subseteq M!Names /\ \A n \in DOMAIN want : want[n] \in M!Contents
  /\ clean \subseteq M!Names /\ start \subseteq M!Names /\ removing \subseteq clean

\* systemd and the files, at any time: a unit without a file is gone for systemd too, and
\* one with a file is in force unless a call has it in hand or left it half way.
UnitsInv ==
  /\ \A n \in M!Names : files[n] = NoFile => n \notin enabled /\ (active[n] = NoFile \/ n \in unstopped)
  /\ \A n \in M!Names \ (interrupted \cup start \cup removing) :
       files[n] # NoFile => n \in enabled /\ unitLoaded[n] = files[n]
  /\ \A n \in removing : n \notin enabled /\ (active[n] = NoFile \/ n \in unstopped)

\* What the steps of a call leave for the next ones.
StepsInv ==
  /\ \A m, n \in removing : m = n
  /\ \A n \in clean : files[n] # NoFile /\ n \notin DOMAIN want
  /\ \A n \in start : files[n] # NoFile /\ n \in DOMAIN want
  /\ mountPc # "clean" => clean = {}
  /\ mountPc \in {"idle", "clean"} => start = {}
  /\ mountPc \in {"idle", "enable"} => write = {}
  /\ mountPc = "clean" => write = DOMAIN want /\ M!currentSystemMountUnits \subseteq clean \cup DOMAIN want
  /\ mountPc = "write" => /\ M!currentSystemMountUnits \subseteq DOMAIN want
                     /\ write \subseteq DOMAIN want
                     /\ \A n \in DOMAIN want \ write : files[n] = want[n]
  /\ mountPc = "enable" => M!currentSystemMountUnits = DOMAIN want /\ unitLoaded = files
  /\ mountPc = "idle" /\ mountResult = "nil" => M!currentSystemMountUnits = DOMAIN want

\* The command of a session: the results to come are those of the operations pending
\* and those waiting in the channel, and an error was met, or waits, exactly when an
\* operation that is over has not mounted its location.
Lines == {M!parseEntryValues(p) : p \in MountPolicies}
Locations == UNION {{p[i] : i \in DOMAIN p} : p \in MountPolicies}
Over == DOMAIN sess.entries \ sess.pending
Failed == \E k \in DOMAIN sess.chan : sess.chan[k] = FALSE

Sessions ==
  [pc : {"none", "wait", "done"}, entries : Lines \cup {<<>>}, pending : SUBSET Nat,
   chan : Seq(BOOLEAN), left : Nat, err : BOOLEAN, mounted : SUBSET Locations]

CommandInv ==
  /\ mounts # NoFile => mounts \in Lines
  /\ sess \in Sessions
  /\ sess.pending \subseteq DOMAIN sess.entries
  /\ sess.left = Cardinality(sess.pending) + Len(sess.chan)
  /\ sess.pc = "done" => sess.left = 0
  /\ sess.mounted \subseteq {sess.entries[i] : i \in Over}
  /\ sess.err = TRUE \/ Failed <=> \E i \in Over : sess.entries[i] \notin sess.mounted

MountInv == ValuesAreParsed /\ MountTypes /\ UnitsInv /\ StepsInv /\ CommandInv

\* A set of positions that is not empty has a last one.
LEMMA LargestExists ==
  ASSUME NEW k \in Nat, NEW S \in SUBSET (1..k), S # {}
  PROVE  \E x \in S : \A y \in S : y <= x
<1> DEFINE T == {k - y : y \in S}
           R == {ss \in Nat \X Nat : ss[1] < ss[2]}
<1>1. IsWellFoundedOn(R, Nat)
  BY NatLessThanWellFounded DEF OpToRel
<1>2. PICK z \in S : TRUE
  OBVIOUS
<1>3. T \subseteq Nat /\ k - z \in T
  OBVIOUS
<1>4. T # {}
  BY <1>3
<1> HIDE DEF T, R
<1>5. PICK t \in T : \A y \in T : ~(<<y, t>> \in R)
  BY <1>1, <1>3, <1>4, WFMin
<1>6. PICK x \in S : t = k - x
  BY <1>5 DEF T
<1>7. ASSUME NEW y \in S PROVE y <= x
  <2>1. ~(<<k - y, t>> \in R)
    BY <1>5 DEF T
  <2> QED
    BY <1>3, <1>6, <2>1 DEF R, T
<1> QED
  BY <1>7

\* The units made of a policy have the names and the contents of units.
LEMMA UnitsOfPolicies ==
  ASSUME ValuesAreParsed, NEW p \in MountPolicies
  PROVE  LET units == M!createUnits(M!parseEntryValues(p))
         IN  DOMAIN units \subseteq M!Names /\ \A n \in DOMAIN units : units[n] \in M!Contents
<1> DEFINE Ran == {p[k] : k \in DOMAIN p}
           vals == M!parseEntryValues(p)
           units == M!createUnits(vals)
<1>1. vals \in Seq(Ran)
  BY DEF ValuesAreParsed
<1>2. ASSUME NEW v \in Ran PROVE M!UnitName(v) \in M!Names /\ M!UnitContent(v) \in M!Contents
  BY <1>2 DEF M!Names, M!Contents
<1> HIDE DEF Ran, vals
<1>3. \A i \in DOMAIN vals : M!UnitName(vals[i]) \in M!Names /\ M!UnitContent(vals[i]) \in M!Contents
  BY <1>1, <1>2
<1>4. ASSUME NEW n \in DOMAIN units PROVE units[n] \in M!Contents
  <2> DEFINE Last(i) == M!UnitName(vals[i]) = n /\ \A j \in DOMAIN vals : M!UnitName(vals[j]) = n => j <= i
             S == {i \in DOMAIN vals : M!UnitName(vals[i]) = n}
  <2>1. Len(vals) \in Nat /\ S \in SUBSET (1..Len(vals)) /\ S # {}
    BY <1>1 DEF M!createUnits
  <2>2. \E i \in DOMAIN vals : Last(i)
    BY <2>1, LargestExists
  <2>3. (CHOOSE i \in DOMAIN vals : Last(i)) \in DOMAIN vals
    BY <2>2
  <2> QED
    BY <1>3, <2>3 DEF M!createUnits
<1> QED
  BY <1>3, <1>4 DEF M!createUnits, vals

\* No unit is written yet, and no user's locations are mounted.
LEMMA MountInit == ValuesAreParsed /\ M!Init => MountInv
<1> SUFFICES ASSUME ValuesAreParsed, M!Init PROVE MountInv
  OBVIOUS
<1>1. NoFile \notin M!Contents
  BY DEF ValuesAreParsed
<1>2. MountTypes /\ UnitsInv /\ StepsInv
  BY <1>1 DEF M!Init, M!Nowhere, MountTypes, UnitsInv, StepsInv, M!currentSystemMountUnits
<1>3. Cardinality({}) = 0
  BY FS_EmptySet
<1>4. CommandInv
  BY <1>3 DEF M!Init, M!NoSession, CommandInv, Sessions, Over, Failed
<1> QED
  BY <1>2, <1>4 DEF MountInv

\* A step of the mount command leaves the units alone.
LEMMA SystemKept ==
  ASSUME MountTypes, UnitsInv, StepsInv, UNCHANGED M!system
  PROVE  MountTypes' /\ UnitsInv' /\ StepsInv'
  BY DEF MountTypes, UnitsInv, StepsInv, M!system, M!currentSystemMountUnits

\* A step about units leaves the mount command alone.
LEMMA CommandKept == ASSUME CommandInv, UNCHANGED M!user PROVE CommandInv'
  BY DEF CommandInv, M!user, Over, Failed

\* A call begins with the units to remove, to write and to start.
LEMMA BeginInv ==
  ASSUME MountInv, mountPc = "idle", NEW units, M!Begin(units),
         DOMAIN units \subseteq M!Names, \A n \in DOMAIN units : units[n] \in M!Contents
  PROVE  MountTypes' /\ UnitsInv' /\ StepsInv'
<1> USE DEF MountInv, M!Begin, M!currentSystemMountUnits
<1>1. MountTypes'
  BY DEF MountTypes, StepsInv
<1>2. UnitsInv'
  BY DEF UnitsInv, StepsInv, MountTypes
<1>3. StepsInv'
  BY DEF StepsInv, MountTypes
<1> QED
  BY <1>1, <1>2, <1>3

\* A unit that is gone from the policy is stopped and disabled.
LEMMA CleanDisableInv ==
  ASSUME MountInv, NEW n \in M!Names, M!CleanDisable(n) PROVE MountTypes' /\ UnitsInv' /\ StepsInv'
<1> USE DEF MountInv, M!CleanDisable, M!currentSystemMountUnits
<1>1. MountTypes'
  BY DEF MountTypes
<1>2. UnitsInv'
  BY DEF UnitsInv, MountTypes
<1>3. StepsInv'
  BY DEF StepsInv, MountTypes
<1> QED
  BY <1>1, <1>2, <1>3

\* The file of a unit that is gone is removed.
LEMMA CleanRemoveInv ==
  ASSUME MountInv, NEW n \in M!Names, M!CleanRemove(n) PROVE MountTypes' /\ UnitsInv' /\ StepsInv'
<1> USE DEF MountInv, M!CleanRemove, M!currentSystemMountUnits
<1>1. MountTypes'
  BY DEF MountTypes
<1>2. UnitsInv'
  BY DEF UnitsInv, MountTypes, StepsInv
<1>3. StepsInv'
  BY DEF StepsInv, MountTypes
<1> QED
  BY <1>1, <1>2, <1>3

\* A unit is written and noted as one to start.
LEMMA WriteUnitInv ==
  ASSUME MountInv, NEW n \in M!Names, M!WriteUnit(n) PROVE MountTypes' /\ UnitsInv' /\ StepsInv'
<1> USE DEF MountInv, M!WriteUnit, M!currentSystemMountUnits
<1>0. n \in DOMAIN want /\ want[n] \in M!Contents /\ want[n] # NoFile
  BY DEF StepsInv, MountTypes, ValuesAreParsed
<1>1. MountTypes'
  BY <1>0 DEF MountTypes
<1>2. UnitsInv'
  BY <1>0 DEF UnitsInv, MountTypes
<1>3. StepsInv'
  BY <1>0 DEF StepsInv, MountTypes
<1> QED
  BY <1>1, <1>2, <1>3

\* systemd reads what was written.
LEMMA ReloadUnitsInv == ASSUME MountInv, M!Reload PROVE MountTypes' /\ UnitsInv' /\ StepsInv'
<1> USE DEF MountInv, M!Reload, M!currentSystemMountUnits
<1>0. \A n \in DOMAIN want : n \in M!Names /\ files[n] = want[n] /\ want[n] # NoFile
  BY DEF StepsInv, MountTypes, ValuesAreParsed
<1>1. MountTypes'
  BY DEF MountTypes
<1>2. UnitsInv'
  BY DEF UnitsInv, MountTypes
<1>3. M!currentSystemMountUnits' = DOMAIN want
  BY <1>0 DEF StepsInv
<1>4. StepsInv'
  <2>1. CASE start = {}
    BY <1>3, <2>1 DEF StepsInv
  <2>2. CASE start # {}
    BY <1>3, <2>2 DEF StepsInv
  <2> QED
    BY <2>1, <2>2
<1> QED
  BY <1>1, <1>2, <1>4

\* A unit is enabled and started.
LEMMA EnableUnitInv ==
  ASSUME MountInv, NEW n \in M!Names, M!EnableUnit(n) PROVE MountTypes' /\ UnitsInv' /\ StepsInv'
<1> USE DEF MountInv, M!EnableUnit, M!currentSystemMountUnits
<1>1. MountTypes'
  BY DEF MountTypes
<1>2. UnitsInv'
  BY DEF UnitsInv, MountTypes, StepsInv
<1>3. StepsInv'
  BY DEF StepsInv, MountTypes
<1> QED
  BY <1>1, <1>2, <1>3

\* A call that ends early leaves its units noted as interrupted.
LEMMA InterruptInv ==
  ASSUME MountInv, NEW r \in {"none", "error"}, M!Interrupt(r) PROVE MountTypes' /\ UnitsInv' /\ StepsInv'
<1> USE DEF MountInv, M!Interrupt, M!currentSystemMountUnits
<1>1. MountTypes'
  BY DEF MountTypes
<1>2. UnitsInv'
  BY DEF UnitsInv, MountTypes, StepsInv
<1>3. StepsInv'
  BY DEF StepsInv, MountTypes
<1> QED
  BY <1>1, <1>2, <1>3

\* A call goes on, or ends, with nothing left to do.
LEMMA EndsInv == ASSUME MountInv, M!CleanEnd \/ M!EnableEnd PROVE MountTypes' /\ UnitsInv' /\ StepsInv'
<1> USE DEF MountInv, M!CleanEnd, M!EnableEnd, M!currentSystemMountUnits
<1>1. MountTypes'
  BY DEF MountTypes
<1>2. UnitsInv'
  BY DEF UnitsInv, MountTypes
<1>3. StepsInv'
  BY DEF StepsInv, MountTypes
<1> QED
  BY <1>1, <1>2, <1>3

\* A policy that is refused changes nothing.
LEMMA MalformedInv ==
  ASSUME MountInv, mountPc = "idle", mountResult' = "error",
         UNCHANGED <<files, unitLoaded, enabled, active, mountPc, want, clean, write, start, removing, interrupted, unstopped>>
  PROVE  MountTypes' /\ UnitsInv' /\ StepsInv'
<1> USE DEF MountInv, M!currentSystemMountUnits
<1> QED
  BY DEF MountTypes, UnitsInv, StepsInv

\* The file read by a command: a sequence of different locations.
LEMMA LinesAreSequences ==
  ASSUME ValuesAreParsed, NEW l \in Lines
  PROVE  l \in Seq(Locations) /\ DOMAIN l = 1..Len(l) /\ \A i, j \in DOMAIN l : l[i] = l[j] => i = j
<1>1. PICK p \in MountPolicies : l = M!parseEntryValues(p)
  BY DEF Lines
<1> DEFINE Ran == {p[k] : k \in DOMAIN p}
<1>2. l \in Seq(Ran) /\ \A i, j \in DOMAIN l : l[i] = l[j] => i = j
  BY <1>1 DEF ValuesAreParsed
<1>3. Ran \subseteq Locations
  BY DEF Locations
<1> HIDE DEF Ran
<1> QED
  BY <1>2, <1>3

\* A user's policy replaces the file of mounts, which a command has read already.
LEMMA UserPolicyInv ==
  ASSUME MountInv, NEW p \in MountPolicies \cup {NoEntry}, M!applyUserMountsPolicy(p)
  PROVE  CommandInv'
<1>1. mounts' # NoFile => mounts' \in Lines
  BY DEF MountInv, CommandInv, M!applyUserMountsPolicy, M!cleanupMountsFile, M!writeFileWithUIDGID, Lines
<1>2. UNCHANGED sess
  BY DEF M!applyUserMountsPolicy
<1> QED
  BY <1>1, <1>2 DEF MountInv, CommandInv, Sessions, Over, Failed

\* The command starts with every location of the file pending.
LEMMA RunMountInv == ASSUME MountInv, M!RunMount PROVE CommandInv'
<1>1. mounts \in Lines /\ mounts \in Seq(Locations) /\ DOMAIN mounts = 1..Len(mounts)
  BY LinesAreSequences DEF MountInv, CommandInv, M!RunMount
<1>2. Cardinality(DOMAIN mounts) = Len(mounts)
  <2> DEFINE k == Len(mounts)
  <2>1. k \in Nat
    BY <1>1
  <2>2. \A a \in Int, b \in Int : Cardinality(a..b) = IF a > b THEN 0 ELSE b - a + 1
    BY FS_Interval
  <2> HIDE DEF k
  <2>3. Cardinality(1..k) = k
    BY <2>1, <2>2
  <2> QED
    BY <1>1, <2>3 DEF k
<1>3. sess' = [pc |-> "wait", entries |-> mounts, pending |-> DOMAIN mounts, chan |-> <<>>,
               left |-> Len(mounts), err |-> FALSE, mounted |-> {}] /\ UNCHANGED mounts
  BY DEF M!RunMount, M!NoSession
<1>4. Len(mounts) \in Nat /\ DOMAIN mounts \subseteq Nat
  BY <1>1
<1> QED
  BY <1>1, <1>2, <1>3, <1>4 DEF MountInv, CommandInv, Sessions, Over, Failed

\* Only finitely many mounts are pending.
LEMMA PendingIsFinite ==
  ASSUME MountInv
  PROVE  IsFiniteSet(sess.pending) /\ Cardinality(sess.pending) \in Nat
<1>1. Len(sess.entries) \in Nat /\ DOMAIN sess.entries = 1..Len(sess.entries)
  BY LinesAreSequences DEF MountInv, CommandInv, Sessions
<1>2. IsFiniteSet(1..Len(sess.entries))
  BY <1>1, FS_Interval
<1>3. sess.pending \subseteq 1..Len(sess.entries)
  BY <1>1 DEF MountInv, CommandInv
<1> QED
  BY <1>2, <1>3, FS_Subset, FS_CardinalityType

\* A mount ends and sends its answer once.
LEMMA MountDoneInv ==
  ASSUME MountInv, NEW i \in DOMAIN sess.entries, M!mountDone(i) PROVE CommandInv'
<1>1. PICK done \in BOOLEAN :
        sess' = [sess EXCEPT !.pending = @ \ {i}, !.chan = Append(@, done),
                             !.mounted = IF done THEN @ \cup {sess.entries[i]} ELSE @]
  BY DEF M!mountDone, M!askPassword
<1> USE DEF MountInv
<1>2. sess.entries \in Seq(Locations) /\ \A j, k \in DOMAIN sess.entries : sess.entries[j] = sess.entries[k] => j = k
  BY LinesAreSequences DEF CommandInv, Sessions
<1>3. sess.entries[i] \notin sess.mounted /\ i \in sess.pending
  BY <1>2 DEF CommandInv, Over, M!mountDone
<1>4. IsFiniteSet(sess.pending) /\ Cardinality(sess.pending) \in Nat
  BY PendingIsFinite
<1>5. Cardinality(sess.pending \ {i}) = Cardinality(sess.pending) - 1
  BY <1>3, <1>4, FS_RemoveElement
<1>6. sess'.left = Cardinality(sess'.pending) + Len(sess'.chan)
  BY <1>1, <1>4, <1>5 DEF CommandInv, Sessions
<1>7. Over' = Over \cup {i} /\ i \notin Over
  BY <1>1, <1>3 DEF CommandInv, Sessions, Over
<1>8. sess' \in Sessions
  <2>1. sess \in Sessions /\ Append(sess.chan, done) \in Seq(BOOLEAN) /\ sess.entries[i] \in Locations
    BY <1>2 DEF CommandInv, Sessions
  <2> QED
    BY <1>1, <2>1 DEF Sessions
<1>9. sess'.mounted \subseteq {sess'.entries[k] : k \in Over'}
  <2>1. sess'.entries = sess.entries /\ sess'.mounted \subseteq sess.mounted \cup {sess.entries[i]}
    BY <1>1 DEF CommandInv, Sessions
  <2>2. sess.mounted \subseteq {sess.entries[k] : k \in Over}
    BY DEF CommandInv
  <2> QED
    BY <1>7, <2>1, <2>2
<1>10. Failed' <=> Failed \/ done = FALSE
  <2> DEFINE c == sess.chan
  <2>1. c \in Seq(BOOLEAN) /\ sess'.chan = Append(c, done)
    BY <1>1 DEF CommandInv, Sessions
  <2> HIDE DEF c
  <2>2. DOMAIN Append(c, done) = 1..(Len(c) + 1) /\ DOMAIN c = 1..Len(c) /\ Len(c) \in Nat
    BY <2>1
  <2>3. Append(c, done)[Len(c) + 1] = done /\ \A k \in 1..Len(c) : Append(c, done)[k] = c[k]
    BY <2>1
  <2> QED
    BY <2>1, <2>2, <2>3 DEF Failed, c
<1>11. (\E k \in Over' : sess'.entries[k] \notin sess'.mounted)
         <=> (\E k \in Over : sess.entries[k] \notin sess.mounted) \/ done = FALSE
  <2>1. sess'.entries = sess.entries /\ Over \subseteq DOMAIN sess.entries
    BY <1>1 DEF CommandInv, Sessions, Over
  <2>2. CASE done = TRUE
    <3>1. sess'.mounted = sess.mounted \cup {sess.entries[i]}
      BY <1>1, <2>2 DEF CommandInv, Sessions
    <3>2. \A k \in Over : sess.entries[k] # sess.entries[i]
      BY <1>2, <1>7, <2>1
    <3> QED
      BY <1>7, <2>1, <2>2, <3>1, <3>2
  <2>3. CASE done = FALSE
    <3>1. sess'.mounted = sess.mounted
      BY <1>1, <2>3 DEF CommandInv, Sessions
    <3> QED
      BY <1>3, <1>7, <2>1, <2>3, <3>1
  <2> QED
    BY <2>2, <2>3
<1>12. mounts' = mounts /\ sess'.pc = sess.pc /\ sess'.left = sess.left /\ sess'.err = sess.err
       /\ sess'.pending \subseteq DOMAIN sess'.entries
  BY <1>1 DEF CommandInv, Sessions, M!mountDone
<1> QED
  BY <1>6, <1>8, <1>9, <1>10, <1>11, <1>12 DEF CommandInv

\* The command takes the answers one by one.
LEMMA CollectInv == ASSUME MountInv, M!Collect PROVE CommandInv'
<1> USE DEF MountInv
<1> DEFINE c == sess.chan
           e == sess.err \/ ~Head(c)
<1>1. c \in Seq(BOOLEAN) /\ c # <<>>
  BY DEF CommandInv, Sessions, M!Collect
<1>2. sess' = [sess EXCEPT !.left = sess.left - 1, !.chan = Tail(c), !.err = e]
      /\ UNCHANGED mounts
  BY DEF M!Collect
<1>3. sess.left \in Nat /\ sess.left > 0
  BY DEF CommandInv, Sessions, M!Collect
<1>4. sess'.pc = sess.pc /\ sess'.entries = sess.entries /\ sess'.pending = sess.pending /\ sess'.mounted = sess.mounted
      /\ sess'.left = sess.left - 1 /\ sess'.chan = Tail(c)
  BY <1>2 DEF CommandInv, Sessions
<1>4a. sess'.err = e /\ e \in BOOLEAN
  BY <1>2 DEF CommandInv, Sessions
<1> HIDE DEF c, e
<1>5. Tail(c) \in Seq(BOOLEAN) /\ Len(Tail(c)) = Len(c) - 1 /\ Len(c) \in Nat /\ Len(c) > 0 /\ Head(c) = c[1]
      /\ DOMAIN c = 1..Len(c) /\ \A k \in 1..(Len(c) - 1) : Tail(c)[k] = c[k + 1]
  BY <1>1
<1>6. DOMAIN Tail(c) = 1..(Len(c) - 1) /\ c[1] \in BOOLEAN
  BY <1>1, <1>5
<1>7. (\E k \in DOMAIN c : c[k] = FALSE) <=> c[1] = FALSE \/ \E k \in DOMAIN Tail(c) : Tail(c)[k] = FALSE
  <2>1. ASSUME NEW k \in DOMAIN c, k # 1 PROVE k - 1 \in DOMAIN Tail(c) /\ Tail(c)[k - 1] = c[k]
    BY <1>5, <1>6, <2>1
  <2>2. ASSUME NEW k \in DOMAIN Tail(c) PROVE k + 1 \in DOMAIN c /\ c[k + 1] = Tail(c)[k]
    BY <1>5, <1>6, <2>2
  <2>3. 1 \in DOMAIN c
    BY <1>5
  <2> QED
    BY <2>1, <2>2, <2>3
<1>8. sess'.err = TRUE \/ Failed' <=> sess.err = TRUE \/ Failed
  <2>1. sess.err \in BOOLEAN
    BY DEF CommandInv, Sessions
  <2>2. Failed <=> c[1] = FALSE \/ Failed'
    BY <1>4, <1>7 DEF Failed, c
  <2>3. sess'.err = TRUE <=> sess.err = TRUE \/ c[1] = FALSE
    BY <1>4a, <1>5, <1>6, <2>1 DEF e
  <2> QED
    BY <2>2, <2>3
<1>9. sess' \in Sessions
  <2>1. sess \in Sessions
    BY DEF CommandInv
  <2>2. sess.left - 1 \in Nat /\ Tail(c) \in Seq(BOOLEAN)
    BY <1>3, <1>5
  <2> QED
    BY <1>2, <1>4a, <2>1, <2>2 DEF Sessions
<1>10. sess'.left = Cardinality(sess'.pending) + Len(sess'.chan)
  <2>1. sess.left = Cardinality(sess.pending) + Len(c) /\ Cardinality(sess.pending) \in Nat
    BY PendingIsFinite DEF CommandInv, c
  <2> QED
    BY <1>4, <1>5, <2>1
<1>11. Over' = Over
  BY <1>4 DEF Over
<1>12. sess'.pc # "done"
  <2>1. sess.pc = "done" => sess.left = 0
    BY DEF CommandInv
  <2> QED
    BY <1>3, <1>4, <2>1
<1>13. sess'.mounted \subseteq {sess'.entries[i] : i \in Over'}
  <2>1. sess.mounted \subseteq {sess.entries[i] : i \in Over}
    BY DEF CommandInv
  <2> QED
    BY <1>4, <1>11, <2>1
<1>14. sess'.err = TRUE \/ Failed' <=> \E i \in Over' : sess'.entries[i] \notin sess'.mounted
  <2>1. sess.err = TRUE \/ Failed <=> \E i \in Over : sess.entries[i] \notin sess.mounted
    BY DEF CommandInv
  <2> QED
    BY <1>4, <1>8, <1>11, <2>1
<1>15. sess'.pending \subseteq DOMAIN sess'.entries /\ (mounts' # NoFile => mounts' \in Lines)
  <2>1. sess.pending \subseteq DOMAIN sess.entries /\ (mounts # NoFile => mounts \in Lines)
    BY DEF CommandInv
  <2> QED
    BY <1>2, <1>4, <2>1
<1> QED
  BY <1>9, <1>10, <1>12, <1>13, <1>14, <1>15 DEF CommandInv

\* The command ends once it has every answer.
LEMMA CommandEndInv == ASSUME MountInv, M!CommandEnd PROVE CommandInv'
<1>1. sess' = [sess EXCEPT !.pc = "done"] /\ UNCHANGED mounts /\ sess.left = 0
  BY DEF M!CommandEnd
<1>2. sess \in Sessions /\ sess' \in Sessions
  BY <1>1 DEF MountInv, CommandInv, Sessions
<1>3. /\ sess'.entries = sess.entries /\ sess'.pending = sess.pending /\ sess'.mounted = sess.mounted
      /\ sess'.left = sess.left /\ sess'.chan = sess.chan /\ sess'.err = sess.err
  BY <1>1, <1>2 DEF Sessions
<1> QED
  BY <1>1, <1>2, <1>3 DEF MountInv, CommandInv, Over, Failed

\* What the command returns accounts for every mount.
LEMMA CommandResult == MountInv => M!CommandReportsEveryMount
<1> SUFFICES ASSUME MountInv, sess.pc = "done"
             PROVE  sess.pending = {} /\ (sess.err <=> sess.mounted # M!ToSet(sess.entries))
  BY DEF M!CommandReportsEveryMount
<1>1. /\ sess.left = 0 /\ sess.left = Cardinality(sess.pending) + Len(sess.chan)
      /\ sess.chan \in Seq(BOOLEAN) /\ sess.err \in BOOLEAN
  BY DEF MountInv, CommandInv, Sessions
<1>2. Cardinality(sess.pending) = 0 /\ Len(sess.chan) = 0
  BY <1>1, PendingIsFinite
<1>3. sess.pending = {}
  BY <1>2, PendingIsFinite, FS_EmptySet
<1>4. ~Failed
  BY <1>1, <1>2 DEF Failed
<1>5. Over = DOMAIN sess.entries
  BY <1>3 DEF Over
<1>6. M!ToSet(sess.entries) = {sess.entries[i] : i \in DOMAIN sess.entries}
  BY DEF M!ToSet
<1>7. sess.err = TRUE <=> \E i \in DOMAIN sess.entries : sess.entries[i] \notin sess.mounted
  BY <1>4, <1>5 DEF MountInv, CommandInv
<1>8. sess.mounted \subseteq {sess.entries[i] : i \in DOMAIN sess.entries}
  BY <1>5 DEF MountInv, CommandInv
<1>9. sess.err <=> sess.mounted # M!ToSet(sess.entries)
  BY <1>1, <1>6, <1>7, <1>8
<1> QED
  BY <1>3, <1>9

\* Every step of the mount manager and of the command keeps the invariant.
LEMMA MountNext == MountInv /\ [M!Next]_M!vars => MountInv'
<1> SUFFICES ASSUME MountInv, [M!Next]_M!vars PROVE MountInv'
  OBVIOUS
<1> DEFINE SystemInv == MountTypes /\ UnitsInv /\ StepsInv
<1>0. ValuesAreParsed' /\ ValuesAreParsed
  BY DEF MountInv, ValuesAreParsed
<1>1. CASE UNCHANGED M!vars
  <2>1. UNCHANGED M!system /\ UNCHANGED M!user
    BY <1>1 DEF M!vars, M!system, M!user
  <2> QED
    BY <1>0, <2>1, SystemKept, CommandKept DEF MountInv
<1>2. ASSUME NEW p \in MountPolicies, M!applySystemMountsPolicy(p) PROVE MountInv'
  <2>1. SystemInv'
    BY <1>0, <1>2, UnitsOfPolicies, BeginInv, MalformedInv DEF M!applySystemMountsPolicy
  <2> QED
    BY <1>0, <1>2, <2>1, CommandKept DEF MountInv, M!applySystemMountsPolicy
<1>3. CASE M!cleanup
  <2>1. SystemInv'
    BY <1>3, BeginInv DEF M!cleanup
  <2> QED
    BY <1>0, <1>3, <2>1, CommandKept DEF MountInv, M!cleanup
<1>4. ASSUME NEW p \in MountPolicies \cup {NoEntry}, M!applyUserMountsPolicy(p) PROVE MountInv'
  <2>1. UNCHANGED M!system
    BY <1>4 DEF M!applyUserMountsPolicy
  <2> QED
    BY <1>0, <1>4, <2>1, UserPolicyInv, SystemKept DEF MountInv
<1>5. ASSUME NEW n \in M!Names, M!CleanDisable(n) \/ M!CleanRemove(n) \/ M!WriteUnit(n) \/ M!EnableUnit(n)
      PROVE  MountInv'
  <2>1. SystemInv'
    BY <1>5, CleanDisableInv, CleanRemoveInv, WriteUnitInv, EnableUnitInv
  <2>2. UNCHANGED M!user
    BY <1>5 DEF M!CleanDisable, M!CleanRemove, M!WriteUnit, M!EnableUnit
  <2> QED
    BY <1>0, <2>1, <2>2, CommandKept DEF MountInv
<1>6. CASE M!CleanEnd \/ M!EnableEnd \/ M!Reload
  <2>1. SystemInv'
    BY <1>6, EndsInv, ReloadUnitsInv
  <2>2. UNCHANGED M!user
    BY <1>6 DEF M!CleanEnd, M!EnableEnd, M!Reload
  <2> QED
    BY <1>0, <2>1, <2>2, CommandKept DEF MountInv
<1>7. ASSUME NEW r \in {"none", "error"}, M!Interrupt(r) PROVE MountInv'
  <2>1. SystemInv'
    BY <1>7, InterruptInv
  <2>2. UNCHANGED M!user
    BY <1>7 DEF M!Interrupt
  <2> QED
    BY <1>0, <2>1, <2>2, CommandKept DEF MountInv
<1>8. CASE M!RunMount \/ M!Collect \/ M!CommandEnd
  <2>1. CommandInv'
    BY <1>8, RunMountInv, CollectInv, CommandEndInv
  <2>2. UNCHANGED M!system
    BY <1>8 DEF M!RunMount, M!Collect, M!CommandEnd
  <2> QED
    BY <1>0, <2>1, <2>2, SystemKept DEF MountInv
<1>9. ASSUME NEW i \in DOMAIN sess.entries, M!mountDone(i) PROVE MountInv'
  <2>1. UNCHANGED M!system
    BY <1>9 DEF M!mountDone
  <2> QED
    BY <1>0, <1>9, <2>1, MountDoneInv, SystemKept DEF MountInv
<1> QED
  BY <1>1, <1>2, <1>3, <1>4, <1>5, <1>6, <1>7, <1>8, <1>9 DEF M!Next, M!ApplyPolicy

\* What MountInv leaves open of the types: the sets of units, the counters and the number of
\* results to wait for.
OtherTypes ==
  /\ enabled \subseteq M!Names /\ write \subseteq M!Names
  /\ interrupted \subseteq M!Names /\ unstopped \subseteq M!Names
  /\ mountResult \in {"none", "nil", "error"}
  /\ mountUpdates \in 0..MaxApplies /\ mountFaults \in 0..MaxFaults
  /\ sess.left <= Len(sess.entries)

\* The invariant and the rest of the types are all the types.
LEMMA MountTypeOK == MountInv /\ OtherTypes => M!TypeOK
<1> SUFFICES ASSUME MountInv, OtherTypes PROVE M!TypeOK
  OBVIOUS
<1>1. sess \in Sessions /\ Len(sess.entries) \in Nat /\ Len(sess.chan) \in Nat
  BY LinesAreSequences DEF MountInv, CommandInv, Sessions
<1>2. sess.pc \in {"none", "wait", "done"} /\ sess.left \in 0..Len(sess.entries)
  BY <1>1 DEF OtherTypes, Sessions
<1>3. Len(sess.chan) <= Len(sess.entries)
  <2>1. sess.left = Cardinality(sess.pending) + Len(sess.chan) /\ Cardinality(sess.pending) \in Nat
    BY PendingIsFinite DEF MountInv, CommandInv
  <2>2. sess.left <= Len(sess.entries)
    BY DEF OtherTypes
  <2> QED BY <1>1, <2>1, <2>2
<1> QED
  BY <1>2, <1>3 DEF M!TypeOK, MountInv, MountTypes, OtherTypes

\* The rest of the state starts typed.
LEMMA OtherTypesInit == M!Init => OtherTypes
<1>1. ASSUME M!Init PROVE sess.left <= Len(sess.entries)
  BY <1>1 DEF M!Init, M!NoSession
<1> QED
  BY <1>1, Bounds, CountedUp DEF M!Init, OtherTypes

\* The rest of the state stays typed.
LEMMA OtherTypesNext == MountInv /\ OtherTypes /\ [M!Next]_M!vars => OtherTypes'
<1> SUFFICES ASSUME MountInv, OtherTypes, [M!Next]_M!vars PROVE OtherTypes'
  OBVIOUS
<1> USE Bounds, CountedUp DEF OtherTypes, M!Quiet, M!Count, M!Fault, M!system, M!user
<1>1. CASE UNCHANGED M!vars
  BY <1>1 DEF M!vars
<1>2. ASSUME NEW p \in MountPolicies, M!applySystemMountsPolicy(p) PROVE OtherTypes'
  <2>1. DOMAIN M!createUnits(M!parseEntryValues(p)) \subseteq M!Names
    BY UnitsOfPolicies DEF MountInv
  <2> QED BY <1>2, <2>1 DEF M!applySystemMountsPolicy, M!Begin
<1>3. CASE M!cleanup
  BY <1>3 DEF M!cleanup, M!Begin
<1>4. ASSUME NEW p \in MountPolicies \cup {NoEntry}, M!applyUserMountsPolicy(p) PROVE OtherTypes'
  BY <1>4 DEF M!applyUserMountsPolicy
<1>5. ASSUME NEW n \in M!Names, M!CleanDisable(n) \/ M!CleanRemove(n) \/ M!WriteUnit(n) \/ M!EnableUnit(n)
      PROVE  OtherTypes'
  BY <1>5 DEF M!CleanDisable, M!CleanRemove, M!WriteUnit, M!EnableUnit
<1>6. CASE M!CleanEnd \/ M!EnableEnd \/ M!Reload
  BY <1>6 DEF M!CleanEnd, M!EnableEnd, M!Reload
<1>7. ASSUME NEW r \in {"none", "error"}, M!Interrupt(r) PROVE OtherTypes'
  BY <1>7 DEF M!Interrupt, MountInv, MountTypes
<1>8. CASE M!RunMount
  <2>1. mounts \in Seq(Locations)
    BY <1>8, LinesAreSequences DEF MountInv, CommandInv, M!RunMount
  <2>2. sess'.left = Len(mounts) /\ sess'.entries = mounts
    BY <1>8 DEF M!RunMount, M!NoSession
  <2> QED BY <1>8, <2>1, <2>2 DEF M!RunMount
<1>9. CASE M!Collect
  <2>1. sess.left \in Nat /\ Len(sess.entries) \in Nat
    BY LinesAreSequences DEF MountInv, CommandInv, Sessions
  <2>2. sess'.left = sess.left - 1 /\ sess'.entries = sess.entries
    BY <1>9 DEF M!Collect, MountInv, CommandInv, Sessions
  <2>3. sess'.left <= Len(sess'.entries)
    BY <2>1, <2>2
  <2> QED BY <1>9, <2>3 DEF M!Collect
<1>10. CASE M!CommandEnd
  <2>1. sess'.left = sess.left /\ sess'.entries = sess.entries
    BY <1>10 DEF M!CommandEnd, MountInv, CommandInv, Sessions
  <2> QED BY <1>10, <2>1 DEF M!CommandEnd
<1>11. ASSUME NEW i \in DOMAIN sess.entries, M!mountDone(i) PROVE OtherTypes'
  <2>1. sess'.left = sess.left /\ sess'.entries = sess.entries
    BY <1>11 DEF M!mountDone, MountInv, CommandInv, Sessions
  <2> QED BY <1>11, <2>1 DEF M!mountDone
<1> QED
  BY <1>1, <1>2, <1>3, <1>4, <1>5, <1>6, <1>7, <1>8, <1>9, <1>10, <1>11 DEF M!Next, M!ApplyPolicy

(* The mount manager: once a machine policy is reported as applied, the    *)
(* unit files are those of the policy and systemd has each of them loaded  *)
(* and enabled and nothing of the others, but for the units an earlier     *)
(* call left half way or could not stop; and the command of a session ends *)
(* with no operation left behind, and with an error exactly when a         *)
(* location of its file is not mounted, in whatever order they ended.      *)
THEOREM MountsFollowPolicies == ManagersSpec => []MountsAreInForce
<1>1. MountInv => M!UnitsAreInForce
  BY DEF MountInv, MountTypes, UnitsInv, StepsInv, M!UnitsAreInForce, M!currentSystemMountUnits
<1>2. MountInv /\ OtherTypes => MountsAreInForce
  BY <1>1, CommandResult, MountTypeOK DEF M!MountsAreInForce, MountsAreInForce
<1>3. ManagersInit => MountInv /\ OtherTypes
  BY ManagersAssumption, MountInit, OtherTypesInit DEF ManagersInit
<1> QED
  BY <1>2, <1>3, MountNext, OtherTypesNext, ManagersAreApart, PTL DEF ManagersSpec
=============================================================================
