------------------------------ MODULE Managers ------------------------------
(***************************************************************************)
(* The managers of the policies, side by side.  They share no state, so a  *)
(* behaviour in which one of them moves says all there is to say about it: *)
(* focus is that one, and the state spaces add up instead of multiplying.  *)
(***************************************************************************)
EXTENDS Scripts, Sequences

CONSTANTS
  AppArmorPolicies, UserPolicies, DconfPolicies, MountPolicies, PrivilegePolicies, CertificatePolicies,
  SystemRules,  \* admin rules of the distribution
  Files, Users, NoUser, Machine, NoFile, NoEntry, NoReturn, CAs, BadValue,
  MaxApplies,   \* bound: updates of each manager but scripts
  MaxFaults     \* bound: failed commands and crashes

VARIABLES
  focus,
  cur, old, new, userFile, profiles, hat, aaPc, aaPolicy, who, oldContent, prev, aaResult,
  aaUpdates, aaFaults, before, orphans, missed,
  defaults, locks, compiled, profile, changed, lost,
  dconfPc, dconfPolicy, dconfResult, dconfUpdates, dconfFaults,
  files, unitLoaded, enabled, active, want, clean, write, start, removing, mounts, sess,
  interrupted, unstopped, mountPc, mountResult, mountUpdates, mountFaults,
  sudoers, polkit, newSudo, newPolkit, leftover, reserved, legacy, format, privTorn,
  privPc, privPolicy, privResult, privUpdates, privFaults,
  cache, known, refused, enrolled, tools, todo, between, acted, skipped, stray, hollow, kills, certPc, certResult, certUpdates

A == INSTANCE AppArmor WITH Policies <- AppArmorPolicies,
       MaxUpdates <- MaxApplies, loaded <- profiles, pc <- aaPc, policy <- aaPolicy,
       result <- aaResult, updates <- aaUpdates, faults <- aaFaults
D == INSTANCE Dconf WITH Policies <- DconfPolicies, MaxUpdates <- MaxApplies, pc <- dconfPc, policy <- dconfPolicy,
       result <- dconfResult, updates <- dconfUpdates, faults <- dconfFaults
M == INSTANCE Mount WITH Policies <- MountPolicies, MaxUpdates <- MaxApplies, pc <- mountPc, loaded <- unitLoaded,
       result <- mountResult, updates <- mountUpdates, faults <- mountFaults
P == INSTANCE Privilege WITH Policies <- PrivilegePolicies, MaxUpdates <- MaxApplies, torn <- privTorn, Rules <- SystemRules, pc <- privPc,
       policy <- privPolicy, result <- privResult, updates <- privUpdates, faults <- privFaults
C == INSTANCE Certificate WITH Policies <- CertificatePolicies, MaxUpdates <- MaxApplies, pc <- certPc,
       result <- certResult, updates <- certUpdates, MaxKills <- MaxFaults

\* The entry of a policy names profile files, and its assets are some.
EntriesAreFiles == \A p \in AppArmorPolicies : p.files \cup p.assets \subseteq Files

\* A file that is missing is no file of locks.
LocksAreFiles == \A p \in DconfPolicies : D!LocksOf(p) # NoFile

Formats == {"rules", "conf"}

\* What the comparison of the two files rests on: a content is not a missing file, the
\* system has administrators of its own, and the policies name others.
SystemIsApart ==
  /\ \A p \in PrivilegePolicies : P!Sudo(p) # NoFile
  /\ \A p \in PrivilegePolicies, f \in Formats :
       /\ P!Polkit(p, f) # NoFile
       /\ P!getSystemPolkitAdminIdentities(f) # {}
       /\ P!getSystemPolkitAdminIdentities(f) \cap P!ClientAdmins(p) = {}

\* What parseEntryValues keeps of a policy: a sequence of its values, of which no two
\* are the same.
ValuesAreParsed ==
  /\ NoFile \notin M!Contents
  /\ \A p \in MountPolicies :
       LET vals == M!parseEntryValues(p)
       IN  /\ vals \in Seq({p[i] : i \in DOMAIN p})
           /\ \A i, j \in DOMAIN vals : vals[i] = vals[j] => i = j

ASSUME ManagersAssumption ==
  /\ MaxApplies \in Nat /\ MaxFaults \in Nat /\ DconfPolicies # {}
  /\ EntriesAreFiles /\ LocksAreFiles /\ SystemIsApart /\ ValuesAreParsed

aaVars == <<cur, old, new, userFile, profiles, hat, aaPc, aaPolicy, who, oldContent, prev, aaResult,
            aaUpdates, aaFaults, before, orphans, missed>>
dconfVars == <<defaults, locks, compiled, profile, changed, lost,
               dconfPc, dconfPolicy, dconfResult, dconfUpdates, dconfFaults>>
mountVars == <<files, unitLoaded, enabled, active, want, clean, write, start, removing, mounts,
               sess, interrupted, unstopped, mountPc, mountResult, mountUpdates, mountFaults>>
privVars == <<sudoers, polkit, newSudo, newPolkit, leftover, reserved, legacy, format, privTorn,
              privPc, privPolicy, privResult, privUpdates, privFaults>>
certVars == <<cache, known, refused, enrolled, tools, todo, between, acted, skipped, stray, hollow, kills, certPc, certResult, certUpdates>>
allVars == <<focus, vars, aaVars, dconfVars, mountVars, privVars, certVars>>

ManagersInit ==
  /\ focus \in {"scripts", "apparmor", "dconf", "mount", "privilege", "certificate"}
  /\ Init /\ A!Init /\ D!Init /\ M!Init /\ P!Init /\ C!Init
  /\ focus # "privilege" => reserved /\ legacy
  /\ focus # "certificate" => tools
  /\ focus # "scripts" => isComputer

StepScripts == focus = "scripts" /\ Next /\ UNCHANGED <<focus, aaVars, dconfVars, mountVars, privVars, certVars>>
StepAppArmor == focus = "apparmor" /\ A!Next /\ UNCHANGED <<focus, vars, dconfVars, mountVars, privVars, certVars>>
StepDconf == focus = "dconf" /\ D!Next /\ UNCHANGED <<focus, vars, aaVars, mountVars, privVars, certVars>>
StepMount == focus = "mount" /\ M!Next /\ UNCHANGED <<focus, vars, aaVars, dconfVars, privVars, certVars>>
StepPrivilege == focus = "privilege" /\ P!Next /\ UNCHANGED <<focus, vars, aaVars, dconfVars, mountVars, certVars>>
StepCertificate == focus = "certificate" /\ C!Next /\ UNCHANGED <<focus, vars, aaVars, dconfVars, mountVars, privVars>>

ManagersNext ==
  StepScripts \/ StepAppArmor \/ StepDconf \/ StepMount \/ StepPrivilege \/ StepCertificate

ManagersSpec == ManagersInit /\ [][ManagersNext]_allVars

----------------------------------------------------------------------------
(* Of each manager, when it is the one that moves, the state is typed, and                *)
(* apparmor: the kernel runs what the files say, and an update that fails leaves the      *)
(* files as they were.                                                                    *)
ProfilesAreConsistent == (focus = "apparmor" => A!TypeOK) /\ A!ProfilesAreConsistent

(* dconf: a policy reported as applied is in the compiled database.        *)
AppliedIsCompiled == (focus = "dconf" => D!TypeOK) /\ D!AppliedIsCompiled

(* mount: after a success systemd has exactly the units of the policy, and the mount     *)
(* command of a session reports every location.                                           *)
MountsAreInForce == (focus = "mount" => M!TypeOK) /\ M!MountsAreInForce

(* privilege: sudo and polkit give root to the same people.                *)
SudoAndPolkitAgree == (focus = "privilege" => P!TypeOK) /\ P!SudoAndPolkitAgree

(* certificate: the machine is enrolled as its policy says.                *)
EnrollmentFollowsPolicy == (focus = "certificate" => C!TypeOK) /\ C!EnrollmentFollowsPolicy
=============================================================================
