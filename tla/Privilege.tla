----------------------------- MODULE Privilege -----------------------------
(***************************************************************************)
(* The privilege manager (internal/policies/privilege): one policy, two    *)
(* files, for sudo and for polkit.  The file for polkit has two formats    *)
(* and two places; which one is chosen depends on the files around it.     *)
(***************************************************************************)
EXTENDS Naturals, FiniteSets, Sequences, SequencesExt

CONSTANTS
  Policies,    \* [local : what "allow-local-admins" says, clients : values of "client-admins"]
  Rules,       \* admin rules of the distribution: [name : Nat, dir : Nat, ids : set or NoReturn]
  NoReturn,    \* a rule from which no list of identities can be read
  NoFile,
  MaxUpdates,  \* bound: calls of ApplyPolicy
  MaxFaults    \* bound: crashes and unreadable rules

VARIABLES
  sudoers,           \* content of the sudoers file, NoFile if there is none
  polkit,            \* contents of the polkit files: polkit.rules and polkit.conf
  newSudo, newPolkit,\* the temporary files
  leftover,          \* a temporary file stays in the old polkit directory
  reserved, legacy,  \* 49-ubuntu-admin.rules exists; the distribution has files in the old directory
  pc, policy, format,\* the call: its step, its entries, the polkit format it chose
  result, updates, faults,
  torn               \* history: the two files may differ since a crash or an upgrade of polkit

vars == <<sudoers, polkit, newSudo, newPolkit, leftover, reserved, legacy, pc, policy, format,
          result, updates, faults, torn>>

\* An entry is "none" (not in the policy), "enabled" or "disabled".
NoEntries == [local |-> "none", clients |-> [state |-> "none", value |-> <<>>]]

\* splitAndNormalizeUsersAndGroups: domain\user becomes user@domain, empty names go.
Normalized(e) == IF e.form = "domain\\user" THEN [e EXCEPT !.form = "user@domain"] ELSE e
splitAndNormalizeUsersAndGroups(v) ==
  {Normalized(v[i]) : i \in {j \in DOMAIN v : v[j].user # ""}}

ClientAdmins(p) ==
  IF p.clients.state = "enabled" THEN splitAndNormalizeUsersAndGroups(p.clients.value) ELSE {}
AllowLocalAdmins(p) == p.local # "disabled"

\* polkitAdminIdentitiesFromRules: the first file, by name then by directory, that
\* returns a list.
Before(r, s) == r.name < s.name \/ (r.name = s.name /\ r.dir < s.dir)
FromRules == LET ok == {r \in Rules : r.ids # NoReturn}
             IN  IF ok = {} THEN {} ELSE (CHOOSE r \in ok : \A s \in ok \ {r} : Before(r, s)).ids
\* polkitAdminIdentitiesFromConf: the last file wins, whatever it holds.
FromConf == LET last == {r \in Rules : r.dir = 0 /\ \A s \in Rules : s.dir = 0 => s.name <= r.name}
            IN  UNION {IF r.ids = NoReturn THEN {} ELSE r.ids : r \in last}
getSystemPolkitAdminIdentities(f) == IF f = "conf" THEN FromConf ELSE FromRules

\* isOldPolkit: the old directory has more than adsys' file, and the new rules are missing.
OldDir == (IF legacy THEN {"distribution"} ELSE {}) \cup (IF leftover THEN {"new"} ELSE {})
          \cup (IF polkit.conf # NoFile THEN {"adsys"} ELSE {})
isOldPolkit == OldDir # {} /\ OldDir # {"adsys"} /\ ~reserved
Format == IF isOldPolkit THEN "conf" ELSE "rules"

\* Contents.  A sudoers or polkit file without a rule changes nothing.
Sudo(p) == [deny |-> ~AllowLocalAdmins(p), admins |-> ClientAdmins(p)]

\* Mutant: the identities of the system are forgotten.
PolkitForgets(p, f) ==
  IF AllowLocalAdmins(p) /\ ClientAdmins(p) = {} THEN [rule |-> FALSE, ids |-> {}]
  ELSE [rule |-> TRUE, ids |-> ClientAdmins(p)]

Polkit(p, f) ==
  IF AllowLocalAdmins(p) /\ ClientAdmins(p) = {} THEN [rule |-> FALSE, ids |-> {}]
  ELSE [rule |-> TRUE,
        ids |-> ClientAdmins(p) \cup IF AllowLocalAdmins(p) THEN getSystemPolkitAdminIdentities(f) ELSE {}]

TypeOK ==
  /\ leftover \in BOOLEAN /\ reserved \in BOOLEAN /\ legacy \in BOOLEAN /\ torn \in BOOLEAN
  /\ {sudoers, newSudo} \subseteq {NoFile} \cup {Sudo(p) : p \in Policies}
  /\ DOMAIN polkit = {"rules", "conf"}
  /\ pc \in {"idle", "opened", "written", "renamed", "both", "removed"} /\ format \in {"rules", "conf"}
  /\ policy \in Policies \cup {NoEntries} /\ result \in {"none", "nil", "error"}
  /\ updates \in 0..MaxUpdates /\ faults \in 0..MaxFaults

Init ==
  /\ sudoers = NoFile /\ polkit = [rules |-> NoFile, conf |-> NoFile]
  /\ newSudo = NoFile /\ newPolkit = NoFile /\ leftover = FALSE
  /\ reserved \in BOOLEAN /\ legacy \in BOOLEAN /\ (reserved \/ legacy)
  /\ pc = "idle" /\ policy = NoEntries /\ format = "rules"
  /\ result = "none" /\ updates = 0 /\ faults = 0 /\ torn = FALSE

Count == updates < MaxUpdates /\ updates' = updates + 1 /\ UNCHANGED faults
Fault == faults < MaxFaults /\ faults' = faults + 1 /\ UNCHANGED updates
Quiet == UNCHANGED <<updates, faults>>
Places == <<reserved, legacy>>

\* ApplyPolicy opens both temporary files before it reads the identities.
Open(p) ==
  /\ pc = "idle" /\ p # NoEntries /\ Count
  /\ pc' = "opened" /\ policy' = p /\ format' = Format /\ result' = "none"
  /\ leftover' = (leftover \/ isOldPolkit)
  /\ UNCHANGED <<sudoers, polkit, newSudo, newPolkit, Places, torn>>

\* A rule of the system cannot be read: the temporary files stay.
IdentitiesFail ==
  /\ pc = "opened" /\ Fault /\ pc' = "idle" /\ result' = "error"
  /\ UNCHANGED <<sudoers, polkit, newSudo, newPolkit, leftover, Places, policy, format, torn>>

Write ==
  /\ pc = "opened" /\ pc' = "written" /\ Quiet
  /\ newSudo' = Sudo(policy) /\ newPolkit' = Polkit(policy, format)
  /\ UNCHANGED <<sudoers, polkit, leftover, Places, policy, format, result, torn>>

RenameSudoers ==
  /\ pc = "written" /\ pc' = "renamed" /\ sudoers' = newSudo /\ newSudo' = NoFile /\ Quiet
  /\ UNCHANGED <<polkit, newPolkit, leftover, Places, policy, format, result, torn>>

RenamePolkit ==
  /\ pc = "renamed" /\ pc' = "both" /\ torn' = FALSE /\ Quiet
  /\ polkit' = [polkit EXCEPT ![format] = newPolkit]
  /\ newPolkit' = NoFile /\ leftover' = (leftover /\ format = "rules")
  /\ UNCHANGED <<sudoers, newSudo, Places, policy, format, result>>

\* The file for the other version of polkit goes when this one is the new format; if it
\* cannot be removed, that is only logged.
RemoveOldPolkit ==
  /\ pc = "both" /\ pc' = "idle" /\ result' = "nil"
  /\ \/ polkit' = (IF format = "rules" THEN [polkit EXCEPT !["conf"] = NoFile] ELSE polkit) /\ Quiet
     \/ format = "rules" /\ polkit["conf"] # NoFile /\ UNCHANGED polkit /\ Fault
  /\ UNCHANGED <<sudoers, newSudo, newPolkit, leftover, Places, policy, format, torn>>

\* No entries: both files are removed.
RemoveSudoers ==
  /\ pc = "idle" /\ Count /\ pc' = "removed" /\ sudoers' = NoFile
  /\ policy' = NoEntries /\ format' = Format /\ result' = "none"
  /\ UNCHANGED <<polkit, newSudo, newPolkit, leftover, Places, torn>>

RemovePolkit ==
  /\ pc = "removed" /\ pc' = "idle" /\ result' = "nil" /\ torn' = FALSE /\ Quiet
  /\ polkit' = [polkit EXCEPT ![format] = NoFile]
  /\ UNCHANGED <<sudoers, newSudo, newPolkit, leftover, Places, policy, format>>

\* The daemon is killed, or a rename or a removal fails and ends the call.
Crash ==
  /\ pc # "idle" /\ Fault /\ pc' = "idle" /\ result' \in {"none", "error"}
  /\ torn' = (torn \/ pc \in {"renamed", "removed"})
  /\ UNCHANGED <<sudoers, polkit, newSudo, newPolkit, leftover, Places, policy, format>>

\* The system gets a polkit that reads rules (external); a compatibility package may
\* keep the files of the old directory.
UpgradePolkit ==
  /\ pc = "idle" /\ ~reserved /\ reserved' = TRUE /\ legacy' \in BOOLEAN /\ torn' = TRUE
  /\ UNCHANGED <<sudoers, polkit, newSudo, newPolkit, leftover, pc, policy, format, result>> /\ Quiet

Next ==
  \/ \E p \in Policies : Open(p)
  \/ IdentitiesFail \/ Write \/ RenameSudoers \/ RenamePolkit \/ RemoveOldPolkit
  \/ RemoveSudoers \/ RemovePolkit \/ Crash \/ UpgradePolkit

Spec == Init /\ [][Next]_vars

----------------------------------------------------------------------------
\* Who may become root, for sudo and for the version of polkit that is installed.
SudoGrants == IF sudoers = NoFile THEN [local |-> TRUE, clients |-> {}]
              ELSE [local |-> ~sudoers.deny, clients |-> sudoers.admins]
PolkitGrants ==
  LET f == IF reserved THEN "rules" ELSE "conf"
      c == polkit[f]
      sys == getSystemPolkitAdminIdentities(f)
  IN  IF c = NoFile \/ (c # NoFile /\ ~c.rule) THEN [local |-> TRUE, clients |-> {}]
      ELSE [local |-> sys \subseteq c.ids, clients |-> c.ids \ sys]

(* Between two calls, successful or not, sudo and polkit give root to the  *)
(* same people ("all or nothing"), whichever version of polkit is there.   *)
(* Excepted is the time from a call that ends between the two renames, or  *)
(* the two removals, or from an upgrade of polkit, to the next update.     *)
SudoAndPolkitAgree == pc = "idle" /\ ~torn => SudoGrants = PolkitGrants
=============================================================================
