------------------------------- MODULE Mount -------------------------------
(***************************************************************************)
(* The mount manager (internal/policies/mount).  For the machine: mount    *)
(* units written in the unit directory, against what systemd has loaded,   *)
(* enabled and mounted.  For a user: a file of locations, which the        *)
(* "adsysd mount" command of the user's session mounts in parallel.        *)
(***************************************************************************)
EXTENDS Naturals, Sequences, FiniteSets, SequencesExt

CONSTANTS
  Policies,    \* values of a mounts entry: sequences of locations
  NoEntry,     \* no mounts entry, or a disabled one
  NoFile,      \* a file that does not exist
  MaxUpdates,  \* bound: calls of ApplyPolicy
  MaxFaults    \* bound: failures of systemd and crashes

\* A location: protocol, share (with its host), Kerberos tag, well formed or not.
Tagless(v) == <<v.proto, v.share>>

\* parseEntryValues: the first of the values that only differ by their tag.
parseEntryValues(p) ==
  LET first == {i \in DOMAIN p : \A j \in 1..(i - 1) : Tagless(p[j]) # Tagless(p[i])}
      order == SetToSortSeq(first, <)
  IN  [i \in DOMAIN order |-> p[order[i]]]

\* checkValue is applied to the values kept: one that is badly formatted rejects all.
Malformed(p) == \E i \in DOMAIN parseEntryValues(p) : ~parseEntryValues(p)[i].ok

\* parseMountPath: the type systemd knows for the protocol.
parseMountPath(v) == [type |-> CASE v.proto = "smb" -> "cifs" [] v.proto = "ftp" -> "fuse" [] OTHER -> v.proto,
                      share |-> v.share,
                      options |-> IF v.krb THEN "sec=krb5i" ELSE "defaults"]

\* The name of a unit comes from where it mounts, its content from all the rest.
UnitName(v) == <<parseMountPath(v).type, v.share>>
UnitContent(v) == <<v, parseMountPath(v).options>>

\* createUnits: a map, in which the last value of a name stays.
createUnits(vals) ==
  [n \in {UnitName(vals[i]) : i \in DOMAIN vals} |->
     LET last == CHOOSE i \in DOMAIN vals :
                   /\ UnitName(vals[i]) = n
                   /\ \A j \in DOMAIN vals : UnitName(vals[j]) = n => j <= i
     IN  UnitContent(vals[last])]

Names == UNION {{UnitName(p[i]) : i \in DOMAIN p} : p \in Policies}
Contents == UNION {{UnitContent(p[i]) : i \in DOMAIN p} : p \in Policies}

VARIABLES
  files,               \* unit files: content of each name
  loaded, enabled,     \* what systemd knows of each unit: content, enabled or not
  active,              \* content with which a unit is mounted
  pc, want,            \* the machine's call: its step and its units
  clean, write, start, \* units still to remove, to write, to enable
  removing,            \* the unit disabled and not removed yet
  result,              \* what the last call for the machine returned
  mounts,              \* the mounts file of the user
  sess,                \* the mount command of the user's session
  updates, faults,
  interrupted,         \* history: units whose call ended between their file and systemd
  unstopped            \* history: units that could not be stopped

vars == <<files, loaded, enabled, active, pc, want, clean, write, start, removing, result,
          mounts, sess, updates, faults, interrupted, unstopped>>

system == <<files, loaded, enabled, active, pc, want, clean, write, start, removing, result,
            interrupted, unstopped>>
user == <<mounts, sess>>

NoSession == [pc |-> "none", entries |-> <<>>, pending |-> {}, chan |-> <<>>,
              left |-> 0, err |-> FALSE, mounted |-> {}]

TypeOK ==
  /\ files \in [Names -> Contents \cup {NoFile}] /\ loaded \in [Names -> Contents \cup {NoFile}]
  /\ active \in [Names -> Contents \cup {NoFile}]
  /\ {enabled, clean, write, start, removing, interrupted, unstopped} \subseteq SUBSET Names
  /\ pc \in {"idle", "clean", "write", "enable"} /\ DOMAIN want \subseteq Names
  /\ result \in {"none", "nil", "error"}
  /\ sess.pc \in {"none", "wait", "done"} /\ sess.left \in 0..Len(sess.entries)
  /\ Len(sess.chan) <= Len(sess.entries)
  /\ updates \in 0..MaxUpdates /\ faults \in 0..MaxFaults

Nowhere == [n \in Names |-> NoFile]

Init ==
  /\ files = Nowhere /\ loaded = Nowhere /\ active = Nowhere /\ enabled = {}
  /\ pc = "idle" /\ want = <<>> /\ clean = {} /\ write = {} /\ start = {} /\ removing = {}
  /\ result = "none" /\ mounts = NoFile /\ sess = NoSession
  /\ updates = 0 /\ faults = 0 /\ interrupted = {} /\ unstopped = {}

Count == updates < MaxUpdates /\ updates' = updates + 1 /\ UNCHANGED faults
Fault == faults < MaxFaults /\ faults' = faults + 1 /\ UNCHANGED updates
Quiet == UNCHANGED <<updates, faults>>

currentSystemMountUnits == {n \in Names : files[n] # NoFile}

\* ApplyPolicy for the machine: the units wanted, and those of before to clean up.
Begin(units) ==
  /\ want' = units /\ pc' = "clean"
  /\ clean' = currentSystemMountUnits \ DOMAIN units
  /\ write' = DOMAIN units /\ start' = {} /\ result' = "none"
  /\ UNCHANGED <<files, loaded, enabled, active, removing, interrupted, unstopped>>

applySystemMountsPolicy(p) ==
  /\ pc = "idle" /\ p # NoEntry /\ Count
  /\ \/ ~Malformed(p) /\ Begin(createUnits(parseEntryValues(p)))
     \/ /\ Malformed(p) /\ result' = "error"
        /\ UNCHANGED <<files, loaded, enabled, active, pc, want, clean, write, start, removing,
                       interrupted, unstopped>>
  /\ UNCHANGED user

cleanup == pc = "idle" /\ Count /\ Begin(<<>>) /\ UNCHANGED user

\* cleanupMountUnits: a unit is stopped, or a warning logged, and disabled ...
CleanDisable(n) ==
  /\ pc = "clean" /\ removing = {} /\ n \in clean
  /\ \/ active' = [active EXCEPT ![n] = NoFile] /\ UNCHANGED unstopped /\ Quiet
     \/ active[n] # NoFile /\ UNCHANGED active /\ unstopped' = unstopped \cup {n} /\ Fault
  /\ enabled' = enabled \ {n} /\ removing' = {n}
  /\ UNCHANGED <<files, loaded, pc, want, clean, write, start, result, interrupted, user>>

\* ... and its file removed.
CleanRemove(n) ==
  /\ n \in removing
  /\ files' = [files EXCEPT ![n] = NoFile]
  /\ removing' = {} /\ clean' = clean \ {n} /\ interrupted' = interrupted \ {n}
  /\ UNCHANGED <<loaded, enabled, active, pc, want, write, start, result, unstopped, user>> /\ Quiet

CleanEnd ==
  /\ pc = "clean" /\ clean = {} /\ pc' = "write" /\ Quiet
  /\ UNCHANGED <<files, loaded, enabled, active, want, clean, write, start, removing, result,
                 interrupted, unstopped, user>>

\* Mutant: a unit that exists is rewritten without a reload.
WriteUnitNewOnly(n) ==
  /\ pc = "write" /\ n \in write
  /\ files' = [files EXCEPT ![n] = want[n]]
  /\ write' = write \ {n} /\ start' = IF files[n] = NoFile THEN start \cup {n} ELSE start
  /\ UNCHANGED <<loaded, enabled, active, pc, want, clean, removing, result, interrupted,
                 unstopped, user>> /\ Quiet

\* writeIfChanged: only the units written are enabled later.
WriteUnit(n) ==
  /\ pc = "write" /\ n \in write
  /\ files' = [files EXCEPT ![n] = want[n]]
  /\ write' = write \ {n} /\ start' = IF files[n] = want[n] THEN start ELSE start \cup {n}
  /\ UNCHANGED <<loaded, enabled, active, pc, want, clean, removing, result, interrupted,
                 unstopped, user>> /\ Quiet

\* Nothing written: done.  Otherwise systemd reads the files again.
Reload ==
  /\ pc = "write" /\ write = {}
  /\ \/ start = {} /\ pc' = "idle" /\ result' = "nil" /\ UNCHANGED loaded
     \/ start # {} /\ pc' = "enable" /\ loaded' = files /\ UNCHANGED result
  /\ UNCHANGED <<files, enabled, active, want, clean, write, start, removing, interrupted,
                 unstopped, user>> /\ Quiet

\* A unit is enabled, and started; a failure to start is a warning, and starting
\* a unit that is active does nothing.
EnableUnit(n) ==
  /\ pc = "enable" /\ n \in start
  /\ enabled' = enabled \cup {n} /\ start' = start \ {n} /\ interrupted' = interrupted \ {n}
  /\ \/ active' = [active EXCEPT ![n] = IF @ = NoFile THEN loaded[n] ELSE @] /\ Quiet
     \/ UNCHANGED active /\ Fault
  /\ UNCHANGED <<files, loaded, pc, want, clean, write, removing, result, unstopped, user>>

EnableEnd ==
  /\ pc = "enable" /\ start = {} /\ pc' = "idle" /\ result' = "nil" /\ Quiet
  /\ UNCHANGED <<files, loaded, enabled, active, want, clean, write, start, removing,
                 interrupted, unstopped, user>>

\* Disabling, reloading or enabling fails and is returned, or the daemon is killed:
\* the units in hand are left as they are, one to clean perhaps stopped already.
Interrupt(r) ==
  /\ pc # "idle" /\ Fault
  /\ r = "error" => (pc = "clean" /\ clean # {} /\ removing = {}) \/ (pc \in {"write", "enable"} /\ start # {})
  /\ r = "error" /\ pc = "write" => write = {}
  /\ pc' = "idle" /\ result' = r /\ removing' = {} /\ clean' = {} /\ write' = {} /\ start' = {}
  /\ interrupted' = interrupted \cup removing \cup start
  /\ \/ UNCHANGED active
     \/ \E n \in clean \ removing : pc = "clean" /\ active' = [active EXCEPT ![n] = NoFile]
  /\ UNCHANGED <<files, loaded, enabled, want, unstopped, user>>

cleanupMountsFile == mounts' = NoFile
writeFileWithUIDGID(content) == mounts' = content

\* ApplyPolicy for the user: the file is replaced, or removed when nothing is left
\* to mount.  A call that cannot look the user up, or meets a malformed value, fails.
applyUserMountsPolicy(p) ==
  /\ Count /\ UNCHANGED <<system, sess>>
  /\ \/ UNCHANGED mounts
     \/ p = NoEntry /\ cleanupMountsFile
     \/ /\ p # NoEntry /\ ~Malformed(p)
        /\ IF parseEntryValues(p) = <<>> THEN cleanupMountsFile ELSE writeFileWithUIDGID(parseEntryValues(p))

\* Mutant: one result too many is waited for.
RunMountOneMore ==
  /\ sess.pc # "wait" /\ mounts # NoFile /\ Count
  /\ sess' = [NoSession EXCEPT !.pc = "wait", !.entries = mounts, !.pending = DOMAIN mounts,
                               !.left = Len(mounts) + 1]
  /\ UNCHANGED <<system, mounts>>

\* RunMountForCurrentUser: one asynchronous operation for each line of the file.
RunMount ==
  /\ sess.pc # "wait" /\ mounts # NoFile /\ Count
  /\ sess' = [NoSession EXCEPT !.pc = "wait", !.entries = mounts, !.pending = DOMAIN mounts,
                               !.left = Len(mounts)]
  /\ UNCHANGED <<system, mounts>>

\* askPassword: aborts what needs credentials the session does not have.
askPassword(v, anonymous, ticket) == IF v.krb THEN ticket ELSE anonymous

\* mountDone: the result of one operation, in any order.
mountDone(i) ==
  /\ i \in sess.pending
  /\ \E anonymous, ticket \in BOOLEAN :
       LET v == sess.entries[i]
           done == askPassword(v, anonymous, ticket)
       IN  sess' = [sess EXCEPT !.pending = @ \ {i}, !.chan = Append(@, done),
                                !.mounted = IF done THEN @ \cup {v} ELSE @]
  /\ UNCHANGED <<system, mounts>> /\ Quiet

\* Mutant: the last result decides.
CollectLast ==
  /\ sess.left > 0 /\ sess.chan # <<>>
  /\ sess' = [sess EXCEPT !.left = @ - 1, !.chan = Tail(@), !.err = ~Head(sess.chan)]
  /\ UNCHANGED <<system, mounts>> /\ Quiet

\* The command takes one result for each entry, and joins the errors.
Collect ==
  /\ sess.left > 0 /\ sess.chan # <<>>
  /\ sess' = [sess EXCEPT !.left = @ - 1, !.chan = Tail(@), !.err = @ \/ ~Head(sess.chan)]
  /\ UNCHANGED <<system, mounts>> /\ Quiet

CommandEnd ==
  /\ sess.pc = "wait" /\ sess.left = 0
  /\ sess' = [sess EXCEPT !.pc = "done"]
  /\ UNCHANGED <<system, mounts>> /\ Quiet

\* Without an enabled entry of the object's own key, what was there is cleaned up.
ApplyPolicy ==
  \/ \E p \in Policies : applySystemMountsPolicy(p) \/ applyUserMountsPolicy(p)
  \/ cleanup \/ applyUserMountsPolicy(NoEntry)

Next ==
  \/ ApplyPolicy
  \/ \E n \in Names : CleanDisable(n) \/ CleanRemove(n) \/ WriteUnit(n) \/ EnableUnit(n)
  \/ CleanEnd \/ Reload \/ EnableEnd \/ \E r \in {"none", "error"} : Interrupt(r)
  \/ RunMount \/ Collect \/ CommandEnd
  \/ \E i \in DOMAIN sess.entries : mountDone(i)

Spec == Init /\ [][Next]_vars

----------------------------------------------------------------------------
(* After a machine policy is reported as applied, the unit files are those *)
(* of the policy, systemd has each of them loaded and enabled as it is on  *)
(* disk, and has nothing enabled or mounted of the others.  Except the     *)
(* units an earlier call left between their file and systemd: a call that  *)
(* finds the file it wants enables nothing; and those that did not stop.   *)
UnitsAreInForce ==
  pc = "idle" /\ result = "nil" =>
    /\ currentSystemMountUnits = DOMAIN want
    /\ \A n \in DOMAIN want \ interrupted : n \in enabled /\ loaded[n] = files[n]
    /\ \A n \in Names \ DOMAIN want : n \notin enabled /\ (active[n] = NoFile \/ n \in unstopped)

(* The mount command of a session ends with no operation left behind, and  *)
(* without error exactly when it has mounted every location of the file it *)
(* read, whatever the order of the answers and whatever an update does to  *)
(* the file in the meantime.                                               *)
CommandReportsEveryMount ==
  sess.pc = "done" => sess.pending = {} /\ (sess.err <=> sess.mounted # ToSet(sess.entries))

(* Both: what systemd has, and what the command of a session reports.      *)
MountsAreInForce == UnitsAreInForce /\ CommandReportsEveryMount
=============================================================================
