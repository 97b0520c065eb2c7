---------------------------- MODULE Certificate ----------------------------
(***************************************************************************)
(* The certificate manager (internal/policies/certificate): ApplyPolicy    *)
(* decides between enrolling and unenrolling the machine and runs a script *)
(* that is killed after ten seconds.  The script tells certmonger first    *)
(* and its cache afterwards, and goes on when an authority fails; the      *)
(* cache is all that a later call knows of what there is to undo.          *)
(***************************************************************************)
EXTENDS Naturals, FiniteSets

CONSTANTS
  CAs,        \* certificate authorities of the domain
  Policies,   \* [value : of "autoenroll" or NoEntry, data : integer values are numbers]
  NoEntry,    \* the policy has no "autoenroll" entry
  BadValue,   \* a value that is not a number
  MaxUpdates, \* bound: calls of ApplyPolicy
  MaxKills    \* bound: scripts killed by their timeout

VARIABLES
  cache,     \* the samba directory exists
  known,     \* authorities recorded in the cache, in that directory
  refused,   \* those whose record is certmonger's error, without templates
  enrolled,  \* authorities that certmonger has
  tools,     \* certmonger and cepces are installed
  pc, todo,  \* the script and the authorities it has still to handle
  between,   \* the authority certmonger was told about and the cache was not yet
  acted,     \* history: what the policy of the last call asks for, if it says
  skipped,   \* history: authorities the last call warned that it could not enroll to
  stray,     \* history: enrolments whose record was not reached, or whose removal failed
  hollow,    \* history: removals cut off before the record was
  result, updates, kills

store == <<cache, known, refused, enrolled>>
history == <<acted, skipped, stray, hollow>>
vars == <<store, tools, pc, todo, between, history, result, updates, kills>>

TypeOK ==
  /\ cache \in BOOLEAN /\ tools \in BOOLEAN
  /\ \A s \in {known, refused, enrolled, todo, between, skipped, stray, hollow} : s \subseteq CAs
  /\ pc \in {"idle", "enroll", "unenroll", "enrolling", "cleaning"}
  /\ acted \in {"none", "enroll", "unenroll"} /\ result \in {"none", "nil", "error"}
  /\ updates \in 0..MaxUpdates /\ kills \in 0..MaxKills

Init ==
  /\ cache = FALSE /\ known = {} /\ refused = {} /\ enrolled = {} /\ tools \in BOOLEAN
  /\ pc = "idle" /\ todo = {} /\ between = {}
  /\ acted = "none" /\ skipped = {} /\ stray = {} /\ hollow = {}
  /\ result = "none" /\ updates = 0 /\ kills = 0

\* Bits of the value: 0x1 enrolls, 0x8000 disables the policy.
enrollFlag(v) == v % 2 = 1
disabledFlag(v) == (v \div 32768) % 2 = 1

\* Mutant: without an entry, nothing is ever undone.
ActionForgets(p) == IF p.value = NoEntry THEN "skip"
                    ELSE IF p.value = BadValue THEN "error"
                    ELSE IF disabledFlag(p.value) THEN "skip"
                    ELSE IF ~p.data THEN "error"
                    ELSE IF enrollFlag(p.value) THEN "enroll" ELSE "unenroll"

\* What ApplyPolicy makes of the entries, in the order of its tests.
Action(p) == IF p.value = NoEntry THEN IF cache THEN "unenroll" ELSE "skip"
             ELSE IF p.value = BadValue THEN "error"
             ELSE IF disabledFlag(p.value) THEN "skip"
             ELSE IF ~p.data THEN "error"
             ELSE IF enrollFlag(p.value) THEN "enroll" ELSE "unenroll"

\* Users and a machine that is offline are skipped.
ApplyPolicy(online, p) ==
  /\ pc = "idle" /\ updates < MaxUpdates /\ updates' = updates + 1
  /\ LET a == IF online THEN Action(p) ELSE "skip"
     IN  IF a \in {"enroll", "unenroll"}
         THEN pc' = a /\ result' = "none" /\ acted' = a
         ELSE /\ result' = (IF a = "error" THEN a ELSE "nil") /\ UNCHANGED pc
              /\ acted' = IF online /\ p.value = NoEntry THEN "unenroll" ELSE "none"
  /\ skipped' = {}
  /\ UNCHANGED <<store, tools, todo, between, stray, hollow, kills>>

ScriptEnds == pc' = "idle" /\ result' = "nil"

\* The script: without its tools it succeeds and does nothing; otherwise it creates
\* its directories first.  It unenrolls from what the cache lists.
ScriptStarts ==
  /\ pc \in {"enroll", "unenroll"}
  /\ \/ ~tools /\ ScriptEnds /\ UNCHANGED <<cache, todo>>
     \/ /\ tools /\ cache' = TRUE /\ UNCHANGED result
        /\ IF pc = "enroll" THEN pc' = "enrolling" /\ todo' = CAs
           ELSE pc' = "cleaning" /\ todo' = known
  /\ UNCHANGED <<known, refused, enrolled, tools, between, history, updates, kills>>

Frame == UNCHANGED <<cache, tools, pc, acted, result, updates, kills>>

\* apply, of an authority the cache knows and that has not changed, or whose templates
\* cannot be listed now.
AlreadyApplied(c) ==
  /\ pc = "enrolling" /\ between = {} /\ c \in todo \cap known /\ todo' = todo \ {c}
  /\ UNCHANGED <<known, refused, enrolled, between, skipped, stray, hollow>> /\ Frame

\* cert_enroll: certmonger is told.  It may refuse, which is logged and becomes the
\* record; certmonger has the authority if it was only a request that it refused.
Getcert(c) ==
  /\ pc = "enrolling" /\ between = {} /\ c \in todo \ known /\ between' = {c}
  /\ \/ enrolled' = enrolled \cup {c} /\ UNCHANGED refused
     \/ enrolled' \in {enrolled, enrolled \cup {c}} /\ refused' = refused \cup {c}
  /\ UNCHANGED <<known, todo, skipped, stray, hollow>> /\ Frame

\* cert_enroll raises, before certmonger is told or after: a warning, and the next one.
EnrollFails(c) ==
  /\ pc = "enrolling" /\ between = {} /\ c \in todo \ known /\ todo' = todo \ {c}
  /\ enrolled' \in {enrolled, enrolled \cup {c}}
  /\ skipped' = skipped \cup {c} /\ stray' = stray \cup ({c} \cap enrolled')
  /\ UNCHANGED <<known, refused, between, hollow>> /\ Frame

\* cache_add_attribute
Record(c) ==
  /\ pc = "enrolling" /\ between = {c} /\ c \notin known /\ between' = {}
  /\ known' = known \cup {c} /\ stray' = stray \ {c} /\ todo' = todo \ {c}
  /\ UNCHANGED <<refused, enrolled, skipped, hollow>> /\ Frame

\* unapply, of an authority that has changed or of everything: certmonger is told, and
\* its answer is not read.
RemoveCA(c) ==
  /\ between = {} /\ c \in todo \cap known /\ between' = {c}
  /\ pc = "cleaning" \/ (pc = "enrolling" /\ c \notin refused)
  /\ enrolled' \in {enrolled, enrolled \ {c}}
  /\ UNCHANGED <<known, refused, todo, skipped, stray, hollow>> /\ Frame

\* cache_remove_attribute; an authority that has changed is then enrolled to again.
Forget(c) ==
  /\ between = {c} /\ c \in known \ refused /\ between' = {}
  /\ known' = known \ {c} /\ hollow' = hollow \ {c} /\ stray' = stray \cup ({c} \cap enrolled)
  /\ todo' = IF pc = "cleaning" THEN todo \ {c} ELSE todo
  /\ UNCHANGED <<refused, enrolled, skipped>> /\ Frame

\* The script succeeds however many authorities it has skipped.  Once unenrolled it
\* removes its cache.
ScriptDone ==
  /\ pc \in {"enrolling", "cleaning"} /\ todo = {} /\ ScriptEnds
  /\ cache' = (pc = "enrolling")
  /\ UNCHANGED <<known, refused, enrolled, tools, todo, between, history, updates, kills>>

\* The script ends half way: what it had told certmonger is not in the cache.
ScriptStops ==
  /\ pc' = "idle" /\ result' = "error" /\ todo' = {} /\ between' = {}
  /\ stray' = stray \cup ((between \cap enrolled) \ known) /\ hollow' = hollow \cup (between \cap known)
  /\ refused' = refused \cap known
  /\ UNCHANGED <<cache, known, enrolled, tools, acted, skipped, updates>>

\* unapply finds no templates in the record of an authority that certmonger refused.
ForgetFails(c) == between = {c} /\ c \in refused \cap known /\ ScriptStops /\ UNCHANGED kills

\* runScript: the ten seconds are over, or the script fails.
ScriptKilled == pc # "idle" /\ kills < MaxKills /\ kills' = kills + 1 /\ ScriptStops

Next ==
  \/ \E online \in BOOLEAN, p \in Policies : ApplyPolicy(online, p)
  \/ ScriptStarts \/ ScriptDone \/ ScriptKilled
  \/ \E c \in CAs : AlreadyApplied(c) \/ Getcert(c) \/ EnrollFails(c) \/ Record(c)
  \/ \E c \in CAs : RemoveCA(c) \/ Forget(c) \/ ForgetFails(c)

Spec == Init /\ [][Next]_vars

----------------------------------------------------------------------------
(* A success leaves the machine where its policy puts it.  Enrolling, it   *)
(* misses only authorities that this call has warned about, that           *)
(* certmonger refused, or whose removal an earlier call was killed in.     *)
(* Unenrolling, or when the entry is gone and no script is even run for    *)
(* want of a cache, it keeps only enrolments that were cut off between     *)
(* certmonger and the cache, or that certmonger would not remove.  And the *)
(* cache misses no other enrolment.                                        *)
EnrollmentFollowsPolicy ==
  /\ pc = "idle" /\ result = "nil" /\ tools =>
       /\ acted = "enroll" => CAs \ enrolled \subseteq skipped \cup refused \cup hollow
       /\ acted = "unenroll" => enrolled \subseteq stray
  /\ pc = "idle" => enrolled \subseteq known \cup stray
=============================================================================
