--------------------------- MODULE ObjectUpdates ---------------------------
(***************************************************************************)
(* What ApplyPolicies promises of each object ("a lock per objectName to   *)
(* prevent multiple instances of ApplyPolicies for the same object"): one  *)
(* version is applied at a time, everything in force comes from the update *)
(* under way, the cache is written only once the version is in force, and  *)
(* an update that went well leaves the two agreeing.                       *)
(***************************************************************************)
CONSTANTS
  Objects,   \* the machine and its users
  Versions,  \* versions of the policies
  Managers,  \* what puts a policy in force
  Main,      \* the manager whose state the cache stands for
  Withheld,  \* the managers that may be given the empty policy instead
  Empty,     \* the empty policy
  None       \* no version: of an update, or of a cache

VARIABLES
  current,   \* the version being applied for each object
  inForce,   \* the version each manager has in force for each object
  file,      \* the version in the cache of each object
  settled    \* whether the last update of each object went well

vars == <<current, inForce, file, settled>>

Init ==
  /\ current = [o \in Objects |-> None] /\ file = [o \in Objects |-> None]
  /\ inForce = [o \in Objects |-> [m \in Managers |-> Empty]]
  /\ settled = [o \in Objects |-> FALSE]

Begin(o, v) ==
  /\ current[o] = None /\ current' = [current EXCEPT ![o] = v]
  /\ UNCHANGED <<inForce, file, settled>>

Enforce(o, m) ==
  /\ current[o] # None
  /\ \/ inForce' = [inForce EXCEPT ![o][m] = current[o]]
     \/ m \in Withheld /\ inForce' = [inForce EXCEPT ![o][m] = Empty]
  /\ UNCHANGED <<current, file, settled>>

\* The cache of the object is emptied before it is written.
Write(o) ==
  /\ current[o] # None /\ inForce[o][Main] = current[o]
  /\ \E v \in {Empty, current[o]} : file' = [file EXCEPT ![o] = v]
  /\ UNCHANGED <<current, inForce, settled>>

End(o, ok) ==
  /\ current[o] # None
  /\ ok => file[o] = current[o] /\ inForce[o][Main] = current[o]
  /\ current' = [current EXCEPT ![o] = None]
  /\ settled' = [settled EXCEPT ![o] = ok]
  /\ UNCHANGED <<inForce, file>>

\* Every update is cut short.
Kill ==
  /\ current' = [o \in Objects |-> None]
  /\ settled' = [o \in Objects |-> settled[o] /\ current[o] = None]
  /\ UNCHANGED <<inForce, file>>

Next ==
  \/ \E o \in Objects :
       \/ \E v \in Versions : Begin(o, v)
       \/ \E m \in Managers : Enforce(o, m)
       \/ Write(o)
       \/ \E ok \in BOOLEAN : End(o, ok)
  \/ Kill

Spec == Init /\ [][Next]_vars
=============================================================================
