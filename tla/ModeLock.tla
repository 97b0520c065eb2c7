------------------------------ MODULE ModeLock ------------------------------
(***************************************************************************)
(* What package smbsafe promises its callers (its package comment, lines   *)
(* 1-8): libsmbclient calls and executed commands never overlap, while any *)
(* number of requests of the same kind run in parallel.                    *)
(***************************************************************************)
CONSTANT Threads

VARIABLES
  smb,   \* threads between WaitSmb and DoneSmb
  exec   \* threads between WaitExec and DoneExec

vars == <<smb, exec>>

Init == smb = {} /\ exec = {}

EnterSmb(t) ==
  /\ exec = {} /\ t \notin smb
  /\ smb' = smb \cup {t}
  /\ UNCHANGED exec

LeaveSmb(t) ==
  /\ t \in smb
  /\ smb' = smb \ {t}
  /\ UNCHANGED exec

EnterExec(t) ==
  /\ smb = {} /\ t \notin exec
  /\ exec' = exec \cup {t}
  /\ UNCHANGED smb

LeaveExec(t) ==
  /\ t \in exec
  /\ exec' = exec \ {t}
  /\ UNCHANGED smb

Next == \E t \in Threads :
          EnterSmb(t) \/ LeaveSmb(t) \/ EnterExec(t) \/ LeaveExec(t)

Spec == Init /\ [][Next]_vars
=============================================================================
