--------------------------- MODULE SmbSafeProofs ---------------------------
(***************************************************************************)
(* For any set of threads and any number of calls: the arbiter of smbsafe  *)
(* never lets a command run under libsmbclient's SIGCHLD handler, and it   *)
(* implements ModeLock.                                                    *)
(***************************************************************************)
EXTENDS SmbSafe, FiniteSetTheorems, TLAPS

\* The set of requests held changes by one request at a time, and the count of
\* the arbiter follows it.
LEMMA CountAfterGrant ==
  ASSUME NEW t, NEW level, IsFiniteSet(held), num = Cardinality(held),
         <<t, level>> \notin held
  PROVE  /\ IsFiniteSet(held \cup {<<t, level>>})
         /\ Cardinality(held \cup {<<t, level>>}) = num + 1
  BY FS_AddElement

\* A request given back leaves one less, and none exactly when the count is zero.
LEMMA CountAfterReturn ==
  ASSUME NEW t, NEW level, IsFiniteSet(held), num = Cardinality(held),
         <<t, level>> \in held
  PROVE  /\ IsFiniteSet(held \ {<<t, level>>})
         /\ Cardinality(held \ {<<t, level>>}) = num - 1
         /\ num - 1 = 0 <=> held \ {<<t, level>>} = {}
  <1>1. /\ IsFiniteSet(held \ {<<t, level>>})
        /\ Cardinality(held \ {<<t, level>>}) = num - 1
    BY FS_RemoveElement
  <1>2. QED  BY <1>1, FS_EmptySet

\* Granting a request that is not held keeps the count right.
LEMMA GrantKeepsCount ==
  ASSUME IInv, NEW t \in Threads, NEW level \in Levels, NEW mode \in {"smb", "exec"},
         <<t, level>> \notin held, Grant(mode, t, level)
  PROVE  /\ CountInv'
         /\ held' \in SUBSET (Threads \X Levels)
         /\ held' # {}
         /\ num' \in Nat
  <1>1. loop = "idle" => num = 0
    BY FS_EmptySet DEF IInv, CountInv
  <1>2. num' = num + 1 /\ held' = held \cup {<<t, level>>}
    BY <1>1 DEF Grant
  <1>3. /\ IsFiniteSet(held \cup {<<t, level>>})
        /\ Cardinality(held \cup {<<t, level>>}) = num + 1
    BY CountAfterGrant DEF IInv, CountInv
  <1>4. QED
    BY <1>2, <1>3 DEF IInv, CountInv, TypeOK, Levels

\* Giving back a request that is held keeps the count right, and the arbiter
\* leaves the mode exactly when nothing is held any more.
LEMMA ReturnKeepsCount ==
  ASSUME IInv, NEW t \in Threads, NEW level \in Levels, NEW mode, NEW next,
         <<t, level>> \in held, Return(mode, t, level, next)
  PROVE  /\ CountInv'
         /\ held' \in SUBSET (Threads \X Levels)
         /\ num' \in Nat
         /\ loop' = IF held' = {} THEN next ELSE mode
  <1>1. /\ IsFiniteSet(held \ {<<t, level>>})
        /\ Cardinality(held \ {<<t, level>>}) = num - 1
        /\ num - 1 = 0 <=> held \ {<<t, level>>} = {}
    BY CountAfterReturn DEF IInv, CountInv
  <1>2. num - 1 \in Nat
    BY <1>1, FS_CardinalityType
  <1>3. QED
    BY <1>1, <1>2 DEF IInv, CountInv, TypeOK, Return

-----------------------------------------------------------------------------
\* The arbiter starts in its outer select, with no request and Go's handler.
LEMMA InitIInv == Init => IInv
  BY FS_EmptySet
  DEF Init, IInv, TypeOK, CountInv, HeldInv, DoneNeverBlocks, InSmb, InExec, PCs

\* Every call, rendezvous and handler restoration keeps the inductive invariant.
LEMMA StepIInv == IInv /\ [Next]_vars => IInv'
<1> SUFFICES ASSUME IInv, [Next]_vars
             PROVE  IInv'
  OBVIOUS
<1>1. ASSUME NEW t \in Threads, NEW want \in {"wantSmb", "wantExec"}, Ask(t, want)
      PROVE  IInv'
  BY <1>1 DEF Ask, Goto, IInv, TypeOK, CountInv, HeldInv, DoneNeverBlocks, InSmb, InExec, PCs
<1>2. ASSUME NEW t \in Threads, AskNested(t)
      PROVE  IInv'
  BY <1>2 DEF AskNested, Goto, IInv, TypeOK, CountInv, HeldInv, DoneNeverBlocks, InSmb, InExec, PCs
<1>3. ASSUME NEW t \in Threads, SmbCall(t)
      PROVE  IInv'
  BY <1>3 DEF SmbCall, IInv, TypeOK, CountInv, HeldInv, DoneNeverBlocks, InSmb, InExec
<1>4. ASSUME NEW t \in Threads, WaitSmb(t)
      PROVE  IInv'
  <2>1. CASE Goto(t, "wantSmb", "smb") /\ Grant("smb", t, "outer")
    <3>1. <<t, "outer">> \notin held
      BY <2>1 DEF Goto, IInv, HeldInv, InSmb, InExec
    <3>2. CountInv' /\ held' \in SUBSET (Threads \X Levels) /\ held' # {} /\ num' \in Nat
      BY <2>1, <3>1, GrantKeepsCount DEF Levels
    <3>3. HeldInv' /\ DoneNeverBlocks'
      BY <2>1 DEF Goto, Grant, IInv, TypeOK, HeldInv, DoneNeverBlocks, InSmb, InExec
    <3>4. QED
      BY <2>1, <3>2, <3>3 DEF Goto, Grant, IInv, TypeOK, PCs
  <2>2. CASE Goto(t, "wantNested", "nested") /\ Grant("smb", t, "nested")
    <3>1. <<t, "nested">> \notin held
      BY <2>2 DEF Goto, IInv, HeldInv
    <3>2. CountInv' /\ held' \in SUBSET (Threads \X Levels) /\ held' # {} /\ num' \in Nat
      BY <2>2, <3>1, GrantKeepsCount DEF Levels
    <3>3. HeldInv' /\ DoneNeverBlocks'
      BY <2>2 DEF Goto, Grant, IInv, TypeOK, HeldInv, DoneNeverBlocks, InSmb, InExec
    <3>4. QED
      BY <2>2, <3>2, <3>3 DEF Goto, Grant, IInv, TypeOK, PCs
  <2>3. QED  BY <1>4, <2>1, <2>2 DEF WaitSmb
<1>5. ASSUME NEW t \in Threads, DoneSmb(t)
      PROVE  IInv'
  <2>1. ASSUME NEW from \in {"smb", "leaving"}, Goto(t, from, "out"),
               Return("smb", t, "outer", "restore")
        PROVE  IInv'
    <3>1. <<t, "outer">> \in held
      BY <2>1 DEF Goto, IInv, HeldInv, InSmb, InExec
    <3>2. /\ CountInv' /\ held' \in SUBSET (Threads \X Levels) /\ num' \in Nat
          /\ loop' = IF held' = {} THEN "restore" ELSE "smb"
      BY <2>1, <3>1, ReturnKeepsCount DEF Levels
    <3>3. HeldInv'
      BY <2>1 DEF Goto, Return, IInv, TypeOK, HeldInv, InSmb, InExec
    <3>4. DoneNeverBlocks'
      BY <2>1, <3>2, <3>3 DEF Goto, Return, IInv, TypeOK, HeldInv, DoneNeverBlocks, InSmb, InExec
    <3>5. QED
      BY <2>1, <3>2, <3>3, <3>4 DEF Goto, Return, IInv, TypeOK, PCs
  <2>2. CASE Goto(t, "nested", "leaving") /\ Return("smb", t, "nested", "restore")
    <3>1. <<t, "nested">> \in held
      BY <2>2 DEF Goto, IInv, HeldInv
    <3>2. /\ CountInv' /\ held' \in SUBSET (Threads \X Levels) /\ num' \in Nat
          /\ loop' = IF held' = {} THEN "restore" ELSE "smb"
      BY <2>2, <3>1, ReturnKeepsCount DEF Levels
    <3>3. HeldInv'
      BY <2>2 DEF Goto, Return, IInv, TypeOK, HeldInv, InSmb, InExec
    <3>4. DoneNeverBlocks'
      BY <2>2, <3>2, <3>3 DEF Goto, Return, IInv, TypeOK, HeldInv, DoneNeverBlocks, InSmb, InExec
    <3>5. QED
      BY <2>2, <3>2, <3>3, <3>4 DEF Goto, Return, IInv, TypeOK, PCs
  <2>3. QED  BY <1>5, <2>1, <2>2 DEF DoneSmb
<1>6. ASSUME NEW t \in Threads, WaitExec(t)
      PROVE  IInv'
  <2>1. <<t, "outer">> \notin held
    BY <1>6 DEF WaitExec, Goto, IInv, HeldInv, InSmb, InExec
  <2>2. CountInv' /\ held' \in SUBSET (Threads \X Levels) /\ held' # {} /\ num' \in Nat
    BY <1>6, <2>1, GrantKeepsCount DEF WaitExec, Levels
  <2>3. HeldInv' /\ DoneNeverBlocks'
    BY <1>6 DEF WaitExec, Goto, Grant, IInv, TypeOK, HeldInv, DoneNeverBlocks, InSmb, InExec
  <2>4. QED
    BY <1>6, <2>2, <2>3 DEF WaitExec, Goto, Grant, IInv, TypeOK, PCs
<1>7. ASSUME NEW t \in Threads, DoneExec(t)
      PROVE  IInv'
  <2>1. <<t, "outer">> \in held
    BY <1>7 DEF DoneExec, Goto, IInv, HeldInv, InExec
  <2>2. /\ CountInv' /\ held' \in SUBSET (Threads \X Levels) /\ num' \in Nat
        /\ loop' = IF held' = {} THEN "idle" ELSE "exec"
    BY <1>7, <2>1, ReturnKeepsCount DEF DoneExec, Levels
  <2>3. HeldInv'
    BY <1>7 DEF DoneExec, Goto, Return, IInv, TypeOK, HeldInv, InSmb, InExec
  <2>4. DoneNeverBlocks'
    BY <1>7, <2>2, <2>3 DEF DoneExec, Goto, Return, IInv, TypeOK, HeldInv, DoneNeverBlocks, InSmb, InExec
  <2>5. QED
    BY <1>7, <2>2, <2>3, <2>4 DEF DoneExec, Goto, Return, IInv, TypeOK, PCs
<1>8. CASE RestoreSigchild
  BY <1>8 DEF RestoreSigchild, IInv, TypeOK, CountInv, HeldInv, DoneNeverBlocks, InSmb, InExec
<1>9. CASE UNCHANGED vars
  BY <1>9 DEF vars, IInv, TypeOK, CountInv, HeldInv, DoneNeverBlocks, InSmb, InExec
<1>10. QED
  BY <1>1, <1>2, <1>3, <1>4, <1>5, <1>6, <1>7, <1>8, <1>9 DEF Next, Serve
-----------------------------------------------------------------------------
\* The inductive invariant holds in every reachable state.
THEOREM Inductive == Spec => []IInv
  BY InitIInv, StepIInv, PTL DEF Spec

\* Whatever the threads do, no command is executed and waited for while
\* libsmbclient's SIGCHLD handler is in place (smbsafe.go:43-76).
THEOREM ExecIsSafe == Spec => []NoExecUnderSambaHandler
<1>1. IInv => NoExecUnderSambaHandler
  BY DEF IInv, DoneNeverBlocks, NoExecUnderSambaHandler, ExecThreads
<1>2. QED  BY <1>1, Inductive, PTL

\* The arbiter with its counters and its nested requests implements ModeLock:
\* requests of one kind share the mode, requests of both kinds never overlap.
THEOREM Refinement == Spec => ImplementsModeLock
<1>1. Init => Lock!Init
  BY DEF Init, Lock!Init, SmbThreads, ExecThreads, InSmb, InExec
<1>2. IInv /\ [Next]_vars => [Lock!Next]_(Lock!vars)
  <2> SUFFICES ASSUME IInv, [Next]_vars
               PROVE  [Lock!Next]_(Lock!vars)
    OBVIOUS
  <2> USE DEF Lock!Next, Lock!vars, SmbThreads, ExecThreads, InSmb, InExec, IInv, TypeOK, PCs
  <2>1. ASSUME NEW t \in Threads, NEW want \in {"wantSmb", "wantExec"}, Ask(t, want)
        PROVE  UNCHANGED Lock!vars
    BY <2>1 DEF Ask, Goto
  <2>2. ASSUME NEW t \in Threads, AskNested(t)
        PROVE  UNCHANGED Lock!vars
    BY <2>2 DEF AskNested, Goto
  <2>3. ASSUME NEW t \in Threads, SmbCall(t)
        PROVE  UNCHANGED Lock!vars
    BY <2>3 DEF SmbCall
  <2>4. ASSUME NEW t \in Threads, WaitSmb(t)
        PROVE  Lock!EnterSmb(t) \/ UNCHANGED Lock!vars
    BY <2>4 DEF WaitSmb, Goto, Grant, DoneNeverBlocks, Lock!EnterSmb
  <2>5. ASSUME NEW t \in Threads, DoneSmb(t)
        PROVE  Lock!LeaveSmb(t) \/ UNCHANGED Lock!vars
    BY <2>5 DEF DoneSmb, Goto, Return, Lock!LeaveSmb
  <2>6. ASSUME NEW t \in Threads, WaitExec(t)
        PROVE  Lock!EnterExec(t)
    BY <2>6 DEF WaitExec, Goto, Grant, DoneNeverBlocks, Lock!EnterExec
  <2>7. ASSUME NEW t \in Threads, DoneExec(t)
        PROVE  Lock!LeaveExec(t)
    BY <2>7 DEF DoneExec, Goto, Return, Lock!LeaveExec
  <2>8. CASE RestoreSigchild
    BY <2>8 DEF RestoreSigchild
  <2>9. CASE UNCHANGED vars
    BY <2>9 DEF vars
  <2>10. QED
    BY <2>1, <2>2, <2>3, <2>4, <2>5, <2>6, <2>7, <2>8, <2>9 DEF Next, Serve
<1>3. QED  BY <1>1, <1>2, Inductive, PTL DEF Spec, ImplementsModeLock, Lock!Spec
=============================================================================
