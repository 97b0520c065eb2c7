---------------------------- MODULE DaemonProofs ----------------------------
(***************************************************************************)
(* The idle timer follows the requests and the daemon's quits are safe,    *)
(* for any number of requests, reloads and timeouts.  The argument: the    *)
(* idler's mutex is held from a change of the counter to the end of the    *)
(* send it calls for (MutexInv), so the counter is the number of active    *)
(* requests (CountInv) and the timer is where the last one left it unless  *)
(* its send is still under way (TimerInv); the first Quit alone closes the *)
(* channel of listeners and decides on the force of the stop (QuitInv).    *)
(***************************************************************************)
EXTENDS Daemon, FiniteSetTheorems, TLAPS

\* The requests between the two halves of the connection notifier.
Active == {r \in Requests : stream[r] \in {"sendStop", "active", "lockDone"}}

CountInv == currentRequests = Cardinality(Active)

\* The mutex is held exactly by who is sending on the channel.
MutexInv ==
  /\ \A r \in Requests : stream[r] \in {"sendStop", "sendStart"} <=> mu = r
  /\ config \in {"sendStop", "sendStart"} <=> mu = "config"

TimerInv ==
  (keepAlive = "select" /\ quit["idle"] = "out") =>
    /\ mu = NoOne \/ config = "sendStop" => (timer = "stopped" <=> currentRequests > 0)
    /\ \A r \in Requests :
         /\ stream[r] = "sendStop" => timer # "stopped" /\ currentRequests > 0
         /\ stream[r] = "sendStart" => timer = "stopped" /\ currentRequests = 0
    /\ config = "sendStart" => timer = "stopped" /\ currentRequests = 0

QuitInv ==
  /\ operations # "closed"
  /\ shutdown = "free" => ~lisClosed /\ quitBy = NoOne
  /\ quitBy # NoOne => quit[quitBy] # "out"
  /\ NoPanic /\ GracefulQuitDropsNothing

\* A server is built for a listener that was taken from the channel.
BuildInv == listen = "build" => serving \in Listeners

Inv == TypeOK /\ CountInv /\ MutexInv /\ TimerInv /\ QuitInv /\ BuildInv

USE DEF daemonVars, idlerVars, loopVars, listenVars, streamVars, quitVars, configVars, historyVars,
        ListenFrame, StreamFrame, ConfigFrame

-----------------------------------------------------------------------------
(* The constants, and the parts of a typed state. *)

\* There is a listener for New() and one for each reload.
LEMMA Constants ==
  /\ MaxReloads \in Nat /\ 1 \in Listeners /\ \A n \in 0..MaxReloads : n + 1 \in Listeners
  /\ \A l \in Listeners : l \in Nat \ {0}
  /\ IsFiniteSet(Requests) /\ Cardinality(Requests) \in Nat
  /\ InitTimeout \in Timeouts /\ NewTimeouts \subseteq Timeouts
  /\ "stopped" \notin Timeouts
  /\ NoOne \notin Requests /\ NoOne # "config" /\ "config" \notin Requests
<1>1. IsFiniteSet(Requests) /\ MaxReloads \in Nat /\ InitTimeout \in Timeouts /\ NewTimeouts \subseteq Timeouts
  BY DaemonAssumption DEF DaemonAssumption
<1>2. Cardinality(Requests) \in Nat
  BY <1>1, FS_CardinalityType
<1>3. /\ 1 \in Listeners /\ \A n \in 0..MaxReloads : n + 1 \in Listeners
      /\ \A l \in Listeners : l \in Nat \ {0}
  BY <1>1 DEF Listeners
<1>4. NoOne \notin Requests /\ NoOne # "config" /\ "config" \notin Requests /\ "stopped" \notin Timeouts
  BY DaemonAssumption DEF DaemonAssumption, Timeouts
<1> QED BY <1>1, <1>2, <1>3, <1>4

\* The active requests can be counted.
LEMMA ActiveCount ==
  /\ Active \subseteq Requests /\ IsFiniteSet(Active)
  /\ Cardinality(Active) \in 0..Cardinality(Requests)
<1>1. Active \subseteq Requests
  BY DEF Active
<1>2. IsFiniteSet(Active) /\ Cardinality(Active) <= Cardinality(Requests)
  BY <1>1, Constants, FS_Subset
<1>3. Cardinality(Active) \in Nat
  BY <1>2, FS_CardinalityType
<1> QED BY <1>1, <1>2, <1>3, Constants

\* A request that becomes active, stays so or stops being so changes the count by one or
\* not at all.
LEMMA StreamCount ==
  ASSUME TypeOK, NEW r \in Requests, NEW st \in {"out", "lockNew", "sendStop", "active", "lockDone",
                                                "sendStart", "gone"},
         stream' = [stream EXCEPT ![r] = st]
  PROVE  LET on == {"sendStop", "active", "lockDone"} IN
         /\ st \in on /\ stream[r] \notin on => Cardinality(Active') = Cardinality(Active) + 1
         /\ st \notin on /\ stream[r] \in on => Cardinality(Active') = Cardinality(Active) - 1
         /\ (st \in on <=> stream[r] \in on) => Cardinality(Active') = Cardinality(Active)
<1> DEFINE on == {"sendStop", "active", "lockDone"}
<1>1. stream'[r] = st /\ \A q \in Requests : q # r => stream'[q] = stream[q]
  BY DEF TypeOK
<1>2. IsFiniteSet(Active)
  BY ActiveCount
<1>3. ASSUME st \in on, stream[r] \notin on PROVE Cardinality(Active') = Cardinality(Active) + 1
  <2>1. Active' = Active \cup {r} /\ r \notin Active
    BY <1>1, <1>3 DEF Active
  <2> QED BY <1>2, <2>1, FS_AddElement
<1>4. ASSUME st \notin on, stream[r] \in on PROVE Cardinality(Active') = Cardinality(Active) - 1
  <2>1. Active' = Active \ {r} /\ r \in Active
    BY <1>1, <1>4 DEF Active
  <2> QED BY <1>2, <2>1, FS_RemoveElement
<1>5. ASSUME st \in on <=> stream[r] \in on PROVE Cardinality(Active') = Cardinality(Active)
  <2>1. Active' = Active
    BY <1>1, <1>5 DEF Active
  <2> QED BY <2>1
<1> QED BY <1>3, <1>4, <1>5

\* The listener taken from the channel is one.
LEMMA HeadOfLis == ASSUME TypeOK, lis # <<>> PROVE Head(lis) \in Listeners
<1>1. PICK l \in Listeners : lis = <<l>>
  BY DEF TypeOK
<1> QED BY <1>1

\* New() leaves the timer running and nobody connected.
LEMMA InitInv == Init => Inv
<1> SUFFICES ASSUME Init PROVE Inv OBVIOUS
<1> USE Constants DEF Init
<1>1. TypeOK
  <2>1. timeout \in Timeouts /\ timer \in Timeouts \cup {"stopped"}
    BY DEF newIdler, Timeouts
  <2>2. lis \in {<<>>} \cup {<<l>> : l \in Listeners}
    OBVIOUS
  <2>3. currentRequests \in 0..Cardinality(Requests) /\ reloads \in 0..MaxReloads
    OBVIOUS
  <2>4. quit \in [Quitters -> {"out", "once", "send", "done"}] /\ force \in [Quitters -> BOOLEAN]
    OBVIOUS
  <2>5. server \in [Listeners -> {"none", "new", "serving", "draining", "stopped"}]
    OBVIOUS
  <2> QED BY <2>1, <2>2, <2>3, <2>4, <2>5 DEF TypeOK
<1>2. CountInv
  <2>1. Active = {}
    BY DEF Active
  <2> QED BY <2>1, FS_EmptySet DEF CountInv
<1>3. MutexInv /\ BuildInv
  BY DEF MutexInv, BuildInv
<1>4. TimerInv
  BY DEF TimerInv, newIdler, Timeouts
<1>5. QuitInv
  BY DEF QuitInv, NoPanic, GracefulQuitDropsNothing
<1> QED BY <1>1, <1>2, <1>3, <1>4, <1>5 DEF Inv

-----------------------------------------------------------------------------
(* The steps that leave the idler alone: Listen and the gRPC server. *)

\* Listen takes listeners and builds servers; a listener is never invented.
LEMMA ListenStepStep == ASSUME Inv, ListenStep PROVE Inv'
<1> USE Constants DEF Inv
<1>0. /\ UNCHANGED <<useSocketActivation, lisClosed, shutdown, idlerVars, loopVars, streamVars, quitVars,
                     configVars, historyVars>>
      /\ listen' \in {"notify", "first", "serve", "serving", "next", "build", "quit", "returned", "failed"}
  BY DEF ListenStep, ListenNotify, ListenFirst, ListenServe, ListenServed, ListenNext, ListenBuild, ListenQuit
<1>1. /\ lis' \in {<<>>} \cup {<<l>> : l \in Listeners}
      /\ socketAddr' \in Listeners \cup {0} /\ serving' \in Listeners \cup {0}
      /\ grpcserver' \in Listeners
      /\ server' \in [Listeners -> {"none", "new", "serving", "draining", "stopped"}]
      /\ BuildInv'
  <2>1. CASE ListenNotify
    BY <2>1 DEF ListenNotify, TypeOK, BuildInv
  <2>2. CASE ListenFirst
    BY <2>2, HeadOfLis DEF ListenFirst, TypeOK, BuildInv
  <2>3. CASE ListenServe
    BY <2>3 DEF ListenServe, TypeOK, BuildInv
  <2>4. CASE ListenServed
    BY <2>4 DEF ListenServed, TypeOK, BuildInv
  <2>5. CASE ListenNext
    BY <2>5, HeadOfLis DEF ListenNext, TypeOK, BuildInv
  <2>6. CASE ListenBuild
    BY <2>6 DEF ListenBuild, TypeOK, BuildInv
  <2>7. CASE ListenQuit
    BY <2>7 DEF ListenQuit, TypeOK, BuildInv
  <2> QED BY <2>1, <2>2, <2>3, <2>4, <2>5, <2>6, <2>7 DEF ListenStep
<1>2. TypeOK'
  BY <1>0, <1>1 DEF TypeOK
<1>3. CountInv' /\ MutexInv'
  BY <1>0 DEF CountInv, Active, MutexInv
<1>4. TimerInv' /\ QuitInv'
  BY <1>0 DEF TimerInv, QuitInv, NoPanic, GracefulQuitDropsNothing, QuitForced
<1> QED BY <1>1, <1>2, <1>3, <1>4

\* A server that was stopped gracefully is through.
LEMMA DrainedStep == ASSUME Inv, NEW s \in Listeners, Drained(s) PROVE Inv'
<1> USE DEF Inv, Drained
<1>1. TypeOK'
  BY DEF TypeOK
<1>2. CountInv' /\ MutexInv' /\ BuildInv'
  BY DEF CountInv, Active, MutexInv, BuildInv
<1>3. TimerInv' /\ QuitInv'
  BY DEF TimerInv, QuitInv, NoPanic, GracefulQuitDropsNothing, QuitForced
<1> QED BY <1>1, <1>2, <1>3

-----------------------------------------------------------------------------
(* keepAlive. *)

\* The timer expires: the daemon is quitting for idleness from then on.
LEMMA IdleExpiredStep == ASSUME Inv, IdleExpired PROVE Inv'
<1> USE DEF Inv, IdleExpired
<1>0. /\ quit'["idle"] # "out" /\ \A q \in Quitters : quit[q] # "out" => quit'[q] # "out"
      /\ quit' \in [Quitters -> {"out", "once", "send", "done"}]
  BY DEF TypeOK, Quitters
<1>1. TypeOK'
  BY <1>0 DEF TypeOK
<1>2. CountInv' /\ MutexInv' /\ BuildInv'
  BY DEF CountInv, Active, MutexInv, BuildInv
<1>3. TimerInv'
  BY <1>0 DEF TimerInv
<1>4. QuitInv'
  BY <1>0 DEF QuitInv, NoPanic, GracefulQuitDropsNothing, QuitForced, TypeOK
<1> QED BY <1>1, <1>2, <1>3, <1>4

\* The loop stops the server: it drops requests only if the first quit was forced.
LEMMA LoopStepStep == ASSUME Inv, LoopStep PROVE Inv'
<1> USE DEF Inv
<1>1. CASE LoopStop
  <2> USE <1>1 DEF LoopStop
  <2>1. /\ server' \in [Listeners -> {"none", "new", "serving", "draining", "stopped"}]
        /\ dropped' \in SUBSET Requests
    BY DEF GracefulStop, ForceStop, Live, TypeOK
  <2>2. TypeOK'
    BY <2>1 DEF TypeOK
  <2>3. CountInv' /\ MutexInv' /\ BuildInv' /\ TimerInv'
    BY DEF CountInv, Active, MutexInv, BuildInv, TimerInv
  <2>4. QuitInv'
    BY DEF QuitInv, NoPanic, GracefulQuitDropsNothing, QuitForced
  <2> QED BY <2>2, <2>3, <2>4
<1>2. CASE LoopStopped
  <2> USE <1>2 DEF LoopStopped
  <2>1. TypeOK'
    BY DEF TypeOK
  <2>2. CountInv' /\ MutexInv' /\ BuildInv' /\ TimerInv'
    BY DEF CountInv, Active, MutexInv, BuildInv, TimerInv
  <2>3. QuitInv'
    BY DEF QuitInv, NoPanic, GracefulQuitDropsNothing, QuitForced
  <2> QED BY <2>1, <2>2, <2>3
<1>3. CASE LoopClose
  <2> USE <1>3 DEF LoopClose
  <2>1. TypeOK'
    BY DEF TypeOK
  <2>2. CountInv' /\ MutexInv' /\ BuildInv' /\ TimerInv'
    BY DEF CountInv, Active, MutexInv, BuildInv, TimerInv
  <2>3. QuitInv'
    BY DEF QuitInv, NoPanic, GracefulQuitDropsNothing, QuitForced
  <2> QED BY <2>1, <2>2, <2>3
<1> QED BY <1>1, <1>2, <1>3 DEF LoopStep

-----------------------------------------------------------------------------
(* The callers of Quit. *)

\* A caller that comes later does not change the force of the first one.
LEMMA CallQuitStep == ASSUME Inv, NEW q \in Quitters, NEW f \in BOOLEAN, CallQuit(q, f) PROVE Inv'
<1> USE Constants DEF Inv, CallQuit
<1>0. /\ quit[q] = "out" /\ quit'[q] = "once"
      /\ \A k \in Quitters : k # q => quit'[k] = quit[k] /\ force'[k] = force[k]
      /\ quit' \in [Quitters -> {"out", "once", "send", "done"}] /\ force' \in [Quitters -> BOOLEAN]
  BY DEF TypeOK
<1>1. TypeOK'
  BY <1>0 DEF TypeOK
<1>2. CountInv' /\ MutexInv' /\ BuildInv'
  BY DEF CountInv, Active, MutexInv, BuildInv
<1>3. TimerInv'
  <2>1. quit'["idle"] = "out" => quit["idle"] = "out"
    BY <1>0 DEF Quitters
  <2> QED BY <2>1 DEF TimerInv
<1>4. QuitInv'
  <2>1. quitBy # NoOne => quitBy \in Quitters /\ quitBy # q /\ quit[quitBy] # "out"
    BY <1>0 DEF QuitInv, TypeOK
  <2>2. QuitForced' <=> QuitForced
    BY <1>0, <2>1 DEF QuitForced
  <2> QED BY <1>0, <2>1, <2>2 DEF QuitInv, NoPanic, GracefulQuitDropsNothing
<1> QED BY <1>1, <1>2, <1>3, <1>4

\* The first caller closes the channel of listeners, and only the first.
LEMMA QuitOnceStep == ASSUME Inv, NEW q \in Quitters, QuitOnce(q) PROVE Inv'
<1> USE Constants DEF Inv, QuitOnce
<1>0. /\ quit' \in [Quitters -> {"out", "once", "send", "done"}]
      /\ quit'[q] # "out" /\ \A k \in Quitters : k # q => quit'[k] = quit[k]
      /\ ~crashed
  BY DEF TypeOK, Running
<1>1. shutdown = "free" => ~lisClosed /\ ~QuitForced /\ dropped = {}
  BY <1>0 DEF QuitInv, GracefulQuitDropsNothing, QuitForced
<1>2. ~crashed'
  BY <1>0, <1>1
<1>3. TypeOK'
  <2>1. /\ crashed' \in BOOLEAN /\ lisClosed' \in BOOLEAN /\ shutdown' \in {"free", "running", "done"}
        /\ quitBy' \in Quitters \cup {NoOne}
    BY DEF TypeOK
  <2> QED BY <1>0, <2>1 DEF TypeOK
<1>4. CountInv' /\ MutexInv' /\ BuildInv'
  BY DEF CountInv, Active, MutexInv, BuildInv
<1>5. TimerInv'
  <2>1. quit'["idle"] = "out" => quit["idle"] = "out"
    BY <1>0 DEF Quitters
  <2> QED BY <2>1 DEF TimerInv
<1>6. QuitInv'
  <2>1. CASE shutdown = "free"
    BY <1>0, <1>1, <1>2, <2>1 DEF QuitInv, NoPanic, GracefulQuitDropsNothing
  <2>2. CASE shutdown = "done"
    <3>1. quitBy' = quitBy /\ (quitBy # NoOne => quit'[quitBy] # "out")
      BY <1>0, <2>2 DEF QuitInv, TypeOK
    <3>2. QuitForced' <=> QuitForced
      BY <3>1 DEF QuitForced
    <3> QED BY <1>2, <2>2, <3>1, <3>2 DEF QuitInv, NoPanic, GracefulQuitDropsNothing
  <2> QED BY <2>1, <2>2
<1> QED BY <1>3, <1>4, <1>5, <1>6

\* The operation is taken by the loop, or nobody listens any more on a channel that is nil.
LEMMA QuitSendStep == ASSUME Inv, NEW q \in Quitters, QuitSend(q) PROVE Inv'
<1> USE Constants DEF Inv, QuitSend
<1>0. /\ quit' \in [Quitters -> {"out", "once", "send", "done"}]
      /\ quit'[q] # "out" /\ \A k \in Quitters : k # q => quit'[k] = quit[k]
  BY DEF TypeOK
<1>1. ~crashed /\ ~crashed' /\ crashed' \in BOOLEAN
  BY DEF TypeOK, Running, QuitInv
<1>2. keepAlive' \in {keepAlive, "stop"}
  OBVIOUS
<1>3. TypeOK'
  BY <1>0, <1>1, <1>2 DEF TypeOK
<1>4. CountInv' /\ MutexInv' /\ BuildInv'
  BY DEF CountInv, Active, MutexInv, BuildInv
<1>5. TimerInv'
  <2>1. quit'["idle"] = "out" => quit["idle"] = "out"
    BY <1>0 DEF Quitters
  <2> QED BY <1>2, <2>1 DEF TimerInv
<1>6. QuitInv'
  <2>1. quitBy' = quitBy /\ (quitBy # NoOne => quit'[quitBy] # "out")
    BY <1>0 DEF QuitInv, TypeOK
  <2>2. QuitForced' <=> QuitForced
    BY <2>1 DEF QuitForced
  <2> QED BY <1>1, <2>1, <2>2 DEF QuitInv, NoPanic, GracefulQuitDropsNothing
<1> QED BY <1>3, <1>4, <1>5, <1>6

-----------------------------------------------------------------------------
(* The streams. *)

\* What a send does to the loop: the operation is taken, or the send is lost.
LEMMA SendStep ==
  ASSUME Inv, Running, NEW op \in {"stopTimeout", "startTimeout"}, sendOrTimeout(op)
  PROVE  /\ ~crashed' /\ crashed' \in BOOLEAN
         /\ keepAlive' \in {keepAlive, "drain"} /\ timer' \in Timeouts \cup {"stopped"}
         /\ keepAlive' = "select" /\ op = "stopTimeout" => keepAlive = "select" /\ timer # "stopped" /\ timer' = "stopped"
         /\ keepAlive' = "select" /\ op = "startTimeout" => keepAlive = "select" /\ timer' = timeout
<1> USE DEF Inv
<1>1. CASE keepAlive = "select" /\ op = "stopTimeout"
  BY <1>1 DEF sendOrTimeout, Receive, Running, TypeOK
<1>2. CASE keepAlive = "select" /\ op = "startTimeout"
  BY <1>2 DEF sendOrTimeout, Receive, Running, TypeOK
<1>3. CASE keepAlive # "select"
  BY <1>3 DEF sendOrTimeout, Running, TypeOK, QuitInv
<1> QED BY <1>1, <1>2, <1>3

\* A client connects: it is counted only once the interceptor has the mutex.
LEMMA NewStreamStep == ASSUME Inv, NEW r \in Requests, NewStream(r) PROVE Inv'
<1> USE Constants DEF Inv, NewStream
<1>0. /\ stream' = [stream EXCEPT ![r] = "lockNew"] /\ stream[r] = "out" /\ stream'[r] = "lockNew"
      /\ \A q \in Requests : q # r => stream'[q] = stream[q]
  BY DEF TypeOK
<1>1. TypeOK'
  BY DEF TypeOK
<1>2. CountInv'
  BY <1>0, StreamCount DEF CountInv
<1>3. MutexInv' /\ BuildInv'
  BY <1>0 DEF MutexInv, BuildInv
<1>4. TimerInv'
  BY <1>0 DEF TimerInv
<1>5. QuitInv'
  BY DEF QuitInv, NoPanic, GracefulQuitDropsNothing, QuitForced
<1> QED BY <1>1, <1>2, <1>3, <1>4, <1>5

\* The handler returns: the request is active until the interceptor has the mutex again.
LEMMA HandlerReturnsStep == ASSUME Inv, NEW r \in Requests, HandlerReturns(r) PROVE Inv'
<1> USE Constants DEF Inv, HandlerReturns
<1>0. /\ stream' = [stream EXCEPT ![r] = "lockDone"] /\ stream[r] = "active" /\ stream'[r] = "lockDone"
      /\ \A q \in Requests : q # r => stream'[q] = stream[q]
  BY DEF TypeOK
<1>1. TypeOK'
  BY DEF TypeOK
<1>2. CountInv'
  BY <1>0, StreamCount DEF CountInv
<1>3. MutexInv' /\ BuildInv'
  BY <1>0 DEF MutexInv, BuildInv
<1>4. TimerInv'
  BY <1>0 DEF TimerInv
<1>5. QuitInv'
  BY DEF QuitInv, NoPanic, GracefulQuitDropsNothing, QuitForced
<1> QED BY <1>1, <1>2, <1>3, <1>4, <1>5

\* A request is counted; the first one keeps the mutex to stop a timer that runs.
LEMMA OnNewConnectionStep == ASSUME Inv, NEW r \in Requests, OnNewConnection(r) PROVE Inv'
<1> USE Constants DEF Inv, OnNewConnection
<1>0. PICK st \in {"active", "sendStop"} : stream' = [stream EXCEPT ![r] = st]
  OBVIOUS
<1>1. /\ stream[r] = "lockNew" /\ stream'[r] = st /\ mu = NoOne
      /\ \A q \in Requests : q # r => stream'[q] = stream[q]
      /\ currentRequests \in Nat /\ currentRequests' = currentRequests + 1
      /\ st = "sendStop" => currentRequests = 0 /\ mu' = r
      /\ st = "active" => currentRequests > 0 /\ mu' = NoOne
  BY <1>0 DEF TypeOK
<1>2. CountInv' /\ currentRequests' \in 0..Cardinality(Requests)
  <2>1. Cardinality(Active') = Cardinality(Active) + 1
    BY <1>0, <1>1, StreamCount
  <2>2. CountInv'
    BY <1>1, <2>1 DEF CountInv
  <2>3. Active' \subseteq Requests
    BY DEF Active
  <2>4. Cardinality(Active') \in Nat /\ Cardinality(Active') <= Cardinality(Requests)
    BY <2>3, FS_Subset, FS_CardinalityType
  <2> QED BY <2>2, <2>4 DEF CountInv
<1>3. TypeOK'
  <2>1. stream' \in [Requests -> {"out", "lockNew", "sendStop", "active", "lockDone", "sendStart", "gone"}]
    BY <1>0 DEF TypeOK
  <2>2. mu' \in Requests \cup {NoOne, "config"}
    BY <1>1
  <2> QED BY <1>2, <2>1, <2>2 DEF TypeOK
<1>4. MutexInv' /\ BuildInv'
  BY <1>1 DEF MutexInv, BuildInv
<1>5. TimerInv'
  BY <1>1 DEF TimerInv, MutexInv
<1>6. QuitInv'
  BY DEF QuitInv, NoPanic, GracefulQuitDropsNothing, QuitForced
<1> QED BY <1>2, <1>3, <1>4, <1>5, <1>6

\* A request is over; the last one keeps the mutex to start a timer that is stopped.
LEMMA OnDoneConnectionStep == ASSUME Inv, NEW r \in Requests, OnDoneConnection(r) PROVE Inv'
<1> USE Constants DEF Inv, OnDoneConnection
<1>0. PICK st \in {"gone", "sendStart"} : stream' = [stream EXCEPT ![r] = st]
  OBVIOUS
<1>1. /\ stream[r] = "lockDone" /\ stream'[r] = st /\ mu = NoOne
      /\ \A q \in Requests : q # r => stream'[q] = stream[q]
      /\ currentRequests \in Nat /\ currentRequests' = currentRequests - 1
      /\ st = "sendStart" => ~(currentRequests' > 0) /\ mu' = r
      /\ st = "gone" => currentRequests' > 0 /\ mu' = NoOne
  BY <1>0 DEF TypeOK
<1>2. CountInv' /\ currentRequests' \in 0..Cardinality(Requests) /\ currentRequests > 0
  <2>1. Cardinality(Active') = Cardinality(Active) - 1
    BY <1>0, <1>1, StreamCount
  <2>2. CountInv'
    BY <1>1, <2>1 DEF CountInv
  <2>3. Active' \subseteq Requests
    BY DEF Active
  <2>4. Cardinality(Active') \in Nat /\ Cardinality(Active') <= Cardinality(Requests)
    BY <2>3, FS_Subset, FS_CardinalityType
  <2> QED BY <1>1, <2>2, <2>4 DEF CountInv
<1>3. TypeOK'
  <2>1. stream' \in [Requests -> {"out", "lockNew", "sendStop", "active", "lockDone", "sendStart", "gone"}]
    BY <1>0 DEF TypeOK
  <2>2. mu' \in Requests \cup {NoOne, "config"}
    BY <1>1
  <2> QED BY <1>2, <2>1, <2>2 DEF TypeOK
<1>4. MutexInv' /\ BuildInv'
  BY <1>1 DEF MutexInv, BuildInv
<1>5. TimerInv'
  BY <1>1, <1>2 DEF TimerInv, MutexInv
<1>6. QuitInv'
  BY DEF QuitInv, NoPanic, GracefulQuitDropsNothing, QuitForced
<1> QED BY <1>2, <1>3, <1>4, <1>5, <1>6

\* The send ends and the mutex is released: the timer is where the count wants it.
LEMMA StreamSendStep == ASSUME Inv, NEW r \in Requests, StreamSend(r) PROVE Inv'
<1> USE Constants DEF Inv, StreamSend
<1>0. PICK st \in {"gone", "active"}, op \in {"stopTimeout", "startTimeout"} :
        /\ stream' = [stream EXCEPT ![r] = st] /\ sendOrTimeout(op)
        /\ st = "active" => stream[r] = "sendStop" /\ op = "stopTimeout"
        /\ st = "gone" => stream[r] = "sendStart" /\ op = "startTimeout"
  OBVIOUS
<1>1. /\ stream'[r] = st /\ mu = r /\ mu' = NoOne
      /\ \A q \in Requests : q # r => stream'[q] = stream[q] /\ stream[q] \notin {"sendStop", "sendStart"}
      /\ config \notin {"sendStop", "sendStart"}
  BY <1>0 DEF TypeOK, MutexInv
<1>2. /\ ~crashed' /\ crashed' \in BOOLEAN
      /\ keepAlive' \in {keepAlive, "drain"} /\ timer' \in Timeouts \cup {"stopped"}
      /\ keepAlive' = "select" /\ st = "active" => keepAlive = "select" /\ timer' = "stopped"
      /\ keepAlive' = "select" /\ st = "gone" => keepAlive = "select" /\ timer' = timeout
  BY <1>0, SendStep
<1>3. CountInv'
  BY <1>0, StreamCount DEF CountInv
<1>4. TypeOK'
  <2>1. stream' \in [Requests -> {"out", "lockNew", "sendStop", "active", "lockDone", "sendStart", "gone"}]
    BY <1>0 DEF TypeOK
  <2> QED BY <1>1, <1>2, <2>1 DEF TypeOK
<1>5. MutexInv' /\ BuildInv'
  BY <1>0, <1>1 DEF MutexInv, BuildInv
<1>6. TimerInv'
  BY <1>0, <1>1, <1>2 DEF TimerInv, TypeOK
<1>7. QuitInv'
  BY <1>2 DEF QuitInv, NoPanic, GracefulQuitDropsNothing, QuitForced, Running
<1> QED BY <1>3, <1>4, <1>5, <1>6, <1>7

-----------------------------------------------------------------------------
(* The configuration watcher. *)

\* The configuration changed: nothing is touched yet.
LEMMA ReloadStep == ASSUME Inv, NEW t \in NewTimeouts, Reload(t) PROVE Inv'
<1> USE Constants DEF Inv, Reload
<1>1. TypeOK'
  <2>1. reloads' \in 0..MaxReloads /\ newTimeout' \in Timeouts
    BY DEF TypeOK
  <2>2. timeoutChanged' \in BOOLEAN
    OBVIOUS
  <2> QED BY <2>1, <2>2 DEF TypeOK
<1>2. CountInv' /\ MutexInv' /\ BuildInv'
  BY DEF CountInv, Active, MutexInv, BuildInv
<1>3. TimerInv'
  BY DEF TimerInv, MutexInv
<1>4. QuitInv'
  BY DEF QuitInv, NoPanic, GracefulQuitDropsNothing, QuitForced, Running
<1> QED BY <1>1, <1>2, <1>3, <1>4

\* UseSocket: only the send on a closed channel of listeners panics.
LEMMA UseSocketStep ==
  ASSUME Inv, UseSocketListen \/ UseSocketPut \/ UseSocketStop \/ UseSocketStopped PROVE Inv'
<1> USE Constants DEF Inv
<1>0. /\ UNCHANGED <<useSocketActivation, lisClosed, socketAddr, grpcserver, shutdown, currentRequests,
                     operations, stopping, listen, serving, stream, streamOn, quit, force, quitBy,
                     timeout, timer, mu, keepAlive, newTimeout, timeoutChanged, reloads>>
      /\ config \in {"listen", "put", "stop", "stopWait"}
      /\ config' \in {"put", "stop", "stopWait", "lock", "watch"}
      /\ ~crashed
  BY DEF UseSocketListen, UseSocketPut, UseSocketStop, UseSocketStopped, AfterUseSocket, Running
<1>1. /\ lis' \in {<<>>} \cup {<<l>> : l \in Listeners} /\ newLis' \in Listeners
      /\ configStops' \in Listeners \cup {0}
      /\ server' \in [Listeners -> {"none", "new", "serving", "draining", "stopped"}]
      /\ crashed' \in BOOLEAN /\ dropped' \in SUBSET Requests
      /\ UNCHANGED <<crashed, dropped>> \/ (crashed' /\ config' = "put")
  <2>1. CASE UseSocketListen
    BY <2>1 DEF UseSocketListen, TypeOK
  <2>2. CASE UseSocketPut
    <3>1. UNION {Live(s) : s \in Listeners} \subseteq Requests
      BY DEF Live
    <3> QED BY <2>2, <3>1 DEF UseSocketPut, TypeOK
  <2>3. CASE UseSocketStop
    BY <2>3 DEF UseSocketStop, GracefulStop, TypeOK
  <2>4. CASE UseSocketStopped
    BY <2>4 DEF UseSocketStopped, TypeOK
  <2> QED BY <2>1, <2>2, <2>3, <2>4
<1>2. TypeOK'
  BY <1>0, <1>1 DEF TypeOK
<1>3. CountInv' /\ MutexInv' /\ BuildInv'
  BY <1>0 DEF CountInv, Active, MutexInv, BuildInv
<1>4. TimerInv'
  BY <1>0 DEF TimerInv
<1>5. QuitInv'
  BY <1>0, <1>1 DEF QuitInv, NoPanic, GracefulQuitDropsNothing, QuitForced
<1> QED BY <1>2, <1>3, <1>4, <1>5

\* ChangeTimeout stops a timer and starts it with the mutex held all along.
LEMMA ChangeTimeoutStep == ASSUME Inv, ChangeTimeoutLock \/ ChangeTimeoutSend PROVE Inv'
<1> USE Constants DEF Inv
<1>1. CASE ChangeTimeoutLock
  <2> USE <1>1 DEF ChangeTimeoutLock
  <2>1. TypeOK'
    BY DEF TypeOK
  <2>2. CountInv' /\ MutexInv' /\ BuildInv'
    BY DEF CountInv, Active, MutexInv, BuildInv
  <2>3. TimerInv'
    BY DEF TimerInv, MutexInv
  <2>4. QuitInv'
    BY DEF QuitInv, NoPanic, GracefulQuitDropsNothing, QuitForced, Running
  <2> QED BY <2>1, <2>2, <2>3, <2>4
<1>2. CASE ChangeTimeoutSend
  <2> USE <1>2 DEF ChangeTimeoutSend
  <2>0. PICK op \in {"stopTimeout", "startTimeout"} :
          /\ sendOrTimeout(op)
          /\ op = "stopTimeout" => config = "sendStop" /\ config' = "sendStart" /\ mu' = mu /\ timeout' = newTimeout
          /\ op = "startTimeout" => config = "sendStart" /\ config' = "watch" /\ mu' = NoOne /\ timeout' = timeout
    OBVIOUS
  <2>1. mu = "config" /\ \A r \in Requests : stream[r] \notin {"sendStop", "sendStart"}
    BY <2>0 DEF MutexInv
  <2>2. /\ ~crashed /\ ~crashed' /\ crashed' \in BOOLEAN
        /\ keepAlive' \in {keepAlive, "drain"} /\ timer' \in Timeouts \cup {"stopped"}
        /\ keepAlive' = "select" /\ op = "stopTimeout"
             => keepAlive = "select" /\ timer # "stopped" /\ timer' = "stopped"
        /\ keepAlive' = "select" /\ op = "startTimeout" => keepAlive = "select" /\ timer' = timeout
    BY <2>0, SendStep DEF Running
  <2>3. TypeOK'
    <3>1. timeout' \in Timeouts /\ mu' \in Requests \cup {NoOne, "config"} /\ config' \in {"sendStart", "watch"}
      BY <2>0, <2>1 DEF TypeOK
    <3> QED BY <2>2, <3>1 DEF TypeOK
  <2>4. CountInv' /\ BuildInv'
    BY DEF CountInv, Active, BuildInv
  <2>5. MutexInv'
    BY <2>0, <2>1 DEF MutexInv
  <2>6. TimerInv'
    BY <2>0, <2>1, <2>2 DEF TimerInv, TypeOK
  <2>7. QuitInv'
    BY <2>0, <2>2 DEF QuitInv, NoPanic, GracefulQuitDropsNothing, QuitForced
  <2> QED BY <2>3, <2>4, <2>5, <2>6, <2>7
<1> QED BY <1>1, <1>2

-----------------------------------------------------------------------------
(* The theorems. *)

\* Every step of every goroutine keeps the invariant.
LEMMA NextInv == Inv /\ [Next]_vars => Inv'
<1> SUFFICES ASSUME Inv, [Next]_vars PROVE Inv' OBVIOUS
<1>1. CASE Next
  BY <1>1, ListenStepStep, LoopStepStep, UseSocketStep, ChangeTimeoutStep, IdleExpiredStep, DrainedStep,
     NewStreamStep, OnNewConnectionStep, HandlerReturnsStep, OnDoneConnectionStep, StreamSendStep,
     QuitOnceStep, QuitSendStep, CallQuitStep, ReloadStep
     DEF Next, ConfigStep, StreamStep, QuitStep
<1>2. CASE UNCHANGED vars
  BY <1>2 DEF vars, Inv, TypeOK, CountInv, Active, MutexInv, TimerInv, QuitInv, NoPanic,
     GracefulQuitDropsNothing, QuitForced, BuildInv
<1> QED BY <1>1, <1>2

\* The invariant holds of every state of the daemon.
LEMMA Invariance == Spec => []Inv
  BY InitInv, NextInv, PTL DEF Spec

\* The idler: whenever the loop listens and nobody updates the idler, the timer runs
\* exactly when no request is active, for any number of overlapping requests and reloads.
THEOREM TimerFollowsRequests == Spec => []TimerTracksRequests
<1>1. Inv => TimerTracksRequests
  BY DEF Inv, TimerInv, TimerTracksRequests
<1> QED BY <1>1, Invariance, PTL

\* Quit and keepAlive: no goroutine meets a closed channel but UseSocket, and a graceful
\* quit drops no request, whatever quits and requests follow it.
THEOREM QuitSafety == Spec => []QuitsAreSafe
<1>1. Inv => QuitsAreSafe
  BY DEF Inv, QuitInv, QuitsAreSafe
<1> QED BY <1>1, Invariance, PTL
=============================================================================
