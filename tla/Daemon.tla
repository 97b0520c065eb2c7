------------------------------- MODULE Daemon -------------------------------
(***************************************************************************)
(* Package internal/daemon: the life of the gRPC daemon after New().  Five *)
(* kinds of goroutine meet here: Listen, the keepAlive loop that owns the  *)
(* idle timer, the gRPC streams that notify it, the callers of Quit, and   *)
(* the configuration watcher that changes the socket and the timeout.      *)
(* The operations channel is unbuffered: a send is a rendezvous with the   *)
(* loop.  Its 1 s timeout is taken to expire exactly when the loop is not  *)
(* back in its select, which in every such state is for good.              *)
(* Timers follow Go >= 1.23 (go.mod): Stop() is false only if the expiry   *)
(* has already been received or the timer already stopped.                 *)
(***************************************************************************)
EXTENDS Naturals, FiniteSets, Sequences

CONSTANTS
  Requests,      \* the gRPC streams clients open, one life each
  QuitCallers,   \* who may call Quit besides idling: "signal" and "client"
  InitTimeout,   \* the timeout New() is given: "zero", "finite" or "max"
  NewTimeouts,   \* the timeouts a configuration reload may switch to
  ReloadSocket,  \* whether a reload may change the socket
  MaxReloads,    \* bound: configuration reloads
  NoOne          \* the idler's mutex is free

Timeouts == {"zero", "finite", "max"}

ASSUME DaemonAssumption ==
  /\ QuitCallers \subseteq {"signal", "client"}
  /\ InitTimeout \in Timeouts /\ NewTimeouts \subseteq Timeouts
  /\ ReloadSocket \in BOOLEAN
  /\ MaxReloads \in Nat
  /\ IsFiniteSet(Requests)
  /\ NoOne \notin Requests \cup {"config"} /\ "config" \notin Requests

\* One listener for New() and one for each reload; a server for each listener.
Listeners == 1..(MaxReloads + 1)

Quitters == {"idle", "signal", "client"}

VARIABLES
  \* Daemon
  useSocketActivation, lis, lisClosed, socketAddr, grpcserver, shutdown,
  \* the gRPC servers (external): state of each one built so far
  server,
  \* idler
  timeout, timer, operations, currentRequests, mu,
  \* where each goroutine is
  listen, serving, keepAlive, stopping, stream, streamOn, quit, force, quitBy,
  config, newLis, newTimeout, timeoutChanged, configStops, reloads,
  \* history
  crashed, dropped

daemonVars == <<useSocketActivation, lis, lisClosed, socketAddr, grpcserver, shutdown>>
idlerVars == <<timeout, timer, operations, currentRequests, mu>>
loopVars == <<keepAlive, stopping>>
listenVars == <<listen, serving>>
streamVars == <<stream, streamOn>>
quitVars == <<quit, force, quitBy>>
configVars == <<config, newLis, newTimeout, timeoutChanged, configStops, reloads>>
historyVars == <<crashed, dropped>>
vars == <<daemonVars, server, idlerVars, loopVars, listenVars, streamVars,
          quitVars, configVars, historyVars>>

TypeOK ==
  /\ useSocketActivation \in BOOLEAN
  /\ lis \in {<<>>} \cup {<<l>> : l \in Listeners}
  /\ lisClosed \in BOOLEAN
  /\ socketAddr \in Listeners \cup {0}
  /\ grpcserver \in Listeners
  /\ shutdown \in {"free", "running", "done"}
  /\ server \in [Listeners -> {"none", "new", "serving", "draining", "stopped"}]
  /\ timeout \in Timeouts
  /\ timer \in Timeouts \cup {"stopped"}
  /\ operations \in {"open", "closed", "nil"}
  /\ currentRequests \in 0..Cardinality(Requests)
  /\ mu \in Requests \cup {NoOne, "config"}
  /\ listen \in {"notify", "first", "serve", "serving", "next", "build", "quit",
                 "returned", "failed"}
  /\ serving \in Listeners \cup {0}
  /\ keepAlive \in {"select", "drain", "stop", "stopWait", "close", "done"}
  /\ stopping \in Listeners \cup {0}
  /\ stream \in [Requests -> {"out", "lockNew", "sendStop", "active", "lockDone",
                              "sendStart", "gone"}]
  /\ streamOn \in [Requests -> Listeners \cup {0}]
  /\ quit \in [Quitters -> {"out", "once", "send", "done"}]
  /\ force \in [Quitters -> BOOLEAN]
  /\ quitBy \in Quitters \cup {NoOne}
  /\ config \in {"watch", "listen", "put", "stop", "stopWait", "lock", "sendStop", "sendStart"}
  /\ newLis \in Listeners
  /\ newTimeout \in Timeouts
  /\ timeoutChanged \in BOOLEAN
  /\ configStops \in Listeners \cup {0}
  /\ reloads \in 0..MaxReloads
  /\ crashed \in BOOLEAN
  /\ dropped \in SUBSET Requests

\* newIdler: a 0 duration means no timeout.
newIdler(t) == IF t = "zero" THEN "max" ELSE t

\* New() has returned: its listener, from systemd or from UseSocket, is in the
\* channel, the server is registered and keepAlive runs.
Init ==
  /\ useSocketActivation \in BOOLEAN
  /\ lis = <<1>> /\ lisClosed = FALSE
  /\ socketAddr = 0 /\ grpcserver = 1 /\ shutdown = "free"
  /\ server = [l \in Listeners |-> IF l = 1 THEN "new" ELSE "none"]
  /\ timeout = newIdler(InitTimeout) /\ timer = timeout
  /\ operations = "open" /\ currentRequests = 0 /\ mu = NoOne
  /\ listen = "notify" /\ serving = 0
  /\ keepAlive = "select" /\ stopping = 0
  /\ stream = [r \in Requests |-> "out"] /\ streamOn = [r \in Requests |-> 0]
  /\ quit = [q \in Quitters |-> "out"] /\ force = [q \in Quitters |-> q = "idle"]
  /\ quitBy = NoOne
  /\ config = "watch" /\ newLis = 1 /\ newTimeout = InitTimeout /\ timeoutChanged = FALSE
  /\ configStops = 0 /\ reloads = 0
  /\ crashed = FALSE /\ dropped = {}

\* The process is up: it ends when Listen returns or on a panic.
Running == listen \notin {"returned", "failed"} /\ ~crashed

-----------------------------------------------------------------------------
(* The gRPC server, as the daemon uses it. *)

Live(s) == {r \in Requests : streamOn[r] = s /\ stream[r] \notin {"out", "gone"}}

\* GracefulStop refuses new streams and returns once the server has stopped.
GracefulStop(s) ==
  server' = [server EXCEPT ![s] = CASE @ = "serving" -> "draining"
                                    [] @ = "new" -> "stopped"
                                    [] OTHER -> @]

\* Stop closes every connection at once.
ForceStop(s) ==
  /\ server' = [server EXCEPT ![s] = "stopped"]
  /\ dropped' = dropped \cup Live(s)

\* A draining server stops when its last stream has ended.
Drained(s) ==
  /\ Running
  /\ server[s] = "draining" /\ Live(s) = {}
  /\ server' = [server EXCEPT ![s] = "stopped"]
  /\ UNCHANGED <<daemonVars, idlerVars, loopVars, listenVars, streamVars, quitVars,
                 configVars, historyVars>>

-----------------------------------------------------------------------------
(* keepAlive. *)

\* The quit the loop received is the one of the caller that won shutdown.Do.
QuitForced == quitBy # NoOne /\ force[quitBy]

\* The idle timer expires while the loop is in its select: `go d.Quit(true)`.
IdleExpired ==
  /\ Running
  /\ keepAlive = "select" /\ timer \in {"zero", "finite"}
  /\ timer' = "stopped"
  /\ quit' = [quit EXCEPT !["idle"] = IF @ = "out" THEN "once" ELSE @]
  /\ UNCHANGED <<daemonVars, server, timeout, operations, currentRequests, mu, loopVars,
                 listenVars, streamVars, force, quitBy, configVars, historyVars>>

\* The loop takes a timer operation.  `if !timer.Stop() { <-timer.C }`: a timer
\* that is already stopped leaves the loop blocked in the receive, and as only
\* this loop resets the timer, no action leaves "drain".
Receive(op) ==
  CASE op = "stopTimeout" ->
         IF timer = "stopped" THEN keepAlive' = "drain" /\ UNCHANGED timer
                              ELSE timer' = "stopped" /\ UNCHANGED keepAlive
    [] op = "startTimeout" -> timer' = timeout /\ UNCHANGED keepAlive

\* sendOrTimeout: the loop takes the operation, or one second passes because it
\* is blocked or has ended.  A closed channel (not a nil one) panics.
sendOrTimeout(op) ==
  IF keepAlive = "select"
  THEN Receive(op) /\ UNCHANGED crashed
  ELSE crashed' = (operations = "closed") /\ UNCHANGED <<timer, keepAlive>>

\* Mutant: a graceful quit closes the connections.
LoopStopAlwaysForced ==
  /\ Running
  /\ keepAlive = "stop"
  /\ stopping' = grpcserver
  /\ ForceStop(grpcserver) /\ keepAlive' = "close"
  /\ UNCHANGED <<daemonVars, idlerVars, listenVars, streamVars, quitVars, configVars, crashed>>

\* d.stop(force) on the current server, called by the loop.
LoopStop ==
  /\ Running
  /\ keepAlive = "stop"
  /\ stopping' = grpcserver
  /\ IF QuitForced THEN ForceStop(grpcserver) /\ keepAlive' = "close"
               ELSE GracefulStop(grpcserver) /\ keepAlive' = "stopWait" /\ UNCHANGED dropped
  /\ UNCHANGED <<daemonVars, idlerVars, listenVars, streamVars, quitVars, configVars, crashed>>

LoopStopped ==
  /\ Running
  /\ keepAlive = "stopWait" /\ server[stopping] = "stopped"
  /\ keepAlive' = "close"
  /\ UNCHANGED <<daemonVars, server, idlerVars, stopping, listenVars, streamVars, quitVars,
                 configVars, historyVars>>

\* The loop has ended: close the channel and forget it, under the mutex.
LoopClose ==
  /\ Running
  /\ keepAlive = "close" /\ mu = NoOne
  /\ operations' = "nil" /\ keepAlive' = "done"
  /\ UNCHANGED <<daemonVars, server, timeout, timer, currentRequests, mu, stopping, listenVars,
                 streamVars, quitVars, configVars, historyVars>>

-----------------------------------------------------------------------------
(* The streams, through the connectionnotify interceptor. *)

StreamFrame == <<daemonVars, server, timeout, stopping, listenVars, quitVars, configVars, dropped>>

\* A client opens a stream on a server that accepts them.
NewStream(r) ==
  /\ Running
  /\ stream[r] = "out"
  /\ \E s \in Listeners : server[s] = "serving" /\ streamOn' = [streamOn EXCEPT ![r] = s]
  /\ stream' = [stream EXCEPT ![r] = "lockNew"]
  /\ UNCHANGED <<StreamFrame, timer, operations, currentRequests, mu, keepAlive, crashed>>

\* Mutant: the check is made for any request but the first.
OnNewConnectionSecond(r) ==
  /\ Running
  /\ stream[r] = "lockNew" /\ mu = NoOne
  /\ currentRequests' = currentRequests + 1
  /\ IF currentRequests' # 2
     THEN stream' = [stream EXCEPT ![r] = "active"] /\ UNCHANGED mu
     ELSE stream' = [stream EXCEPT ![r] = "sendStop"] /\ mu' = r
  /\ UNCHANGED <<StreamFrame, timer, operations, streamOn, keepAlive, crashed>>

\* OnNewConnection: only the first active request stops the timer, and it keeps
\* the mutex while it sends.
OnNewConnection(r) ==
  /\ Running
  /\ stream[r] = "lockNew" /\ mu = NoOne
  /\ currentRequests' = currentRequests + 1
  /\ IF currentRequests' # 1
     THEN stream' = [stream EXCEPT ![r] = "active"] /\ UNCHANGED mu
     ELSE stream' = [stream EXCEPT ![r] = "sendStop"] /\ mu' = r
  /\ UNCHANGED <<StreamFrame, timer, operations, streamOn, keepAlive, crashed>>

\* The handler returns.
HandlerReturns(r) ==
  /\ Running
  /\ stream[r] = "active"
  /\ stream' = [stream EXCEPT ![r] = "lockDone"]
  /\ UNCHANGED <<StreamFrame, timer, operations, currentRequests, mu, streamOn, keepAlive, crashed>>

\* OnDoneConnection: the last active request restarts the timer.
OnDoneConnection(r) ==
  /\ Running
  /\ stream[r] = "lockDone" /\ mu = NoOne
  /\ currentRequests' = currentRequests - 1
  /\ IF currentRequests' > 0
     THEN stream' = [stream EXCEPT ![r] = "gone"] /\ UNCHANGED mu
     ELSE stream' = [stream EXCEPT ![r] = "sendStart"] /\ mu' = r
  /\ UNCHANGED <<StreamFrame, timer, operations, streamOn, keepAlive, crashed>>

\* The send made under the mutex ends, and the deferred unlock with it.
StreamSend(r) ==
  /\ Running
  /\ \/ /\ stream[r] = "sendStop" /\ sendOrTimeout("stopTimeout")
        /\ stream' = [stream EXCEPT ![r] = "active"]
     \/ /\ stream[r] = "sendStart" /\ sendOrTimeout("startTimeout")
        /\ stream' = [stream EXCEPT ![r] = "gone"]
  /\ mu' = NoOne
  /\ UNCHANGED <<StreamFrame, operations, currentRequests, streamOn>>

-----------------------------------------------------------------------------
(* Quit, from the signal handler, the Stop request and the idle timeout. *)

\* SIGINT/SIGTERM call Quit(false); the Stop request carries the client's force.
CallQuit(q, f) ==
  /\ Running
  /\ q \in QuitCallers /\ quit[q] = "out"
  /\ q = "signal" => ~f
  /\ q = "client" => server[grpcserver] = "serving"
  /\ quit' = [quit EXCEPT ![q] = "once"]
  /\ force' = [force EXCEPT ![q] = f]
  /\ UNCHANGED <<quitBy, daemonVars, server, idlerVars, loopVars, listenVars, streamVars, configVars,
                 historyVars>>

\* Mutant: Quit without its sync.Once.
QuitOnceEveryCall(q) ==
  /\ Running
  /\ quit[q] = "once"
  /\ shutdown' = "running" /\ lisClosed' = TRUE
  /\ crashed' = lisClosed
  /\ quit' = [quit EXCEPT ![q] = "send"] /\ quitBy' = q
  /\ UNCHANGED <<useSocketActivation, lis, socketAddr, grpcserver, server, idlerVars, loopVars,
                 listenVars, streamVars, force, configVars, dropped>>

\* Mutant: Quit leaves the channel of listeners open.
QuitOnceKeepsLis(q) ==
  /\ Running
  /\ quit[q] = "once"
  /\ \/ /\ shutdown = "free"
        /\ shutdown' = "running"
        /\ quit' = [quit EXCEPT ![q] = "send"] /\ quitBy' = q
     \/ /\ shutdown = "done"
        /\ quit' = [quit EXCEPT ![q] = "done"]
        /\ UNCHANGED <<shutdown, quitBy>>
  /\ UNCHANGED <<useSocketActivation, lis, lisClosed, socketAddr, grpcserver, server, idlerVars,
                 loopVars, listenVars, streamVars, force, configVars, historyVars>>

\* shutdown.Do: the first caller closes the channel of listeners, later callers
\* wait for it and do nothing.  Closing it twice would panic.
QuitOnce(q) ==
  /\ Running
  /\ quit[q] = "once"
  /\ \/ /\ shutdown = "free"
        /\ shutdown' = "running" /\ lisClosed' = TRUE
        /\ crashed' = lisClosed
        /\ quit' = [quit EXCEPT ![q] = "send"] /\ quitBy' = q
     \/ /\ shutdown = "done"
        /\ quit' = [quit EXCEPT ![q] = "done"]
        /\ UNCHANGED <<shutdown, lisClosed, crashed, quitBy>>
  /\ UNCHANGED <<useSocketActivation, lis, socketAddr, grpcserver, server, idlerVars, loopVars,
                 listenVars, streamVars, force, configVars, dropped>>

\* The quit operation reaches the loop, or is lost when the loop is blocked.
QuitSend(q) ==
  /\ Running
  /\ quit[q] = "send"
  /\ IF keepAlive = "select"
     THEN keepAlive' = "stop" /\ UNCHANGED crashed
     ELSE crashed' = (operations = "closed") /\ UNCHANGED keepAlive
  /\ shutdown' = "done"
  /\ quit' = [quit EXCEPT ![q] = "done"]
  /\ UNCHANGED <<quitBy, useSocketActivation, lis, lisClosed, socketAddr, grpcserver, server, idlerVars,
                 stopping, listenVars, streamVars, force, configVars, dropped>>

-----------------------------------------------------------------------------
(* Listen. *)

ListenFrame == <<useSocketActivation, lisClosed, shutdown, idlerVars, loopVars, streamVars,
                 quitVars, configVars, historyVars>>

\* The READY=1 notification, whose failure ends Listen.
ListenNotify ==
  /\ Running
  /\ listen = "notify"
  /\ listen' \in {"first", "failed"}
  /\ UNCHANGED <<ListenFrame, lis, socketAddr, grpcserver, server, serving>>

ListenFirst ==
  /\ Running
  /\ listen = "first" /\ lis # <<>>
  /\ serving' = Head(lis) /\ socketAddr' = Head(lis) /\ lis' = <<>>
  /\ listen' = "serve"
  /\ UNCHANGED <<ListenFrame, grpcserver, server>>

\* Serve: an already stopped server refuses to serve.
ListenServe ==
  /\ Running
  /\ listen = "serve"
  /\ IF server[grpcserver] = "new"
     THEN server' = [server EXCEPT ![grpcserver] = "serving"] /\ listen' = "serving"
     ELSE listen' = "failed" /\ UNCHANGED server
  /\ UNCHANGED <<ListenFrame, lis, socketAddr, grpcserver, serving>>

ListenServed ==
  /\ Running
  /\ listen = "serving" /\ server[grpcserver] = "stopped"
  /\ listen' = "next"
  /\ UNCHANGED <<ListenFrame, lis, socketAddr, grpcserver, server, serving>>

\* Another listener is waiting, or the channel is closed and empty.
ListenNext ==
  /\ Running
  /\ listen = "next"
  /\ \/ /\ lis # <<>>
        /\ serving' = Head(lis) /\ socketAddr' = Head(lis) /\ lis' = <<>>
        /\ listen' = "build"
     \/ /\ lis = <<>> /\ lisClosed
        /\ listen' = "quit"
        /\ UNCHANGED <<serving, socketAddr, lis>>
  /\ UNCHANGED <<ListenFrame, grpcserver, server>>

\* A new gRPC server is registered for the new listener.
ListenBuild ==
  /\ Running
  /\ listen = "build"
  /\ grpcserver' = serving
  /\ server' = [server EXCEPT ![serving] = "new"]
  /\ listen' = "serve"
  /\ UNCHANGED <<ListenFrame, lis, socketAddr, serving>>

\* serverQuit, then the end of the process.
ListenQuit ==
  /\ Running
  /\ listen = "quit" /\ listen' = "returned"
  /\ UNCHANGED <<ListenFrame, lis, socketAddr, grpcserver, server, serving>>

-----------------------------------------------------------------------------
(* The configuration watcher: UseSocket, then ChangeTimeout. *)

ConfigFrame == <<useSocketActivation, lisClosed, socketAddr, grpcserver, shutdown, currentRequests,
                 operations, stopping, listenVars, streamVars, quitVars>>

\* The configuration file changed its socket, its timeout or both.
Reload(t) ==
  /\ Running
  /\ config = "watch" /\ reloads < MaxReloads
  /\ reloads' = reloads + 1
  /\ newTimeout' = t /\ timeoutChanged' = (t # newTimeout)
  /\ \/ ReloadSocket /\ config' = "listen"
     \/ ~ReloadSocket /\ t # newTimeout /\ config' = "lock"
  /\ UNCHANGED <<ConfigFrame, lis, server, timeout, timer, mu, keepAlive, newLis, configStops,
                 historyVars>>

\* What follows UseSocket in the callback.
AfterUseSocket == IF timeoutChanged THEN "lock" ELSE "watch"

\* UseSocket is ignored under socket activation, or the new socket cannot be
\* listened on, or the listener is ready to be handed over.
UseSocketListen ==
  /\ Running
  /\ config = "listen"
  /\ \/ config' = AfterUseSocket /\ UNCHANGED newLis
     \/ ~useSocketActivation /\ config' = "put" /\ newLis' = reloads + 1
  /\ UNCHANGED <<ConfigFrame, lis, server, timeout, timer, mu, keepAlive, newTimeout,
                 timeoutChanged, configStops, reloads, historyVars>>

\* `d.lis <- lis`: blocks while the buffer is full, panics once it is closed.
UseSocketPut ==
  /\ Running
  /\ config = "put"
  /\ IF lisClosed
     THEN crashed' = TRUE /\ dropped' = dropped \cup UNION {Live(s) : s \in Listeners}
          /\ UNCHANGED <<lis, config>>
     ELSE lis = <<>> /\ lis' = <<newLis>> /\ config' = "stop" /\ UNCHANGED historyVars
  /\ UNCHANGED <<ConfigFrame, server, timeout, timer, mu, keepAlive, newLis, newTimeout,
                 timeoutChanged, configStops, reloads>>

\* Mutant: the previous server is left running.
UseSocketStopMissing ==
  /\ Running
  /\ config = "stop"
  /\ config' = AfterUseSocket
  /\ UNCHANGED <<ConfigFrame, lis, server, timeout, timer, mu, keepAlive, newLis, newTimeout,
                 timeoutChanged, configStops, reloads, historyVars>>

\* d.stop(false) on the server of the moment.
UseSocketStop ==
  /\ Running
  /\ config = "stop"
  /\ GracefulStop(grpcserver) /\ configStops' = grpcserver
  /\ config' = "stopWait"
  /\ UNCHANGED <<ConfigFrame, lis, timeout, timer, mu, keepAlive, newLis, newTimeout,
                 timeoutChanged, reloads, historyVars>>

UseSocketStopped ==
  /\ Running
  /\ config = "stopWait" /\ server[configStops] = "stopped"
  /\ config' = AfterUseSocket
  /\ UNCHANGED <<ConfigFrame, lis, server, timeout, timer, mu, keepAlive, newLis, newTimeout,
                 timeoutChanged, configStops, reloads, historyVars>>

\* ChangeTimeout takes the mutex for both of its sends.
ChangeTimeoutLock ==
  /\ Running
  /\ config = "lock" /\ mu = NoOne
  /\ mu' = "config" /\ config' = "sendStop"
  /\ UNCHANGED <<ConfigFrame, lis, server, timeout, timer, keepAlive, newLis, newTimeout,
                 timeoutChanged, configStops, reloads, historyVars>>

ChangeTimeoutSend ==
  /\ Running
  /\ \/ /\ config = "sendStop" /\ sendOrTimeout("stopTimeout")
        /\ timeout' = newTimeout /\ config' = "sendStart" /\ UNCHANGED mu
     \/ /\ config = "sendStart" /\ sendOrTimeout("startTimeout")
        /\ mu' = NoOne /\ config' = "watch" /\ UNCHANGED timeout
  /\ UNCHANGED <<ConfigFrame, lis, server, newLis, newTimeout, timeoutChanged, configStops,
                 reloads, dropped>>

-----------------------------------------------------------------------------
ListenStep == ListenNotify \/ ListenFirst \/ ListenServe \/ ListenServed
              \/ ListenNext \/ ListenBuild \/ ListenQuit
LoopStep == LoopStop \/ LoopStopped \/ LoopClose
StreamStep(r) == OnNewConnection(r) \/ HandlerReturns(r) \/ OnDoneConnection(r) \/ StreamSend(r)
QuitStep(q) == QuitOnce(q) \/ QuitSend(q)
ConfigStep == UseSocketListen \/ UseSocketPut \/ UseSocketStop \/ UseSocketStopped
              \/ ChangeTimeoutLock \/ ChangeTimeoutSend

Next ==
  \/ ListenStep \/ LoopStep \/ ConfigStep
  \/ IdleExpired
  \/ \E s \in Listeners : Drained(s)
  \/ \E r \in Requests : NewStream(r) \/ StreamStep(r)
  \/ \E q \in Quitters : QuitStep(q) \/ \E f \in BOOLEAN : CallQuit(q, f)
  \/ \E t \in NewTimeouts : Reload(t)

Spec == Init /\ [][Next]_vars

\* The scheduler runs every goroutine that can proceed, a handler eventually
\* returns, and a timer with a finite duration eventually expires.  Clients,
\* signals and the administrator are free to do nothing.
FairSpec ==
  /\ Spec
  /\ WF_vars(ListenStep)
  /\ WF_vars(LoopStep)
  /\ WF_vars(ConfigStep)
  /\ WF_vars(IdleExpired)
  /\ \A s \in Listeners : WF_vars(Drained(s))
  /\ \A r \in Requests : WF_vars(StreamStep(r))
  /\ \A q \in Quitters : WF_vars(QuitStep(q))

-----------------------------------------------------------------------------
\* Whenever the loop is listening, nobody is updating the idler and the daemon is
\* not already quitting for idleness, the idle timer runs exactly when no request is active: a
\* request in flight cannot be timed out, and an idle daemon does time out.
TimerTracksRequests ==
  (keepAlive = "select" /\ mu = NoOne /\ quit["idle"] = "out")
     => (timer = "stopped" <=> currentRequests > 0)

\* No goroutine sends on or closes a closed channel, whatever the order of the
\* Quit calls and of the last requests (daemon.go Quit, idler.go keepAlive), but
\* for UseSocket once Quit has closed the channel of listeners.
NoPanic == crashed => config = "put"

\* A graceful quit that is the first one asked for drops no request: neither a
\* later forced quit nor the idle timeout turns it into a forced one, and no
\* other step drops a request (but for the panic above).
GracefulQuitDropsNothing == dropped # {} /\ ~crashed => QuitForced

\* Quits and reloads are safe in any order: one channel operation on a closed channel
\* is the only panic, and the first quit decides whether requests are dropped.
QuitsAreSafe == TypeOK /\ NoPanic /\ GracefulQuitDropsNothing

\* Once Quit is called the server stops and the daemon ends, provided the requests
\* in flight end.
QuitStopsServer == quitBy # NoOne ~> ~Running

\* What the code does guarantee: a daemon asked to quit ends, unless keepAlive is
\* blocked for ever on a timer that had already fired or been stopped, or it has
\* stopped a server that a reload was replacing.
QuitStopsUndisturbedServer ==
  quitBy # NoOne ~> \/ ~Running
                    \/ keepAlive = "drain"
                    \/ keepAlive = "done" /\ serving # stopping

\* A new socket configured while the daemon is serving ends up being the one
\* served, unless the daemon is asked to quit or the process ends.
ReloadServesNewSocket ==
  \A l \in Listeners :
    (config = "put" /\ newLis = l /\ listen = "serving" /\ server[grpcserver] = "serving")
       ~> (socketAddr >= l \/ lisClosed \/ ~Running)

=============================================================================
