----------------------------- MODULE LogStream -----------------------------
(***************************************************************************)
(* The logs of the daemon (internal/grpc/logstreamer): each message goes   *)
(* to the daemon's own log, to the client of the request and to the        *)
(* listeners of 'adsysctl service cat'.  The caller is found only if one   *)
(* of them asks for it, which is read before the message is sent.          *)
(***************************************************************************)
EXTENDS Naturals

CONSTANTS
  Cats,           \* the listeners
  MaxLogs         \* bound: messages logged

VARIABLES
  seen,           \* the listeners that have come
  fw,             \* the listeners registered
  showCaller,     \* one of them asked for callers
  wantsCaller,    \* those that ask for callers
  logger,         \* a request that logs
  logs            \* messages logged so far

vars == <<seen, fw, showCaller, wantsCaller, logger, logs>>

TypeOK ==
  /\ seen \subseteq Cats /\ fw \subseteq seen /\ wantsCaller \subseteq Cats /\ showCaller \in BOOLEAN
  /\ logger \in [stage : {"idle", "local", "forward"}, caller : BOOLEAN, since : SUBSET Cats]
  /\ logs \in 0..MaxLogs

Init ==
  /\ seen = {} /\ fw = {} /\ showCaller = FALSE /\ wantsCaller \in SUBSET Cats
  /\ logger = [stage |-> "idle", caller |-> FALSE, since |-> {}] /\ logs = 0

\* AddStreamToForward.
AddStreamToForward(c) ==
  /\ c \notin seen /\ seen' = seen \cup {c}
  /\ fw' = fw \cup {c}
  /\ showCaller' = (showCaller \/ c \in wantsCaller)
  /\ UNCHANGED <<wantsCaller, logger, logs>>

\* Mutant: the last one to leave decides.
RemainingNone(c) == FALSE
Remaining(c) == (fw \ {c}) \cap wantsCaller # {}

\* The function AddStreamToForward returns.
Disconnect(c) ==
  /\ c \in fw /\ fw' = fw \ {c}
  /\ showCaller' = Remaining(c)
  /\ UNCHANGED <<seen, wantsCaller, logger, logs>>

\* log: the caller is found if the daemon, the client of the request (own) or a
\* listener wants it; since is who was listening then.
LogBegin(own) ==
  /\ logger.stage = "idle" /\ logs < MaxLogs /\ logs' = logs + 1
  /\ logger' = [stage |-> "local", caller |-> own \/ showCaller, since |-> fw]
  /\ UNCHANGED <<seen, fw, showCaller, wantsCaller>>

\* logLocallyMaybeRemote: the daemon's own log, then the client of the request.  When
\* that client is gone the listeners are skipped.
LogSend(gone) ==
  /\ logger.stage = "local"
  /\ logger' = [logger EXCEPT !.stage = IF gone THEN "idle" ELSE "forward"]
  /\ UNCHANGED <<seen, fw, showCaller, wantsCaller, logs>>

\* logLocallyMaybeRemote: the listeners.
LogForward ==
  /\ logger.stage = "forward" /\ logger' = [logger EXCEPT !.stage = "idle"]
  /\ UNCHANGED <<seen, fw, showCaller, wantsCaller, logs>>

Next ==
  \/ \E c \in Cats : AddStreamToForward(c) \/ Disconnect(c)
  \/ \E b \in BOOLEAN : LogBegin(b) \/ LogSend(b)
  \/ LogForward

Spec == Init /\ [][Next]_vars

(* forwarders.go: a listener that asks for callers gets the caller of each message   *)
(* whose logging began while it listened, however the others come and go.            *)
CallersReachListeners ==
  logger.stage = "forward" => (fw \cap wantsCaller \cap logger.since # {} => logger.caller)
=============================================================================
