------------------------------ MODULE Request ------------------------------
(***************************************************************************)
(* A command of adsysctl from its arguments to its exit, and the handler   *)
(* of the daemon that serves it.                                           *)
(*                                                                         *)
(* client: cmd/adsysd/client, internal/grpc/{logstreamer,contextidler}     *)
(* server: internal/adsysservice, internal/authorizer                      *)
(*                                                                         *)
(* The handler streams its logs to the client ahead of its answer.  The    *)
(* client cancels a call on which nothing arrives for Timeout, and tells   *)
(* its own timeout from an interruption by the user by the state of its    *)
(* timer when the call fails.                                              *)
(***************************************************************************)
EXTENDS Naturals, Sequences, FiniteSets

CONSTANTS
  Commands,       \* the commands to run: kind, machine, all, user, bad, force
  Users,          \* the names of accounts other than root
  Uid,            \* the uid of each account; two names may be of one account
  Host,           \* the name of the machine, which may also be an account
  Qualified,      \* the names with a domain
  WithDomain,     \* what a name without one becomes in the default domain
  Active, Cached, \* the users with a ticket, and those with cached policies
  Timeout,        \* ticks without a message before a client gives up
  MaxLogs         \* bound: messages a handler logs

ASSUME RequestAssumption ==
  /\ Timeout \in Nat \ {0} /\ MaxLogs \in Nat /\ Active \cup Cached \subseteq Users /\ "root" \notin Users
  /\ Uid \in [Users \cup {"root"} -> Nat] /\ Uid["root"] = 0

VARIABLES
  cmd, caller, domain,        \* the command, who runs it, a default domain is configured
  cli, exit, got,             \* the client, its exit, the answers it received
  ctx, interrupted,           \* the context of the call, cancelled by the user
  timer, age, guard,          \* the idle timer, its ticks, the goroutine that waits for it
  rearmed,                    \* the timer was reset after it had fired
  wire,                       \* the messages to the client
  srv, err, pending, asked,   \* the handler, its error, the users it still updates, the granted action
  updated, shown, stopped,    \* what it did
  logs

vars == <<cmd, caller, domain, cli, exit, got, ctx, interrupted, timer, age, guard, rearmed, wire,
          srv, err, pending, asked, updated, shown, stopped, logs>>
asking == <<cmd, caller, domain>>
client == <<cli, exit, got, ctx, interrupted, timer, age, guard, rearmed>>
done == <<updated, shown, stopped>>

Accounts == Users \cup {"root"}
Objects == ({"user"} \X Accounts) \cup ({"machine"} \X (Accounts \cup {Host}))

TypeOK ==
  /\ cmd \in Commands /\ caller \in Accounts /\ domain \in BOOLEAN
  /\ cli \in {"start", "recv", "ended"} /\ got \in 0..2
  /\ exit \in {"none", "ok", "usage", "error", "timeout"}
  /\ ctx \in {"live", "cancelled"} /\ interrupted \in BOOLEAN /\ rearmed \in BOOLEAN
  /\ timer \in {"armed", "fired", "stopped"} /\ age \in 0..Timeout
  /\ guard \in {"none", "waiting", "cancelling", "done"}
  /\ wire \in Seq({"log", "reply", "ok", "error", "unavailable"})
  /\ srv \in {"none", "normalize", "authorize", "machine", "list", "users", "serve", "ended"}
  /\ err \in BOOLEAN /\ pending \subseteq Accounts
  /\ asked \in {"none", "any", "self", "others", "manage"}
  /\ updated \subseteq Objects /\ shown \subseteq Objects /\ stopped \in BOOLEAN
  /\ logs \in 0..MaxLogs

Init ==
  /\ cmd \in Commands /\ caller \in Accounts /\ domain \in BOOLEAN
  /\ cli = "start" /\ exit = "none" /\ got = 0
  /\ ctx = "live" /\ interrupted = FALSE /\ rearmed = FALSE
  /\ timer = "stopped" /\ age = 0 /\ guard = "none"
  /\ wire = <<>> /\ srv = "none" /\ err = FALSE /\ pending = {} /\ asked = "none"
  /\ updated = {} /\ shown = {} /\ stopped = FALSE /\ logs = 0

IsUpdate == cmd.kind \in {"update", "purge"}
ForMachine == cmd.machine \/ (IsUpdate /\ cmd.all)

----------------------------------------------------------------------------
\* The client

\* update, purge: the options that exclude one another.
Incompatible ==
  \/ cmd.kind = "update" /\ cmd.all /\ (cmd.machine \/ cmd.user # "")
  \/ cmd.kind = "purge" /\ cmd.all /\ (cmd.machine \/ cmd.user # "")
  \/ IsUpdate /\ cmd.machine /\ cmd.user # ""

\* A command without a name is about the machine or about who runs it.
Name == IF cmd.user # "" THEN cmd.user ELSE IF cmd.machine THEN Host ELSE caller

Usage ==
  /\ cli = "start" /\ Incompatible
  /\ cli' = "ended" /\ exit' = "usage"
  /\ UNCHANGED <<asking, got, ctx, interrupted, timer, age, guard, rearmed, wire, srv, err, pending, asked, done, logs>>

\* The interceptors of the client, and the first log of the one of the server; or there
\* is no daemon.
Call ==
  /\ cli = "start" /\ ~Incompatible
  /\ cli' = "recv" /\ timer' = "armed" /\ guard' = "waiting"
  /\ \/ srv' = "normalize" /\ wire' = <<"log">>
     \/ srv' = "ended" /\ wire' = <<"unavailable">>
  /\ UNCHANGED <<asking, exit, got, ctx, interrupted, age, rearmed, err, pending, asked, done, logs>>

Tick ==
  /\ cli = "recv" /\ timer = "armed" /\ age < Timeout /\ age' = age + 1
  /\ UNCHANGED <<asking, cli, exit, got, ctx, interrupted, timer, guard, rearmed, wire, srv, err, pending, asked, done, logs>>

\* The goroutine of contextidler receives the expiry of the timer ...
TimerFires ==
  /\ guard = "waiting" /\ timer = "armed" /\ age = Timeout /\ cli = "recv"
  /\ timer' = "fired" /\ guard' = "cancelling"
  /\ UNCHANGED <<asking, cli, exit, got, ctx, interrupted, age, rearmed, wire, srv, err, pending, asked, done, logs>>

\* ... and cancels the call.
\* Mutant: it only reports it.
GuardCancelsNothing == guard = "cancelling" /\ guard' = "done" /\ UNCHANGED ctx
GuardCancels == guard = "cancelling" /\ guard' = "done" /\ ctx' = "cancelled"

Cancel ==
  /\ GuardCancels
  /\ UNCHANGED <<asking, cli, exit, got, interrupted, timer, age, rearmed, wire, srv, err, pending, asked, done, logs>>

\* Another cancellation ends the goroutine.
GuardEnds ==
  /\ guard = "waiting" /\ ctx = "cancelled" /\ guard' = "done"
  /\ UNCHANGED <<asking, cli, exit, got, ctx, interrupted, timer, age, rearmed, wire, srv, err, pending, asked, done, logs>>

\* Quit of the client, on a signal.
Interrupt ==
  /\ cli = "recv" /\ ctx' = "cancelled" /\ interrupted' = TRUE
  /\ UNCHANGED <<asking, cli, exit, got, timer, age, guard, rearmed, wire, srv, err, pending, asked, done, logs>>

\* RecvMsg of contextidler, a message: the timer starts again.
Rearm ==
  /\ timer' = "armed" /\ age' = 0
  /\ rearmed' = (rearmed \/ timer = "fired")

\* RecvMsg of logstreamer keeps the logs for itself, the others are the client's.
Recv ==
  /\ cli = "recv" /\ wire # <<>> /\ Head(wire) \in {"log", "reply"}
  /\ Rearm /\ wire' = Tail(wire)
  /\ got' = IF Head(wire) = "reply" THEN got + 1 ELSE got
  /\ UNCHANGED <<asking, cli, exit, ctx, interrupted, guard, srv, err, pending, asked, done, logs>>

\* RecvMsg of contextidler, an error: what a cancellation is depends on the timer.
\* Mutant: every cancellation is one of the user.
TranslateEOF(e) == IF e = "cancelled" THEN "eof" ELSE e
Translate(e) ==
  IF e # "cancelled" THEN e ELSE IF timer = "armed" THEN "eof" ELSE "deadline"

\* The commands, and grpcerror.Format: what the client makes of the end of the call.
ExitOf(e) ==
  CASE e \in {"ok", "eof"} -> "ok"
    [] e = "deadline" -> "timeout"
    [] e = "unavailable" /\ cmd.kind = "stop" /\ cmd.force -> "ok"
    [] OTHER -> "error"

RecvEnd ==
  /\ cli = "recv"
  /\ \E e \in {"ok", "error", "unavailable", "cancelled"} :
       /\ \/ e = "cancelled" /\ ctx = "cancelled"
          \/ wire # <<>> /\ e = Head(wire)
       /\ exit' = ExitOf(Translate(e))
  /\ cli' = "ended" /\ timer' = "stopped"
  /\ UNCHANGED <<asking, got, ctx, interrupted, age, guard, rearmed, wire, srv, err, pending, asked, done, logs>>

----------------------------------------------------------------------------
\* The handler

Return(e) ==
  /\ srv' = "ended" /\ err' = e
  /\ wire' = Append(wire, IF e THEN "error" ELSE "ok")

\* Any step of the handler may log, which the client receives.
ServerLog ==
  /\ srv \notin {"none", "ended"} /\ logs < MaxLogs
  /\ logs' = logs + 1 /\ wire' = Append(wire, "log")
  /\ UNCHANGED <<asking, client, srv, err, pending, asked, done>>

\* NormalizeTargetName: a user without a domain gets the default one, if there is one,
\* and so becomes another account than a local one of that name.
BadName ==
  ~ForMachine /\ cmd.kind \in {"update", "purge", "applied"} /\ (cmd.bad \/ (Name \notin Qualified /\ ~domain))
Target == IF ForMachine \/ Name \in Qualified THEN Name ELSE WithDomain[Name]

Normalize ==
  /\ srv = "normalize"
  /\ IF BadName THEN Return(TRUE) ELSE srv' = "authorize" /\ UNCHANGED <<err, wire>>
  /\ UNCHANGED <<asking, client, pending, asked, done, logs>>

\* UpdatePolicy, DumpPolicies: the account the authorisation is about.
\* Mutant: the machine is authorised by its name.
OnUserByName == Target
OnUser == IF IsUpdate /\ ForMachine THEN "root" ELSE Target

\* The polkit action; "any" needs no authorisation.
ActionID ==
  CASE cmd.kind = "stop" -> "manage"
    [] cmd.kind = "info" \/ (cmd.kind = "applied" /\ cmd.machine /\ Target = Host) -> "any"
    [] OTHER -> IF OnUser \in Accounts /\ Uid[OnUser] = Uid[caller] THEN "self" ELSE "others"

\* IsAllowedFromContext: the account must exist; root is always allowed; otherwise
\* polkit answers.  A client process that is gone, or polkit out of reach, is a refusal.
IsAllowed(answer) ==
  /\ ActionID \in {"self", "others"} => OnUser \in Accounts
  /\ Uid[caller] = 0 \/ ActionID = "any" \/ answer

AfterAuthorize == IF IsUpdate THEN (IF ForMachine THEN "machine" ELSE "users") ELSE "serve"

Authorize ==
  /\ srv = "authorize"
  /\ \E answer \in BOOLEAN :
       IF IsAllowed(answer)
         THEN /\ srv' = AfterAuthorize /\ asked' = ActionID
              /\ pending' = IF AfterAuthorize = "users" THEN {Target} ELSE {}
              /\ UNCHANGED <<err, wire>>
         ELSE Return(TRUE) /\ UNCHANGED <<asked, pending>>
  /\ UNCHANGED <<asking, client, done, logs>>

\* UpdatePolicy: the machine first; its error is kept for the end.
UpdateMachine ==
  /\ srv = "machine"
  /\ \E ok \in BOOLEAN :
       /\ updated' = IF ok THEN updated \cup {<<"machine", Host>>} ELSE updated
       /\ IF cmd.all THEN srv' = "list" /\ err' = ~ok /\ UNCHANGED wire ELSE Return(~ok)
  /\ UNCHANGED <<asking, client, pending, asked, shown, stopped, logs>>

\* ListUsers: the users with a ticket for an update, with a cache for a purge.
ListUsers ==
  /\ srv = "list"
  /\ \/ Return(TRUE) /\ UNCHANGED pending
     \/ /\ srv' = "users" /\ pending' = (IF cmd.kind = "purge" THEN Cached ELSE Active)
        /\ UNCHANGED <<err, wire>>
  /\ UNCHANGED <<asking, client, asked, done, logs>>

\* One goroutine per user; the first error of them is the one reported.
UpdateUser(u) ==
  /\ srv = "users" /\ u \in pending /\ pending' = pending \ {u}
  /\ \/ updated' = updated \cup {<<"user", u>>} /\ UNCHANGED err
     \/ err' = TRUE /\ UNCHANGED updated
  /\ UNCHANGED <<asking, client, wire, srv, asked, shown, stopped, logs>>

\* Wait, then the error of the users, else the one of the machine.
\* Mutant: the error of the machine is lost.
UsersErrorOnly == IF <<"machine", Host>> \in updated \/ ~cmd.all THEN err ELSE FALSE
UsersError == err

UpdateEnd ==
  /\ srv = "users" /\ pending = {} /\ Return(UsersError)
  /\ UNCHANGED <<asking, client, pending, asked, done, logs>>

\* The policies of an object, which may not be in the cache.
DumpPolicies ==
  /\ cmd.kind = "applied" /\ UNCHANGED stopped
  /\ \/ /\ wire' = wire \o <<"reply", "ok">> /\ UNCHANGED err
        /\ shown' = {<<IF cmd.machine THEN "machine" ELSE "user", Target>>}
     \/ Return(TRUE) /\ UNCHANGED shown

\* Status, and the requests for a document, a definition or a script of the daemon.
\* A definition may not exist.
Status ==
  /\ cmd.kind = "info" /\ UNCHANGED <<shown, stopped>>
  /\ \/ wire' = wire \o <<"reply", "ok">> /\ UNCHANGED err
     \/ Return(TRUE)

\* A forced stop may cut the call.
Stop ==
  /\ cmd.kind = "stop" /\ stopped' = TRUE /\ UNCHANGED <<shown, err>>
  /\ \/ wire' = Append(wire, "ok")
     \/ cmd.force /\ wire' = <<"unavailable">>

\* The other requests.
Serve ==
  /\ srv = "serve" /\ srv' = "ended"
  /\ DumpPolicies \/ Status \/ Stop
  /\ UNCHANGED <<asking, client, pending, asked, updated, logs>>

Server ==
  \/ ServerLog \/ Normalize \/ Authorize \/ UpdateMachine \/ ListUsers \/ UpdateEnd \/ Serve
  \/ \E u \in Accounts : UpdateUser(u)

Timing == Tick \/ TimerFires \/ Cancel \/ GuardEnds

Next == Usage \/ Call \/ Timing \/ Interrupt \/ Recv \/ RecvEnd \/ Server

Spec == Init /\ [][Next]_vars

----------------------------------------------------------------------------
\* All that a command asks for.
Fulfilled ==
  CASE IsUpdate /\ cmd.all ->
         {<<"machine", Host>>} \cup ({"user"} \X (IF cmd.kind = "purge" THEN Cached ELSE Active)) \subseteq updated
    [] IsUpdate /\ ~cmd.all -> <<IF cmd.machine THEN "machine" ELSE "user", Target>> \in updated
    [] cmd.kind = "stop" -> stopped \/ cmd.force
    [] OTHER -> got = 1

(* A command that exits with success did all it was asked to: the errors of the      *)
(* machine, of the list of users and of each user reach the client, and its own      *)
(* timeout is an error.  Excepted are a user who interrupts it, and a message that   *)
(* arrives as the timer expires: the timer is reset, and contextidler then takes its *)
(* own cancellation for the user's.                                                  *)
SuccessMeansDone == exit = "ok" => Fulfilled \/ interrupted \/ rearmed

(* Policies are changed or shown only to root or after polkit granted the action on  *)
(* that object: one's own user, or all others.  The machine is never one's own, even *)
(* for an account with its name, and neither is the account of the default domain    *)
(* that a local name becomes.                                                        *)
OnlyAuthorized ==
  /\ Uid[caller] # 0 =>
       /\ \A o \in updated : asked = "others" \/ (asked = "self" /\ o[1] = "user" /\ Uid[o[2]] = Uid[caller])
       /\ \A o \in shown : asked = "others" \/ (asked = "self" /\ Uid[o[2]] = Uid[caller]) \/ o = <<"machine", Host>>
       /\ stopped => asked = "manage"
  /\ exit = "usage" => updated = {} /\ shown = {} /\ ~stopped

(* A client with a timeout ends even if the daemon hangs.                            *)
ClientEnds == cli = "recv" ~> cli = "ended"
=============================================================================
