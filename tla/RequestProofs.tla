--------------------------- MODULE RequestProofs ---------------------------
(***************************************************************************)
(* Proofs about the requests of adsysctl, for any command, account, user   *)
(* with a ticket or a cache, timeout and number of logs: nothing is done   *)
(* for a caller who is not authorised for it, and a command that exits     *)
(* with success did what it was asked to.                                  *)
(***************************************************************************)
EXTENDS Requests, FiniteSetTheorems, TLAPS

\* The stages of a call on both sides.
CallInv ==
  /\ cli = "start" => srv = "none" /\ ctx = "live" /\ guard = "none" /\ wire = <<>>
  /\ cli # "ended" => exit = "none"
  /\ cli = "recv" => timer # "stopped"
  /\ exit = "usage" => srv = "none"
  /\ srv # "none" => ~Incompatible

\* A call cancelled by its own timeout has a timer that is not armed, unless it was
\* reset after it had fired.
TimeoutInv == guard = "cancelling" \/ (ctx = "cancelled" /\ ~interrupted) => timer # "armed" \/ rearmed

\* Nothing is done before the authorisation, and what is done after it is for the
\* action that was granted.
AuthInv ==
  /\ srv \in {"none", "normalize", "authorize"} => updated = {} /\ shown = {} /\ stopped = FALSE
  /\ srv \in {"machine", "list", "users", "serve"} => asked = ActionID
  /\ srv \in {"machine", "list", "users"} => IsUpdate
  /\ srv \in {"machine", "list"} => ForMachine
  /\ srv = "list" => cmd.all
  /\ srv = "users" => cmd.all \/ (~ForMachine /\ pending \subseteq {Target})
  /\ srv = "serve" => ~IsUpdate /\ (asked \in {"self", "others"} => Target \in Accounts)
  /\ OnlyAuthorized

\* The users of an update or a purge of all.
AllUsers == IF cmd.kind = "purge" THEN Cached ELSE Active

\* An update without an error so far has done all but what is pending.
UpdateInv ==
  /\ srv = "list" /\ ~err => <<"machine", Host>> \in updated
  /\ srv = "users" /\ ~err /\ cmd.all =>
       <<"machine", Host>> \in updated /\ \A u \in AllUsers \ pending : <<"user", u>> \in updated
  /\ srv = "users" /\ ~err /\ ~cmd.all => Target \in pending \/ <<"user", Target>> \in updated

\* The command got what it asked for, or has still to receive the reply before message i.
Answered(i) == Fulfilled \/ (~IsUpdate /\ cmd.kind # "stop" /\ i > 1 /\ wire[i - 1] = "reply")

\* The messages to the client: logs, then at most one reply, and an end that is
\* "ok" only if everything was done.
WireInv ==
  /\ srv # "ended" => got = 0 /\ \A i \in DOMAIN wire : wire[i] = "log"
  /\ \A i \in DOMAIN wire : wire[i] = "reply" => got = 0 /\ i + 1 = Len(wire)
  /\ \A i \in DOMAIN wire : wire[i] = "ok" => Answered(i)

Inv == TypeOK /\ CallInv /\ TimeoutInv /\ AuthInv /\ UpdateInv /\ WireInv /\ SuccessMeansDone

Messages == {"log", "reply", "ok", "error", "unavailable"}

\* The command does not change, nor what it means.
LEMMA AskingFixed ==
  ASSUME UNCHANGED asking
  PROVE  /\ cmd' = cmd /\ caller' = caller /\ domain' = domain
         /\ IsUpdate' <=> IsUpdate
         /\ ForMachine' <=> ForMachine
         /\ Incompatible' <=> Incompatible
         /\ Target' = Target /\ ActionID' = ActionID /\ AllUsers' = AllUsers
  BY DEF asking, IsUpdate, ForMachine, Incompatible, Name, Target, OnUser, ActionID, AllUsers

\* What was asked for stays done.
LEMMA FulfilledStays ==
  ASSUME UNCHANGED asking, updated \subseteq updated', stopped => stopped', got = 1 => got' = 1, Fulfilled
  PROVE  Fulfilled'
  BY AskingFixed DEF Fulfilled, AllUsers

\* No request has been made yet.
LEMMA InitInv == Init => Inv
<1> SUFFICES ASSUME Init PROVE Inv
  OBVIOUS
<1> USE RequestAssumption DEF Init
<1>1. TypeOK
  <2>1. {interrupted, rearmed, err, stopped} \subseteq BOOLEAN
    OBVIOUS
  <2> QED
    BY <2>1 DEF TypeOK
<1>2. CallInv /\ TimeoutInv /\ AuthInv /\ UpdateInv
  BY DEF CallInv, TimeoutInv, AuthInv, UpdateInv, OnlyAuthorized
<1>3. WireInv /\ SuccessMeansDone
  BY DEF WireInv, SuccessMeansDone
<1> QED
  BY <1>1, <1>2, <1>3 DEF Inv

\* A step of the client that takes no message leaves what the handler did alone.
LEMMA HandlerKept ==
  ASSUME AuthInv, UpdateInv, WireInv,
         UNCHANGED <<asking, got, wire, srv, err, pending, asked, done>>,
         exit' = "usage" => exit = "usage" \/ srv = "none"
  PROVE  AuthInv' /\ UpdateInv' /\ WireInv' /\ (Fulfilled' <=> Fulfilled)
<1> USE AskingFixed DEF done
<1>1. Fulfilled' <=> Fulfilled
  BY DEF Fulfilled
<1>2. AuthInv'
  BY DEF AuthInv, OnlyAuthorized
<1>3. UpdateInv'
  BY DEF UpdateInv
<1>4. WireInv'
  BY <1>1 DEF WireInv, Answered
<1> QED
  BY <1>1, <1>2, <1>3, <1>4

\* Usage, Tick, TimerFires, Cancel, GuardEnds, Interrupt: the client alone.
LEMMA ClientInv ==
  ASSUME Inv, Usage \/ Timing \/ Interrupt
  PROVE  Inv'
<1> USE RequestAssumption DEF Inv, Usage, Timing, Tick, TimerFires, Cancel, GuardCancels, GuardEnds, Interrupt
<1>0. UNCHANGED <<asking, got, wire, srv, err, pending, asked, done>> /\ (exit' = "usage" => exit = "usage" \/ srv = "none")
  BY DEF CallInv
<1>1. TypeOK'
  <2>1. interrupted' \in BOOLEAN /\ UNCHANGED rearmed
    BY Zenon DEF TypeOK
  <2>2. age' \in 0..Timeout
    BY DEF TypeOK
  <2> QED
    BY <1>0, <2>1, <2>2 DEF TypeOK, asking, done
<1>2. CallInv'
  BY <1>0, AskingFixed DEF CallInv
<1>3. TimeoutInv'
  BY DEF TimeoutInv
<1>4. AuthInv' /\ UpdateInv' /\ WireInv' /\ (Fulfilled' <=> Fulfilled)
  BY <1>0, HandlerKept
<1>5. SuccessMeansDone'
  BY <1>4 DEF SuccessMeansDone
<1> QED
  BY <1>1, <1>2, <1>3, <1>4, <1>5

\* Call: the handler starts, or there is no daemon.
LEMMA CallStepInv == ASSUME Inv, Call PROVE Inv'
<1> USE RequestAssumption DEF Inv, Call
<1>0. /\ wire' \in {<<"log">>, <<"unavailable">>} /\ srv' \in {"normalize", "ended"} /\ srv = "none" /\ got = 0
      /\ updated' = {} /\ shown' = {} /\ stopped' = FALSE /\ exit' = "none" /\ ~Incompatible'
  BY AskingFixed DEF CallInv, AuthInv, WireInv, done
<1>1. TypeOK'
  <2>1. wire' \in Seq(Messages)
    <3>1. "log" \in Messages /\ "unavailable" \in Messages
      BY DEF Messages
    <3>2. <<"log">> \in Seq(Messages) /\ <<"unavailable">> \in Seq(Messages)
      BY <3>1
    <3> QED
      BY <1>0, <3>2
  <2>2. UNCHANGED <<asking, exit, got, ctx, interrupted, age, rearmed, err, pending, asked, done, logs>>
    OBVIOUS
  <2> QED
    BY <2>1, <2>2, <1>0 DEF TypeOK, asking, done, Messages
<1>2. CallInv'
  BY <1>0 DEF CallInv
<1>3. TimeoutInv'
  BY DEF TimeoutInv, CallInv
<1>4. AuthInv'
  BY <1>0 DEF AuthInv, OnlyAuthorized
<1>5. UpdateInv'
  BY DEF UpdateInv
<1>6. WireInv'
  BY <1>0 DEF WireInv
<1>7. SuccessMeansDone'
  BY <1>0 DEF SuccessMeansDone
<1> QED
  BY <1>1, <1>2, <1>3, <1>4, <1>5, <1>6, <1>7

\* Recv: a log, or the reply, which comes once.
LEMMA RecvInv == ASSUME Inv, Recv PROVE Inv'
<1> USE RequestAssumption DEF Inv, Recv, Rearm
<1>w. wire \in Seq(Messages) /\ wire # <<>> /\ Head(wire) = wire[1] /\ 1 \in DOMAIN wire
  BY DEF TypeOK, Messages
<1>x. /\ wire' \in Seq(Messages) /\ Len(wire') = Len(wire) - 1 /\ Len(wire) \in Nat
      /\ \A i \in DOMAIN wire' : i \in Nat /\ i >= 1 /\ i + 1 \in DOMAIN wire /\ wire'[i] = wire[i + 1]
  BY <1>w
<1>g. got' \in 0..2 /\ (got = 1 => got' = 1)
  BY <1>w DEF WireInv, TypeOK
<1>1. TypeOK'
  <2>1. rearmed' \in BOOLEAN
    BY Zenon DEF TypeOK
  <2> QED
    BY <2>1, <1>x, <1>g DEF TypeOK, asking, done, Messages
<1>2. CallInv'
  BY AskingFixed DEF CallInv
<1>3. TimeoutInv'
  BY DEF TimeoutInv, CallInv, TypeOK
<1>f. Fulfilled => Fulfilled'
  BY <1>g, FulfilledStays DEF done
<1>4. AuthInv'
  BY AskingFixed DEF AuthInv, OnlyAuthorized, done
<1>5. UpdateInv'
  BY AskingFixed DEF UpdateInv, done
<1>6. WireInv'
  <2>1. srv' # "ended" => got' = 0 /\ \A i \in DOMAIN wire' : wire'[i] = "log"
    BY <1>w, <1>x DEF WireInv
  <2>2. ASSUME NEW i \in DOMAIN wire', wire'[i] = "reply" PROVE got' = 0 /\ i + 1 = Len(wire')
    BY <2>2, <1>w, <1>x DEF WireInv
  <2>3. ASSUME NEW i \in DOMAIN wire', wire'[i] = "ok" PROVE Answered(i)'
    <3>1. Answered(i + 1)
      BY <2>3, <1>x DEF WireInv
    <3>2. CASE Fulfilled
      BY <3>2, <1>f DEF Answered
    <3>3. CASE ~Fulfilled
      <4>1. ~IsUpdate /\ cmd.kind # "stop" /\ wire[i] = "reply" /\ i \in DOMAIN wire
        BY <3>1, <3>3, <1>x DEF Answered
      <4>2. CASE i = 1
        <5>1. got' = 1
          BY <4>1, <4>2, <1>w DEF WireInv
        <5> QED
          BY <4>1, <5>1, AskingFixed DEF Answered, Fulfilled
      <4>3. CASE i > 1
        <5>1. wire'[i - 1] = wire[i]
          BY <4>3, <1>x
        <5> QED
          BY <4>1, <4>3, <5>1, AskingFixed DEF Answered
      <4> QED
        BY <4>2, <4>3, <1>x
    <3> QED
      BY <3>2, <3>3
  <2> QED
    BY <2>1, <2>2, <2>3 DEF WireInv
<1>7. SuccessMeansDone'
  BY DEF SuccessMeansDone, CallInv
<1> QED
  BY <1>1, <1>2, <1>3, <1>4, <1>5, <1>6, <1>7

\* RecvEnd: an "ok" is answered at its place, and an end of file is the user's doing
\* or a timer's that was reset too late.
LEMMA RecvEndInv == ASSUME Inv, RecvEnd PROVE Inv'
<1> USE RequestAssumption DEF Inv
<1>1. PICK e \in {"ok", "error", "unavailable", "cancelled"} :
        /\ \/ e = "cancelled" /\ ctx = "cancelled"
           \/ wire # <<>> /\ e = Head(wire)
        /\ exit' = ExitOf(Translate(e))
  BY DEF RecvEnd
<1>2. UNCHANGED <<asking, got, wire, srv, err, pending, asked, done>> /\ exit' \in {"ok", "timeout", "error"}
  BY <1>1 DEF RecvEnd, ExitOf
<1>3. TypeOK'
  BY <1>2 DEF TypeOK, asking, done, RecvEnd
<1>4. CallInv'
  BY <1>2, AskingFixed DEF CallInv, RecvEnd
<1>5. TimeoutInv'
  BY DEF TimeoutInv, RecvEnd
<1>6. AuthInv' /\ UpdateInv' /\ WireInv' /\ (Fulfilled' <=> Fulfilled)
  BY <1>2, HandlerKept
<1>7. SuccessMeansDone'
  <2> SUFFICES ASSUME exit' = "ok" PROVE Fulfilled \/ interrupted \/ rearmed
    BY <1>6 DEF SuccessMeansDone, RecvEnd
  <2>1. CASE e = "cancelled"
    <3>1. timer = "armed"
      BY <1>1, <2>1 DEF ExitOf, Translate
    <3>2. ctx = "cancelled"
      BY <1>1, <2>1 DEF TypeOK
    <3> QED
      BY <3>1, <3>2 DEF TimeoutInv
  <2>2. CASE e = "ok"
    <3>1. 1 \in DOMAIN wire /\ wire[1] = "ok"
      BY <1>1, <2>2 DEF TypeOK
    <3> QED
      BY <3>1 DEF WireInv, Answered
  <2>3. CASE e \in {"error", "unavailable"}
    <3>1. cmd.kind = "stop" /\ cmd.force
      BY <1>1, <2>3 DEF ExitOf, Translate
    <3> QED
      BY <3>1 DEF Fulfilled, IsUpdate
  <2> QED
    BY <2>1, <2>2, <2>3
<1> QED
  BY <1>3, <1>4, <1>5, <1>6, <1>7

\* A step of the handler leaves the client alone.
LEMMA ClientKept ==
  ASSUME CallInv, TimeoutInv, UNCHANGED <<asking, client>>, srv # "none", srv' # "none"
  PROVE  CallInv' /\ TimeoutInv'
<1> USE AskingFixed DEF client
<1>1. CallInv'
  BY DEF CallInv
<1>2. TimeoutInv'
  BY DEF TimeoutInv
<1> QED
  BY <1>1, <1>2

\* A message put on the wire by a handler that has not ended: what comes before is logs.
LEMMA Appended ==
  ASSUME TypeOK, WireInv, srv # "ended", NEW m \in Messages, wire' = Append(wire, m)
  PROVE  /\ wire' \in Seq(Messages) /\ got = 0
         /\ \A i \in DOMAIN wire' : wire'[i] = "log" \/ (wire'[i] = m /\ i = Len(wire'))
<1>1. wire \in Seq(Messages)
  BY DEF TypeOK, Messages
<1> QED
  BY <1>1 DEF WireInv

\* An answer: an error, or "ok" once everything was done.
LEMMA ReturnWire ==
  ASSUME TypeOK, WireInv, srv # "ended", NEW e \in BOOLEAN, Return(e), UNCHANGED <<asking, client>>,
         ~e => Fulfilled'
  PROVE  WireInv' /\ wire' \in Seq(Messages)
<1>1. (IF e THEN "error" ELSE "ok") \in Messages
  BY DEF Messages
<1>2. /\ wire' \in Seq(Messages) /\ got' = got
      /\ \A i \in DOMAIN wire' : wire'[i] = "log" \/ wire'[i] = (IF e THEN "error" ELSE "ok")
  BY <1>1, Appended DEF Return, client
<1> QED
  BY <1>2 DEF WireInv, Answered, Return

\* A step that puts nothing on the wire and does not end the handler.
LEMMA WireKept ==
  ASSUME WireInv, srv # "ended", srv' # "ended", UNCHANGED <<wire, got>>
  PROVE  WireInv'
  BY DEF WireInv

\* What the handler does once the client has its success takes nothing back.
LEMMA SuccessStays ==
  ASSUME SuccessMeansDone, UNCHANGED <<asking, client>>, updated \subseteq updated', stopped => stopped'
  PROVE  SuccessMeansDone'
<1>1. Fulfilled => Fulfilled'
  BY FulfilledStays DEF client
<1> QED
  BY <1>1 DEF SuccessMeansDone, client

\* ServerLog: one more log on the wire.
LEMMA ServerLogInv == ASSUME Inv, ServerLog PROVE Inv'
<1> USE RequestAssumption DEF Inv
<1>1. "log" \in Messages /\ wire' = Append(wire, "log") /\ srv \notin {"none", "ended"} /\ srv' = srv
  BY DEF ServerLog, Messages
<1>2. wire' \in Seq(Messages) /\ got = 0 /\ \A i \in DOMAIN wire' : wire'[i] = "log"
  BY <1>1, Appended
<1>3. TypeOK'
  BY <1>2 DEF TypeOK, ServerLog, asking, client, done, Messages
<1>4. CallInv' /\ TimeoutInv'
  BY <1>1, ClientKept DEF ServerLog
<1>5. AuthInv'
  BY AskingFixed DEF AuthInv, OnlyAuthorized, ServerLog, client, done
<1>6. UpdateInv'
  BY AskingFixed DEF UpdateInv, ServerLog, done
<1>7. WireInv'
  BY <1>2, <1>1 DEF WireInv, ServerLog, client
<1>8. SuccessMeansDone'
  BY SuccessStays DEF ServerLog, done
<1> QED
  BY <1>3, <1>4, <1>5, <1>6, <1>7, <1>8

\* Normalize: a bad name is refused.
LEMMA NormalizeInv == ASSUME Inv, Normalize PROVE Inv'
<1> USE RequestAssumption DEF Inv
<1>0. UNCHANGED <<asking, client, pending, asked, done, logs>> /\ srv = "normalize"
  BY DEF Normalize
<1>1. \/ Return(TRUE)
      \/ srv' = "authorize" /\ UNCHANGED <<err, wire>>
  BY DEF Normalize
<1>2. WireInv' /\ wire' \in Seq(Messages)
  <2>1. CASE Return(TRUE)
    BY <2>1, <1>0, ReturnWire
  <2>2. CASE srv' = "authorize" /\ UNCHANGED <<err, wire>>
    BY <2>2, <1>0, WireKept DEF client, TypeOK, Messages
  <2> QED
    BY <1>1, <2>1, <2>2
<1>3. TypeOK'
  <2>1. err' \in BOOLEAN /\ srv' \in {"ended", "authorize"}
    BY <1>1, Zenon DEF TypeOK, Return
  <2> QED
    BY <1>0, <1>2, <2>1 DEF TypeOK, asking, client, done, Messages
<1>4. CallInv' /\ TimeoutInv'
  BY <1>0, <1>1, ClientKept DEF Return
<1>5. AuthInv'
  BY <1>0, <1>1, AskingFixed DEF AuthInv, OnlyAuthorized, Return, client, done
<1>6. UpdateInv'
  BY <1>1 DEF UpdateInv, Return
<1>7. SuccessMeansDone'
  BY <1>0, SuccessStays DEF done
<1> QED
  BY <1>2, <1>3, <1>4, <1>5, <1>6, <1>7

\* The account of an update is the machine's root or the user's, and exists once granted.
LEMMA UpdateAction ==
  ASSUME IsUpdate
  PROVE  /\ ActionID = IF OnUser \in Accounts /\ Uid[OnUser] = Uid[caller] THEN "self" ELSE "others"
         /\ OnUser = IF ForMachine THEN "root" ELSE Target
  BY DEF ActionID, OnUser, IsUpdate

\* Authorize: the action that is granted is the one of the command.
LEMMA AuthorizeInv == ASSUME Inv, Authorize PROVE Inv'
<1> USE RequestAssumption DEF Inv
<1>0. UNCHANGED <<asking, client, done, logs>> /\ srv = "authorize"
  BY DEF Authorize
<1>1. PICK answer \in BOOLEAN :
        IF IsAllowed(answer)
          THEN /\ srv' = AfterAuthorize /\ asked' = ActionID
               /\ pending' = IF AfterAuthorize = "users" THEN {Target} ELSE {}
               /\ UNCHANGED <<err, wire>>
          ELSE Return(TRUE) /\ UNCHANGED <<asked, pending>>
  BY DEF Authorize
<1>a. AfterAuthorize \in {"machine", "users", "serve"}
  BY DEF AfterAuthorize
<1>2. WireInv' /\ wire' \in Seq(Messages)
  <2>1. CASE Return(TRUE)
    BY <2>1, <1>0, ReturnWire
  <2>2. CASE srv' = AfterAuthorize /\ UNCHANGED <<err, wire>>
    BY <2>2, <1>0, <1>a, WireKept DEF client, TypeOK, Messages
  <2> QED
    BY <1>1, <2>1, <2>2
<1>3. TypeOK'
  <2>1. err' \in BOOLEAN /\ srv' \in {"ended", "machine", "users", "serve"}
    BY <1>1, <1>a, Zenon DEF TypeOK, Return
  <2>2. asked' \in {"none", "any", "self", "others", "manage"}
    BY <1>1 DEF TypeOK, ActionID
  <2>3. pending' \subseteq Accounts
    <3>1. CASE IsAllowed(answer) /\ AfterAuthorize = "users"
      <4>1. IsUpdate /\ ~ForMachine
        BY <3>1 DEF AfterAuthorize
      <4>2. Target \in Accounts
        BY <3>1, <4>1, UpdateAction DEF IsAllowed
      <4> QED
        BY <1>1, <3>1, <4>2
    <3>2. CASE ~(IsAllowed(answer) /\ AfterAuthorize = "users")
      BY <1>1, <3>2 DEF TypeOK
    <3> QED
      BY <3>1, <3>2
  <2> QED
    BY <1>0, <1>2, <2>1, <2>2, <2>3 DEF TypeOK, asking, client, done, Messages
<1>4. CallInv' /\ TimeoutInv'
  BY <1>0, <1>1, <1>a, ClientKept DEF Return
<1>5. AuthInv'
  <2>1. OnlyAuthorized'
    BY <1>0 DEF AuthInv, OnlyAuthorized, done
  <2>2. CASE Return(TRUE)
    BY <2>1, <2>2 DEF AuthInv, Return
  <2>3. CASE /\ IsAllowed(answer) /\ srv' = AfterAuthorize /\ asked' = ActionID
             /\ pending' = IF AfterAuthorize = "users" THEN {Target} ELSE {}
    <3>1. ~IsUpdate /\ ActionID \in {"self", "others"} => Target \in Accounts
      BY <2>3 DEF OnUser, IsAllowed
    <3> QED
      BY <3>1, <2>1, <2>3, <1>0, <1>a, AskingFixed DEF AuthInv, AfterAuthorize
  <2> QED
    BY <1>1, <2>2, <2>3
<1>6. UpdateInv'
  <2>1. CASE Return(TRUE)
    BY <2>1 DEF UpdateInv, Return
  <2>2. CASE /\ srv' = AfterAuthorize
             /\ pending' = IF AfterAuthorize = "users" THEN {Target} ELSE {}
    BY <2>2, <1>0, <1>a, AskingFixed DEF UpdateInv, AfterAuthorize, ForMachine
  <2> QED
    BY <1>1, <2>1, <2>2
<1>7. SuccessMeansDone'
  BY <1>0, SuccessStays DEF done
<1> QED
  BY <1>2, <1>3, <1>4, <1>5, <1>6, <1>7

\* An update of the machine, or of all, is not one's own.
LEMMA MachineIsOthers ==
  ASSUME IsUpdate, ForMachine, Uid[caller] # 0 PROVE ActionID = "others"
  BY UpdateAction, RequestAssumption

\* UpdateMachine: its error is kept, or returned if there is nothing else to do.
LEMMA UpdateMachineInv == ASSUME Inv, UpdateMachine PROVE Inv'
<1> USE RequestAssumption DEF Inv
<1>0. UNCHANGED <<asking, client, pending, asked, shown, stopped, logs>> /\ srv = "machine"
  BY DEF UpdateMachine
<1>1. PICK ok \in BOOLEAN :
        /\ updated' = IF ok THEN updated \cup {<<"machine", Host>>} ELSE updated
        /\ IF cmd.all THEN srv' = "list" /\ err' = ~ok /\ UNCHANGED wire ELSE Return(~ok)
  BY DEF UpdateMachine
<1>u. IsUpdate /\ ForMachine /\ ~Incompatible /\ asked = ActionID
  BY <1>0 DEF AuthInv, CallInv
<1>2. ~cmd.all /\ ok => Fulfilled'
  <2> SUFFICES ASSUME ~cmd.all, ok PROVE Fulfilled'
    OBVIOUS
  <2>1. cmd.machine /\ Target = Host
    BY <1>u DEF ForMachine, Incompatible, Name, Target
  <2> QED
    BY <2>1, <1>0, <1>1, <1>u, AskingFixed DEF Fulfilled, IsUpdate
<1>3. WireInv' /\ wire' \in Seq(Messages)
  <2>1. CASE cmd.all
    BY <2>1, <1>0, <1>1, WireKept DEF client, TypeOK, Messages
  <2>2. CASE ~cmd.all
    <3>1. Return(~ok) /\ (~ok) \in BOOLEAN
      BY <2>2, <1>1
    <3> QED
      BY <3>1, <2>2, <1>0, <1>2, ReturnWire
  <2> QED
    BY <2>1, <2>2
<1>4. TypeOK'
  <2>1. err' \in BOOLEAN /\ srv' \in {"ended", "list"}
    BY <1>1, Zenon DEF Return
  <2>2. updated' \subseteq Objects
    BY <1>1 DEF TypeOK, Objects
  <2> QED
    BY <1>0, <1>3, <2>1, <2>2 DEF TypeOK, asking, client, Messages
<1>5. CallInv' /\ TimeoutInv'
  BY <1>0, <1>1, ClientKept DEF Return
<1>6. AuthInv'
  <2>1. OnlyAuthorized'
    <3>1. Uid[caller] # 0 => asked = "others"
      BY <1>u, MachineIsOthers
    <3>2. exit # "usage"
      BY <1>0 DEF CallInv
    <3> QED
      BY <1>0, <3>1, <3>2, AskingFixed DEF AuthInv, OnlyAuthorized, client
  <2> QED
    BY <2>1, <1>0, <1>1, <1>u, AskingFixed DEF AuthInv, Return
<1>7. UpdateInv'
  BY <1>1 DEF UpdateInv, Return
<1>8. SuccessMeansDone'
  BY <1>0, <1>1, SuccessStays
<1> QED
  BY <1>3, <1>4, <1>5, <1>6, <1>7, <1>8

\* ListUsers: every user is pending, or the list fails.
LEMMA ListUsersInv == ASSUME Inv, ListUsers PROVE Inv'
<1> USE RequestAssumption DEF Inv
<1>0. UNCHANGED <<asking, client, asked, done, logs>> /\ srv = "list"
  BY DEF ListUsers
<1>1. \/ Return(TRUE) /\ UNCHANGED pending
      \/ srv' = "users" /\ pending' = AllUsers /\ UNCHANGED <<err, wire>>
  BY DEF ListUsers, AllUsers
<1>2. WireInv' /\ wire' \in Seq(Messages)
  <2>1. CASE Return(TRUE)
    BY <2>1, <1>0, ReturnWire
  <2>2. CASE srv' = "users" /\ UNCHANGED <<err, wire>>
    BY <2>2, <1>0, WireKept DEF client, TypeOK, Messages
  <2> QED
    BY <1>1, <2>1, <2>2
<1>3. TypeOK'
  <2>1. err' \in BOOLEAN /\ srv' \in {"ended", "users"}
    BY <1>1, Zenon DEF TypeOK, Return
  <2>2. pending' \subseteq Accounts
    BY <1>1 DEF TypeOK, AllUsers, Accounts
  <2> QED
    BY <1>0, <1>2, <2>1, <2>2 DEF TypeOK, asking, client, done, Messages
<1>4. CallInv' /\ TimeoutInv'
  BY <1>0, <1>1, ClientKept DEF Return
<1>5. AuthInv'
  BY <1>0, <1>1, AskingFixed DEF AuthInv, OnlyAuthorized, Return, client, done
<1>6. UpdateInv'
  BY <1>0, <1>1, AskingFixed DEF UpdateInv, AuthInv, Return, done
<1>7. SuccessMeansDone'
  BY <1>0, SuccessStays DEF done
<1> QED
  BY <1>2, <1>3, <1>4, <1>5, <1>6, <1>7

\* UpdateUser: the user is updated, or there is an error.
LEMMA UpdateUserInv == ASSUME Inv, NEW u \in Accounts, UpdateUser(u) PROVE Inv'
<1> USE RequestAssumption DEF Inv
<1>0. /\ UNCHANGED <<asking, client, wire, srv, asked, shown, stopped, logs>>
      /\ srv = "users" /\ u \in pending /\ pending' = pending \ {u}
  BY DEF UpdateUser
<1>1. \/ updated' = updated \cup {<<"user", u>>} /\ UNCHANGED err
      \/ err' = TRUE /\ UNCHANGED updated
  BY DEF UpdateUser
<1>2. WireInv'
  BY <1>0, WireKept DEF client
<1>3. TypeOK'
  <2>1. err' \in BOOLEAN
    BY <1>1, Zenon DEF TypeOK
  <2>2. updated' \subseteq Objects
    BY <1>1 DEF TypeOK, Objects
  <2> QED
    BY <1>0, <2>1, <2>2 DEF TypeOK, asking, client
<1>4. CallInv' /\ TimeoutInv'
  BY <1>0, ClientKept
<1>5. AuthInv'
  <2>1. OnlyAuthorized'
    <3>1. asked = ActionID /\ IsUpdate /\ (cmd.all \/ (~ForMachine /\ u = Target))
      BY <1>0 DEF AuthInv
    <3>2. Uid[caller] # 0 => asked = "others" \/ (asked = "self" /\ Uid[u] = Uid[caller])
      BY <3>1, MachineIsOthers, UpdateAction DEF ForMachine
    <3>3. exit # "usage"
      BY <1>0 DEF CallInv
    <3> QED
      BY <1>0, <1>1, <3>2, <3>3, AskingFixed DEF AuthInv, OnlyAuthorized, client
  <2> QED
    BY <2>1, <1>0, AskingFixed DEF AuthInv
<1>6. UpdateInv'
  BY <1>0, <1>1, AskingFixed DEF UpdateInv
<1>7. SuccessMeansDone'
  BY <1>0, <1>1, SuccessStays
<1> QED
  BY <1>2, <1>3, <1>4, <1>5, <1>6, <1>7

\* UpdateEnd: without an error, nothing is pending and all is done.
LEMMA UpdateEndInv == ASSUME Inv, UpdateEnd PROVE Inv'
<1> USE RequestAssumption DEF Inv
<1>0. /\ UNCHANGED <<asking, client, pending, asked, done, logs>>
      /\ srv = "users" /\ pending = {} /\ Return(err) /\ err \in BOOLEAN
  BY DEF UpdateEnd, UsersError, TypeOK
<1>1. ~err => Fulfilled'
  <2> SUFFICES ASSUME ~err PROVE Fulfilled'
    OBVIOUS
  <2>0. IsUpdate /\ updated' = updated
    BY <1>0 DEF AuthInv, done
  <2>1. CASE cmd.all
    <3>1. <<"machine", Host>> \in updated /\ \A u \in AllUsers : <<"user", u>> \in updated
      BY <1>0, <2>1 DEF UpdateInv
    <3>2. {<<"machine", Host>>} \cup ({"user"} \X AllUsers) \subseteq updated
      BY <3>1
    <3> QED
      BY <3>2, <2>0, <2>1, <1>0, AskingFixed DEF Fulfilled, AllUsers, IsUpdate
  <2>2. CASE ~cmd.all
    <3>1. <<"user", Target>> \in updated /\ ~ForMachine
      BY <1>0, <2>2 DEF UpdateInv, AuthInv
    <3> QED
      BY <3>1, <2>0, <2>2, <1>0, AskingFixed DEF Fulfilled, IsUpdate, ForMachine
  <2> QED
    BY <2>1, <2>2
<1>2. WireInv' /\ wire' \in Seq(Messages)
  BY <1>0, <1>1, ReturnWire
<1>3. TypeOK'
  BY <1>0, <1>2 DEF TypeOK, asking, client, done, Messages, Return
<1>4. CallInv' /\ TimeoutInv'
  BY <1>0, ClientKept DEF Return
<1>5. AuthInv'
  BY <1>0, AskingFixed DEF AuthInv, OnlyAuthorized, Return, client, done
<1>6. UpdateInv'
  BY <1>0 DEF UpdateInv, Return
<1>7. SuccessMeansDone'
  BY <1>0, SuccessStays DEF done
<1> QED
  BY <1>2, <1>3, <1>4, <1>5, <1>6, <1>7

\* The two messages of an answer with a reply.
LEMMA Replied ==
  ASSUME TypeOK, WireInv, srv # "ended", wire' = wire \o <<"reply", "ok">>
  PROVE  /\ wire' \in Seq(Messages) /\ got = 0
         /\ \A i \in DOMAIN wire' :
              /\ wire'[i] = "reply" => i + 1 = Len(wire')
              /\ wire'[i] = "ok" => i > 1 /\ wire'[i - 1] = "reply"
<1>1. wire \in Seq(Messages) /\ <<"reply", "ok">> \in Seq(Messages) /\ Len(<<"reply", "ok">>) = 2
  BY DEF TypeOK, Messages
<1>2. /\ wire' \in Seq(Messages) /\ Len(wire') = Len(wire) + 2 /\ Len(wire) \in Nat
      /\ \A i \in 1..Len(wire) : wire'[i] = wire[i]
      /\ wire'[Len(wire) + 1] = "reply" /\ wire'[Len(wire) + 2] = "ok"
  BY <1>1
<1>3. got = 0 /\ \A i \in 1..Len(wire) : wire'[i] = "log"
  BY <1>1, <1>2 DEF WireInv
<1>4. ASSUME NEW i \in DOMAIN wire'
      PROVE  /\ wire'[i] = "reply" => i + 1 = Len(wire')
             /\ wire'[i] = "ok" => i > 1 /\ wire'[i - 1] = "reply"
  <2>1. i \in 1..Len(wire) \/ i = Len(wire) + 1 \/ i = Len(wire) + 2
    BY <1>2
  <2>2. CASE i \in 1..Len(wire)
    BY <1>3, <2>2
  <2>3. CASE i = Len(wire) + 1
    BY <1>2, <2>3
  <2>4. CASE i = Len(wire) + 2
    <3>1. i > 1 /\ i - 1 = Len(wire) + 1
      BY <1>2, <2>4
    <3> QED BY <1>2, <2>4, <3>1
  <2> QED BY <2>1, <2>2, <2>3, <2>4
<1> QED
  BY <1>2, <1>3, <1>4

\* Serve: the other requests show the object that was granted, or stop the daemon.
LEMMA ServeInv == ASSUME Inv, Serve PROVE Inv'
<1> USE RequestAssumption DEF Inv
<1>0. UNCHANGED <<asking, client, pending, asked, updated, logs>> /\ srv = "serve" /\ srv' = "ended"
  BY DEF Serve
<1>a. asked = ActionID /\ ~IsUpdate /\ exit # "usage"
  BY <1>0 DEF AuthInv, CallInv
<1>1. \/ /\ cmd.kind = "applied" /\ UNCHANGED <<stopped, err>> /\ wire' = wire \o <<"reply", "ok">>
         /\ shown' = {<<IF cmd.machine THEN "machine" ELSE "user", Target>>}
      \/ cmd.kind \in {"applied", "info"} /\ Return(TRUE) /\ UNCHANGED <<stopped, shown>>
      \/ cmd.kind = "info" /\ wire' = wire \o <<"reply", "ok">> /\ UNCHANGED <<shown, stopped, err>>
      \/ /\ cmd.kind = "stop" /\ stopped' = TRUE /\ UNCHANGED <<shown, err>>
         /\ wire' = Append(wire, "ok") \/ wire' = <<"unavailable">>
  BY DEF Serve, DumpPolicies, Status, Stop
<1>2. WireInv' /\ wire' \in Seq(Messages)
  <2>1. CASE cmd.kind \in {"applied", "info"} /\ wire' = wire \o <<"reply", "ok">>
    <3>1. wire' \in Seq(Messages) /\ got' = 0
      BY <2>1, <1>0, Replied DEF client
    <3>2. ASSUME NEW i \in DOMAIN wire', wire'[i] = "reply" PROVE i + 1 = Len(wire')
      BY <2>1, <3>2, <1>0, Replied
    <3>3. ASSUME NEW i \in DOMAIN wire', wire'[i] = "ok" PROVE Answered(i)'
      <4>1. i > 1 /\ wire'[i - 1] = "reply"
        BY <2>1, <3>3, <1>0, Replied
      <4> QED
        BY <4>1, <2>1, <1>a, <1>0, AskingFixed DEF Answered
    <3> QED
      BY <3>1, <3>2, <3>3, <1>0 DEF WireInv
  <2>2. CASE Return(TRUE)
    BY <2>2, <1>0, ReturnWire
  <2>3. CASE cmd.kind = "stop" /\ stopped' = TRUE /\ wire' = Append(wire, "ok")
    <3>1. "ok" \in Messages
      BY DEF Messages
    <3>2. wire' \in Seq(Messages) /\ \A i \in DOMAIN wire' : wire'[i] \in {"log", "ok"}
      BY <2>3, <3>1, <1>0, Appended
    <3>3. Fulfilled'
      BY <2>3, <1>0, <1>a, AskingFixed DEF Fulfilled
    <3> QED
      BY <3>2, <3>3, <1>0 DEF WireInv, Answered
  <2>4. CASE wire' = <<"unavailable">>
    <3>1. "unavailable" \in Messages
      BY DEF Messages
    <3>2. wire' \in Seq(Messages) /\ \A i \in DOMAIN wire' : wire'[i] = "unavailable"
      BY <2>4, <3>1
    <3> QED
      BY <3>2, <1>0 DEF WireInv
  <2> QED
    BY <1>1, <2>1, <2>2, <2>3, <2>4
<1>3. TypeOK'
  <2>1. {err', stopped'} \subseteq BOOLEAN
    BY <1>1, Zenon DEF TypeOK, Return
  <2>2. shown' \subseteq Objects
    <3>1. CASE UNCHANGED shown
      BY <3>1 DEF TypeOK
    <3>2. CASE cmd.kind = "applied" /\ shown' = {<<IF cmd.machine THEN "machine" ELSE "user", Target>>}
      <4>1. (cmd.machine /\ Target = Host) \/ Target \in Accounts
        BY <3>2, <1>0, <1>a DEF AuthInv, ActionID
      <4> QED
        BY <3>2, <4>1 DEF Objects
    <3> QED
      BY <1>1, <3>1, <3>2
  <2> QED
    BY <1>0, <1>2, <2>1, <2>2 DEF TypeOK, asking, client, Messages
<1>4. CallInv' /\ TimeoutInv'
  BY <1>0, ClientKept
<1>5. AuthInv'
  <2>1. OnlyAuthorized'
    <3>1. CASE UNCHANGED <<shown, stopped>>
      BY <3>1, <1>0, <1>a, AskingFixed DEF AuthInv, OnlyAuthorized, client
    <3>2. CASE /\ cmd.kind = "applied" /\ UNCHANGED stopped
               /\ shown' = {<<IF cmd.machine THEN "machine" ELSE "user", Target>>}
      <4>1. /\ cmd.machine /\ Target = Host => ActionID = "any"
            /\ ~(cmd.machine /\ Target = Host) =>
                 ActionID = IF Target \in Accounts /\ Uid[Target] = Uid[caller] THEN "self" ELSE "others"
        BY <3>2, <1>a DEF ActionID, OnUser
      <4>2. \A o \in shown' : asked = "others" \/ (asked = "self" /\ Uid[o[2]] = Uid[caller]) \/ o = <<"machine", Host>>
        BY <3>2, <4>1, <1>a
      <4> QED
        BY <3>2, <4>2, <1>0, <1>a, AskingFixed DEF AuthInv, OnlyAuthorized, client
    <3>3. CASE cmd.kind = "stop" /\ UNCHANGED shown
      <4>1. asked = "manage"
        BY <3>3, <1>a DEF ActionID
      <4> QED
        BY <3>3, <4>1, <1>0, <1>a, AskingFixed DEF AuthInv, OnlyAuthorized, client
    <3> QED
      BY <1>1, <3>1, <3>2, <3>3
  <2> QED
    BY <2>1, <1>0 DEF AuthInv
<1>6. UpdateInv'
  BY <1>0 DEF UpdateInv
<1>7. SuccessMeansDone'
  <2>1. stopped => stopped'
    BY <1>1
  <2> QED
    BY <1>0, <2>1, SuccessStays
<1> QED
  BY <1>2, <1>3, <1>4, <1>5, <1>6, <1>7

\* Every step of the client and of the handler keeps the invariant.
LEMMA NextInv == Inv /\ [Next]_vars => Inv'
<1> SUFFICES ASSUME Inv, [Next]_vars PROVE Inv'
  OBVIOUS
<1>1. CASE UNCHANGED vars
  <2>1. UNCHANGED <<asking, client, wire, srv, err, pending, asked, done, logs>>
    BY <1>1 DEF vars, asking, client, done
  <2>2. AuthInv' /\ UpdateInv' /\ WireInv' /\ (Fulfilled' <=> Fulfilled)
    BY <2>1, HandlerKept DEF Inv, client
  <2>3. TypeOK' /\ TimeoutInv'
    BY <2>1 DEF Inv, TypeOK, TimeoutInv, asking, client, done
  <2>4. CallInv' /\ SuccessMeansDone'
    BY <2>1, <2>2, AskingFixed DEF Inv, CallInv, SuccessMeansDone, client
  <2> QED
    BY <2>2, <2>3, <2>4 DEF Inv
<1>2. CASE Usage \/ Timing \/ Interrupt
  BY <1>2, ClientInv
<1>3. CASE Call
  BY <1>3, CallStepInv
<1>4. CASE Recv
  BY <1>4, RecvInv
<1>5. CASE RecvEnd
  BY <1>5, RecvEndInv
<1>6. CASE Server
  BY <1>6, ServerLogInv, NormalizeInv, AuthorizeInv, UpdateMachineInv, ListUsersInv, UpdateUserInv,
     UpdateEndInv, ServeInv DEF Server
<1> QED
  BY <1>1, <1>2, <1>3, <1>4, <1>5, <1>6 DEF Next

\* The listeners leave the requests alone.
LEMMA Invariance == RequestsSpec => []Inv
<1>1. RequestsInit => Inv
  BY InitInv DEF RequestsInit
<1>2. [RequestsNext]_allVars => [Next]_vars
  BY DEF RequestsNext, StepRequest, StepCat, StepLogs, allVars
<1> QED
  BY <1>1, <1>2, NextInv, PTL DEF RequestsSpec

(* Policies are changed or shown, and the daemon stopped, only for root or *)
(* once polkit has granted the action on that very object; the machine is  *)
(* never a caller's own, even for an account with its name.                *)
THEOREM Authorization == RequestsSpec => []OnlyAuthorized
<1>1. Inv => OnlyAuthorized
  BY DEF Inv, AuthInv
<1> QED
  BY <1>1, Invariance, PTL

(* A command that exits with success did all it was asked to, whatever the *)
(* handler's errors, the order of its users, its logs and the client's     *)
(* timeout; excepted are an interruption by the user and a timer that was  *)
(* reset after it had fired.                                               *)
THEOREM SuccessIsDone == RequestsSpec => []SuccessMeansDone
<1>1. Inv => SuccessMeansDone
  BY DEF Inv
<1> QED
  BY <1>1, Invariance, PTL

----------------------------------------------------------------------------
(* The listeners of the daemon's logs. *)

\* The flag is that of the listeners registered, and a message whose caller was not
\* looked for began while none of them wanted it.
LogInv ==
  /\ G!TypeOK
  /\ showCaller <=> fw \cap wantsCaller # {}
  /\ logger.stage # "idle" /\ ~logger.caller => wantsCaller \cap logger.since = {}

\* Nobody listens to the logs yet.
LEMMA LogInit == G!Init => LogInv
<1> SUFFICES ASSUME G!Init PROVE LogInv
  OBVIOUS
<1> USE DEF G!Init
<1>1. logger \in [stage : {"idle", "local", "forward"}, caller : BOOLEAN, since : SUBSET Cats]
  OBVIOUS
<1>2. streamLogs \in 0..MaxStreamLogs
  BY ListenersAssumption
<1>3. G!TypeOK
  BY <1>1, <1>2 DEF G!TypeOK
<1>4. (showCaller <=> fw \cap wantsCaller # {}) /\ logger.stage = "idle"
  OBVIOUS
<1> QED
  BY <1>3, <1>4 DEF LogInv

\* Every step of the log forwarder keeps its invariant.
LEMMA LogNext == LogInv /\ [G!Next]_G!vars => LogInv'
<1> SUFFICES ASSUME LogInv, [G!Next]_G!vars PROVE LogInv'
  OBVIOUS
<1> USE ListenersAssumption DEF LogInv, G!TypeOK
<1>1. CASE UNCHANGED G!vars
  BY <1>1 DEF G!vars
<1>2. ASSUME NEW c \in Cats, G!AddStreamToForward(c) PROVE LogInv'
  BY <1>2 DEF G!AddStreamToForward
<1>3. ASSUME NEW c \in Cats, G!Disconnect(c) PROVE LogInv'
  BY <1>3 DEF G!Disconnect, G!Remaining
<1>4. ASSUME NEW b \in BOOLEAN, G!LogBegin(b) PROVE LogInv'
  BY <1>4 DEF G!LogBegin
<1>5. ASSUME NEW b \in BOOLEAN, G!LogSend(b) PROVE LogInv'
  BY <1>5 DEF G!LogSend
<1>6. CASE G!LogForward
  BY <1>6 DEF G!LogForward
<1> QED
  BY <1>1, <1>2, <1>3, <1>4, <1>5, <1>6 DEF G!Next

----------------------------------------------------------------------------
(* The listeners of what the daemon prints. *)

Stages == {"init", "listen", "ended", "add_out", "add_err", "rm_err", "rm_out", "wait_err", "wait_out"}
Pipes == [buf : Seq(1..MaxPrints), open : BOOLEAN, hand : 0..MaxPrints, ended : BOOLEAN]

CatTypes ==
  /\ catPc \in [Cats -> Stages]
  /\ once \in [Std -> BOOLEAN] /\ captured \in [Std -> BOOLEAN]
  /\ writers \in [Std -> SUBSET Cats] /\ lock \in [Std -> Cats \cup {None}]
  /\ gen \in [Std -> Nat] /\ started \in [Cats -> [Std -> Nat]]
  /\ copier \in [Std -> [K!Gens -> Pipes]]
  /\ printed \in 0..MaxPrints
  /\ owed \in [Cats -> [Std -> SUBSET (1..MaxPrints)]] /\ received \in [Cats -> [Std -> SUBSET (1..MaxPrints)]]
  /\ \A d \in Std, g \in K!Gens : Len(copier[d][g].buf) <= printed

\* An output is captured while its forwarder is initialised and not being torn down,
\* which is when it has listeners; its goroutine is the last one started, and each one
\* was started by another listener.
OutputInv(d) ==
  /\ captured[d] <=> once[d] /\ lock[d] = None
  /\ writers[d] # {} => captured[d]
  /\ once[d] => gen[d] # 0
Starters(d) == {c \in Cats : started[c][d] # 0}
GenInv(d) ==
  /\ gen[d] = Cardinality(Starters(d)) /\ \A c \in Cats : started[c][d] <= gen[d]
  /\ \A g \in K!Gens : g > gen[d] => copier[d][g] = K!Idle
ForwarderInv == \A d \in Std : OutputInv(d) /\ GenInv(d)

\* Before a listener is added to an output it is owed nothing of it; while it waits for
\* the goroutine it holds the lock.
NotYet(d) == IF d = "stdout" THEN {"init", "add_out"} ELSE {"init", "add_out", "add_err"}
WaitFor(d) == IF d = "stdout" THEN "wait_out" ELSE "wait_err"

ListenerInv ==
  \A c \in Cats, d \in Std :
    /\ catPc[c] \in NotYet(d) => started[c][d] = 0 /\ owed[c][d] = {} /\ c \notin writers[d]
    /\ catPc[c] = WaitFor(d) => lock[d] = c

CatInv == OutputsAreTwo /\ CatTypes /\ ForwarderInv /\ ListenerInv /\ K!NothingPrintedIsMissed

\* Nobody listens to the outputs yet, and nothing is captured.
LEMMA CatInit == OutputsAreTwo /\ K!Init => CatInv
<1> SUFFICES ASSUME OutputsAreTwo, K!Init PROVE CatInv
  OBVIOUS
<1> USE DEF K!Init
<1>1. K!Idle \in Pipes
  BY DEF K!Idle, Pipes, OutputsAreTwo
<1>2. CatTypes
  <2>1. \A d \in Std, g \in K!Gens : copier[d][g].buf = <<>>
    BY DEF K!Idle
  <2>2. Len(<<>>) = 0
    OBVIOUS
  <2> QED
    BY <1>1, <2>1, <2>2 DEF CatTypes, Stages, OutputsAreTwo
<1>3. ForwarderInv
  <2>1. \A d \in Std : Starters(d) = {}
    BY DEF Starters
  <2>2. \A d \in Std : gen[d] = Cardinality(Starters(d))
    BY <2>1, FS_EmptySet
  <2>3. \A d \in Std : \A g \in K!Gens : copier[d][g] = K!Idle
    OBVIOUS
  <2>4. \A d \in Std : captured[d] = FALSE /\ once[d] = FALSE /\ lock[d] = None /\ writers[d] = {}
    OBVIOUS
  <2>5. \A d \in Std : \A c \in Cats : started[c][d] <= gen[d]
    OBVIOUS
  <2> QED
    BY <2>2, <2>3, <2>4, <2>5 DEF ForwarderInv, OutputInv, GenInv
<1>4. ListenerInv /\ K!NothingPrintedIsMissed
  BY DEF ListenerInv, NotYet, WaitFor, OutputsAreTwo, K!NothingPrintedIsMissed
<1> QED
  BY <1>2, <1>3, <1>4 DEF CatInv

\* The number of goroutines started stays below the number of listeners: the one that
\* starts another has started none.
LEMMA StartersAreFew ==
  ASSUME CatInv, NEW c \in Cats, NEW d \in Std, started[c][d] = 0
  PROVE  gen[d] + 1 \in K!Gens /\ Cardinality(Starters(d) \cup {c}) = gen[d] + 1
<1> DEFINE S == Starters(d)
<1>1. IsFiniteSet(Cats) /\ gen[d] = Cardinality(S) /\ c \notin S
  BY DEF CatInv, OutputsAreTwo, ForwarderInv, GenInv, Starters
<1>2. S \cup {c} \in SUBSET Cats /\ S \in SUBSET Cats
  BY DEF Starters
<1> HIDE DEF S
<1>3. IsFiniteSet(S) /\ Cardinality(S \cup {c}) = gen[d] + 1
  BY <1>1, <1>2, FS_Subset, FS_AddElement
<1>4. Cardinality(S \cup {c}) <= Cardinality(Cats) /\ Cardinality(Cats) \in Nat /\ Cardinality(S) \in Nat
  BY <1>1, <1>2, <1>3, FS_Subset, FS_CardinalityType
<1>5. gen[d] + 1 \in K!Gens
  <2> DEFINE k == Cardinality(Cats)
  <2>1. gen[d] \in Nat /\ k \in Nat
    BY <1>1, <1>4
  <2>2. gen[d] + 1 <= k
    BY <1>3, <1>4
  <2>3. K!Gens = 1..k
    BY DEF K!Gens, K!Cardinality, Cardinality
  <2> HIDE DEF k
  <2> QED
    BY <2>1, <2>2, <2>3
<1> QED
  BY <1>3, <1>5 DEF S

\* A step that leaves the forwarder alone.
LEMMA CatKept ==
  ASSUME CatInv, UNCHANGED <<once, writers, captured, lock, gen, copier, started, printed, owed, received>>
  PROVE  ForwarderInv' /\ K!NothingPrintedIsMissed'
<1>1. ForwarderInv'
  BY DEF CatInv, ForwarderInv, OutputInv, GenInv, Starters
<1>2. K!NothingPrintedIsMissed'
  BY DEF CatInv, K!NothingPrintedIsMissed, K!InFlight
<1> QED
  BY <1>1, <1>2

\* A listener comes, or decides to leave: the forwarder is not touched yet.
LEMMA BeginLeaveInv ==
  ASSUME CatInv, NEW c \in Cats, K!Begin(c) \/ K!Leave(c) PROVE CatInv'
<1> USE DEF CatInv, K!Begin, K!Leave
<1>1. OutputsAreTwo'
  BY DEF OutputsAreTwo
<1>2. PICK s \in {"add_out", "rm_err"} : catPc' = [catPc EXCEPT ![c] = s] /\ (s = "add_out" => catPc[c] = "init")
  OBVIOUS
<1>3. catPc' \in [Cats -> Stages]
  BY <1>2 DEF CatTypes, Stages
<1>4. CatTypes'
  BY <1>3 DEF CatTypes
<1>5. ForwarderInv' /\ K!NothingPrintedIsMissed'
  BY CatKept
<1>6. ListenerInv'
  BY ZenonT(60), <1>2 DEF ListenerInv, NotYet, WaitFor, CatTypes, OutputsAreTwo
<1> QED
  BY <1>1, <1>4, <1>5, <1>6

\* A listener is added; the first one captures the output.
LEMMA AddInv == ASSUME CatInv, NEW c \in Cats, K!Add(c) PROVE CatInv'
<1> USE DEF CatInv
<1>1. PICK d \in Std :
        /\ \/ catPc[c] = "add_out" /\ d = "stdout" /\ catPc' = [catPc EXCEPT ![c] = "add_err"]
           \/ catPc[c] = "add_err" /\ d = "stderr" /\ catPc' = [catPc EXCEPT ![c] = "listen"]
        /\ lock[d] = None
        /\ once' = [once EXCEPT ![d] = TRUE]
        /\ writers' = [writers EXCEPT ![d] = @ \cup {c}]
        /\ \/ once[d] /\ UNCHANGED <<gen, copier, captured, started>>
           \/ /\ ~once[d]
              /\ gen' = [gen EXCEPT ![d] = @ + 1]
              /\ copier' = [copier EXCEPT ![d][gen[d] + 1] = K!Fresh]
              /\ captured' = [captured EXCEPT ![d] = TRUE]
              /\ started' = [started EXCEPT ![c][d] = gen[d] + 1]
        /\ UNCHANGED <<lock, printed, owed, received>>
  <2>1. K!Adds["add_out"] = "stdout" /\ K!Adds["add_err"] = "stderr" /\ DOMAIN K!Adds = {"add_out", "add_err"}
        /\ K!After["add_out"] = "add_err" /\ K!After["add_err"] = "listen"
    BY DEF K!Adds, K!After
  <2>2. CASE catPc[c] = "add_out"
    <3>1. K!Adds[catPc[c]] = "stdout" /\ "stdout" \in Std /\ K!After[catPc[c]] = "add_err"
      BY <2>1, <2>2 DEF OutputsAreTwo
    <3> QED
      BY <2>2, <3>1 DEF K!Add, K!addWriter
  <2>3. CASE catPc[c] = "add_err"
    <3>1. K!Adds[catPc[c]] = "stderr" /\ "stderr" \in Std /\ K!After[catPc[c]] = "listen"
      BY <2>1, <2>3 DEF OutputsAreTwo
    <3> QED
      BY <2>3, <3>1 DEF K!Add, K!addWriter
  <2> QED
    BY <2>1, <2>2, <2>3 DEF K!Add
<1>2. started[c][d] = 0 /\ owed[c][d] = {} /\ c \notin writers[d]
  BY <1>1 DEF ListenerInv, NotYet
<1>3. gen[d] + 1 \in K!Gens /\ gen[d] \in Nat
  BY <1>2, StartersAreFew DEF CatTypes
<1>4. K!Fresh \in Pipes /\ Len(K!Fresh.buf) = 0 /\ K!Fresh.hand = 0 /\ DOMAIN K!Fresh.buf = {}
  BY DEF K!Fresh, Pipes, OutputsAreTwo
<1>5. OutputsAreTwo'
  BY DEF OutputsAreTwo
<1>6. \A e \in Std, g \in K!Gens :
        copier'[e][g] = copier[e][g] \/ (~once[d] /\ e = d /\ g = gen[d] + 1 /\ copier'[e][g] = K!Fresh)
  BY <1>1, <1>3 DEF CatTypes
<1>7. CatTypes'
  <2>1. catPc \in [Cats -> Stages] /\ once \in [Std -> BOOLEAN] /\ captured \in [Std -> BOOLEAN]
        /\ writers \in [Std -> SUBSET Cats] /\ gen \in [Std -> Nat] /\ started \in [Cats -> [Std -> Nat]]
        /\ copier \in [Std -> [K!Gens -> Pipes]]
    BY DEF CatTypes
  <2>2. catPc' \in [Cats -> Stages]
    BY <1>1, <2>1 DEF Stages
  <2>3. once' \in [Std -> BOOLEAN] /\ captured' \in [Std -> BOOLEAN] /\ writers' \in [Std -> SUBSET Cats]
    BY ZenonT(60), <1>1, <2>1
  <2>5. gen' \in [Std -> Nat]
    BY <1>1, <2>1
  <2>6. started' \in [Cats -> [Std -> Nat]]
    <3>1. gen[d] + 1 \in Nat
      BY <1>3
    <3>2. CASE UNCHANGED started
      BY <2>1, <3>2
    <3>3. CASE started' = [started EXCEPT ![c][d] = gen[d] + 1]
      BY <2>1, <3>1, <3>3
    <3> QED
      BY <1>1, <3>2, <3>3
  <2>7. copier' \in [Std -> [K!Gens -> Pipes]]
    <3>1. CASE UNCHANGED copier
      BY <2>1, <3>1
    <3>2. CASE copier' = [copier EXCEPT ![d][gen[d] + 1] = K!Fresh]
      BY <1>4, <2>1, <3>2
    <3> QED
      BY <1>1, <3>1, <3>2
  <2>4. \A e \in Std, g \in K!Gens : Len(copier'[e][g].buf) <= printed'
    BY <1>1, <1>4, <1>6 DEF CatTypes, OutputsAreTwo
  <2> QED
    BY <1>1, <2>2, <2>3, <2>4, <2>5, <2>6, <2>7 DEF CatTypes
<1>8. ListenerInv'
  <2> SUFFICES ASSUME NEW b \in Cats, NEW e \in Std
               PROVE  /\ catPc'[b] \in NotYet(e) => started'[b][e] = 0 /\ owed'[b][e] = {} /\ b \notin writers'[e]
                      /\ catPc'[b] = WaitFor(e) => lock'[e] = b
    BY DEF ListenerInv, NotYet, WaitFor
  <2>1. catPc'[b] \in NotYet(e) => catPc[b] \in NotYet(e) /\ (b # c \/ e # d)
    BY <1>1 DEF NotYet, CatTypes
  <2>2. b # c \/ e # d => started'[b][e] = started[b][e] /\ (b \in writers'[e] => b \in writers[e])
    BY <1>1 DEF CatTypes
  <2>3. catPc'[b] = WaitFor(e) => catPc[b] = WaitFor(e)
    BY <1>1 DEF WaitFor, CatTypes
  <2> QED
    BY <1>1, <2>1, <2>2, <2>3 DEF ListenerInv
<1>9. K!NothingPrintedIsMissed'
  <2> SUFFICES ASSUME NEW e \in Std, NEW b \in writers'[e] PROVE owed'[b][e] \subseteq received'[b][e] \cup K!InFlight(e)'
    BY DEF K!NothingPrintedIsMissed
  <2>1. K!InFlight(e) \subseteq K!InFlight(e)' \cup {0}
    <3>1. ASSUME NEW g \in K!Gens, copier'[e][g] # copier[e][g]
          PROVE  copier[e][g].hand = 0 /\ copier[e][g].buf = <<>>
      <4>1. e = d /\ g = gen[d] + 1 /\ g > gen[d]
        BY <1>3, <1>6, <3>1
      <4> QED
        BY <4>1 DEF ForwarderInv, GenInv, K!Idle
    <3> QED
      BY <3>1 DEF K!InFlight
  <2>2. 0 \notin owed[b][e]
    BY <1>1 DEF CatTypes
  <2>3. b \in writers[e] \/ owed[b][e] = {}
    BY <1>1, <1>2 DEF CatTypes
  <2>4. b \in writers[e] => owed[b][e] \subseteq received[b][e] \cup K!InFlight(e)
    BY DEF K!NothingPrintedIsMissed
  <2> QED
    BY <1>1, <2>1, <2>2, <2>3, <2>4
<1>10. ForwarderInv'
  <2> SUFFICES ASSUME NEW e \in Std PROVE OutputInv(e)' /\ GenInv(e)'
    BY DEF ForwarderInv
  <2>1. OutputInv(e)'
    BY <1>1, <1>3 DEF ForwarderInv, OutputInv, CatTypes
  <2>2. GenInv(e)'
    <3>1. GenInv(e) /\ gen[e] \in Nat
      BY DEF ForwarderInv, CatTypes
    <3>0. gen \in [Std -> Nat] /\ started \in [Cats -> [Std -> Nat]] /\ \A b \in Cats : started[b][e] \in Nat
      BY DEF CatTypes
    <3>2. CASE once[d] \/ e # d
      <4>1. gen'[e] = gen[e] /\ (\A b \in Cats : started'[b][e] = started[b][e]) /\ \A g \in K!Gens : copier'[e][g] = copier[e][g]
        <5>1. \A g \in K!Gens : copier'[e][g] = copier[e][g]
          BY <1>6, <3>2
        <5>2. gen'[e] = gen[e]
          BY <1>1, <3>0, <3>2
        <5>3. \A b \in Cats : started'[b][e] = started[b][e]
          BY <1>1, <3>0, <3>2
        <5> QED
          BY <5>1, <5>2, <5>3
      <4>2. Starters(e)' = Starters(e)
        BY <4>1 DEF Starters
      <4> QED
        BY <3>1, <4>1, <4>2 DEF GenInv
    <3>3. CASE ~once[d] /\ e = d
      <4>1. gen'[e] = gen[e] + 1 /\ \A b \in Cats : started'[b][e] = IF b = c THEN gen[e] + 1 ELSE started[b][e]
        BY <1>1, <3>3 DEF CatTypes
      <4>2. Starters(e)' = Starters(e) \cup {c}
        BY <3>1, <4>1 DEF Starters
      <4>3. gen'[e] = Cardinality(Starters(e)')
        BY <1>2, <3>3, <4>1, <4>2, StartersAreFew
      <4>4. \A b \in Cats : started'[b][e] <= gen'[e]
        BY <3>0, <3>1, <4>1 DEF GenInv
      <4>5. \A g \in K!Gens : g > gen'[e] => g > gen[e] /\ g # gen[d] + 1
        BY <3>1, <3>3, <4>1 DEF K!Gens
      <4>6. \A g \in K!Gens : g > gen'[e] => copier'[e][g] = K!Idle
        BY <1>6, <3>1, <4>5 DEF GenInv
      <4> QED
        BY <4>3, <4>4, <4>6 DEF GenInv
    <3> QED
      BY <3>2, <3>3
  <2> QED
    BY <2>1, <2>2
<1> QED
  BY <1>5, <1>7, <1>8, <1>9, <1>10

\* What goroutines hold stays on its way as long as their pipes lose nothing.
LEMMA PipesKept ==
  ASSUME CatInv, NEW e \in Std, NEW b \in Cats, b \in writers[e],
         owed'[b][e] = owed[b][e], received'[b][e] = received[b][e],
         \A g \in K!Gens : copier'[e][g].buf = copier[e][g].buf /\ copier'[e][g].hand = copier[e][g].hand
  PROVE  owed'[b][e] \subseteq received'[b][e] \cup K!InFlight(e)'
<1>1. K!InFlight(e)' = K!InFlight(e)
  BY DEF K!InFlight
<1> QED
  BY <1>1 DEF CatInv, K!NothingPrintedIsMissed

\* The updates of a pipe give a pipe.
LEMMA PipeUpdates ==
  ASSUME OutputsAreTwo, NEW r \in Pipes
  PROVE  /\ [r EXCEPT !.open = FALSE] \in Pipes /\ [r EXCEPT !.ended = TRUE] \in Pipes
         /\ [r EXCEPT !.hand = 0] \in Pipes
         /\ \A s \in Seq(1..MaxPrints) : [r EXCEPT !.buf = s] \in Pipes
         /\ \A s \in Seq(1..MaxPrints), h \in 1..MaxPrints : [r EXCEPT !.buf = s, !.hand = h] \in Pipes
<1>1. [r EXCEPT !.open = FALSE] \in Pipes /\ [r EXCEPT !.ended = TRUE] \in Pipes
  BY DEF Pipes
<1>2. [r EXCEPT !.hand = 0] \in Pipes
  BY DEF Pipes, OutputsAreTwo
<1>3. ASSUME NEW s \in Seq(1..MaxPrints) PROVE [r EXCEPT !.buf = s] \in Pipes
  BY DEF Pipes
<1>4. ASSUME NEW s \in Seq(1..MaxPrints), NEW h \in 1..MaxPrints PROVE [r EXCEPT !.buf = s, !.hand = h] \in Pipes
  <2>1. h \in 0..MaxPrints
    OBVIOUS
  <2> QED
    BY <2>1 DEF Pipes
<1> QED
  BY <1>1, <1>2, <1>3, <1>4

\* One pipe changes: the others are what they were.
LEMMA PipeChanged ==
  ASSUME copier \in [Std -> [K!Gens -> Pipes]], NEW d \in Std, NEW g \in K!Gens, NEW pipe \in Pipes,
         copier' = [copier EXCEPT ![d][g] = pipe]
  PROVE  /\ copier' \in [Std -> [K!Gens -> Pipes]]
         /\ \A e \in Std, h \in K!Gens : copier'[e][h] = IF e = d /\ h = g THEN pipe ELSE copier[e][h]
  OBVIOUS

\* The goroutine of a captured output is one of those that can be.
LEMMA CapturedPipe == ASSUME CatInv, NEW d \in Std, gen[d] # 0 PROVE gen[d] \in K!Gens
<1>1. IsFiniteSet(Cats) /\ gen[d] = Cardinality(Starters(d)) /\ gen[d] \in Nat
  BY DEF CatInv, OutputsAreTwo, ForwarderInv, GenInv, CatTypes
<1>2. Starters(d) \in SUBSET Cats
  BY DEF Starters
<1>3. Cardinality(Starters(d)) <= Cardinality(Cats) /\ Cardinality(Cats) \in Nat
  BY <1>1, <1>2, FS_Subset, FS_CardinalityType
<1> DEFINE k == Cardinality(Cats)
<1>4. gen[d] <= k /\ k \in Nat
  BY <1>1, <1>3
<1>5. K!Gens = 1..k
  BY DEF K!Gens, K!Cardinality, Cardinality
<1> HIDE DEF k
<1> QED
  BY <1>1, <1>4, <1>5

\* A listener is removed; the last one restores the output and closes the pipe.
LEMMA RemoveInv == ASSUME CatInv, NEW c \in Cats, K!Remove(c) PROVE CatInv'
<1> USE DEF CatInv
<1>1. PICK d \in Std, next \in Stages, held \in BOOLEAN :
        /\ d = "stderr" => catPc[c] = "rm_err" /\ next \in {"rm_out", "wait_err"}
        /\ d = "stdout" => catPc[c] = "rm_out" /\ next \in {"ended", "wait_out"}
        /\ held = TRUE <=> next = WaitFor(d)
        /\ lock[d] = None
        /\ catPc' = [catPc EXCEPT ![c] = next]
        /\ writers' = [writers EXCEPT ![d] = @ \ {c}]
        /\ \/ writers'[d] # {} /\ held = FALSE /\ UNCHANGED <<captured, copier, lock, once>>
           \/ /\ writers'[d] = {} /\ captured' = [captured EXCEPT ![d] = FALSE]
              /\ copier' = [copier EXCEPT ![d][gen[d]].open = FALSE]
              /\ \/ held = TRUE /\ lock' = [lock EXCEPT ![d] = c] /\ UNCHANGED once
                 \/ held = FALSE /\ once' = [once EXCEPT ![d] = FALSE] /\ UNCHANGED lock
        /\ UNCHANGED <<gen, started, printed, owed, received>>
  <2>1. K!Removes["rm_err"] = "stderr" /\ K!Removes["rm_out"] = "stdout" /\ DOMAIN K!Removes = {"rm_err", "rm_out"}
        /\ K!After["rm_err"] = "rm_out" /\ K!After["rm_out"] = "ended"
        /\ K!Waiting["rm_err"] = "wait_err" /\ K!Waiting["rm_out"] = "wait_out"
    BY DEF K!Removes, K!After, K!Waiting
  <2>2. CASE catPc[c] = "rm_err"
    <3>1. K!Removes[catPc[c]] = "stderr" /\ "stderr" \in Std /\ K!After[catPc[c]] = "rm_out" /\ K!Waiting[catPc[c]] = "wait_err"
      BY <2>1, <2>2 DEF OutputsAreTwo
    <3> QED
      BY <2>2, <3>1 DEF K!Remove, K!Teardown, K!Reset, WaitFor, Stages
  <2>3. CASE catPc[c] = "rm_out"
    <3>1. K!Removes[catPc[c]] = "stdout" /\ "stdout" \in Std /\ K!After[catPc[c]] = "ended" /\ K!Waiting[catPc[c]] = "wait_out"
      BY <2>1, <2>3 DEF OutputsAreTwo
    <3> QED
      BY <2>3, <3>1 DEF K!Remove, K!Teardown, K!Reset, WaitFor, Stages
  <2> QED
    BY <2>1, <2>2, <2>3 DEF K!Remove
<1>2. OutputsAreTwo'
  BY DEF OutputsAreTwo
<1>3. /\ catPc \in [Cats -> Stages] /\ once \in [Std -> BOOLEAN] /\ captured \in [Std -> BOOLEAN]
      /\ writers \in [Std -> SUBSET Cats] /\ lock \in [Std -> Cats \cup {None}]
      /\ copier \in [Std -> [K!Gens -> Pipes]]
  BY DEF CatTypes
<1>4. copier' \in [Std -> [K!Gens -> Pipes]]
  <2>1. CASE UNCHANGED copier
    BY <1>3, <2>1
  <2>2. CASE copier' = [copier EXCEPT ![d][gen[d]].open = FALSE]
    <3> DEFINE pipe == [copier[d][gen[d]] EXCEPT !.open = FALSE]
               row == [copier[d] EXCEPT ![gen[d]] = pipe]
    <3>1. ASSUME gen[d] \in K!Gens PROVE pipe \in Pipes
      <4>1. copier[d][gen[d]] \in Pipes
        BY <1>3, <3>1
      <4> QED
        BY <4>1, PipeUpdates
    <3>2. copier' = [copier EXCEPT ![d] = row]
      BY <2>2
    <3> HIDE DEF pipe
    <3>3. copier[d] \in [K!Gens -> Pipes]
      BY <1>3
    <3>4. row \in [K!Gens -> Pipes]
      BY <3>1, <3>3
    <3> HIDE DEF row
    <3> QED
      BY <1>3, <3>2, <3>4
  <2> QED
    BY <1>1, <2>1, <2>2
<1>5. ASSUME NEW e \in Std, NEW g \in K!Gens
      PROVE  /\ copier'[e][g].buf = copier[e][g].buf /\ copier'[e][g].hand = copier[e][g].hand
             /\ g # gen[d] => copier'[e][g] = copier[e][g]
             /\ e # d => copier'[e][g] = copier[e][g]
  <2>1. CASE UNCHANGED copier
    BY <2>1
  <2>2. CASE copier' = [copier EXCEPT ![d][gen[d]].open = FALSE]
    <3>1. CASE e = d /\ g = gen[d]
      <4>1. copier'[e][g] = [copier[e][g] EXCEPT !.open = FALSE] /\ copier[e][g] \in Pipes
        BY <1>3, <2>2, <3>1
      <4> QED
        BY <3>1, <4>1 DEF Pipes
    <3>2. CASE e # d \/ g # gen[d]
      BY <1>3, <2>2, <3>2
    <3> QED
      BY <3>1, <3>2
  <2> QED
    BY <1>1, <2>1, <2>2
<1>6. CatTypes'
  <2>1. catPc' \in [Cats -> Stages] /\ writers' \in [Std -> SUBSET Cats]
    BY <1>1, <1>3
  <2>2. once' \in [Std -> BOOLEAN] /\ captured' \in [Std -> BOOLEAN] /\ lock' \in [Std -> Cats \cup {None}]
    BY ZenonT(60), <1>1, <1>3
  <2>3. \A e \in Std, g \in K!Gens : Len(copier'[e][g].buf) <= printed'
    BY <1>1, <1>5 DEF CatTypes
  <2> QED
    BY <1>1, <1>4, <2>1, <2>2, <2>3 DEF CatTypes
<1>7. \A e \in Std, b \in Cats : b \in writers'[e] => b \in writers[e]
  BY <1>1, <1>3
<1>8. K!NothingPrintedIsMissed'
  <2> SUFFICES ASSUME NEW e \in Std, NEW b \in writers'[e] PROVE owed'[b][e] \subseteq received'[b][e] \cup K!InFlight(e)'
    BY DEF K!NothingPrintedIsMissed
  <2>1. b \in Cats /\ b \in writers[e]
    BY <1>6, <1>7 DEF CatTypes
  <2>2. owed'[b][e] = owed[b][e] /\ received'[b][e] = received[b][e]
    BY <1>1
  <2> QED
    BY <1>5, <2>1, <2>2, PipesKept
<1>9. ListenerInv'
  <2> SUFFICES ASSUME NEW b \in Cats, NEW e \in Std
               PROVE  /\ catPc'[b] \in NotYet(e) => started'[b][e] = 0 /\ owed'[b][e] = {} /\ b \notin writers'[e]
                      /\ catPc'[b] = WaitFor(e) => lock'[e] = b
    BY DEF ListenerInv, NotYet, WaitFor
  <2>1. catPc'[b] \in NotYet(e) => catPc[b] \in NotYet(e)
    BY <1>1, <1>3 DEF NotYet, OutputsAreTwo
  <2>2. catPc'[b] = WaitFor(e) => (catPc[b] = WaitFor(e) /\ lock'[e] = lock[e]) \/ (b = c /\ e = d /\ lock'[e] = c)
    <3>1. ASSUME catPc[b] = WaitFor(e) PROVE e # d /\ lock'[e] = lock[e]
      <4>1. lock[e] = b /\ b # None
        BY <3>1 DEF ListenerInv, OutputsAreTwo
      <4> QED
        BY <1>1, <1>3, <4>1
    <3>2. ASSUME b = c, catPc'[b] = WaitFor(e) PROVE e = d /\ lock'[e] = c
      <4>1. next = WaitFor(e)
        BY <1>1, <1>3, <3>2
      <4>2. e = d
        BY <1>1, <4>1 DEF WaitFor, OutputsAreTwo
      <4> QED
        BY <1>1, <1>3, <4>1, <4>2
    <3>3. b # c => catPc'[b] = catPc[b]
      BY <1>1, <1>3
    <3> QED
      BY <3>1, <3>2, <3>3
  <2> QED
    BY <1>1, <1>7, <2>1, <2>2 DEF ListenerInv
<1>10. ForwarderInv'
  <2> SUFFICES ASSUME NEW e \in Std PROVE OutputInv(e)' /\ GenInv(e)'
    BY DEF ForwarderInv
  <2>1. OutputInv(e)'
    <3>1. OutputInv(e) /\ gen'[e] = gen[e]
      BY <1>1 DEF ForwarderInv
    <3>2. CASE e # d
      <4>1. captured'[e] = captured[e] /\ once'[e] = once[e] /\ lock'[e] = lock[e] /\ writers'[e] = writers[e]
        BY <1>1, <1>3, <3>2
      <4> QED
        BY <3>1, <4>1 DEF OutputInv
    <3>3. CASE e = d /\ writers'[d] # {}
      <4>1. captured'[d] = captured[d] /\ once'[d] = once[d] /\ lock'[d] = lock[d] /\ writers[d] # {}
        BY <1>1, <1>3, <3>3
      <4> QED
        BY <3>1, <3>3, <4>1 DEF OutputInv
    <3>4. CASE e = d /\ writers'[d] = {}
      <4>1. captured'[d] = FALSE
        BY <1>1, <1>3, <3>4
      <4>2. (lock'[d] = c /\ once'[d] = once[d]) \/ (once'[d] = FALSE /\ lock'[d] = None)
        BY <1>1, <1>3, <3>4
      <4> QED
        BY <1>1, <3>1, <3>4, <4>1, <4>2 DEF OutputInv, OutputsAreTwo
    <3> QED
      BY <3>2, <3>3, <3>4
  <2>2. Starters(e)' = Starters(e)
    BY <1>1 DEF Starters
  <2>3. GenInv(e)'
    <3>1. GenInv(e) /\ gen'[e] = gen[e] /\ gen[e] \in Nat /\ started' = started
      BY <1>1 DEF ForwarderInv, CatTypes
    <3>2. \A g \in K!Gens : g > gen[e] => copier'[e][g] = copier[e][g]
      BY <1>5, <3>1 DEF K!Gens
    <3> QED
      BY <2>2, <3>1, <3>2 DEF GenInv
  <2> QED
    BY <2>1, <2>3
<1> QED
  BY <1>2, <1>6, <1>8, <1>9, <1>10

\* The last listener goes once the copying goroutine has ended.
LEMMA RemoveWaitedInv == ASSUME CatInv, NEW c \in Cats, K!RemoveWaited(c) PROVE CatInv'
<1> USE DEF CatInv
<1>1. PICK d \in Std, next \in {"rm_out", "ended"} :
        /\ catPc[c] = WaitFor(d)
        /\ catPc' = [catPc EXCEPT ![c] = next]
        /\ once' = [once EXCEPT ![d] = FALSE] /\ lock' = [lock EXCEPT ![d] = None]
        /\ UNCHANGED <<writers, captured, gen, copier, started, printed, owed, received>>
  <2>1. K!Waits["wait_err"] = "stderr" /\ K!Waits["wait_out"] = "stdout" /\ DOMAIN K!Waits = {"wait_err", "wait_out"}
        /\ K!After["wait_err"] = "rm_out" /\ K!After["wait_out"] = "ended"
    BY DEF K!Waits, K!After
  <2>2. CASE catPc[c] = "wait_err"
    <3>1. K!Waits[catPc[c]] = "stderr" /\ "stderr" \in Std /\ K!After[catPc[c]] = "rm_out"
      BY <2>1, <2>2 DEF OutputsAreTwo
    <3> QED
      BY <2>2, <3>1 DEF K!RemoveWaited, K!Reset, WaitFor
  <2>3. CASE catPc[c] = "wait_out"
    <3>1. K!Waits[catPc[c]] = "stdout" /\ "stdout" \in Std /\ K!After[catPc[c]] = "ended"
      BY <2>1, <2>3 DEF OutputsAreTwo
    <3> QED
      BY <2>3, <3>1 DEF K!RemoveWaited, K!Reset, WaitFor
  <2> QED
    BY <2>1, <2>2, <2>3 DEF K!RemoveWaited
<1>2. OutputsAreTwo'
  BY DEF OutputsAreTwo
<1>3. /\ catPc \in [Cats -> Stages] /\ once \in [Std -> BOOLEAN] /\ lock \in [Std -> Cats \cup {None}]
  BY DEF CatTypes
<1>4. CatTypes'
  <2>1. catPc' \in [Cats -> Stages] /\ once' \in [Std -> BOOLEAN] /\ lock' \in [Std -> Cats \cup {None}]
    BY <1>1, <1>3 DEF Stages
  <2> QED
    BY <1>1, <2>1 DEF CatTypes
<1>5. lock[d] = c /\ c # None
  BY <1>1 DEF ListenerInv, OutputsAreTwo
<1>6. ForwarderInv'
  <2> SUFFICES ASSUME NEW e \in Std PROVE OutputInv(e)' /\ GenInv(e)'
    BY DEF ForwarderInv
  <2>1. OutputInv(e)'
    <3>1. OutputInv(e)
      BY DEF ForwarderInv
    <3>2. (e # d /\ once'[e] = once[e] /\ lock'[e] = lock[e]) \/ (e = d /\ once'[e] = FALSE /\ lock'[e] = None)
      BY <1>1, <1>3
    <3> QED
      BY <1>1, <1>5, <3>1, <3>2 DEF OutputInv
  <2>2. GenInv(e)'
    BY <1>1 DEF ForwarderInv, GenInv, Starters
  <2> QED
    BY <2>1, <2>2
<1>7. ListenerInv'
  <2> SUFFICES ASSUME NEW b \in Cats, NEW e \in Std
               PROVE  /\ catPc'[b] \in NotYet(e) => started'[b][e] = 0 /\ owed'[b][e] = {} /\ b \notin writers'[e]
                      /\ catPc'[b] = WaitFor(e) => lock'[e] = b
    BY DEF ListenerInv, NotYet, WaitFor
  <2>1. (b # c => catPc'[b] = catPc[b]) /\ (b = c => catPc'[b] = next)
    BY <1>1, <1>3
  <2>2. next \notin NotYet(e) /\ next # WaitFor(e)
    BY <1>1 DEF NotYet, WaitFor
  <2>3. catPc'[b] = WaitFor(e) => lock[e] = b /\ e # d
    BY <1>5, <2>1, <2>2 DEF ListenerInv
  <2>4. e # d => lock'[e] = lock[e]
    BY <1>1, <1>3
  <2> QED
    BY <1>1, <2>1, <2>2, <2>3, <2>4 DEF ListenerInv
<1>8. K!NothingPrintedIsMissed'
  BY <1>1 DEF K!NothingPrintedIsMissed, K!InFlight
<1> QED
  BY <1>2, <1>4, <1>6, <1>7, <1>8

\* A step of the daemon or of a goroutine, on one pipe of one output.
LEMMA PipeStepInv ==
  ASSUME CatInv, UNCHANGED <<catPc, once, writers, captured, lock, gen, started>>, CatTypes',
         \A e \in Std, g \in K!Gens : g > gen[e] => copier'[e][g] = copier[e][g],
         \A e \in Std, b \in Cats : b \notin writers[e] => owed'[b][e] = owed[b][e],
         K!NothingPrintedIsMissed'
  PROVE  CatInv'
<1>1. OutputsAreTwo'
  BY DEF CatInv, OutputsAreTwo
<1>2. ForwarderInv'
  <2> SUFFICES ASSUME NEW e \in Std PROVE OutputInv(e)' /\ GenInv(e)'
    BY DEF ForwarderInv
  <2>1. OutputInv(e)'
    BY DEF CatInv, ForwarderInv, OutputInv
  <2>2. GenInv(e)'
    BY ZenonT(60) DEF CatInv, ForwarderInv, GenInv, Starters
  <2> QED
    BY <2>1, <2>2
<1>3. ListenerInv'
  BY DEF CatInv, ListenerInv, NotYet, WaitFor
<1> QED
  BY <1>1, <1>2, <1>3 DEF CatInv

\* What is printed goes to the pipe of the captured output.
LEMMA EmitInv == ASSUME CatInv, NEW d \in Std, K!Emit(d) PROVE CatInv'
<1> USE DEF CatInv
<1>1. /\ UNCHANGED <<catPc, once, writers, captured, lock, gen, started, received>>
      /\ printed \in Nat /\ printed' = printed + 1 /\ printed' \in 1..MaxPrints
  BY DEF K!Emit, CatTypes, OutputsAreTwo
<1>2. owed' = [c \in Cats |-> IF c \in writers[d] THEN [owed[c] EXCEPT ![d] = @ \cup {printed'}] ELSE owed[c]]
  BY DEF K!Emit
<1>3. copier \in [Std -> [K!Gens -> Pipes]] /\ gen[d] \in Nat /\ owed \in [Cats -> [Std -> SUBSET (1..MaxPrints)]]
  BY DEF CatTypes
<1>4. \A e \in Std, b \in Cats :
        owed'[b][e] = IF e = d /\ b \in writers[d] THEN owed[b][e] \cup {printed'} ELSE owed[b][e]
  BY <1>2, <1>3
<1>5. owed' \in [Cats -> [Std -> SUBSET (1..MaxPrints)]]
  BY <1>1, <1>2, <1>3
<1>6. CASE captured[d]
  <2> DEFINE n == printed'
             old == copier[d][gen[d]]
             pipe == [old EXCEPT !.buf = Append(old.buf, n)]
  <2>1. gen[d] \in K!Gens
    BY <1>6, CapturedPipe DEF ForwarderInv, OutputInv
  <2>2. old \in Pipes /\ n \in 1..MaxPrints
    BY <1>1, <1>3, <2>1
  <2>3. copier' = [copier EXCEPT ![d][gen[d]] = pipe]
    BY <1>6 DEF K!Emit
  <2> HIDE DEF n, old
  <2>4. pipe \in Pipes /\ pipe.hand = old.hand /\ pipe.buf = Append(old.buf, n) /\ old.buf \in Seq(1..MaxPrints)
    <3>1. old.buf \in Seq(1..MaxPrints) /\ DOMAIN old = {"buf", "open", "hand", "ended"}
      BY <2>2 DEF Pipes
    <3>2. Append(old.buf, n) \in Seq(1..MaxPrints)
      BY <2>2, <3>1
    <3> QED
      BY <2>2, <3>1, <3>2, PipeUpdates
  <2>5. Len(pipe.buf) = Len(old.buf) + 1 /\ DOMAIN pipe.buf = 1..(Len(old.buf) + 1) /\ DOMAIN old.buf = 1..Len(old.buf)
        /\ pipe.buf[Len(old.buf) + 1] = n /\ \A i \in DOMAIN old.buf : pipe.buf[i] = old.buf[i]
    BY <2>2, <2>4
  <2> HIDE DEF pipe
  <2>6. copier' \in [Std -> [K!Gens -> Pipes]]
    BY <1>3, <2>1, <2>3, <2>4, PipeChanged
  <2>7. \A e \in Std, g \in K!Gens : copier'[e][g] = IF e = d /\ g = gen[d] THEN pipe ELSE copier[e][g]
    BY <1>3, <2>1, <2>3, <2>4, PipeChanged
  <2>8. \A e \in Std, g \in K!Gens : Len(copier'[e][g].buf) <= printed'
    <3>1. \A e \in Std, g \in K!Gens : Len(copier[e][g].buf) <= printed /\ Len(copier[e][g].buf) \in Nat
      BY DEF CatTypes, Pipes
    <3>2. Len(old.buf) <= printed /\ Len(old.buf) \in Nat
      BY <2>1, <3>1 DEF old
    <3> QED
      BY <1>1, <2>5, <2>7, <3>1, <3>2
  <2>9. CatTypes'
    BY <1>1, <1>5, <2>6, <2>8 DEF CatTypes, OutputsAreTwo
  <2>10. n \in K!InFlight(d)'
    <3>1. copier'[d][gen[d]] = pipe
      BY <2>1, <2>7
    <3>2. Len(old.buf) + 1 \in DOMAIN pipe.buf
      BY <2>4, <2>5
    <3>3. n \in {copier'[d][gen[d]].buf[i] : i \in DOMAIN copier'[d][gen[d]].buf}
      BY <2>5, <3>1, <3>2
    <3> QED
      BY <1>1, <2>1, <3>3 DEF K!InFlight
  <2>11. ASSUME NEW e \in Std PROVE K!InFlight(e) \subseteq K!InFlight(e)'
    <3> SUFFICES ASSUME NEW g \in K!Gens, NEW x,
                        x = copier[e][g].hand \/ \E i \in DOMAIN copier[e][g].buf : x = copier[e][g].buf[i]
                 PROVE  x = copier'[e][g].hand \/ \E i \in DOMAIN copier'[e][g].buf : x = copier'[e][g].buf[i]
      BY DEF K!InFlight
    <3>1. DOMAIN old.buf \subseteq DOMAIN pipe.buf
      BY <2>2, <2>5 DEF Pipes
    <3> QED
      BY <2>4, <2>5, <2>7, <3>1 DEF old
  <2>12. K!NothingPrintedIsMissed'
    <3> SUFFICES ASSUME NEW e \in Std, NEW b \in writers[e] PROVE owed'[b][e] \subseteq received[b][e] \cup K!InFlight(e)'
      BY <1>1 DEF K!NothingPrintedIsMissed
    <3>1. b \in Cats /\ owed[b][e] \subseteq received[b][e] \cup K!InFlight(e)
      BY DEF CatTypes, K!NothingPrintedIsMissed
    <3>2. printed' \in K!InFlight(d)'
      BY <2>10 DEF n
    <3>3. K!InFlight(e) \subseteq K!InFlight(e)'
      BY <2>11
    <3>4. owed'[b][e] \subseteq owed[b][e] \cup {printed'} /\ (e # d => owed'[b][e] = owed[b][e])
      BY <1>4, <3>1
    <3>5. CASE e = d
      BY <3>1, <3>2, <3>3, <3>4, <3>5
    <3>6. CASE e # d
      BY <3>1, <3>3, <3>4, <3>6
    <3> QED
      BY <3>5, <3>6
  <2> QED
    <3>1. \A e \in Std, g \in K!Gens : g > gen[e] => copier'[e][g] = copier[e][g]
      BY <1>3, <2>7
    <3>2. \A e \in Std, b \in Cats : b \notin writers[e] => owed'[b][e] = owed[b][e]
      BY <1>4
    <3> QED
      BY <1>1, <2>9, <2>12, <3>1, <3>2, PipeStepInv
<1>7. CASE ~captured[d]
  <2>1. copier' = copier /\ writers[d] = {}
    BY <1>7 DEF K!Emit, ForwarderInv, OutputInv
  <2>2. CatTypes'
    BY <1>1, <1>5, <2>1 DEF CatTypes, OutputsAreTwo
  <2>3. K!NothingPrintedIsMissed'
    <3> SUFFICES ASSUME NEW e \in Std, NEW b \in writers[e] PROVE owed'[b][e] \subseteq received[b][e] \cup K!InFlight(e)'
      BY <1>1 DEF K!NothingPrintedIsMissed
    <3>1. b \in Cats /\ owed[b][e] \subseteq received[b][e] \cup K!InFlight(e)
      BY DEF CatTypes, K!NothingPrintedIsMissed
    <3>2. K!InFlight(e)' = K!InFlight(e)
      BY <2>1 DEF K!InFlight
    <3> QED
      BY <1>4, <2>1, <3>1, <3>2
  <2> QED
    BY <1>1, <1>4, <2>1, <2>2, <2>3, PipeStepInv
<1> QED
  BY <1>6, <1>7

\* The copying goroutine takes what is next in its pipe.
LEMMA CopyReadInv == ASSUME CatInv, NEW d \in Std, NEW g \in K!Gens, K!CopyRead(d, g) PROVE CatInv'
<1> USE DEF CatInv
<1> DEFINE old == copier[d][g]
           pipe == [old EXCEPT !.buf = Tail(old.buf), !.hand = Head(old.buf)]
<1>1. /\ UNCHANGED <<catPc, once, writers, captured, lock, gen, started, printed, owed, received>>
      /\ old.buf # <<>> /\ old.hand = 0
  BY DEF K!CopyRead
<1>2. copier \in [Std -> [K!Gens -> Pipes]] /\ old \in Pipes /\ Len(old.buf) <= printed /\ printed \in Nat
  BY DEF CatTypes, OutputsAreTwo
<1>3. copier' = [copier EXCEPT ![d][g] = pipe]
  <2>1. copier' = [copier EXCEPT ![d][g].buf = Tail(@), ![d][g].hand = Head(copier[d][g].buf)]
    BY DEF K!CopyRead
  <2> QED
    BY <1>2, <2>1 DEF Pipes
<1>4. old.buf \in Seq(1..MaxPrints) /\ DOMAIN old = {"buf", "open", "hand", "ended"}
  BY <1>2 DEF Pipes
<1>5. Tail(old.buf) \in Seq(1..MaxPrints) /\ Head(old.buf) \in 1..MaxPrints
  <2> DEFINE s == old.buf
             T == 1..MaxPrints
  <2>1. s \in Seq(T) /\ s # <<>>
    BY <1>1, <1>4
  <2> HIDE DEF s, T
  <2>2. Tail(s) \in Seq(T) /\ Head(s) \in T
    BY <2>1
  <2> QED
    BY <2>2 DEF s, T
<1>6. pipe \in Pipes /\ pipe.buf = Tail(old.buf) /\ pipe.hand = Head(old.buf)
  BY <1>2, <1>4, <1>5, PipeUpdates
<1>7. /\ Len(pipe.buf) = Len(old.buf) - 1 /\ Len(old.buf) \in Nat
      /\ \A i \in DOMAIN old.buf : i = 1 \/ (i - 1 \in DOMAIN pipe.buf /\ pipe.buf[i - 1] = old.buf[i])
      /\ Head(old.buf) = old.buf[1]
  BY <1>1, <1>4, <1>6
<1> HIDE DEF old, pipe
<1>8. copier' \in [Std -> [K!Gens -> Pipes]]
  BY <1>2, <1>3, <1>6, PipeChanged
<1>9. \A e \in Std, h \in K!Gens : copier'[e][h] = IF e = d /\ h = g THEN pipe ELSE copier[e][h]
  BY <1>2, <1>3, <1>6, PipeChanged
<1>10. CatTypes'
  <2>1. \A e \in Std, h \in K!Gens : Len(copier'[e][h].buf) <= printed
    <3>1. \A e \in Std, h \in K!Gens : Len(copier[e][h].buf) <= printed
      BY DEF CatTypes
    <3>2. Len(pipe.buf) <= printed
      BY <1>2, <1>7
    <3> QED
      BY <1>9, <3>1, <3>2
  <2> QED
    BY <1>1, <1>8, <2>1 DEF CatTypes
<1>11. ASSUME NEW e \in Std PROVE K!InFlight(e) \subseteq K!InFlight(e)' \cup {0}
  <2> SUFFICES ASSUME NEW h \in K!Gens, NEW x,
                      x = copier[e][h].hand \/ \E i \in DOMAIN copier[e][h].buf : x = copier[e][h].buf[i]
               PROVE  x = 0 \/ x = copier'[e][h].hand \/ \E i \in DOMAIN copier'[e][h].buf : x = copier'[e][h].buf[i]
    BY DEF K!InFlight
  <2>1. CASE e = d /\ h = g
    <3>1. copier'[e][h] = pipe /\ copier[e][h] = old
      BY <1>9, <2>1 DEF old
    <3> QED
      BY <1>1, <1>6, <1>7, <3>1
  <2>2. CASE ~(e = d /\ h = g)
    <3>1. copier'[e][h] = copier[e][h]
      BY <1>9, <2>2
    <3> QED
      BY <3>1
  <2> QED
    BY <2>1, <2>2
<1>12. K!NothingPrintedIsMissed'
  <2> SUFFICES ASSUME NEW e \in Std, NEW b \in writers[e] PROVE owed[b][e] \subseteq received[b][e] \cup K!InFlight(e)'
    BY <1>1 DEF K!NothingPrintedIsMissed
  <2>1. b \in Cats /\ owed[b][e] \subseteq received[b][e] \cup K!InFlight(e) /\ owed[b][e] \subseteq 1..MaxPrints
    BY DEF CatTypes, K!NothingPrintedIsMissed
  <2> QED
    BY <1>11, <2>1
<1>13. \A e \in Std, h \in K!Gens : h > gen[e] => copier'[e][h] = copier[e][h]
  <2>1. ~(g > gen[d])
    BY <1>1 DEF old, ForwarderInv, GenInv, K!Idle
  <2> QED
    BY <1>9, <2>1
<1> QED
  BY <1>1, <1>10, <1>12, <1>13, PipeStepInv

\* The copying goroutine hands it to every writer, under the lock.
LEMMA CopyWriteInv == ASSUME CatInv, NEW d \in Std, NEW g \in K!Gens, K!CopyWrite(d, g) PROVE CatInv'
<1> USE DEF CatInv
<1> DEFINE old == copier[d][g]
           pipe == [old EXCEPT !.hand = 0]
<1>1. /\ UNCHANGED <<catPc, once, writers, captured, lock, gen, started, printed, owed>>
      /\ old.hand # 0
  BY DEF K!CopyWrite
<1>2. copier \in [Std -> [K!Gens -> Pipes]] /\ old \in Pipes /\ old.hand \in 1..MaxPrints
      /\ received \in [Cats -> [Std -> SUBSET (1..MaxPrints)]]
  BY <1>1 DEF CatTypes, Pipes, OutputsAreTwo
<1>3. copier' = [copier EXCEPT ![d][g] = pipe]
  BY <1>2 DEF K!CopyWrite
<1>4. pipe \in Pipes /\ pipe.buf = old.buf
  <2>1. DOMAIN old = {"buf", "open", "hand", "ended"}
    BY <1>2 DEF Pipes
  <2> QED
    BY <1>2, <2>1, PipeUpdates
<1>5. received' = [c \in Cats |->
        IF c \in writers[d] THEN [received[c] EXCEPT ![d] = @ \cup {old.hand}] ELSE received[c]]
  BY DEF K!CopyWrite
<1> HIDE DEF pipe, old
<1>6. received' \in [Cats -> [Std -> SUBSET (1..MaxPrints)]]
  BY <1>2, <1>5
<1>7. ASSUME NEW e \in Std, NEW b \in Cats
      PROVE  /\ received[b][e] \subseteq received'[b][e]
             /\ (e = d /\ b \in writers[d]) => old.hand \in received'[b][e]
  BY <1>2, <1>5
<1>8. copier' \in [Std -> [K!Gens -> Pipes]]
  BY <1>2, <1>3, <1>4, PipeChanged
<1>9. \A e \in Std, h \in K!Gens : copier'[e][h] = IF e = d /\ h = g THEN pipe ELSE copier[e][h]
  BY <1>2, <1>3, <1>4, PipeChanged
<1>10. CatTypes'
  <2>1. \A e \in Std, h \in K!Gens : Len(copier'[e][h].buf) <= printed
    <3>1. \A e \in Std, h \in K!Gens : Len(copier[e][h].buf) <= printed
      BY DEF CatTypes
    <3> QED
      BY <1>4, <1>9, <3>1 DEF old
  <2> QED
    BY <1>1, <1>6, <1>8, <2>1 DEF CatTypes
<1>11. ASSUME NEW e \in Std, NEW x \in K!InFlight(e), x \notin K!InFlight(e)' PROVE e = d /\ x = old.hand
  <2>1. PICK h \in K!Gens : x = copier[e][h].hand \/ \E i \in DOMAIN copier[e][h].buf : x = copier[e][h].buf[i]
    BY DEF K!InFlight
  <2>2. ~(x = copier'[e][h].hand \/ \E i \in DOMAIN copier'[e][h].buf : x = copier'[e][h].buf[i])
    BY <1>11 DEF K!InFlight
  <2>3. copier'[e][h] # copier[e][h]
    BY <2>1, <2>2
  <2>4. e = d /\ h = g /\ copier'[e][h] = pipe
    BY <1>9, <2>3
  <2> QED
    BY <1>4, <2>1, <2>2, <2>4 DEF old
<1>12. K!NothingPrintedIsMissed'
  <2> SUFFICES ASSUME NEW e \in Std, NEW b \in writers[e] PROVE owed[b][e] \subseteq received'[b][e] \cup K!InFlight(e)'
    BY <1>1 DEF K!NothingPrintedIsMissed
  <2>1. b \in Cats /\ owed[b][e] \subseteq received[b][e] \cup K!InFlight(e)
    BY DEF CatTypes, K!NothingPrintedIsMissed
  <2> SUFFICES ASSUME NEW x \in owed[b][e], x \notin K!InFlight(e)' PROVE x \in received'[b][e]
    OBVIOUS
  <2>2. CASE x \in received[b][e]
    BY <1>7, <2>1, <2>2
  <2>3. CASE x \in K!InFlight(e)
    BY <1>7, <1>11, <2>1, <2>3
  <2> QED
    BY <2>1, <2>2, <2>3
<1>13. \A e \in Std, h \in K!Gens : h > gen[e] => copier'[e][h] = copier[e][h]
  <2>1. ~(g > gen[d])
    BY <1>1 DEF old, ForwarderInv, GenInv, K!Idle
  <2> QED
    BY <1>9, <2>1
<1> QED
  BY <1>1, <1>10, <1>12, <1>13, PipeStepInv

\* The copying goroutine ends with its pipe closed and empty.
LEMMA CopyEndInv == ASSUME CatInv, NEW d \in Std, NEW g \in K!Gens, K!CopyEnd(d, g) PROVE CatInv'
<1> USE DEF CatInv
<1> DEFINE old == copier[d][g]
           pipe == [old EXCEPT !.ended = TRUE]
<1>1. UNCHANGED <<catPc, once, writers, captured, lock, gen, started, printed, owed, received>> /\ ~old.ended
  BY DEF K!CopyEnd
<1>2. copier \in [Std -> [K!Gens -> Pipes]] /\ old \in Pipes
  BY DEF CatTypes
<1>3. copier' = [copier EXCEPT ![d][g] = pipe]
  BY <1>2 DEF K!CopyEnd
<1>4. pipe \in Pipes /\ pipe.buf = old.buf /\ pipe.hand = old.hand
  <2>1. DOMAIN old = {"buf", "open", "hand", "ended"}
    BY <1>2 DEF Pipes
  <2> QED
    BY <1>2, <2>1, PipeUpdates
<1> HIDE DEF pipe, old
<1>5. copier' \in [Std -> [K!Gens -> Pipes]]
  BY <1>2, <1>3, <1>4, PipeChanged
<1>6. \A e \in Std, h \in K!Gens : copier'[e][h] = IF e = d /\ h = g THEN pipe ELSE copier[e][h]
  BY <1>2, <1>3, <1>4, PipeChanged
<1>7. \A e \in Std, h \in K!Gens : copier'[e][h].buf = copier[e][h].buf /\ copier'[e][h].hand = copier[e][h].hand
  BY <1>4, <1>6 DEF old
<1>8. CatTypes'
  BY <1>1, <1>5, <1>7 DEF CatTypes
<1>9. K!NothingPrintedIsMissed'
  <2> SUFFICES ASSUME NEW e \in Std, NEW b \in writers[e] PROVE owed'[b][e] \subseteq received'[b][e] \cup K!InFlight(e)'
    BY <1>1 DEF K!NothingPrintedIsMissed
  <2>1. b \in Cats
    BY DEF CatTypes
  <2> QED
    BY <1>1, <1>7, <2>1, PipesKept
<1>10. \A e \in Std, h \in K!Gens : h > gen[e] => copier'[e][h] = copier[e][h]
  <2>1. ~(g > gen[d])
    BY <1>1 DEF old, ForwarderInv, GenInv, K!Idle
  <2> QED
    BY <1>6, <2>1
<1> QED
  BY <1>1, <1>8, <1>9, <1>10, PipeStepInv

\* Every step of the forwarder keeps its invariant.
LEMMA CatNext == CatInv /\ [K!Next]_K!vars => CatInv'
<1> SUFFICES ASSUME CatInv, [K!Next]_K!vars PROVE CatInv'
  OBVIOUS
<1>1. CASE UNCHANGED K!vars
  <2>1. UNCHANGED <<catPc, once, writers, captured, lock, gen, copier, started, printed, owed, received>>
    BY <1>1 DEF K!vars
  <2>2. CatTypes' /\ K!NothingPrintedIsMissed'
    BY <2>1, CatKept DEF CatInv, CatTypes
  <2> QED
    BY <2>1, <2>2, PipeStepInv
<1>2. ASSUME NEW c \in Cats, K!Begin(c) \/ K!Add(c) \/ K!Leave(c) \/ K!Remove(c) \/ K!RemoveWaited(c) PROVE CatInv'
  BY <1>2, BeginLeaveInv, AddInv, RemoveInv, RemoveWaitedInv
<1>3. ASSUME NEW d \in Std, K!Emit(d) PROVE CatInv'
  BY <1>3, EmitInv
<1>4. ASSUME NEW d \in Std, NEW g \in K!Gens, K!CopyRead(d, g) \/ K!CopyWrite(d, g) \/ K!CopyEnd(d, g) PROVE CatInv'
  BY <1>4, CopyReadInv, CopyWriteInv, CopyEndInv
<1> QED
  BY <1>1, <1>2, <1>3, <1>4 DEF K!Next

(* The listeners are apart from the requests and from each other.          *)
LEMMA ListenersInvariance == RequestsSpec => []LogInv /\ []CatInv
<1>1. RequestsInit => LogInv /\ CatInv
  BY ListenersAssumption, LogInit, CatInit DEF RequestsInit
<1>2. [RequestsNext]_allVars => [G!Next]_(G!vars) /\ [K!Next]_(K!vars)
  BY DEF RequestsNext, StepRequest, StepCat, StepLogs, allVars, catVars, logVars, G!vars, K!vars
<1> QED
  BY <1>1, <1>2, LogNext, CatNext, PTL DEF RequestsSpec

(* A listener has received, or will, all that was printed on an output     *)
(* while it was one of its writers: for any number of listeners that come  *)
(* and go and tear the forwarder down and up again, each with a pipe and a *)
(* goroutine of its own.  And one that asks for callers gets the caller of *)
(* each message whose logging began while it listened, however many others *)
(* come and go meanwhile and recompute the flag.                           *)
THEOREM ListenersGetAll == RequestsSpec => []ListenersMissNothing
<1>1. LogInv /\ CatInv => ListenersMissNothing
  BY DEF LogInv, CatInv, ListenersMissNothing, G!CallersReachListeners
<1> QED
  BY <1>1, ListenersInvariance, PTL

\* The types of the three parts.
RequestsTypeOK == TypeOK /\ K!TypeOK /\ G!TypeOK

(* Each variable of a request, of the forwarder and of the log stream has  *)
(* its type: in particular the client's timer stays within its timeout,    *)
(* and there are never more copying goroutines than listeners.             *)
THEOREM RequestTypes == RequestsSpec => []RequestsTypeOK
<1>1. ASSUME CatInv PROVE K!TypeOK
  <2>1. \A d \in Std : gen[d] \in {0} \cup K!Gens /\ \A c \in Cats : started[c][d] \in {0} \cup K!Gens
    <3> SUFFICES ASSUME NEW d \in Std PROVE gen[d] \in {0} \cup K!Gens /\ \A c \in Cats : started[c][d] \in {0} \cup K!Gens
      OBVIOUS
    <3>1. Starters(d) \subseteq Cats /\ IsFiniteSet(Cats) /\ gen[d] = Cardinality(Starters(d))
      BY <1>1 DEF CatInv, OutputsAreTwo, ForwarderInv, GenInv, Starters
    <3>2. gen[d] <= Cardinality(Cats) /\ Cardinality(Cats) \in Nat
      BY <3>1, FS_Subset, FS_CardinalityType
    <3>3. gen[d] \in Nat /\ \A c \in Cats : started[c][d] \in Nat /\ started[c][d] <= gen[d]
      BY <1>1 DEF CatInv, CatTypes, ForwarderInv, GenInv
    <3>4. K!Gens = 1..Cardinality(Cats)
      BY DEF K!Gens, K!Cardinality, Cardinality
    <3> QED
      BY <3>2, <3>3, <3>4
  <2>2. gen \in [Std -> {0} \cup K!Gens] /\ started \in [Cats -> [Std -> {0} \cup K!Gens]]
    BY <1>1, <2>1 DEF CatInv, CatTypes
  <2>3. catPc \in [Cats -> {"init", "listen", "ended"} \cup DOMAIN K!Adds \cup DOMAIN K!Removes \cup DOMAIN K!Waits]
    BY <1>1 DEF CatInv, CatTypes, Stages, K!Adds, K!Removes, K!Waits
  <2>4. \A d \in Std, g \in K!Gens : copier[d][g].hand \in 0..MaxPrints /\ Len(copier[d][g].buf) <= MaxPrints
    <3> SUFFICES ASSUME NEW d \in Std, NEW g \in K!Gens
                 PROVE  copier[d][g].hand \in 0..MaxPrints /\ Len(copier[d][g].buf) <= MaxPrints
      OBVIOUS
    <3>1. copier[d][g] \in Pipes /\ Len(copier[d][g].buf) <= printed /\ printed \in 0..MaxPrints
      BY <1>1 DEF CatInv, CatTypes
    <3>2. copier[d][g].hand \in 0..MaxPrints /\ Len(copier[d][g].buf) \in Nat
      BY <3>1 DEF Pipes
    <3> QED
      BY <1>1, <3>1, <3>2 DEF CatInv, OutputsAreTwo
  <2> QED
    BY <1>1, <2>2, <2>3, <2>4 DEF CatInv, CatTypes, K!TypeOK
<1>2. Inv /\ LogInv /\ CatInv => RequestsTypeOK
  BY <1>1 DEF Inv, LogInv, RequestsTypeOK
<1> QED
  BY <1>2, Invariance, ListenersInvariance, PTL
=============================================================================
