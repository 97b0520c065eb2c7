----------------------------- MODULE Krb5Cache -----------------------------
(***************************************************************************)
(* The Kerberos ticket of one object, in package internal/ad: GetPolicies  *)
(* points a tracking symlink to the ticket cache it is given, then works   *)
(* with a copy of the ticket that is refreshed when its mtime tells so.    *)
(* Each of the two steps holds ad.Lock(), but they are separate steps.     *)
(***************************************************************************)
EXTENDS Naturals

CONSTANTS
  Procs,     \* concurrent GetPolicies calls for the object
  Paths,     \* ticket caches of the object (one per session)
  NoPath,    \* the symlink does not exist
  NoOne,     \* the AD lock is free
  MaxClock   \* bound: changes of the files

VARIABLES
  clock,    \* the time of the last change of a file
  ticket,   \* mtime of each ticket cache, which names its content; 0 if missing
  link,     \* krb5CCSymlink
  copy,     \* the copy: the ticket it holds and its own mtime; both 0 if missing
  lock,     \* holder of ad.Lock(), taken here only where the copy is made in steps
  content,  \* the ticket read by safeCopyFile and not written yet
  pc, src,  \* each call and the ccache name it was given, NoPath if none
  used,     \* the ticket a call that went through uses
  pointed,  \* history: the ticket the symlink pointed to when it got it
  switched, \* history: the symlink changed since the last copy
  raced     \* history: the ticket was renewed while it was copied

vars == <<clock, ticket, link, copy, lock, content, pc, src, used, pointed, switched, raced>>

Times == 0..MaxClock

TypeOK ==
  /\ clock \in Times
  /\ ticket \in [Paths -> Times]
  /\ link \in Paths \cup {NoPath}
  /\ copy \in [ticket : Times, mtime : Times]
  /\ pc \in [Procs -> {"idle", "symlink", "copy", "write", "done"}]
  /\ lock \in Procs \cup {NoOne} /\ content \in Times
  /\ src \in [Procs -> Paths \cup {NoPath}]
  /\ used \in [Procs -> Times] /\ pointed \in [Procs -> Times]
  /\ switched \in BOOLEAN /\ raced \in BOOLEAN

Init ==
  /\ clock = 0 /\ ticket = [f \in Paths |-> 0] /\ link = NoPath
  /\ copy = [ticket |-> 0, mtime |-> 0]
  /\ pc = [p \in Procs |-> "idle"] /\ src = [p \in Procs |-> NoPath]
  /\ used = [p \in Procs |-> 0] /\ pointed = [p \in Procs |-> 0]
  /\ lock = NoOne /\ content = 0
  /\ switched = FALSE /\ raced = FALSE

Goto(p, from, to) == pc[p] = from /\ pc' = [pc EXCEPT ![p] = to]
Tick == clock < MaxClock /\ clock' = clock + 1

\* A ticket is obtained or renewed in a session (external).
Renew(f) ==
  /\ Tick
  /\ ticket' = [ticket EXCEPT ![f] = clock']
  /\ raced' = (raced \/ (lock # NoOne /\ f = link))
  /\ UNCHANGED <<link, copy, lock, content, pc, src, used, pointed, switched>>

\* A session ends and its ticket is destroyed (external).
Destroy(f) ==
  /\ ticket[f] # 0
  /\ ticket' = [ticket EXCEPT ![f] = 0]
  /\ UNCHANGED <<clock, link, copy, lock, content, pc, src, used, pointed, switched, raced>>

\* A call is given the name of a ticket cache (login), or none (refresh).
Call(p, f) ==
  /\ Goto(p, "idle", IF f = NoPath THEN "copy" ELSE "symlink")
  /\ src' = [src EXCEPT ![p] = f]
  /\ UNCHANGED <<clock, ticket, link, copy, lock, content, used, pointed, switched, raced>>

\* ensureKrb5CCSymlink: recreated only for a new destination.
ensureKrb5CCSymlink(p) ==
  /\ Goto(p, "symlink", "copy") /\ lock = NoOne
  /\ link' = src[p]
  /\ switched' = (switched \/ link # src[p])
  /\ UNCHANGED <<clock, ticket, copy, lock, content, src, used, pointed, raced>>

\* Mutant: an existing copy is never refreshed.
UpToDateIfPresent == copy.mtime # 0

\* The source ticket is not newer than the copy.
UpToDate == copy.mtime # 0 /\ ~(ticket[link] > copy.mtime)

\* ensureKrb5CCCopy: the copy is up to date, or the source is read.
ensureKrb5CCCopy(p) ==
  /\ pc[p] = "copy" /\ lock = NoOne
  /\ link # NoPath /\ ticket[link] # 0
  /\ pointed' = [pointed EXCEPT ![p] = ticket[link]]
  /\ \/ /\ UpToDate /\ pc' = [pc EXCEPT ![p] = "done"]
        /\ used' = [used EXCEPT ![p] = copy.ticket]
        /\ UNCHANGED <<lock, content, switched, raced>>
     \/ /\ ~UpToDate /\ pc' = [pc EXCEPT ![p] = "write"]
        /\ lock' = p /\ content' = ticket[link]
        /\ switched' = FALSE /\ raced' = FALSE
        /\ UNCHANGED used
  /\ UNCHANGED <<clock, ticket, link, copy, src>>

\* safeCopyFile writes a new file, with the mtime of the moment, and renames it.
safeCopyFile(p) ==
  /\ Goto(p, "write", "done") /\ Tick
  /\ copy' = [ticket |-> content, mtime |-> clock']
  /\ used' = [used EXCEPT ![p] = content]
  /\ lock' = NoOne /\ content' = 0
  /\ UNCHANGED <<ticket, link, src, pointed, switched, raced>>

\* No symlink, or the ticket it points to is gone: the call fails.
CopyFails(p) ==
  /\ Goto(p, "copy", "idle") /\ lock = NoOne
  /\ link # NoPath => ticket[link] = 0
  /\ UNCHANGED <<clock, ticket, link, copy, lock, content, src, used, pointed, switched, raced>>

Return(p) ==
  /\ Goto(p, "done", "idle")
  /\ UNCHANGED <<clock, ticket, link, copy, lock, content, src, used, pointed, switched, raced>>

Next ==
  \/ \E f \in Paths : Renew(f) \/ Destroy(f)
  \/ \E p \in Procs :
       \/ \E f \in Paths \cup {NoPath} : Call(p, f)
       \/ ensureKrb5CCSymlink(p) \/ ensureKrb5CCCopy(p) \/ safeCopyFile(p)
       \/ CopyFails(p) \/ Return(p)

Spec == Init /\ [][Next]_vars

-----------------------------------------------------------------------------
\* A call that finds the copy up to date, although the ticket is another one.
StaleStep ==
  \E p \in Procs : pc[p] = "copy" /\ pc'[p] = "done" /\ used'[p] # pointed'[p]

\* A call works with the ticket the symlink points to, however renewals and
\* other calls interleave, if the symlink still is where it was when the copy was
\* made and the ticket was not renewed in the middle of that.
CopyIsCurrentUndisturbed == [][StaleStep => switched \/ raced]_vars
=============================================================================
