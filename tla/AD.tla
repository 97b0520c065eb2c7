--------------------------------- MODULE AD ---------------------------------
(***************************************************************************)
(* Package internal/ad, online: concurrent GetPolicies calls share the     *)
(* SYSVOL cache on disk (one directory per GPO, one for the assets) and    *)
(* the archive assets.db packed from the assets directory.  A directory is *)
(* abstracted to the version of its GPT.INI, 0 when it is missing; the     *)
(* archive to the version of the assets in it.                             *)
(***************************************************************************)
EXTENDS Integers, FiniteSets

CONSTANTS
  Procs,        \* concurrent GetPolicies calls (one per refreshed object)
  Gpos,         \* the GPOs that apply to them
  Assets,       \* the "assets" downloadable
  MaxVersion,   \* bound: versions published on AD
  MaxCalls,     \* bound: calls made
  MaxFailures,  \* bound: failed network operations
  MaxCrashes,   \* bound: crashes of the daemon
  NoOne         \* the AD lock is free

ASSUME ADAssumption ==
  /\ Gpos # {} /\ Assets \notin Gpos
  /\ NoOne \notin Procs
  /\ MaxVersion \in Nat \ {0}
  /\ MaxCalls \in Nat /\ MaxFailures \in Nat /\ MaxCrashes \in Nat

Docs == Gpos \cup {Assets}
Broken == -1   \* an archive not written to its end, a GPO that does not parse

VARIABLES
  remote,    \* version of each document on AD; assets may be absent (0)
  sysvol,    \* version of each directory of the local cache, 0 if missing
  tmpdest,   \* version of the temporary copy being downloaded, 0 if none
  db,        \* version packed in assets.db, 0 if missing, or Broken
  lock,      \* holder of ad.Lock()
  readers,   \* calls holding the read lock of each GPO's mutex
  pc,        \* where each call is
  fetching,  \* the state of the download of each document by each call
  failed,    \* a download of the call has failed
  refreshed, \* assetsWereRefreshed
  parsed,    \* the version of each GPO the call has parsed, 0 if not yet
  assetsDB,  \* assetsDBPath: "todo" before the compression step, "none" or "db"
  wanted,    \* history: the versions on AD when the call looked at it
  budget     \* calls, failures and crashes left

vars == <<remote, sysvol, tmpdest, db, lock, readers, pc, fetching, failed, refreshed, parsed,
          assetsDB, wanted, budget>>

TypeOK ==
  /\ remote \in [Docs -> 0..MaxVersion]
  /\ sysvol \in [Docs -> 0..MaxVersion]
  /\ tmpdest \in [Docs -> 0..MaxVersion]
  /\ db \in {Broken} \cup 0..MaxVersion
  /\ lock \in Procs \cup {NoOne}
  /\ readers \in [Gpos -> SUBSET Procs]
  /\ pc \in [Procs -> {"idle", "list", "fetch", "work", "compress", "done"}]
  /\ fetching \in [Procs -> [Docs -> {"check", "want", "locked", "got", "removed", "end"}]]
  /\ failed \in [Procs -> BOOLEAN]
  /\ refreshed \in [Procs -> BOOLEAN]
  /\ parsed \in [Procs -> [Gpos -> {Broken} \cup 0..MaxVersion]]
  /\ assetsDB \in [Procs -> {"todo", "none", "db"}]
  /\ wanted \in [Procs -> [Docs -> 0..MaxVersion]]
  /\ budget \in [calls : 0..MaxCalls, failures : 0..MaxFailures, crashes : 0..MaxCrashes]

None == [d \in Docs |-> 0]

Init ==
  /\ remote = [d \in Docs |-> 1]
  /\ sysvol = None /\ tmpdest = None /\ db = 0
  /\ lock = NoOne /\ readers = [g \in Gpos |-> {}]
  /\ pc = [p \in Procs |-> "idle"]
  /\ fetching = [p \in Procs |-> [d \in Docs |-> "check"]]
  /\ failed = [p \in Procs |-> FALSE] /\ refreshed = [p \in Procs |-> FALSE]
  /\ parsed = [p \in Procs |-> [g \in Gpos |-> 0]]
  /\ assetsDB = [p \in Procs |-> "todo"]
  /\ wanted = [p \in Procs |-> None]
  /\ budget = [calls |-> MaxCalls, failures |-> MaxFailures, crashes |-> MaxCrashes]

callVars == <<fetching, failed, refreshed, parsed, assetsDB, wanted>>
diskVars == <<sysvol, tmpdest, db>>

Goto(p, from, to) == pc[p] = from /\ pc' = [pc EXCEPT ![p] = to]
Fails == budget.failures > 0 /\ budget' = [budget EXCEPT !.failures = @ - 1]

-----------------------------------------------------------------------------
(* The administrator (external). *)

\* A new version; assets that were deleted are not put back.
Publish(d) ==
  /\ 0 < remote[d] /\ remote[d] < MaxVersion
  /\ remote' = [remote EXCEPT ![d] = @ + 1]
  /\ UNCHANGED <<diskVars, lock, readers, pc, callVars, budget>>

\* The assets directory is deleted from SYSVOL.
RemoveAssets ==
  /\ remote[Assets] > 0
  /\ remote' = [remote EXCEPT ![Assets] = 0]
  /\ UNCHANGED <<diskVars, lock, readers, pc, callVars, budget>>

-----------------------------------------------------------------------------
(* GetPolicies. *)

\* The list of GPOs is retrieved from AD, or retrieving it fails.
List(p) ==
  /\ Goto(p, "idle", "list")
  /\ budget.calls > 0 /\ budget' = [budget EXCEPT !.calls = @ - 1]
  /\ wanted' = [wanted EXCEPT ![p] = remote]
  /\ failed' = [failed EXCEPT ![p] = FALSE]
  /\ refreshed' = [refreshed EXCEPT ![p] = FALSE]
  /\ fetching' = [fetching EXCEPT ![p] = [d \in Docs |-> "check"]]
  /\ parsed' = [parsed EXCEPT ![p] = [g \in Gpos |-> 0]]
  /\ assetsDB' = [assetsDB EXCEPT ![p] = "todo"]
  /\ UNCHANGED <<remote, diskVars, lock, readers>>

ListFails(p) ==
  /\ Goto(p, "list", "idle") /\ Fails
  /\ UNCHANGED <<remote, diskVars, lock, readers, callVars>>

\* fetch runs under ad.Lock().
FetchBegin(p) ==
  /\ Goto(p, "list", "fetch")
  /\ lock = NoOne /\ lock' = p
  /\ UNCHANGED <<remote, diskVars, readers, callVars, budget>>

SetFetching(p, d, st) == fetching' = [fetching EXCEPT ![p][d] = st]

\* Mutant: a directory that exists is taken for up to date.
NeedsDownloadIfMissing(d) == sysvol[d] = 0

\* needsDownload: the local version is older than the one on AD.
NeedsDownload(d) == sysvol[d] < remote[d]

FetchFrame == <<remote, db, lock, readers, pc, parsed, assetsDB, wanted>>

\* Each document is looked at in a goroutine of its own.
FetchCheck(p, d) ==
  /\ pc[p] = "fetch" /\ fetching[p][d] = "check" /\ remote[d] # 0
  /\ SetFetching(p, d, IF NeedsDownload(d) THEN "want" ELSE "end")
  /\ UNCHANGED <<FetchFrame, sysvol, tmpdest, refreshed, failed, budget>>

\* The GPT.INI of the assets cannot be opened: the assets are gone from AD, or
\* the network fails.  Either way the cached directory, if any, is removed.
AssetsNotFound(p) ==
  /\ pc[p] = "fetch" /\ fetching[p][Assets] = "check"
  /\ \/ remote[Assets] = 0 /\ UNCHANGED budget
     \/ remote[Assets] # 0 /\ Fails
  /\ refreshed' = [refreshed EXCEPT ![p] = sysvol[Assets] # 0]
  /\ sysvol' = [sysvol EXCEPT ![Assets] = 0]
  /\ SetFetching(p, Assets, "end")
  /\ UNCHANGED <<FetchFrame, tmpdest, failed>>

\* Mutant: the directory is replaced without waiting for its readers.
DownloadLockUnguarded(p, d) ==
  /\ fetching[p][d] = "want"
  /\ SetFetching(p, d, "locked")
  /\ refreshed' = [refreshed EXCEPT ![p] = @ \/ d = Assets]
  /\ UNCHANGED <<FetchFrame, sysvol, tmpdest, failed, budget>>

\* g.mu.Lock() waits for the calls that parse the GPO.
DownloadLock(p, d) ==
  /\ fetching[p][d] = "want"
  /\ d \in Gpos => readers[d] = {}
  /\ SetFetching(p, d, "locked")
  /\ refreshed' = [refreshed EXCEPT ![p] = @ \/ d = Assets]
  /\ UNCHANGED <<FetchFrame, sysvol, tmpdest, failed, budget>>

\* downloadDir: everything is downloaded to a temporary directory; only then is
\* the previous one removed and the new one renamed into place.
Download(p, d) ==
  /\ fetching[p][d] = "locked" /\ remote[d] # 0
  /\ tmpdest' = [tmpdest EXCEPT ![d] = remote[d]]
  /\ SetFetching(p, d, "got")
  /\ UNCHANGED <<FetchFrame, sysvol, failed, refreshed, budget>>

DownloadRemoveOld(p, d) ==
  /\ fetching[p][d] = "got"
  /\ sysvol' = [sysvol EXCEPT ![d] = 0]
  /\ SetFetching(p, d, "removed")
  /\ UNCHANGED <<FetchFrame, tmpdest, failed, refreshed, budget>>

DownloadRename(p, d) ==
  /\ fetching[p][d] = "removed"
  /\ sysvol' = [sysvol EXCEPT ![d] = tmpdest[d]]
  /\ tmpdest' = [tmpdest EXCEPT ![d] = 0]
  /\ SetFetching(p, d, "end")
  /\ UNCHANGED <<FetchFrame, failed, refreshed, budget>>

\* The network fails while a document is looked at or downloaded, or the assets
\* disappear between the two; the other goroutines of the group carry on.
FetchFails(p, d) ==
  /\ pc[p] = "fetch"
  /\ \/ fetching[p][d] \in {"check", "locked"} /\ Fails
     \/ fetching[p][d] = "locked" /\ remote[d] = 0 /\ UNCHANGED budget
  /\ SetFetching(p, d, "end")
  /\ failed' = [failed EXCEPT ![p] = TRUE]
  /\ UNCHANGED <<FetchFrame, sysvol, tmpdest, refreshed>>

\* Mutant: an error returns before the lock is released.
FetchEndKeepsLock(p) ==
  /\ pc[p] = "fetch" /\ \A d \in Docs : fetching[p][d] = "end"
  /\ pc' = [pc EXCEPT ![p] = IF failed[p] THEN "idle" ELSE "work"]
  /\ lock' = IF failed[p] THEN lock ELSE NoOne
  /\ UNCHANGED <<remote, diskVars, readers, callVars, budget>>

\* The group has ended: any error ends the call, and what was refreshed is
\* forgotten with it.
FetchEnd(p) ==
  /\ pc[p] = "fetch" /\ \A d \in Docs : fetching[p][d] = "end"
  /\ pc' = [pc EXCEPT ![p] = IF failed[p] THEN "idle" ELSE "work"]
  /\ lock' = NoOne
  /\ UNCHANGED <<remote, diskVars, readers, callVars, budget>>

-----------------------------------------------------------------------------
(* Parsing, and packing the assets, in two goroutines of the same call. *)

Writing(g) == \E q \in Procs : fetching[q][g] \in {"locked", "got", "removed"}

\* parseGPOs takes the GPOs one at a time and stops at the first error.
ParseNext(p, g) ==
  /\ pc[p] \in {"work", "compress"} /\ parsed[p][g] = 0
  /\ \A h \in Gpos : p \notin readers[h] /\ parsed[p][h] # Broken
ParseEnded(p) ==
  \/ \E g \in Gpos : parsed[p][g] = Broken
  \/ \A g \in Gpos : parsed[p][g] # 0

\* d.mu.RLock() waits for the download of the GPO.
ParseBegin(p, g) ==
  /\ ParseNext(p, g) /\ ~Writing(g)
  /\ readers' = [readers EXCEPT ![g] = @ \cup {p}]
  /\ UNCHANGED <<remote, diskVars, lock, pc, callVars, budget>>

\* The GPO is read from the cache, or its content is invalid.
ParseEnd(p, g) ==
  /\ p \in readers[g]
  /\ readers' = [readers EXCEPT ![g] = @ \ {p}]
  /\ \/ parsed' = [parsed EXCEPT ![p][g] = sysvol[g]] /\ UNCHANGED budget
     \/ parsed' = [parsed EXCEPT ![p][g] = Broken] /\ Fails
  /\ UNCHANGED <<remote, diskVars, lock, pc, fetching, failed, refreshed, assetsDB, wanted>>

\* Nothing was refreshed by this call, and an archive (or no assets) exists.
AssetsReuse(p) ==
  /\ pc[p] = "work" /\ assetsDB[p] = "todo" /\ lock = NoOne
  /\ ~refreshed[p] /\ (db # 0 \/ sysvol[Assets] = 0)
  /\ assetsDB' = [assetsDB EXCEPT ![p] = IF db # 0 THEN "db" ELSE "none"]
  /\ UNCHANGED <<remote, diskVars, lock, readers, pc, fetching, failed, refreshed, parsed, wanted, budget>>

\* Mutant: the archive of removed assets is left behind.
AssetsDropKeepsDb(p) ==
  /\ pc[p] = "work" /\ assetsDB[p] = "todo" /\ lock = NoOne
  /\ refreshed[p] /\ sysvol[Assets] = 0
  /\ assetsDB' = [assetsDB EXCEPT ![p] = "none"]
  /\ UNCHANGED <<remote, diskVars, lock, readers, pc, fetching, failed, refreshed, parsed, wanted, budget>>

\* This call removed the assets: so is the archive; if there is none, os.Remove
\* fails and the call with it.
AssetsDrop(p) ==
  /\ pc[p] = "work" /\ assetsDB[p] = "todo" /\ lock = NoOne
  /\ refreshed[p] /\ sysvol[Assets] = 0
  /\ db' = 0
  /\ assetsDB' = [assetsDB EXCEPT ![p] = "none"]
  /\ failed' = [failed EXCEPT ![p] = db = 0]
  /\ UNCHANGED <<remote, sysvol, tmpdest, lock, readers, pc, fetching, refreshed, parsed, wanted,
                 budget>>

\* Mutant: the archive is packed without the AD lock.
CompressBeginUnlocked(p) ==
  /\ assetsDB[p] = "todo" /\ Goto(p, "work", "compress")
  /\ sysvol[Assets] # 0 /\ (refreshed[p] \/ db = 0)
  /\ db' = Broken
  /\ UNCHANGED <<remote, sysvol, tmpdest, lock, readers, callVars, budget>>

\* CompressAssets removes the archive and writes it anew, under ad.Lock().
CompressBegin(p) ==
  /\ assetsDB[p] = "todo" /\ Goto(p, "work", "compress")
  /\ lock = NoOne /\ lock' = p
  /\ sysvol[Assets] # 0 /\ (refreshed[p] \/ db = 0)
  /\ db' = Broken
  /\ UNCHANGED <<remote, sysvol, tmpdest, readers, callVars, budget>>

CompressEnd(p) ==
  /\ Goto(p, "compress", "work")
  /\ lock' = NoOne
  /\ db' = sysvol[Assets]
  /\ assetsDB' = [assetsDB EXCEPT ![p] = "db"]
  /\ UNCHANGED <<remote, sysvol, tmpdest, readers, fetching, failed, refreshed, parsed, wanted,
                 budget>>

\* Both goroutines have ended.  The archive is opened under ad.Lock(): it may be
\* missing or broken by now, which fails the call.
Open(p) ==
  /\ pc[p] = "work" /\ assetsDB[p] # "todo" /\ ParseEnded(p)
  /\ assetsDB[p] = "db" => lock = NoOne
  /\ IF failed[p] \/ (\E g \in Gpos : parsed[p][g] = Broken) \/ (assetsDB[p] = "db" /\ db \in {0, Broken})
     THEN pc' = [pc EXCEPT ![p] = "idle"]
     ELSE pc' = [pc EXCEPT ![p] = "done"]
  /\ UNCHANGED <<remote, diskVars, lock, readers, fetching, failed, refreshed, parsed, assetsDB,
                 wanted, budget>>

\* The policies are handed to the caller.
Return(p) ==
  /\ Goto(p, "done", "idle")
  /\ UNCHANGED <<remote, diskVars, lock, readers, callVars, budget>>

\* The daemon is killed or crashes: only the disk survives.
Crash ==
  /\ budget.crashes > 0 /\ budget' = [budget EXCEPT !.crashes = @ - 1]
  /\ pc' = [p \in Procs |-> "idle"]
  /\ lock' = NoOne /\ readers' = [g \in Gpos |-> {}]
  /\ fetching' = [p \in Procs |-> [d \in Docs |-> "end"]]
  /\ tmpdest' = None
  /\ UNCHANGED <<remote, sysvol, db, failed, refreshed, parsed, assetsDB, wanted>>

-----------------------------------------------------------------------------
FetchStep(p) ==
  \/ FetchBegin(p) \/ AssetsNotFound(p) \/ FetchEnd(p)
  \/ \E d \in Docs : FetchCheck(p, d) \/ DownloadLock(p, d) \/ Download(p, d)
                     \/ DownloadRemoveOld(p, d) \/ DownloadRename(p, d) \/ FetchFails(p, d)
WorkStep(p) ==
  \/ \E g \in Gpos : ParseBegin(p, g) \/ ParseEnd(p, g)
  \/ AssetsReuse(p) \/ AssetsDrop(p) \/ CompressBegin(p) \/ CompressEnd(p)
  \/ Open(p) \/ Return(p)

Next ==
  \/ \E d \in Docs : Publish(d)
  \/ RemoveAssets
  \/ \E p \in Procs :
       \/ List(p) \/ ListFails(p)
       \/ FetchStep(p) \/ WorkStep(p)
  \/ Crash

Spec == Init /\ [][Next]_vars

-----------------------------------------------------------------------------
\* A call that succeeds returns each GPO at least as recent as the one on AD when
\* it asked, whatever other calls download, fail at or are killed in meanwhile.
ReturnedGPOsAreFresh ==
  \A p \in Procs : pc[p] = "done" => \A g \in Gpos : parsed[p][g] >= wanted[p][g]

\* A GPO directory is never removed or replaced under a call that is parsing it.
NoParseOfPartialGPO ==
  \A g \in Gpos, p \in Procs : p \in readers[g] => sysvol[g] >= wanted[p][g]

\* What a call reads is whole, and what it returns is fresh.
GPOsAreFreshAndWhole == ReturnedGPOsAreFresh /\ NoParseOfPartialGPO

\* Nothing has failed and the daemon has not been killed since it was installed.
Undisturbed == budget.failures = MaxFailures /\ budget.crashes = MaxCrashes

\* When no call is running and none was disturbed, assets.db is what the assets
\* directory packs to: a call that finds the assets up to date can attach the
\* archive as it is.
QuietArchiveMatchesAssets ==
  (Undisturbed /\ \A p \in Procs : pc[p] = "idle") => db = sysvol[Assets]

\* Unless the daemon was killed while it wrote one, no call finds a partially
\* written archive when it comes to open it.
NoPartialArchiveOpened ==
  \A p \in Procs :
    (budget.crashes = MaxCrashes /\ pc[p] = "work" /\ assetsDB[p] = "db" /\ lock = NoOne)
       => db # Broken

\* The archive of the assets is what a call may attach: it follows the assets
\* directory when nothing runs, and no call opens a part of one.
ArchiveIsSound == QuietArchiveMatchesAssets /\ NoPartialArchiveOpened

\* What a call can do next.  Only a goroutine of fetch that replaces a GPO waits, for
\* the calls that parse it.
CanDownload(p, d) ==
  \/ fetching[p][d] = "check" /\ (d \in Gpos => remote[d] # 0)
  \/ fetching[p][d] = "want" /\ (d \in Gpos => readers[d] = {})
  \/ fetching[p][d] \in {"locked", "got", "removed"}
CanFetch(p) ==
  \/ pc[p] = "list" /\ lock = NoOne
  \/ pc[p] = "fetch" /\ \/ \E d \in Docs : CanDownload(p, d)
                        \/ \A d \in Docs : fetching[p][d] = "end"
CanWork(p) ==
  \/ \E g \in Gpos : p \in readers[g] \/ (ParseNext(p, g) /\ ~Writing(g))
  \/ pc[p] = "work" /\ lock = NoOne /\ (assetsDB[p] = "todo" \/ ParseEnded(p))
  \/ pc[p] \in {"compress", "done"}

\* The AD lock and the per-GPO locks never deadlock, whatever fails: while a call
\* is running, some call can take a step that does not wait for another.
CallsCanProceed ==
  (\E p \in Procs : pc[p] # "idle") => \E p \in Procs : CanFetch(p) \/ CanWork(p)
=============================================================================
