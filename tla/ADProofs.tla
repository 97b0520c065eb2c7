------------------------------ MODULE ADProofs ------------------------------
(***************************************************************************)
(* GetPolicies returns GPOs that are fresh and whole, and leaves an archive*)
(* that follows the assets, for any number of calls, GPOs and versions.    *)
(* The argument: fetch and the compression of the assets exclude each      *)
(* other by the AD lock (LockInv), so a directory has one writer, and its  *)
(* readers keep it away (ParseInv); what a call asked for is on disk when  *)
(* its fetch ends and stays there, or on its way back, until the call is   *)
(* over (CacheInv); and as long as nothing fails some call owes the        *)
(* archive a compression whenever it differs from the assets (ArchiveInv). *)
(* The ticket that GetPolicies works with comes next, then the deadlock    *)
(* freedom of the locks, the merge of the rules of several GPOs, and the   *)
(* way from a registry file to rules.                                      *)
(***************************************************************************)
EXTENDS ADClient, Sequences, TLAPS

\* The states of a download that holds the mutex of the document.
Replacing == {"locked", "got", "removed"}

\* The call holds the AD lock when it downloads and when it packs the assets.
LockInv ==
  \A p \in Procs :
    /\ pc[p] \in {"fetch", "compress"} <=> lock = p
    /\ pc[p] \in {"list", "fetch", "compress"} => assetsDB[p] = "todo"

\* Only the call in fetch downloads; what it replaces of the assets it has noted.
FetchInv ==
  \A p \in Procs :
    /\ pc[p] # "fetch" => \A d \in Docs : fetching[p][d] \in {"check", "end"}
    /\ pc[p] = "list" => ~failed[p] /\ \A d \in Docs : fetching[p][d] = "check"
    /\ fetching[p][Assets] \in Replacing => refreshed[p]

\* A GPO stays on AD and its version only grows.
RemoteInv == \A g \in Gpos : remote[g] > 0 /\ \A p \in Procs : wanted[p][g] <= remote[g]

\* What a call asked for is in the cache, or in the copy about to be renamed into it.
CacheInv ==
  \A p \in Procs, g \in Gpos :
    /\ pc[p] = "fetch" /\ ~failed[p] /\ fetching[p][g] = "end" => sysvol[g] >= wanted[p][g]
    /\ pc[p] \in {"work", "compress"}
         => sysvol[g] >= wanted[p][g] \/ \E q \in Procs : fetching[q][g] = "removed"
    /\ pc[p] \in {"fetch", "work", "compress"}
         => \A q \in Procs : fetching[q][g] \in {"got", "removed"} => tmpdest[g] >= wanted[p][g]

\* A call parses one GPO at a time, that nobody replaces; what it parsed is fresh.
ParseInv ==
  \A p \in Procs, g \in Gpos :
    /\ p \in readers[g] => /\ pc[p] \in {"work", "compress"} /\ parsed[p][g] = 0
                           /\ \A q \in Procs : fetching[q][g] \notin Replacing
                           /\ \A h \in Gpos : parsed[p][h] # Broken /\ (p \in readers[h] => h = g)
    /\ pc[p] # "idle" => parsed[p][g] \in {0, Broken} \/ parsed[p][g] >= wanted[p][g]

\* The call changed the assets, or is packing them, and will write the archive anew.
Owes(p) ==
  \/ pc[p] = "compress"
  \/ /\ refreshed[p] /\ assetsDB[p] = "todo"
     /\ pc[p] = "work" \/ (pc[p] = "fetch" /\ ~failed[p] /\ fetching[p][Assets] \in {"removed", "end"})

ArchiveInv ==
  /\ Undisturbed => /\ db = sysvol[Assets] \/ \E p \in Procs : Owes(p)
                    /\ \A p \in Procs : pc[p] = "fetch" /\ failed[p] => fetching[p][Assets] = "end"
  /\ budget.crashes = MaxCrashes /\ db = Broken => \E p \in Procs : pc[p] = "compress"

Inv == /\ TypeOK /\ LockInv /\ FetchInv /\ RemoteInv /\ CacheInv /\ ParseInv
       /\ ReturnedGPOsAreFresh /\ ArchiveInv

-----------------------------------------------------------------------------
(* The constants, and the parts of a typed state. *)

\* Versions are numbers, and a broken archive has none.
LEMMA Constants ==
  /\ MaxVersion \in Nat \ {0} /\ MaxCalls \in Nat /\ MaxFailures \in Nat /\ MaxCrashes \in Nat
  /\ Broken \notin 0..MaxVersion /\ Broken # 0
  /\ Gpos \subseteq Docs /\ Assets \in Docs /\ Assets \notin Gpos /\ NoOne \notin Procs
  /\ \A d \in Docs : d \in Gpos \/ d = Assets
  BY ADAssumption DEF ADAssumption, Broken, Docs

\* What is left to do and to fail is counted down to 0.
LEMMA BudgetStep ==
  ASSUME TypeOK
  PROVE  LET Budget == [calls : 0..MaxCalls, failures : 0..MaxFailures, crashes : 0..MaxCrashes] IN
         /\ budget.calls > 0 => [budget EXCEPT !.calls = @ - 1] \in Budget
         /\ budget.failures > 0 => [budget EXCEPT !.failures = @ - 1] \in Budget
         /\ budget.crashes > 0 => [budget EXCEPT !.crashes = @ - 1] \in Budget
<1>1. /\ budget.calls \in 0..MaxCalls /\ budget.failures \in 0..MaxFailures
      /\ budget.crashes \in 0..MaxCrashes
  BY DEF TypeOK
<1>2. /\ budget.calls > 0 => budget.calls - 1 \in 0..MaxCalls
      /\ budget.failures > 0 => budget.failures - 1 \in 0..MaxFailures
      /\ budget.crashes > 0 => budget.crashes - 1 \in 0..MaxCrashes
  BY <1>1, Constants
<1> QED BY <1>1, <1>2 DEF TypeOK

\* A failure disturbs for good; it is no crash.
LEMMA FailureStep ==
  ASSUME TypeOK, Fails
  PROVE  /\ budget' \in [calls : 0..MaxCalls, failures : 0..MaxFailures, crashes : 0..MaxCrashes]
         /\ budget'.crashes = budget.crashes /\ ~Undisturbed'
<1>1. budget' \in [calls : 0..MaxCalls, failures : 0..MaxFailures, crashes : 0..MaxCrashes]
  BY BudgetStep DEF Fails
<1>2. /\ budget.failures \in 0..MaxFailures /\ budget'.failures = budget.failures - 1
      /\ budget'.crashes = budget.crashes
  BY DEF Fails, TypeOK
<1> QED BY <1>1, <1>2, Constants DEF Undisturbed

\* One goroutine of fetch moves.
LEMMA FetchingStep ==
  ASSUME TypeOK, NEW p \in Procs, NEW d \in Docs,
         NEW st \in {"check", "want", "locked", "got", "removed", "end"}, SetFetching(p, d, st)
  PROVE  /\ fetching' \in [Procs -> [Docs -> {"check", "want", "locked", "got", "removed", "end"}]]
         /\ fetching'[p][d] = st
         /\ \A q \in Procs, e \in Docs : (q # p \/ e # d) => fetching'[q][e] = fetching[q][e]
  BY DEF TypeOK, SetFetching

\* The AD lock has one holder.
LEMMA OneHolder ==
  ASSUME LockInv, NEW p \in Procs, NEW q \in Procs, pc[p] \in {"fetch", "compress"},
         pc[q] \in {"fetch", "compress"}
  PROVE  p = q
  BY DEF LockInv

\* The daemon starts with an empty cache.
LEMMA InitInv == Init => Inv
<1> SUFFICES ASSUME Init PROVE Inv OBVIOUS
<1> USE Constants DEF Init
<1>1. TypeOK
  <2>1. None \in [Docs -> 0..MaxVersion] /\ remote \in [Docs -> 0..MaxVersion]
    BY DEF None
  <2>2. budget \in [calls : 0..MaxCalls, failures : 0..MaxFailures, crashes : 0..MaxCrashes]
    OBVIOUS
  <2>3. fetching \in [Procs -> [Docs -> {"check", "want", "locked", "got", "removed", "end"}]]
        /\ parsed \in [Procs -> [Gpos -> {Broken} \cup 0..MaxVersion]]
    OBVIOUS
  <2> QED BY <2>1, <2>2, <2>3 DEF TypeOK
<1>2. LockInv /\ FetchInv
  BY DEF LockInv, FetchInv, Replacing
<1>3. RemoteInv /\ CacheInv
  BY DEF RemoteInv, CacheInv, None
<1>4. ParseInv /\ ReturnedGPOsAreFresh
  BY DEF ParseInv, ReturnedGPOsAreFresh
<1>5. ArchiveInv
  BY DEF ArchiveInv, None
<1> QED BY <1>1, <1>2, <1>3, <1>4, <1>5 DEF Inv

-----------------------------------------------------------------------------
(* The administrator. *)

\* A version is published: those of the GPOs grow.
LEMMA PublishStep == ASSUME Inv, NEW d \in Docs, Publish(d) PROVE Inv'
<1> USE Constants DEF Inv, Publish, diskVars, callVars
<1>1. TypeOK' /\ \A e \in Docs : remote'[e] >= remote[e] /\ remote[e] \in 0..MaxVersion
  BY DEF TypeOK
<1>2. LockInv' /\ FetchInv'
  BY DEF LockInv, FetchInv
<1>3. RemoteInv'
  BY <1>1 DEF RemoteInv, TypeOK
<1>4. CacheInv' /\ ParseInv' /\ ReturnedGPOsAreFresh'
  BY DEF CacheInv, ParseInv, ReturnedGPOsAreFresh
<1>5. ArchiveInv'
  BY DEF ArchiveInv, Owes, Undisturbed
<1> QED BY <1>1, <1>2, <1>3, <1>4, <1>5

\* The assets are deleted from AD: the GPOs stay.
LEMMA RemoveAssetsStep == ASSUME Inv, RemoveAssets PROVE Inv'
<1> USE Constants DEF Inv, RemoveAssets, diskVars, callVars
<1>1. TypeOK'
  BY DEF TypeOK
<1>2. LockInv' /\ FetchInv'
  BY DEF LockInv, FetchInv
<1>3. RemoteInv'
  BY DEF RemoteInv, TypeOK
<1>4. CacheInv' /\ ParseInv' /\ ReturnedGPOsAreFresh'
  BY DEF CacheInv, ParseInv, ReturnedGPOsAreFresh
<1>5. ArchiveInv'
  BY DEF ArchiveInv, Owes, Undisturbed
<1> QED BY <1>1, <1>2, <1>3, <1>4, <1>5

-----------------------------------------------------------------------------
(* GetPolicies: listing and fetching. *)

\* A call starts with what AD has now; it is nobody's reader or writer.
LEMMA ListStep == ASSUME Inv, NEW p \in Procs, List(p) PROVE Inv'
<1> USE Constants DEF Inv, List, Goto, diskVars
<1>0. /\ pc[p] = "idle" /\ pc'[p] = "list" /\ failed'[p] = FALSE /\ assetsDB'[p] = "todo"
      /\ wanted'[p] = remote /\ \A d \in Docs : fetching'[p][d] = "check"
      /\ \A g \in Gpos : parsed'[p][g] = 0
      /\ \A q \in Procs : q # p =>
           /\ pc'[q] = pc[q] /\ failed'[q] = failed[q] /\ refreshed'[q] = refreshed[q]
           /\ fetching'[q] = fetching[q] /\ parsed'[q] = parsed[q] /\ assetsDB'[q] = assetsDB[q]
           /\ wanted'[q] = wanted[q]
  BY DEF TypeOK
<1>1. /\ budget' \in [calls : 0..MaxCalls, failures : 0..MaxFailures, crashes : 0..MaxCrashes]
      /\ budget'.crashes = budget.crashes /\ budget'.failures = budget.failures
  <2>1. budget'.crashes = budget.crashes /\ budget'.failures = budget.failures
    BY DEF TypeOK
  <2> QED BY <2>1, BudgetStep
<1>2. TypeOK'
  <2>1. fetching' \in [Procs -> [Docs -> {"check", "want", "locked", "got", "removed", "end"}]]
    BY DEF TypeOK
  <2>2. parsed' \in [Procs -> [Gpos -> {Broken} \cup 0..MaxVersion]]
    BY DEF TypeOK
  <2>3. wanted' \in [Procs -> [Docs -> 0..MaxVersion]]
    BY DEF TypeOK
  <2> QED BY <1>1, <2>1, <2>2, <2>3 DEF TypeOK
<1>3. LockInv'
  BY <1>0 DEF LockInv
<1>4. FetchInv'
  BY <1>0 DEF FetchInv, Replacing
<1>5. RemoteInv'
  BY <1>0 DEF RemoteInv, TypeOK
<1>6. CacheInv'
  <2>1. \A q \in Procs, g \in Gpos : fetching'[q][g] \in Replacing <=> fetching[q][g] \in Replacing
    BY <1>0 DEF FetchInv, Replacing
  <2>2. \A q \in Procs, g \in Gpos : fetching[q][g] = "removed" => fetching'[q][g] = "removed"
    BY <1>0 DEF FetchInv
  <2> QED BY <1>0, <2>1, <2>2 DEF CacheInv, Replacing
<1>7. ParseInv' /\ ReturnedGPOsAreFresh'
  BY <1>0 DEF ParseInv, ReturnedGPOsAreFresh, Replacing
<1>8. ArchiveInv'
  <2>1. \A q \in Procs : Owes(q) => Owes(q)'
    BY <1>0 DEF Owes
  <2> QED BY <1>0, <1>1, <2>1 DEF ArchiveInv, Undisturbed
<1> QED BY <1>2, <1>3, <1>4, <1>5, <1>6, <1>7, <1>8

\* AD cannot be reached: the call ends.
LEMMA ListFailsStep == ASSUME Inv, NEW p \in Procs, ListFails(p) PROVE Inv'
<1> USE Constants DEF Inv, ListFails, Goto, diskVars, callVars
<1>0. /\ pc[p] = "list" /\ pc'[p] = "idle" /\ \A q \in Procs : q # p => pc'[q] = pc[q]
  BY DEF TypeOK
<1>1. TypeOK' /\ budget'.crashes = budget.crashes /\ ~Undisturbed'
  BY FailureStep DEF TypeOK
<1>2. LockInv' /\ FetchInv'
  BY <1>0 DEF LockInv, FetchInv
<1>3. RemoteInv' /\ CacheInv' /\ ParseInv' /\ ReturnedGPOsAreFresh'
  BY <1>0 DEF RemoteInv, CacheInv, ParseInv, ReturnedGPOsAreFresh
<1>4. ArchiveInv'
  BY <1>0, <1>1 DEF ArchiveInv
<1> QED BY <1>1, <1>2, <1>3, <1>4

\* The AD lock is taken; everything is still to be looked at.
LEMMA FetchBeginStep == ASSUME Inv, NEW p \in Procs, FetchBegin(p) PROVE Inv'
<1> USE Constants DEF Inv, FetchBegin, Goto, diskVars, callVars
<1>0. /\ pc[p] = "list" /\ pc'[p] = "fetch" /\ \A q \in Procs : q # p => pc'[q] = pc[q]
      /\ ~failed[p] /\ \A d \in Docs : fetching[p][d] = "check"
  BY DEF TypeOK, FetchInv
<1>1. TypeOK'
  BY DEF TypeOK
<1>2. \A q \in Procs : pc[q] \notin {"fetch", "compress"}
  BY DEF LockInv
<1>3. LockInv' /\ FetchInv'
  BY <1>0, <1>2 DEF LockInv, FetchInv
<1>4. \A q \in Procs, d \in Docs : fetching[q][d] \in {"check", "end"}
  BY <1>2 DEF FetchInv
<1>5. RemoteInv' /\ CacheInv'
  BY <1>0, <1>4 DEF RemoteInv, CacheInv
<1>6. ParseInv' /\ ReturnedGPOsAreFresh'
  BY <1>0 DEF ParseInv, ReturnedGPOsAreFresh
<1>7. ArchiveInv'
  <2>1. \A q \in Procs : Owes(q) => Owes(q)'
    BY <1>0 DEF Owes
  <2> QED BY <1>0, <2>1 DEF ArchiveInv, Undisturbed
<1> QED BY <1>1, <1>3, <1>5, <1>6, <1>7

\* A document is looked at: one that is not downloaded is as recent as the one on AD.
LEMMA FetchCheckStep == ASSUME Inv, NEW p \in Procs, NEW d \in Docs, FetchCheck(p, d) PROVE Inv'
<1> USE Constants DEF Inv, FetchCheck, FetchFrame
<1>0. /\ pc[p] = "fetch" /\ fetching[p][d] = "check"
      /\ fetching'[p][d] \in {"want", "end"}
      /\ fetching'[p][d] = "end" => sysvol[d] >= remote[d]
      /\ fetching' \in [Procs -> [Docs -> {"check", "want", "locked", "got", "removed", "end"}]]
      /\ \A q \in Procs, e \in Docs : (q # p \/ e # d) => fetching'[q][e] = fetching[q][e]
  BY FetchingStep DEF NeedsDownload, TypeOK
<1>1. TypeOK'
  BY <1>0 DEF TypeOK
<1>2. \A q \in Procs, e \in Docs : \A st \in Replacing : fetching'[q][e] = st <=> fetching[q][e] = st
  BY <1>0 DEF Replacing
<1>3. LockInv' /\ FetchInv'
  BY <1>0, <1>2 DEF LockInv, FetchInv, Replacing
<1>4. RemoteInv' /\ ReturnedGPOsAreFresh'
  BY DEF RemoteInv, ReturnedGPOsAreFresh
<1>5. CacheInv'
  <2> SUFFICES ASSUME NEW q \in Procs, NEW g \in Gpos
               PROVE  /\ pc[q] = "fetch" /\ ~failed[q] /\ fetching'[q][g] = "end" => sysvol[g] >= wanted[q][g]
                      /\ pc[q] \in {"work", "compress"}
                           => sysvol[g] >= wanted[q][g] \/ \E r \in Procs : fetching'[r][g] = "removed"
                      /\ pc[q] \in {"fetch", "work", "compress"}
                           => \A r \in Procs : fetching'[r][g] \in {"got", "removed"} => tmpdest[g] >= wanted[q][g]
    BY DEF CacheInv
  <2>1. pc[q] = "fetch" /\ ~failed[q] /\ fetching'[q][g] = "end" => sysvol[g] >= wanted[q][g]
    <3>1. CASE q = p /\ g = d
      BY <1>0, <3>1 DEF RemoteInv, TypeOK
    <3>2. CASE ~(q = p /\ g = d)
      BY <1>0, <3>2 DEF CacheInv
    <3> QED BY <3>1, <3>2
  <2> QED BY <1>2, <2>1 DEF CacheInv, Replacing
<1>6. ParseInv'
  BY <1>2 DEF ParseInv
<1>7. ArchiveInv'
  <2>1. \A q \in Procs : Owes(q) => Owes(q)'
    BY <1>0 DEF Owes
  <2>2. Undisturbed => ~failed[p] \/ d # Assets
    BY <1>0 DEF ArchiveInv
  <2> QED BY <1>0, <2>1, <2>2 DEF ArchiveInv, Undisturbed
<1> QED BY <1>1, <1>3, <1>4, <1>5, <1>6, <1>7

\* The assets are gone: their directory goes too, and the call owes the archive that.
LEMMA AssetsNotFoundStep == ASSUME Inv, NEW p \in Procs, AssetsNotFound(p) PROVE Inv'
<1> USE Constants DEF Inv, AssetsNotFound, FetchFrame
<1>0. /\ pc[p] = "fetch" /\ fetching[p][Assets] = "check" /\ fetching'[p][Assets] = "end"
      /\ fetching' \in [Procs -> [Docs -> {"check", "want", "locked", "got", "removed", "end"}]]
      /\ \A q \in Procs, e \in Docs : (q # p \/ e # Assets) => fetching'[q][e] = fetching[q][e]
      /\ sysvol'[Assets] = 0 /\ \A g \in Gpos : sysvol'[g] = sysvol[g]
      /\ refreshed'[p] = (sysvol[Assets] # 0)
      /\ \A q \in Procs : q # p => refreshed'[q] = refreshed[q]
  BY FetchingStep DEF TypeOK
<1>1. TypeOK' /\ budget'.crashes = budget.crashes /\ (Undisturbed' => Undisturbed)
  <2>1. /\ budget' \in [calls : 0..MaxCalls, failures : 0..MaxFailures, crashes : 0..MaxCrashes]
        /\ budget'.crashes = budget.crashes /\ (Undisturbed' => Undisturbed)
    BY FailureStep DEF TypeOK, Undisturbed
  <2>2. refreshed' \in [Procs -> BOOLEAN] /\ sysvol' \in [Docs -> 0..MaxVersion]
    BY DEF TypeOK
  <2> QED BY <1>0, <2>1, <2>2 DEF TypeOK
<1>2. \A q \in Procs, g \in Gpos : fetching'[q][g] = fetching[q][g]
  BY <1>0
<1>3. LockInv' /\ FetchInv'
  BY <1>0 DEF LockInv, FetchInv, Replacing
<1>4. RemoteInv' /\ ReturnedGPOsAreFresh'
  BY DEF RemoteInv, ReturnedGPOsAreFresh
<1>5. CacheInv'
  BY SMTT(30), <1>0, <1>2 DEF CacheInv
<1>7. ParseInv'
  BY <1>2 DEF ParseInv
<1>6. ArchiveInv'
  <2>1. \A q \in Procs : pc'[q] = "fetch" /\ failed'[q] /\ Undisturbed' => fetching'[q][Assets] = "end"
    BY <1>0, <1>1 DEF ArchiveInv
  <2>2. budget'.crashes = MaxCrashes /\ db' = Broken => \E q \in Procs : pc'[q] = "compress"
    BY <1>1 DEF ArchiveInv
  <2>3. ASSUME Undisturbed' PROVE db' = sysvol'[Assets] \/ \E q \in Procs : Owes(q)'
    <3>1. Undisturbed /\ ~failed[p] /\ assetsDB[p] = "todo"
      BY <1>0, <1>1, <2>3 DEF ArchiveInv, LockInv
    <3>2. CASE sysvol[Assets] # 0
      <4>1. Owes(p)'
        BY <1>0, <3>1, <3>2 DEF Owes
      <4> QED BY <4>1
    <3>3. CASE sysvol[Assets] = 0
      <4>1. \A q \in Procs : Owes(q) => q # p /\ Owes(q)'
        BY <1>0 DEF Owes
      <4> QED BY <1>0, <3>1, <3>3, <4>1 DEF ArchiveInv
    <3> QED BY <3>2, <3>3
  <2> QED BY <2>1, <2>2, <2>3 DEF ArchiveInv
<1> QED BY <1>1, <1>3, <1>4, <1>5, <1>6, <1>7

\* The mutex of the document is taken: nobody parses it.
LEMMA DownloadLockStep == ASSUME Inv, NEW p \in Procs, NEW d \in Docs, DownloadLock(p, d) PROVE Inv'
<1> USE Constants DEF Inv, DownloadLock, FetchFrame
<1>0. /\ pc[p] = "fetch" /\ fetching[p][d] = "want" /\ fetching'[p][d] = "locked"
      /\ fetching' \in [Procs -> [Docs -> {"check", "want", "locked", "got", "removed", "end"}]]
      /\ \A q \in Procs, e \in Docs : (q # p \/ e # d) => fetching'[q][e] = fetching[q][e]
      /\ (refreshed[p] \/ d = Assets) => refreshed'[p]
      /\ \A q \in Procs : q # p => refreshed'[q] = refreshed[q]
  <2>1. pc[p] = "fetch" /\ fetching[p][d] = "want"
    BY DEF FetchInv
  <2>2. (refreshed[p] \/ d = Assets) => refreshed'[p]
    BY DEF TypeOK
  <2>3. \A q \in Procs : q # p => refreshed'[q] = refreshed[q]
    BY DEF TypeOK
  <2> QED BY <2>1, <2>2, <2>3, FetchingStep
<1>1. TypeOK'
  BY <1>0 DEF TypeOK
<1>2. LockInv' /\ FetchInv'
  BY <1>0 DEF LockInv, FetchInv, Replacing
<1>3. RemoteInv' /\ ReturnedGPOsAreFresh'
  BY DEF RemoteInv, ReturnedGPOsAreFresh
<1>4. \A q \in Procs, e \in Docs : \A st \in {"got", "removed", "end"} :
        fetching'[q][e] = st <=> fetching[q][e] = st
  BY <1>0
<1>5. CacheInv'
  <2>1. UNCHANGED <<pc, failed, sysvol, tmpdest, wanted>>
    OBVIOUS
  <2> QED BY <1>4, <2>1 DEF CacheInv
<1>6. ParseInv'
  <2>1. \A q \in Procs, g \in Gpos : q \in readers[g] => \A r \in Procs : fetching'[r][g] = fetching[r][g]
    BY <1>0
  <2>2. UNCHANGED <<pc, readers, parsed, wanted>>
    OBVIOUS
  <2> QED BY <2>1, <2>2 DEF ParseInv
<1>7. ArchiveInv'
  <2>1. \A q \in Procs : Owes(q) => Owes(q)'
    BY <1>0, <1>4 DEF Owes
  <2> QED BY <1>4, <2>1 DEF ArchiveInv, Undisturbed
<1> QED BY <1>1, <1>2, <1>3, <1>5, <1>6, <1>7

\* The copy that is downloaded is what AD has now: no call at work asked for more.
LEMMA DownloadStep == ASSUME Inv, NEW p \in Procs, NEW d \in Docs, Download(p, d) PROVE Inv'
<1> USE Constants DEF Inv, Download, FetchFrame
<1>0. /\ pc[p] = "fetch" /\ fetching[p][d] = "locked" /\ fetching'[p][d] = "got"
      /\ fetching' \in [Procs -> [Docs -> {"check", "want", "locked", "got", "removed", "end"}]]
      /\ \A q \in Procs, e \in Docs : (q # p \/ e # d) => fetching'[q][e] = fetching[q][e]
  BY FetchingStep DEF FetchInv
<1>1. /\ tmpdest' \in [Docs -> 0..MaxVersion] /\ tmpdest'[d] = remote[d]
      /\ \A e \in Docs : e # d => tmpdest'[e] = tmpdest[e]
  BY DEF TypeOK
<1>2. TypeOK'
  BY <1>0, <1>1 DEF TypeOK
<1>3. LockInv' /\ FetchInv'
  BY <1>0 DEF LockInv, FetchInv, Replacing
<1>4. RemoteInv' /\ ReturnedGPOsAreFresh'
  BY DEF RemoteInv, ReturnedGPOsAreFresh
<1>5. CacheInv'
  <2> SUFFICES ASSUME NEW q \in Procs, NEW g \in Gpos
               PROVE  /\ pc[q] = "fetch" /\ ~failed[q] /\ fetching'[q][g] = "end" => sysvol[g] >= wanted[q][g]
                      /\ pc[q] \in {"work", "compress"}
                           => sysvol[g] >= wanted[q][g] \/ \E r \in Procs : fetching'[r][g] = "removed"
                      /\ pc[q] \in {"fetch", "work", "compress"}
                           => \A r \in Procs : fetching'[r][g] \in {"got", "removed"} => tmpdest'[g] >= wanted[q][g]
    BY DEF CacheInv
  <2>1. \A r \in Procs : \A st \in {"removed", "end"} : fetching'[r][g] = st <=> fetching[r][g] = st
    BY <1>0
  <2>2. \A r \in Procs : fetching'[r][g] \in {"got", "removed"} /\ pc[q] \in {"fetch", "work", "compress"}
                           => tmpdest'[g] >= wanted[q][g]
    <3>1. CASE g = d
      BY <1>1, <3>1 DEF RemoteInv, TypeOK
    <3>2. CASE g # d
      BY <1>0, <1>1, <3>2 DEF CacheInv
    <3> QED BY <3>1, <3>2
  <2> QED BY <2>1, <2>2 DEF CacheInv
<1>6. ParseInv'
  <2>1. \A q \in Procs, e \in Docs : fetching'[q][e] \in Replacing <=> fetching[q][e] \in Replacing
    BY <1>0 DEF Replacing
  <2>2. UNCHANGED <<pc, readers, parsed, wanted>>
    OBVIOUS
  <2> QED BY <2>1, <2>2 DEF ParseInv
<1>7. ArchiveInv'
  <2>1. \A q \in Procs : Owes(q) => Owes(q)'
    BY <1>0 DEF Owes
  <2> QED BY <1>0, <2>1 DEF ArchiveInv, Undisturbed
<1> QED BY <1>2, <1>3, <1>4, <1>5, <1>6, <1>7

\* The previous directory is removed: the copy is there to replace it, and for the
\* assets the call owes the archive.
LEMMA DownloadRemoveOldStep ==
  ASSUME Inv, NEW p \in Procs, NEW d \in Docs, DownloadRemoveOld(p, d) PROVE Inv'
<1> USE Constants DEF Inv, DownloadRemoveOld, FetchFrame
<1>0. /\ pc[p] = "fetch" /\ fetching[p][d] = "got" /\ fetching'[p][d] = "removed"
      /\ fetching' \in [Procs -> [Docs -> {"check", "want", "locked", "got", "removed", "end"}]]
      /\ \A q \in Procs, e \in Docs : (q # p \/ e # d) => fetching'[q][e] = fetching[q][e]
  BY FetchingStep DEF FetchInv
<1>1. /\ sysvol' \in [Docs -> 0..MaxVersion]
      /\ \A e \in Docs : e # d => sysvol'[e] = sysvol[e]
  BY DEF TypeOK
<1>2. TypeOK'
  BY <1>0, <1>1 DEF TypeOK
<1>3. LockInv' /\ FetchInv'
  BY <1>0 DEF LockInv, FetchInv, Replacing
<1>4. RemoteInv' /\ ReturnedGPOsAreFresh'
  BY DEF RemoteInv, ReturnedGPOsAreFresh
<1>5. CacheInv'
  <2> SUFFICES ASSUME NEW q \in Procs, NEW g \in Gpos
               PROVE  /\ pc[q] = "fetch" /\ ~failed[q] /\ fetching'[q][g] = "end" => sysvol'[g] >= wanted[q][g]
                      /\ pc[q] \in {"work", "compress"}
                           => sysvol'[g] >= wanted[q][g] \/ \E r \in Procs : fetching'[r][g] = "removed"
                      /\ pc[q] \in {"fetch", "work", "compress"}
                           => \A r \in Procs : fetching'[r][g] \in {"got", "removed"} => tmpdest[g] >= wanted[q][g]
    BY DEF CacheInv
  <2>1. CASE g # d
    BY <1>0, <1>1, <2>1 DEF CacheInv
  <2>2. CASE g = d
    <3>1. pc[q] = "fetch" => q = p
      BY <1>0, OneHolder
    <3> QED BY <1>0, <2>2, <3>1 DEF CacheInv
  <2> QED BY <2>1, <2>2
<1>6. ParseInv'
  <2>1. \A q \in Procs, e \in Docs : fetching'[q][e] \in Replacing <=> fetching[q][e] \in Replacing
    BY <1>0 DEF Replacing
  <2>2. UNCHANGED <<pc, readers, parsed, wanted>>
    OBVIOUS
  <2> QED BY <2>1, <2>2 DEF ParseInv
<1>7. ArchiveInv'
  <2>1. \A q \in Procs : Owes(q) => Owes(q)'
    BY <1>0 DEF Owes
  <2>2. d = Assets /\ Undisturbed => Owes(p)'
    BY <1>0 DEF Owes, FetchInv, Replacing, ArchiveInv, LockInv
  <2>3. d # Assets => sysvol'[Assets] = sysvol[Assets]
    BY <1>1
  <2> QED BY <1>0, <2>1, <2>2, <2>3 DEF ArchiveInv, Undisturbed
<1> QED BY <1>2, <1>3, <1>4, <1>5, <1>6, <1>7

\* The copy is renamed into place: every call at work finds what it asked for.
LEMMA DownloadRenameStep ==
  ASSUME Inv, NEW p \in Procs, NEW d \in Docs, DownloadRename(p, d) PROVE Inv'
<1> USE Constants DEF Inv, DownloadRename, FetchFrame
<1>0. /\ pc[p] = "fetch" /\ fetching[p][d] = "removed" /\ fetching'[p][d] = "end"
      /\ fetching' \in [Procs -> [Docs -> {"check", "want", "locked", "got", "removed", "end"}]]
      /\ \A q \in Procs, e \in Docs : (q # p \/ e # d) => fetching'[q][e] = fetching[q][e]
  BY FetchingStep DEF FetchInv
<1>1. /\ sysvol' \in [Docs -> 0..MaxVersion] /\ tmpdest' \in [Docs -> 0..MaxVersion]
      /\ sysvol'[d] = tmpdest[d]
      /\ \A e \in Docs : e # d => sysvol'[e] = sysvol[e] /\ tmpdest'[e] = tmpdest[e]
  BY DEF TypeOK
<1>2. TypeOK'
  BY <1>0, <1>1 DEF TypeOK
<1>3. LockInv' /\ FetchInv'
  <2>1. LockInv'
    BY DEF LockInv
  <2>2. \A q \in Procs, e \in Docs : pc[q] # "fetch" => fetching'[q][e] = fetching[q][e]
    BY <1>0
  <2> QED BY <1>0, <2>1, <2>2 DEF FetchInv, Replacing
<1>4. RemoteInv' /\ ReturnedGPOsAreFresh'
  BY DEF RemoteInv, ReturnedGPOsAreFresh
<1>5. CacheInv'
  <2> SUFFICES ASSUME NEW q \in Procs, NEW g \in Gpos
               PROVE  /\ pc[q] = "fetch" /\ ~failed[q] /\ fetching'[q][g] = "end" => sysvol'[g] >= wanted[q][g]
                      /\ pc[q] \in {"work", "compress"}
                           => sysvol'[g] >= wanted[q][g] \/ \E r \in Procs : fetching'[r][g] = "removed"
                      /\ pc[q] \in {"fetch", "work", "compress"}
                           => \A r \in Procs : fetching'[r][g] \in {"got", "removed"} => tmpdest'[g] >= wanted[q][g]
    BY DEF CacheInv
  <2>1. CASE g # d
    BY <1>0, <1>1, <2>1 DEF CacheInv
  <2>2. CASE g = d
    <3>1. \A r \in Procs : r # p => fetching'[r][g] \in {"check", "end"}
      BY <1>0, OneHolder DEF FetchInv
    <3>2. pc[q] \in {"fetch", "work", "compress"} => sysvol'[g] >= wanted[q][g]
      BY <1>0, <1>1, <2>2 DEF CacheInv
    <3> QED BY <1>0, <2>2, <3>1, <3>2
  <2> QED BY <2>1, <2>2
<1>6. ParseInv'
  <2>1. \A q \in Procs, e \in Docs : fetching'[q][e] \in Replacing => fetching[q][e] \in Replacing
    BY <1>0 DEF Replacing
  <2>2. UNCHANGED <<pc, readers, parsed, wanted>>
    OBVIOUS
  <2> QED BY <2>1, <2>2 DEF ParseInv
<1>7. ArchiveInv'
  <2>1. \A q \in Procs : Owes(q) => Owes(q)'
    BY <1>0 DEF Owes
  <2>2. d = Assets /\ Undisturbed => Owes(p)
    BY <1>0 DEF Owes, FetchInv, Replacing, ArchiveInv, LockInv
  <2>3. d # Assets => sysvol'[Assets] = sysvol[Assets]
    BY <1>1
  <2> QED BY <1>0, <2>1, <2>2, <2>3 DEF ArchiveInv, Undisturbed
<1> QED BY <1>2, <1>3, <1>4, <1>5, <1>6, <1>7

\* A goroutine of the group fails before it replaced anything.
LEMMA FetchFailsStep == ASSUME Inv, NEW p \in Procs, NEW d \in Docs, FetchFails(p, d) PROVE Inv'
<1> USE Constants DEF Inv, FetchFails, FetchFrame
<1>0. /\ pc[p] = "fetch" /\ fetching[p][d] \in {"check", "locked"} /\ fetching'[p][d] = "end"
      /\ fetching' \in [Procs -> [Docs -> {"check", "want", "locked", "got", "removed", "end"}]]
      /\ \A q \in Procs, e \in Docs : (q # p \/ e # d) => fetching'[q][e] = fetching[q][e]
  BY FetchingStep
<1>1. failed' \in [Procs -> BOOLEAN] /\ failed'[p] = TRUE /\ \A q \in Procs : q # p => failed'[q] = failed[q]
  BY DEF TypeOK
<1>2. /\ budget' \in [calls : 0..MaxCalls, failures : 0..MaxFailures, crashes : 0..MaxCrashes]
      /\ budget'.crashes = budget.crashes
      /\ Undisturbed' => Undisturbed /\ fetching[p][d] = "locked" /\ remote[d] = 0
  BY FailureStep DEF TypeOK, Undisturbed
<1>3. TypeOK'
  BY <1>0, <1>1, <1>2 DEF TypeOK
<1>4. LockInv' /\ FetchInv'
  <2>1. LockInv'
    BY DEF LockInv
  <2>2. \A q \in Procs, e \in Docs : pc[q] # "fetch" => fetching'[q][e] = fetching[q][e] /\ failed'[q] = failed[q]
    BY <1>0, <1>1
  <2> QED BY <1>0, <1>1, <2>1, <2>2 DEF FetchInv, Replacing
<1>5. RemoteInv' /\ ReturnedGPOsAreFresh'
  BY DEF RemoteInv, ReturnedGPOsAreFresh
<1>6. CacheInv'
  <2> SUFFICES ASSUME NEW q \in Procs, NEW g \in Gpos
               PROVE  /\ pc[q] = "fetch" /\ ~failed'[q] /\ fetching'[q][g] = "end" => sysvol[g] >= wanted[q][g]
                      /\ pc[q] \in {"work", "compress"}
                           => sysvol[g] >= wanted[q][g] \/ \E r \in Procs : fetching'[r][g] = "removed"
                      /\ pc[q] \in {"fetch", "work", "compress"}
                           => \A r \in Procs : fetching'[r][g] \in {"got", "removed"} => tmpdest[g] >= wanted[q][g]
    BY DEF CacheInv
  <2>1. \A r \in Procs : \A st \in {"got", "removed"} : fetching'[r][g] = st <=> fetching[r][g] = st
    BY <1>0
  <2>2. pc[q] = "fetch" /\ ~failed'[q] /\ fetching'[q][g] = "end" => sysvol[g] >= wanted[q][g]
    BY <1>0, <1>1 DEF CacheInv
  <2> QED BY <2>1, <2>2 DEF CacheInv
<1>7. ParseInv'
  <2>1. \A q \in Procs, e \in Docs : fetching'[q][e] \in Replacing => fetching[q][e] \in Replacing
    BY <1>0 DEF Replacing
  <2>2. UNCHANGED <<pc, readers, parsed, wanted>>
    OBVIOUS
  <2> QED BY <2>1, <2>2 DEF ParseInv
<1>8. ArchiveInv'
  <2>1. ASSUME Undisturbed'
        PROVE  /\ db = sysvol[Assets] \/ \E q \in Procs : Owes(q)'
               /\ \A q \in Procs : pc[q] = "fetch" /\ failed'[q] => fetching'[q][Assets] = "end"
    <3>1. d = Assets /\ Undisturbed /\ fetching[p][Assets] = "locked"
      BY <1>2, <2>1 DEF RemoteInv
    <3>2. \A q \in Procs : Owes(q) => Owes(q)'
      BY <1>0, <1>1, <3>1 DEF Owes
    <3> QED BY <1>0, <1>1, <3>1, <3>2 DEF ArchiveInv
  <2> QED BY <1>2, <2>1 DEF ArchiveInv
<1> QED BY <1>3, <1>4, <1>5, <1>6, <1>7, <1>8

\* The fetch is over: without an error everything the call asked for is in the cache.
LEMMA FetchEndStep == ASSUME Inv, NEW p \in Procs, FetchEnd(p) PROVE Inv'
<1> USE Constants DEF Inv, FetchEnd, diskVars, callVars
<1>0. /\ pc[p] = "fetch" /\ \A d \in Docs : fetching[p][d] = "end"
      /\ pc'[p] = IF failed[p] THEN "idle" ELSE "work"
      /\ \A q \in Procs : q # p => pc'[q] = pc[q] /\ pc[q] \notin {"fetch", "compress"}
  BY OneHolder DEF TypeOK
<1>1. TypeOK'
  BY DEF TypeOK
<1>2. LockInv' /\ FetchInv'
  BY <1>0 DEF LockInv, FetchInv
<1>3. RemoteInv' /\ ReturnedGPOsAreFresh'
  BY <1>0 DEF RemoteInv, ReturnedGPOsAreFresh
<1>4. \A q \in Procs, d \in Docs : fetching[q][d] \in {"check", "end"}
  BY <1>0 DEF FetchInv
<1>5. CacheInv'
  BY <1>0, <1>4 DEF CacheInv
<1>6. ParseInv'
  BY <1>0 DEF ParseInv
<1>7. ArchiveInv'
  <2>1. \A q \in Procs : Owes(q) => Owes(q)'
    BY <1>0 DEF Owes
  <2> QED BY <1>0, <2>1 DEF ArchiveInv, Undisturbed
<1> QED BY <1>1, <1>2, <1>3, <1>5, <1>6, <1>7

-----------------------------------------------------------------------------
(* GetPolicies: parsing the GPOs, packing the assets, opening the archive. *)

\* A GPO is parsed only when nobody replaces it, and one at a time.
LEMMA ParseBeginStep == ASSUME Inv, NEW p \in Procs, NEW g \in Gpos, ParseBegin(p, g) PROVE Inv'
<1> USE Constants DEF Inv, ParseBegin, diskVars, callVars
<1>0. /\ readers' \in [Gpos -> SUBSET Procs] /\ readers'[g] = readers[g] \cup {p}
      /\ \A h \in Gpos : h # g => readers'[h] = readers[h]
  BY DEF TypeOK
<1>1. /\ pc[p] \in {"work", "compress"} /\ parsed[p][g] = 0
      /\ \A h \in Gpos : p \notin readers[h] /\ parsed[p][h] # Broken
      /\ \A q \in Procs : fetching[q][g] \notin Replacing
  BY DEF ParseNext, Writing, Replacing
<1>2. TypeOK'
  BY <1>0 DEF TypeOK
<1>3. LockInv' /\ FetchInv'
  BY DEF LockInv, FetchInv
<1>4. RemoteInv' /\ CacheInv' /\ ReturnedGPOsAreFresh'
  BY DEF RemoteInv, CacheInv, ReturnedGPOsAreFresh
<1>5. ParseInv'
  <2> SUFFICES ASSUME NEW q \in Procs, NEW k \in Gpos
               PROVE  /\ q \in readers'[k] =>
                           /\ pc[q] \in {"work", "compress"} /\ parsed[q][k] = 0
                           /\ \A r \in Procs : fetching[r][k] \notin Replacing
                           /\ \A h \in Gpos : parsed[q][h] # Broken /\ (q \in readers'[h] => h = k)
                      /\ pc[q] # "idle" => parsed[q][k] \in {0, Broken} \/ parsed[q][k] >= wanted[q][k]
    BY DEF ParseInv
  <2>1. CASE q = p
    BY <1>0, <1>1, <2>1 DEF ParseInv
  <2>2. CASE q # p
    <3>1. \A h \in Gpos : q \in readers'[h] <=> q \in readers[h]
      BY <1>0, <2>2
    <3> QED BY <3>1 DEF ParseInv
  <2> QED BY <2>1, <2>2
<1>6. ArchiveInv'
  BY DEF ArchiveInv, Owes, Undisturbed
<1> QED BY <1>2, <1>3, <1>4, <1>5, <1>6

\* What is parsed is what the call asked for, or more recent: nobody replaced it meanwhile.
LEMMA ParseEndStep == ASSUME Inv, NEW p \in Procs, NEW g \in Gpos, ParseEnd(p, g) PROVE Inv'
<1> USE Constants DEF Inv, ParseEnd, diskVars
<1>0. /\ readers' \in [Gpos -> SUBSET Procs] /\ readers'[g] = readers[g] \ {p}
      /\ \A h \in Gpos : h # g => readers'[h] = readers[h]
  BY DEF TypeOK
<1>1. /\ parsed' \in [Procs -> [Gpos -> {Broken} \cup 0..MaxVersion]]
      /\ parsed'[p][g] \in {sysvol[g], Broken}
      /\ \A q \in Procs, h \in Gpos : (q # p \/ h # g) => parsed'[q][h] = parsed[q][h]
  <2>1. sysvol[g] \in {Broken} \cup 0..MaxVersion
    BY DEF TypeOK
  <2>2. PICK v \in {sysvol[g], Broken} : parsed' = [parsed EXCEPT ![p][g] = v]
    OBVIOUS
  <2>3. v \in {Broken} \cup 0..MaxVersion
    BY <2>1, <2>2
  <2> QED BY <2>2, <2>3 DEF TypeOK
<1>2. /\ p \in readers[g] /\ pc[p] \in {"work", "compress"}
      /\ \A h \in Gpos : p \in readers[h] => h = g
      /\ sysvol[g] >= wanted[p][g]
  BY DEF ParseInv, CacheInv, Replacing
<1>3. /\ budget' \in [calls : 0..MaxCalls, failures : 0..MaxFailures, crashes : 0..MaxCrashes]
      /\ budget'.crashes = budget.crashes /\ (Undisturbed' => Undisturbed)
  BY FailureStep DEF TypeOK, Undisturbed
<1>4. TypeOK'
  BY <1>0, <1>1, <1>3 DEF TypeOK
<1>5. LockInv' /\ FetchInv'
  BY DEF LockInv, FetchInv
<1>6. RemoteInv' /\ CacheInv'
  BY DEF RemoteInv, CacheInv
<1>7. ReturnedGPOsAreFresh'
  BY <1>1, <1>2 DEF ReturnedGPOsAreFresh
<1>8. ParseInv'
  <2> SUFFICES ASSUME NEW q \in Procs, NEW k \in Gpos
               PROVE  /\ q \in readers'[k] =>
                           /\ pc[q] \in {"work", "compress"} /\ parsed'[q][k] = 0
                           /\ \A r \in Procs : fetching[r][k] \notin Replacing
                           /\ \A h \in Gpos : parsed'[q][h] # Broken /\ (q \in readers'[h] => h = k)
                      /\ pc[q] # "idle" => parsed'[q][k] \in {0, Broken} \/ parsed'[q][k] >= wanted[q][k]
    BY DEF ParseInv
  <2>1. CASE q = p
    <3>1. q \notin readers'[k]
      BY <1>0, <1>2, <2>1
    <3>2. pc[q] # "idle" => parsed'[q][k] \in {0, Broken} \/ parsed'[q][k] >= wanted[q][k]
      BY <1>1, <1>2, <2>1 DEF ParseInv
    <3> QED BY <3>1, <3>2
  <2>2. CASE q # p
    <3>1. \A h \in Gpos : (q \in readers'[h] <=> q \in readers[h]) /\ parsed'[q][h] = parsed[q][h]
      BY <1>0, <1>1, <2>2
    <3> QED BY <3>1 DEF ParseInv
  <2> QED BY <2>1, <2>2
<1>9. ArchiveInv'
  <2>1. \A q \in Procs : Owes(q) => Owes(q)'
    BY DEF Owes
  <2> QED BY <1>3, <2>1 DEF ArchiveInv
<1> QED BY <1>4, <1>5, <1>6, <1>7, <1>8, <1>9

\* The archive is taken as it is by a call that owes it nothing.
LEMMA AssetsReuseStep == ASSUME Inv, NEW p \in Procs, AssetsReuse(p) PROVE Inv'
<1> USE Constants DEF Inv, AssetsReuse, diskVars
<1>0. /\ pc[p] = "work" /\ ~refreshed[p] /\ assetsDB'[p] \in {"none", "db"}
      /\ \A q \in Procs : q # p => assetsDB'[q] = assetsDB[q]
  BY DEF TypeOK
<1>1. TypeOK'
  BY DEF TypeOK
<1>2. LockInv' /\ FetchInv'
  BY <1>0 DEF LockInv, FetchInv
<1>3. RemoteInv' /\ CacheInv' /\ ParseInv' /\ ReturnedGPOsAreFresh'
  BY DEF RemoteInv, CacheInv, ParseInv, ReturnedGPOsAreFresh
<1>4. ArchiveInv'
  <2>1. \A q \in Procs : Owes(q) => Owes(q)'
    BY <1>0 DEF Owes
  <2> QED BY <2>1 DEF ArchiveInv, Undisturbed
<1> QED BY <1>1, <1>2, <1>3, <1>4

\* The assets are gone, and so is the archive now.
LEMMA AssetsDropStep == ASSUME Inv, NEW p \in Procs, AssetsDrop(p) PROVE Inv'
<1> USE Constants DEF Inv, AssetsDrop
<1>0. /\ pc[p] = "work" /\ sysvol[Assets] = 0 /\ db' = 0
      /\ \A q \in Procs : q # p => assetsDB'[q] = assetsDB[q] /\ failed'[q] = failed[q]
  BY DEF TypeOK
<1>1. TypeOK'
  <2>1. failed' \in [Procs -> BOOLEAN] /\ assetsDB' \in [Procs -> {"todo", "none", "db"}]
    BY DEF TypeOK
  <2> QED BY <1>0, <2>1 DEF TypeOK
<1>2. LockInv' /\ FetchInv'
  BY <1>0 DEF LockInv, FetchInv
<1>3. RemoteInv' /\ CacheInv' /\ ParseInv' /\ ReturnedGPOsAreFresh'
  BY <1>0 DEF RemoteInv, CacheInv, ParseInv, ReturnedGPOsAreFresh
<1>4. ArchiveInv'
  BY <1>0 DEF ArchiveInv, Undisturbed
<1> QED BY <1>1, <1>2, <1>3, <1>4

\* The archive is removed and written anew, under the AD lock.
LEMMA CompressBeginStep == ASSUME Inv, NEW p \in Procs, CompressBegin(p) PROVE Inv'
<1> USE Constants DEF Inv, CompressBegin, Goto, callVars
<1>0. /\ pc[p] = "work" /\ pc'[p] = "compress" /\ assetsDB[p] = "todo"
      /\ \A q \in Procs : q # p => pc'[q] = pc[q] /\ pc[q] \notin {"fetch", "compress"}
  BY DEF TypeOK, LockInv
<1>1. TypeOK'
  BY DEF TypeOK
<1>2. LockInv' /\ FetchInv'
  BY <1>0 DEF LockInv, FetchInv
<1>3. RemoteInv' /\ CacheInv'
  BY <1>0 DEF RemoteInv, CacheInv
<1>4. ParseInv' /\ ReturnedGPOsAreFresh'
  BY <1>0 DEF ParseInv, ReturnedGPOsAreFresh
<1>5. ArchiveInv'
  <2>1. Owes(p)'
    BY <1>0 DEF Owes
  <2> QED BY <1>0, <2>1 DEF ArchiveInv, Undisturbed
<1> QED BY <1>1, <1>2, <1>3, <1>4, <1>5

\* The archive is whole, and is the assets directory, which the AD lock kept as it was.
LEMMA CompressEndStep == ASSUME Inv, NEW p \in Procs, CompressEnd(p) PROVE Inv'
<1> USE Constants DEF Inv, CompressEnd, Goto
<1>0. /\ pc[p] = "compress" /\ pc'[p] = "work"
      /\ \A q \in Procs : q # p => pc'[q] = pc[q] /\ assetsDB'[q] = assetsDB[q]
                                   /\ pc[q] \notin {"fetch", "compress"}
      /\ sysvol[Assets] \in 0..MaxVersion /\ db' = sysvol[Assets]
  BY OneHolder DEF TypeOK
<1>1. TypeOK'
  BY <1>0 DEF TypeOK
<1>2. LockInv' /\ FetchInv'
  BY <1>0 DEF LockInv, FetchInv
<1>3. RemoteInv' /\ CacheInv'
  BY <1>0 DEF RemoteInv, CacheInv
<1>4. ParseInv' /\ ReturnedGPOsAreFresh'
  BY <1>0 DEF ParseInv, ReturnedGPOsAreFresh
<1>5. ArchiveInv'
  BY <1>0 DEF ArchiveInv, Undisturbed
<1> QED BY <1>1, <1>2, <1>3, <1>4, <1>5

\* The call ends well only if every GPO was parsed, and none of them badly.
LEMMA OpenStep == ASSUME Inv, NEW p \in Procs, Open(p) PROVE Inv'
<1> USE Constants DEF Inv, Open, diskVars
<1>0. /\ pc[p] = "work" /\ assetsDB[p] # "todo" /\ pc'[p] \in {"idle", "done"}
      /\ \A q \in Procs : q # p => pc'[q] = pc[q]
      /\ pc'[p] = "done" => \A g \in Gpos : parsed[p][g] \notin {0, Broken}
  BY DEF TypeOK, ParseEnded
<1>1. TypeOK'
  BY DEF TypeOK
<1>2. LockInv' /\ FetchInv'
  BY <1>0 DEF LockInv, FetchInv
<1>3. RemoteInv' /\ CacheInv'
  BY <1>0 DEF RemoteInv, CacheInv
<1>4. \A g \in Gpos : p \notin readers[g]
  BY DEF ParseInv, ParseEnded
<1>5. ParseInv'
  BY <1>0, <1>4 DEF ParseInv
<1>6. ReturnedGPOsAreFresh'
  BY <1>0 DEF ReturnedGPOsAreFresh, ParseInv
<1>7. ArchiveInv'
  <2>1. \A q \in Procs : Owes(q) => Owes(q)'
    BY <1>0 DEF Owes
  <2> QED BY <1>0, <2>1 DEF ArchiveInv, Undisturbed
<1> QED BY <1>1, <1>2, <1>3, <1>5, <1>6, <1>7

\* The caller has its policies.
LEMMA ReturnStep == ASSUME Inv, NEW p \in Procs, Return(p) PROVE Inv'
<1> USE Constants DEF Inv, Return, Goto, diskVars, callVars
<1>0. /\ pc[p] = "done" /\ pc'[p] = "idle" /\ \A q \in Procs : q # p => pc'[q] = pc[q]
  BY DEF TypeOK
<1>1. TypeOK'
  BY DEF TypeOK
<1>2. LockInv' /\ FetchInv'
  BY <1>0 DEF LockInv, FetchInv
<1>3. RemoteInv' /\ CacheInv' /\ ParseInv' /\ ReturnedGPOsAreFresh'
  BY <1>0 DEF RemoteInv, CacheInv, ParseInv, ReturnedGPOsAreFresh
<1>4. ArchiveInv'
  <2>1. \A q \in Procs : Owes(q) => Owes(q)'
    BY <1>0 DEF Owes
  <2> QED BY <1>0, <2>1 DEF ArchiveInv, Undisturbed
<1> QED BY <1>1, <1>2, <1>3, <1>4

\* The daemon is killed: nobody writes or reads, and the archive may be anything.
LEMMA CrashStep == ASSUME Inv, Crash PROVE Inv'
<1> USE Constants DEF Inv, Crash
<1>1. TypeOK' /\ budget'.crashes # MaxCrashes
  <2>1. budget' \in [calls : 0..MaxCalls, failures : 0..MaxFailures, crashes : 0..MaxCrashes]
    BY BudgetStep
  <2>2. budget'.crashes # MaxCrashes
    BY DEF TypeOK
  <2>3. tmpdest' \in [Docs -> 0..MaxVersion]
    BY DEF None
  <2> QED BY <2>1, <2>2, <2>3 DEF TypeOK
<1>2. LockInv' /\ FetchInv'
  BY DEF LockInv, FetchInv, Replacing
<1>3. RemoteInv' /\ CacheInv' /\ ParseInv' /\ ReturnedGPOsAreFresh'
  BY DEF RemoteInv, CacheInv, ParseInv, ReturnedGPOsAreFresh
<1>4. ArchiveInv'
  BY <1>1 DEF ArchiveInv, Undisturbed
<1> QED BY <1>1, <1>2, <1>3, <1>4

-----------------------------------------------------------------------------
(* The theorems. *)

\* Every step of the daemon and of the administrator keeps the invariant.
LEMMA NextInv == Inv /\ [Next]_vars => Inv'
<1> SUFFICES ASSUME Inv, [Next]_vars PROVE Inv' OBVIOUS
<1>1. ASSUME NEW p \in Procs, FetchStep(p) PROVE Inv'
  BY <1>1, FetchBeginStep, AssetsNotFoundStep, FetchEndStep, FetchCheckStep, DownloadLockStep,
     DownloadStep, DownloadRemoveOldStep, DownloadRenameStep, FetchFailsStep DEF FetchStep
<1>2. ASSUME NEW p \in Procs, WorkStep(p) PROVE Inv'
  BY <1>2, ParseBeginStep, ParseEndStep, AssetsReuseStep, AssetsDropStep, CompressBeginStep,
     CompressEndStep, OpenStep, ReturnStep DEF WorkStep
<1>3. CASE Next
  BY <1>1, <1>2, <1>3, PublishStep, RemoveAssetsStep, ListStep, ListFailsStep, CrashStep DEF Next
<1>4. CASE UNCHANGED vars
  BY <1>4 DEF vars, Inv, TypeOK, LockInv, FetchInv, RemoteInv, CacheInv, ParseInv,
     ReturnedGPOsAreFresh, ArchiveInv, Owes, Undisturbed
<1> QED BY <1>3, <1>4

\* The invariant holds of every state of the daemon: the other parts of the client leave
\* GetPolicies alone.
LEMMA Invariance == ADSpec => []Inv
<1>1. ADInit => Inv
  BY InitInv DEF ADInit
<1>2. [ADNext]_allVars => [Next]_vars
  BY DEF ADNext, StepAD, StepKrb5, StepRegistry, StepMerge, allVars
<1> QED
  BY <1>1, <1>2, NextInv, PTL DEF ADSpec

\* GetPolicies: a call that succeeds returns each GPO at least as recent as the one on
\* AD when it asked, for any number of calls, failures and crashes; and by the mutex of a
\* GPO the directory that parseGPOs reads is there, whole and as recent as the call asked
\* for, until it is read.
THEOREM FreshPolicies == ADSpec => []GPOsAreFreshAndWhole
<1>1. Inv => NoParseOfPartialGPO
  BY DEF Inv, NoParseOfPartialGPO, ParseInv, CacheInv, Replacing
<1>2. Inv => GPOsAreFreshAndWhole
  BY <1>1 DEF Inv, GPOsAreFreshAndWhole
<1> QED BY <1>2, Invariance, PTL

\* CompressAssets and the AD lock: the archive follows the assets directory when nothing
\* runs, and no call opens one that is being written.
THEOREM ArchiveSoundness == ADSpec => []ArchiveIsSound
<1>1. ASSUME Inv PROVE QuietArchiveMatchesAssets
  BY <1>1 DEF Inv, ArchiveInv, Owes, QuietArchiveMatchesAssets
<1>2. ASSUME Inv PROVE NoPartialArchiveOpened
  BY <1>2, Constants DEF Inv, ArchiveInv, LockInv, NoPartialArchiveOpened
<1>3. Inv => ArchiveIsSound
  BY <1>1, <1>2 DEF ArchiveIsSound
<1> QED BY <1>3, Invariance, PTL

-----------------------------------------------------------------------------
(* The Kerberos ticket of an object, in Krb5Cache.                          *)

\* No file is newer than the last change; a call that copies holds the lock.
ClockInv ==
  /\ copy.mtime <= clock /\ \A f \in Paths : ticket[f] <= clock
  /\ \A p \in Procs : krbPc[p] = "write" <=> krbLock = p
  /\ krbLock # NoOne => link \in Paths /\ ~switched

\* While nothing disturbs it, the ticket that the symlink points to is the one being
\* copied, or the one in the copy, or it is newer than the copy; or it is gone.
CopyInv ==
  /\ krbLock # NoOne /\ ~raced => ticket[link] \in {0, content}
  /\ krbLock = NoOne /\ ~switched /\ ~raced /\ copy.mtime # 0 =>
       link \in Paths /\ (ticket[link] \in {0, copy.ticket} \/ ticket[link] > copy.mtime)

TicketInv == K!TypeOK /\ ClockInv /\ CopyInv

\* No ticket is copied yet.
LEMMA TicketInit == K!Init => TicketInv
<1> SUFFICES ASSUME K!Init PROVE TicketInv
  OBVIOUS
<1>1. K!TypeOK
  <2>1. 0 \in K!Times
    BY ClockAssumption DEF K!Times
  <2> QED BY <2>1, Zenon DEF K!Init, K!TypeOK
<1>2. ClockInv
  BY Constants DEF K!Init, ClockInv
<1>3. CopyInv
  BY DEF K!Init, CopyInv
<1> QED BY <1>1, <1>2, <1>3 DEF TicketInv

\* Sessions that renew or switch tickets, and the calls that copy them, keep the invariant.
LEMMA TicketNext == TicketInv /\ [K!Next]_(K!vars) => TicketInv'
<1> SUFFICES ASSUME TicketInv, [K!Next]_(K!vars) PROVE TicketInv'
  OBVIOUS
<1> USE Constants, ClockAssumption DEF TicketInv, K!TypeOK, K!Times, ClockInv, CopyInv
<1>1. CASE UNCHANGED K!vars
  BY <1>1 DEF K!vars
<1>2. ASSUME NEW f \in Paths, K!Renew(f) PROVE TicketInv'
  <2>1. clock' \in K!Times /\ clock' > clock /\ \A t \in K!Times : t <= clock => t <= clock'
    BY <1>2 DEF K!Renew, K!Tick
  <2>2. K!TypeOK'
    BY <1>2, <2>1 DEF K!Renew
  <2>3. ClockInv'
    BY <1>2, <2>1 DEF K!Renew
  <2>4. CopyInv'
    <3>1. CASE f = link
      <4>1. ticket'[link'] = clock' /\ (krbLock' # NoOne => raced') /\ (raced => raced')
        BY <1>2, <3>1 DEF K!Renew
      <4>2. UNCHANGED <<link, copy, krbLock, switched>>
        BY <1>2 DEF K!Renew
      <4> QED BY <2>1, <3>1, <4>1, <4>2
    <3>2. CASE f # link
      <4>1. (link \in Paths => ticket'[link] = ticket[link]) /\ (raced => raced')
        BY <1>2, <3>2 DEF K!Renew
      <4>2. UNCHANGED <<link, copy, krbLock, content, switched>>
        BY <1>2 DEF K!Renew
      <4> QED BY <4>1, <4>2
    <3> QED BY <3>1, <3>2
  <2> QED BY <2>2, <2>3, <2>4 DEF K!Renew
<1>3. ASSUME NEW f \in Paths, K!Destroy(f) PROVE TicketInv'
  BY <1>3 DEF K!Destroy
<1>4. ASSUME NEW p \in Procs, NEW f \in Paths \cup {NoPath}, K!Call(p, f) PROVE TicketInv'
  BY <1>4 DEF K!Call, K!Goto
<1>5. ASSUME NEW p \in Procs, K!ensureKrb5CCSymlink(p) PROVE TicketInv'
  BY <1>5 DEF K!ensureKrb5CCSymlink, K!Goto
<1>6. ASSUME NEW p \in Procs, K!ensureKrb5CCCopy(p) PROVE TicketInv'
  <2>1. link \in Paths
    BY <1>6 DEF K!ensureKrb5CCCopy
  <2>2. CASE K!UpToDate
    BY <1>6, <2>1, <2>2 DEF K!ensureKrb5CCCopy
  <2>3. CASE ~K!UpToDate
    <3>1. K!TypeOK'
      <4>1. ticket[link] \in K!Times
        BY <2>1
      <4>2. switched' = FALSE /\ raced' = FALSE /\ UNCHANGED <<clock, ticket, link, copy, src, used>>
        BY <1>6, <2>3 DEF K!ensureKrb5CCCopy
      <4>3. /\ krbLock' = p /\ content' = ticket[link]
            /\ krbPc' = [krbPc EXCEPT ![p] = "write"] /\ pointed' = [pointed EXCEPT ![p] = ticket[link]]
        BY <1>6, <2>3 DEF K!ensureKrb5CCCopy
      <4> QED BY <4>1, <4>2, <4>3
    <3>2. ClockInv'
      BY <1>6, <2>1, <2>3 DEF K!ensureKrb5CCCopy
    <3>3. CopyInv'
      BY <1>6, <2>1, <2>3 DEF K!ensureKrb5CCCopy
    <3> QED BY <3>1, <3>2, <3>3
  <2> QED BY <2>2, <2>3
<1>7. ASSUME NEW p \in Procs, K!safeCopyFile(p) PROVE TicketInv'
  BY <1>7 DEF K!safeCopyFile, K!Goto, K!Tick
<1>8. ASSUME NEW p \in Procs, K!CopyFails(p) PROVE TicketInv'
  BY <1>8 DEF K!CopyFails, K!Goto
<1>9. ASSUME NEW p \in Procs, K!Return(p) PROVE TicketInv'
  BY <1>9 DEF K!Return, K!Goto
<1> QED
  BY <1>1, <1>2, <1>3, <1>4, <1>5, <1>6, <1>7, <1>8, <1>9 DEF K!Next

\* The other parts of the client leave the tickets alone.
LEMMA TicketStep == [ADNext]_allVars => [K!Next]_(K!vars)
BY DEF ADNext, StepAD, StepKrb5, StepRegistry, StepMerge, allVars, krbVars, K!vars

\* The ticket's invariant holds of every state of the client.
LEMMA TicketInvariance == ADSpec => []TicketInv
<1>1. ADInit => TicketInv
  BY TicketInit DEF ADInit
<1> QED BY <1>1, TicketStep, TicketNext, PTL DEF ADSpec

\* A call works with the ticket that its symlink points to, unless the symlink moved or
\* the ticket was renewed while it was copied (ad.go, ensureKrb5CCCopy): an mtime that
\* is not newer than the copy's is that of the ticket copied.
THEOREM TicketIsCurrent == ADSpec => CopyIsCurrentUndisturbed
<1>1. ASSUME TicketInv, [K!Next]_(K!vars), K!StaleStep PROVE switched \/ raced
  <2>1. PICK p \in Procs : krbPc[p] = "copy" /\ krbPc'[p] = "done" /\ used'[p] # pointed'[p]
    BY <1>1 DEF K!StaleStep
  <2>2. K!ensureKrb5CCCopy(p)
    BY <1>1, <2>1 DEF TicketInv, K!TypeOK, K!Next, K!vars, K!Goto, K!Renew, K!Destroy, K!Call,
         K!ensureKrb5CCSymlink, K!ensureKrb5CCCopy, K!safeCopyFile, K!CopyFails, K!Return
  <2>3. /\ krbLock = NoOne /\ link \in Paths /\ ticket[link] # 0 /\ K!UpToDate
        /\ used'[p] = copy.ticket /\ pointed'[p] = ticket[link]
    BY <1>1, <2>1, <2>2 DEF TicketInv, K!TypeOK, K!ensureKrb5CCCopy
  <2> QED
    BY <1>1, <2>1, <2>3, ClockAssumption DEF TicketInv, CopyInv, K!UpToDate, K!TypeOK, K!Times
<1> QED
  BY <1>1, TicketInvariance, TicketStep, PTL DEF ADSpec, CopyIsCurrentUndisturbed, K!CopyIsCurrentUndisturbed

-----------------------------------------------------------------------------
(* The locks of GetPolicies.                                                *)

\* A call that does not wait for the AD lock waits for nobody: only the holder of the AD
\* lock replaces a GPO.
LEMMA FreeLockProceeds ==
  ASSUME Inv, lock = NoOne, NEW p \in Procs, pc[p] # "idle"
  PROVE  CanFetch(p) \/ CanWork(p)
<1>1. pc[p] \in {"list", "work", "done"}
  BY Constants DEF Inv, TypeOK, LockInv
<1>2. CASE pc[p] \in {"list", "done"}
  BY <1>2 DEF CanFetch, CanWork
<1>3. ASSUME pc[p] = "work", assetsDB[p] # "todo", ~ParseEnded(p) PROVE CanWork(p)
  <2>1. PICK g \in Gpos : parsed[p][g] = 0
    BY <1>3 DEF ParseEnded
  <2>2. ~Writing(g)
    BY Constants DEF Inv, FetchInv, LockInv, Writing, Docs
  <2>3. ASSUME \A h \in Gpos : p \notin readers[h] PROVE ParseNext(p, g)
    BY <1>3, <2>1, <2>3 DEF ParseNext, ParseEnded
  <2> QED BY <2>2, <2>3 DEF CanWork
<1> QED
  BY <1>1, <1>2, <1>3 DEF CanWork

\* The holder of the AD lock can go on, or waits for a call that can finish parsing.
LEMMA HolderProceeds ==
  ASSUME Inv, lock # NoOne
  PROVE  \E p \in Procs : CanFetch(p) \/ CanWork(p)
<1> DEFINE q == lock
<1>1. q \in Procs /\ pc[q] \in {"fetch", "compress"}
  BY DEF Inv, TypeOK, LockInv
<1>2. CASE pc[q] = "compress"
  BY <1>1, <1>2 DEF CanWork
<1>3. ASSUME pc[q] = "fetch", NEW d \in Docs, fetching[q][d] # "end", ~CanDownload(q, d)
      PROVE  \E p \in Procs : CanWork(p)
  <2>1. fetching[q][d] \in {"check", "want"}
    BY <1>1, <1>3 DEF Inv, TypeOK, CanDownload
  <2>2. d \in Gpos /\ readers[d] # {}
    BY <1>3, <2>1, Constants DEF Inv, TypeOK, RemoteInv, CanDownload
  <2>3. PICK p \in Procs : p \in readers[d]
    BY <2>2 DEF Inv, TypeOK
  <2> QED BY <2>2, <2>3 DEF CanWork
<1> QED
  BY <1>1, <1>2, <1>3 DEF CanFetch

\* ad.Lock(), taken by fetch and by the compression of the assets, and the mutex of each
\* GPO never deadlock, for any number of calls, GPOs, failures and crashes: while a call
\* runs some call can take a step; and the state of GetPolicies and of the tickets is
\* typed.
THEOREM LockSoundness == ADSpec => []LocksAreSound
<1>1. Inv => TypeOK /\ CallsCanProceed
  BY FreeLockProceeds, HolderProceeds DEF CallsCanProceed, Inv
<1>2. TicketInv => K!TypeOK
  BY DEF TicketInv
<1> QED
  BY <1>1, <1>2, Invariance, TicketInvariance, PTL DEF LocksAreSound

-----------------------------------------------------------------------------
(* The merge of the rules of several GPOs, in UniqueRules.                  *)

MergeTypes ==
  /\ entries \in Seq(U!Input) /\ visited \in 0..Len(entries)
  /\ seen \subseteq Types \X Keys /\ DOMAIN dedup = seen
  /\ keys \in [Types -> Seq(Keys)]
  /\ result # <<>> => visited = Len(entries)

\* The keys of a type are listed once, those that were seen.
KeysInv ==
  \A t \in Types :
    /\ {keys[t][n] : n \in DOMAIN keys[t]} = {k \in Keys : <<t, k>> \in seen}
    /\ \A m, n \in DOMAIN keys[t] : keys[t][m] = keys[t][n] => m = n

MergeInv == MergeTypes /\ KeysInv /\ U!LoopKeepsReference /\ U!RulesAreOrderedOnce

\* The entry n decides something about the key k of the type t.
Counts(n, t, k) ==
  entries[n].type = t /\ entries[n].key = k /\ ~(entries[n].append /\ entries[n].disabled)

\* One more entry is looked at.
LEMMA MatchingGrows ==
  ASSUME entries \in Seq(U!Input), NEW n \in 0..Len(entries), n < Len(entries), NEW t, NEW k
  PROVE  /\ \A j : j \in U!Matching(n + 1, t, k)
                    <=> j \in U!Matching(n, t, k) \/ (j = n + 1 /\ Counts(n + 1, t, k))
         /\ \A j \in U!Matching(n, t, k) : j \in 1..n
  BY DEF U!Matching, Counts

\* An entry that is overridden, or that overrides after others were appended, leaves the
\* reference as it was.
LEMMA ReferenceKept ==
  ASSUME entries \in Seq(U!Input), NEW n \in 0..Len(entries), n < Len(entries), NEW t, NEW k, NEW e,
         U!IsReference(e, n, t, k),
         Counts(n + 1, t, k) => ~entries[n + 1].append \/ ~e.append
  PROVE  U!IsReference(e, n + 1, t, k)
<1>1. PICK first \in U!Matching(n, t, k) :
        /\ \A j \in U!Matching(n, t, k) : first <= j
        /\ e.key = k /\ e.append = entries[first].append /\ e.disabled = entries[first].disabled
        /\ e.meta = first
        /\ IF entries[first].append
           THEN /\ e.value \in Seq(1..n) /\ \A a, b \in DOMAIN e.value : a < b => e.value[a] > e.value[b]
                /\ {e.value[a] : a \in DOMAIN e.value} = {j \in U!Matching(n, t, k) : entries[j].append}
           ELSE e.value = <<first>>
  BY DEF U!IsReference
<1>2. first \in 1..n /\ e.append = entries[first].append /\ n + 1 \in DOMAIN entries
  <2>1. first \in 1..n
    BY <1>1, MatchingGrows
  <2>2. n + 1 \in DOMAIN entries
    OBVIOUS
  <2> QED BY <1>1, <2>1, <2>2
<1>3. /\ first \in U!Matching(n + 1, t, k) /\ \A j \in U!Matching(n + 1, t, k) : first <= j
      /\ entries[first].append =>
           {j \in U!Matching(n + 1, t, k) : entries[j].append} = {j \in U!Matching(n, t, k) : entries[j].append}
  <2>1. first \in U!Matching(n + 1, t, k) /\ \A j \in U!Matching(n + 1, t, k) : first <= j
    <3>1. \A j \in U!Matching(n, t, k) : first <= j
      BY <1>1
    <3> QED BY <1>2, <3>1, MatchingGrows
  <2>2. ASSUME entries[first].append, NEW j
        PROVE  j \in U!Matching(n + 1, t, k) /\ entries[j].append
                 <=> j \in U!Matching(n, t, k) /\ entries[j].append
    BY <1>2, <2>2, MatchingGrows
  <2> QED BY <2>1, <2>2
<1>4. e.value \in Seq(1..n) => e.value \in Seq(1..(n + 1))
  <2>1. 1..n \subseteq 1..(n + 1)
    OBVIOUS
  <2> QED BY <2>1
<1> QED
  BY <1>1, <1>3, <1>4 DEF U!IsReference

\* The first entry of a key is its reference.
LEMMA ReferenceFresh ==
  ASSUME entries \in Seq(U!Input), NEW n \in 0..Len(entries), n < Len(entries), NEW t, NEW k,
         U!Matching(n, t, k) = {}, Counts(n + 1, t, k)
  PROVE  U!IsReference(U!Entry(n + 1), n + 1, t, k)
<1> DEFINE e == U!Entry(n + 1)
<1>1. n + 1 \in 1..(n + 1) /\ \A j : j \in U!Matching(n + 1, t, k) <=> j = n + 1
  BY SMTT(30), MatchingGrows
<1>2. /\ e.value = <<n + 1>> /\ e.key = k /\ e.append = entries[n + 1].append
      /\ e.disabled = entries[n + 1].disabled /\ e.meta = n + 1
  BY DEF U!Entry, Counts
<1>3. e.value \in Seq(1..(n + 1)) /\ DOMAIN e.value = {1} /\ e.value[1] = n + 1
  <2>1. \A x : <<x>>[1] = x /\ DOMAIN <<x>> = {1} /\ \A S : x \in S => <<x>> \in Seq(S)
    OBVIOUS
  <2> HIDE DEF e
  <2> QED BY <1>1, <1>2, <2>1
<1>4. entries[n + 1].append
        => {e.value[a] : a \in DOMAIN e.value} = {j \in U!Matching(n + 1, t, k) : entries[j].append}
  BY <1>1, <1>3
<1>5. \A a, b \in DOMAIN e.value : ~(a < b)
  BY <1>3
<1> HIDE DEF e
<1> QED
  <2>1. /\ n + 1 \in U!Matching(n + 1, t, k) /\ \A j \in U!Matching(n + 1, t, k) : n + 1 <= j
        /\ e.key = k /\ e.append = entries[n + 1].append /\ e.disabled = entries[n + 1].disabled
        /\ e.meta = n + 1
        /\ IF entries[n + 1].append
           THEN /\ e.value \in Seq(1..(n + 1)) /\ \A a, b \in DOMAIN e.value : a < b => e.value[a] > e.value[b]
                /\ {e.value[a] : a \in DOMAIN e.value} = {j \in U!Matching(n + 1, t, k) : entries[j].append}
           ELSE e.value = <<n + 1>>
    BY <1>1, <1>2, <1>3, <1>4, <1>5
  <2>2. U!IsReference(e, n + 1, t, k)
    BY <2>1, Zenon DEF U!IsReference
  <2> QED BY <2>2 DEF e

\* A further value is joined to the appended ones.
LEMMA ReferenceJoined ==
  ASSUME entries \in Seq(U!Input), NEW n \in 0..Len(entries), n < Len(entries), NEW t, NEW k, NEW old,
         U!IsReference(old, n, t, k), old.append, Counts(n + 1, t, k), entries[n + 1].append
  PROVE  U!IsReference(U!Join(U!Entry(n + 1), old), n + 1, t, k)
<1> DEFINE e == U!Join(U!Entry(n + 1), old)
<1>1. PICK first \in U!Matching(n, t, k) :
        /\ \A j \in U!Matching(n, t, k) : first <= j
        /\ old.key = k /\ old.append = entries[first].append /\ old.disabled = entries[first].disabled
        /\ old.meta = first
        /\ IF entries[first].append
           THEN /\ old.value \in Seq(1..n) /\ \A a, b \in DOMAIN old.value : a < b => old.value[a] > old.value[b]
                /\ {old.value[a] : a \in DOMAIN old.value} = {j \in U!Matching(n, t, k) : entries[j].append}
           ELSE old.value = <<first>>
  BY DEF U!IsReference
<1>2. first \in 1..n /\ n + 1 \in DOMAIN entries /\ first \in DOMAIN entries
  <2>1. first \in 1..n
    BY <1>1, MatchingGrows
  <2> QED BY <2>1
<1>3. entries[first].append /\ old.meta = first
  BY <1>1
<1>4. /\ old.value \in Seq(1..n) /\ \A a, b \in DOMAIN old.value : a < b => old.value[a] > old.value[b]
      /\ {old.value[a] : a \in DOMAIN old.value} = {j \in U!Matching(n, t, k) : entries[j].append}
  BY <1>1, <1>3
<1>5. /\ e.key = k /\ e.append = entries[n + 1].append /\ e.disabled = entries[n + 1].disabled
      /\ e.value = <<n + 1>> \o old.value /\ e.meta = first
  BY <1>3 DEF U!Join, U!Entry, Counts
<1>6. /\ entries[n + 1].append = entries[first].append /\ entries[n + 1].disabled = entries[first].disabled
      /\ entries[first].key = k
  <2>1. entries[n + 1] \in U!Input /\ entries[first] \in U!Input
    BY <1>2
  <2>2. ~entries[n + 1].disabled /\ ~entries[first].disabled /\ entries[first].key = k
    BY <1>1, <1>3 DEF Counts, U!Matching
  <2> QED BY <1>3, <2>1, <2>2 DEF U!Input
<1>7. /\ e.key = k /\ e.append = entries[first].append /\ e.disabled = entries[first].disabled
      /\ e.meta = first
  BY <1>5, <1>6
<1> DEFINE v == <<n + 1>> \o old.value
<1>8. e.value = v
  BY <1>5
<1>9. /\ v \in Seq(1..(n + 1)) /\ Len(v) = Len(old.value) + 1 /\ v[1] = n + 1
      /\ \A a \in DOMAIN v : a # 1 => a - 1 \in DOMAIN old.value /\ v[a] = old.value[a - 1]
      /\ \A a \in DOMAIN old.value : a + 1 \in DOMAIN v /\ v[a + 1] = old.value[a]
  <2>1. old.value \in Seq(1..(n + 1)) /\ <<n + 1>> \in Seq(1..(n + 1))
    <3>1. 1..n \subseteq 1..(n + 1) /\ n + 1 \in 1..(n + 1)
      OBVIOUS
    <3> QED BY <1>4, <3>1
  <2>2. v \in Seq(1..(n + 1)) /\ Len(v) = Len(old.value) + 1
    BY <2>1
  <2> QED BY SMTT(30), <2>1, <2>2
<1>10. \A a, b \in DOMAIN v : a < b => v[a] > v[b]
  <2>1. \A a \in DOMAIN old.value : old.value[a] \in 1..n
    BY <1>4
  <2> HIDE DEF v
  <2> SUFFICES ASSUME NEW a \in DOMAIN v, NEW b \in DOMAIN v, a < b PROVE v[a] > v[b]
    OBVIOUS
  <2>2. a \in Nat /\ b \in Nat /\ a >= 1 /\ b # 1
    BY SMTT(30), <1>9
  <2>3. b - 1 \in DOMAIN old.value /\ v[b] = old.value[b - 1]
    BY <1>9, <2>2
  <2>4. CASE a = 1
    BY <1>9, <2>1, <2>3, <2>4
  <2>5. CASE a # 1
    <3>1. a - 1 \in DOMAIN old.value /\ v[a] = old.value[a - 1]
      BY <1>9, <2>5
    <3>2. a - 1 < b - 1
      BY <2>2
    <3> QED BY <1>4, <2>3, <3>1, <3>2
  <2> QED BY <2>4, <2>5
<1>11. {v[a] : a \in DOMAIN v} = {j \in U!Matching(n + 1, t, k) : entries[j].append}
  <2> HIDE DEF v
  <2>1. \A j : (\E a \in DOMAIN v : j = v[a]) <=> j = n + 1 \/ (\E a \in DOMAIN old.value : j = old.value[a])
    <3>1. 1 \in DOMAIN v
      BY <1>4, <1>9
    <3> QED BY ZenonT(60), <1>9, <3>1
  <2>2. \A j : j \in U!Matching(n + 1, t, k) <=> j \in U!Matching(n, t, k) \/ j = n + 1
    BY MatchingGrows
  <2>3. \A j : (\E a \in DOMAIN old.value : j = old.value[a]) <=> j \in U!Matching(n, t, k) /\ entries[j].append
    BY <1>4, Zenon
  <2>4. \A j : (\E a \in DOMAIN v : j = v[a]) <=> j \in U!Matching(n + 1, t, k) /\ entries[j].append
    BY <2>1, <2>2, <2>3, Zenon
  <2> QED BY <2>4, Zenon
<1>12. first \in U!Matching(n + 1, t, k) /\ \A j \in U!Matching(n + 1, t, k) : first <= j
  <2>1. \A j \in U!Matching(n, t, k) : first <= j
    BY <1>1
  <2> QED BY <1>2, <2>1, MatchingGrows
<1> HIDE DEF e, v
<1>13. U!IsReference(e, n + 1, t, k)
  <2>1. /\ first \in U!Matching(n + 1, t, k) /\ \A j \in U!Matching(n + 1, t, k) : first <= j
        /\ e.key = k /\ e.append = entries[first].append /\ e.disabled = entries[first].disabled
        /\ e.meta = first
        /\ IF entries[first].append
           THEN /\ e.value \in Seq(1..(n + 1)) /\ \A a, b \in DOMAIN e.value : a < b => e.value[a] > e.value[b]
                /\ {e.value[a] : a \in DOMAIN e.value} = {j \in U!Matching(n + 1, t, k) : entries[j].append}
           ELSE e.value = <<first>>
    <3>1. /\ e.value \in Seq(1..(n + 1)) /\ \A a, b \in DOMAIN e.value : a < b => e.value[a] > e.value[b]
          /\ {e.value[a] : a \in DOMAIN e.value} = {j \in U!Matching(n + 1, t, k) : entries[j].append}
      BY <1>8, <1>9, <1>10, <1>11
    <3> QED BY <1>3, <1>7, <1>12, <3>1, Zenon
  <2> QED BY <2>1, Zenon DEF U!IsReference
<1> QED BY <1>13 DEF e

\* Before the first entry nothing is kept, which is the reference of no entries.
LEMMA MergeInit == ADInit => MergeInv
<1> SUFFICES ASSUME ADInit PROVE MergeInv
  OBVIOUS
<1>1. /\ visited = 0 /\ dedup = <<>> /\ keys = [t \in Types |-> <<>>] /\ seen = {} /\ result = <<>>
      /\ entries \in Seq(U!Input)
  <2>1. CASE focus = "merge"
    <3>1. PICK n \in 0..MaxEntries : entries \in [1..n -> U!Input]
      BY <2>1 DEF ADInit, U!Init
    <3>2. n \in Nat
      BY MergeAssumption
    <3> QED BY <2>1, <3>1, <3>2 DEF ADInit, U!Init
  <2>2. CASE focus # "merge"
    BY <2>2 DEF ADInit
  <2> QED BY <2>1, <2>2
<1>2. MergeTypes
  BY <1>1 DEF MergeTypes
<1>3. KeysInv
  BY <1>1 DEF KeysInv
<1>4. \A t, k : U!Matching(visited, t, k) = {}
  BY <1>1 DEF U!Matching
<1>5. U!LoopKeepsReference
  BY <1>1, <1>4 DEF U!LoopKeepsReference
<1>6. U!RulesAreOrderedOnce
  BY <1>1 DEF U!RulesAreOrderedOnce
<1> QED BY <1>2, <1>3, <1>5, <1>6 DEF MergeInv

\* What the loop does with the entry n: it is skipped, it is joined to what was kept, or it
\* is the first of its key.
Put(t, k, e) ==
  dedup' = [tk \in DOMAIN dedup \cup {<<t, k>>} |-> IF tk = <<t, k>> THEN e ELSE dedup[tk]]
Skipped(n, t, k) ==
  /\ dedup' = dedup /\ seen' = seen /\ keys' = keys
  /\ Counts(n, t, k) => <<t, k>> \in seen /\ (~entries[n].append \/ ~dedup[<<t, k>>].append)
Joined(n, t, k) ==
  /\ Counts(n, t, k) /\ <<t, k>> \in seen /\ entries[n].append /\ dedup[<<t, k>>].append
  /\ Put(t, k, U!Join(U!Entry(n), dedup[<<t, k>>])) /\ seen' = seen /\ keys' = keys
Added(n, t, k) ==
  /\ Counts(n, t, k) /\ <<t, k>> \notin seen
  /\ Put(t, k, U!Entry(n))
  /\ seen' = seen \cup {<<t, k>>} /\ keys' = [keys EXCEPT ![t] = Append(@, k)]

\* An entry is skipped, joined to the one kept for its key, or the first of its key.
LEMMA VisitCases ==
  ASSUME MergeTypes, U!Visit
  PROVE  LET n == visited + 1
             t == entries[n].type
             k == entries[n].key
         IN  Skipped(n, t, k) \/ Joined(n, t, k) \/ Added(n, t, k)
<1> DEFINE n == visited + 1
           t == entries[n].type
           k == entries[n].key
           e == U!Entry(n)
<1> SUFFICES Skipped(n, t, k) \/ Joined(n, t, k) \/ Added(n, t, k)
  OBVIOUS
<1>1. e.key = k /\ e.append = entries[n].append /\ e.disabled = entries[n].disabled
  BY DEF U!Entry
<1>2. U!Join(e, dedup[<<t, k>>]).key = k
  BY <1>1 DEF U!Join, U!Entry
<1>3. IF e.append THEN U!VisitAppend(t, e) ELSE U!VisitOverride(t, e)
  BY DEF U!Visit
<1> HIDE DEF e, n, t, k
<1>4. CASE e.append
  <2>1. CASE e.disabled \/ (<<t, k>> \in seen /\ ~dedup[<<t, k>>].append)
    <3>1. UNCHANGED <<dedup, seen, keys>>
      BY <1>1, <1>3, <1>4, <2>1 DEF U!VisitAppend
    <3> QED BY <1>1, <1>4, <2>1, <3>1 DEF Counts, Skipped
  <2>2. CASE ~(e.disabled \/ (<<t, k>> \in seen /\ ~dedup[<<t, k>>].append)) /\ <<t, k>> \in seen
    <3>1. U!Keep(t, U!Join(e, dedup[<<t, k>>])) /\ UNCHANGED <<seen, keys>>
      BY <1>1, <1>3, <1>4, <2>2 DEF U!VisitAppend
    <3>2. Counts(n, t, k) /\ entries[n].append
      BY <1>1, <1>4, <2>2 DEF Counts, t, k
    <3>3. Put(t, k, U!Join(e, dedup[<<t, k>>]))
      BY <1>2, <3>1 DEF U!Keep, Put
    <3> QED BY <2>2, <3>1, <3>2, <3>3 DEF Joined, e
  <2>3. CASE ~(e.disabled \/ (<<t, k>> \in seen /\ ~dedup[<<t, k>>].append)) /\ <<t, k>> \notin seen
    <3>1. U!Keep(t, e) /\ U!See(t, e)
      BY <1>1, <1>3, <1>4, <2>3 DEF U!VisitAppend
    <3>2. Counts(n, t, k)
      BY <1>1, <1>4, <2>3 DEF Counts, t, k
    <3>3. Put(t, k, e) /\ seen' = seen \cup {<<t, k>>} /\ keys' = [keys EXCEPT ![t] = Append(@, k)]
      BY <1>1, <3>1 DEF U!Keep, U!See, Put
    <3> QED BY <2>3, <3>2, <3>3 DEF Added, e
  <2> QED BY <2>1, <2>2, <2>3
<1>5. CASE ~e.append
  <2>1. CASE <<t, k>> \in seen
    <3>1. UNCHANGED <<dedup, seen, keys>>
      BY <1>1, <1>3, <1>5, <2>1 DEF U!VisitOverride
    <3> QED BY <1>1, <1>5, <2>1, <3>1 DEF Counts, Skipped
  <2>2. CASE <<t, k>> \notin seen
    <3>1. U!Keep(t, e) /\ U!See(t, e)
      BY <1>1, <1>3, <1>5, <2>2 DEF U!VisitOverride
    <3>2. Counts(n, t, k)
      BY <1>1, <1>5, <2>2 DEF Counts, t, k
    <3>3. Put(t, k, e) /\ seen' = seen \cup {<<t, k>>} /\ keys' = [keys EXCEPT ![t] = Append(@, k)]
      BY <1>1, <3>1 DEF U!Keep, U!See, Put
    <3> QED BY <2>2, <3>2, <3>3 DEF Added, e
  <2> QED BY <2>1, <2>2
<1> QED BY <1>4, <1>5

\* A key is listed once, when its first entry is kept.
LEMMA VisitKeepsTypes ==
  ASSUME MergeInv, U!Visit
  PROVE  MergeTypes' /\ result = <<>> /\ KeysInv'
<1> DEFINE n == visited + 1
           t == entries[n].type
           k == entries[n].key
<1>1. /\ MergeTypes /\ KeysInv
      /\ visited < Len(entries) /\ visited' = n /\ entries' = entries /\ result' = result
  BY DEF MergeInv, U!Visit
<1>2. n \in 1..Len(entries) /\ t \in Types /\ k \in Keys /\ visited' \in 0..Len(entries)
  <2>1. n \in 1..Len(entries) /\ visited' \in 0..Len(entries)
    BY <1>1 DEF MergeTypes
  <2>2. entries[n] \in U!Input
    BY <1>1, <2>1 DEF MergeTypes
  <2> QED BY <2>1, <2>2 DEF U!Input
<1>3. result = <<>>
  BY <1>1 DEF MergeTypes
<1> HIDE DEF n, t, k
<1>4. Skipped(n, t, k) \/ Joined(n, t, k) \/ Added(n, t, k)
  BY <1>1, VisitCases DEF n, t, k
<1>5. \/ dedup' = dedup /\ seen' = seen /\ keys' = keys
      \/ seen' = seen /\ keys' = keys /\ <<t, k>> \in seen /\ DOMAIN dedup' = DOMAIN dedup \cup {<<t, k>>}
      \/ /\ <<t, k>> \notin seen /\ DOMAIN dedup' = DOMAIN dedup \cup {<<t, k>>}
         /\ seen' = seen \cup {<<t, k>>} /\ keys' = [keys EXCEPT ![t] = Append(@, k)]
  BY <1>4 DEF Skipped, Joined, Added, Put
<1>6. MergeTypes'
  <2>1. entries' \in Seq(U!Input) /\ visited' \in 0..Len(entries') /\ (result' # <<>> => visited' = Len(entries'))
    BY <1>1, <1>2, <1>3 DEF MergeTypes
  <2>2. /\ seen \subseteq Types \X Keys /\ DOMAIN dedup = seen /\ keys \in [Types -> Seq(Keys)]
        /\ <<t, k>> \in Types \X Keys
    BY <1>1, <1>2 DEF MergeTypes
  <2>3. seen' \subseteq Types \X Keys /\ DOMAIN dedup' = seen'
    BY <1>5, <2>2, Zenon
  <2>4. keys' \in [Types -> Seq(Keys)]
    <3>1. Append(keys[t], k) \in Seq(Keys)
      BY <1>2, <2>2
    <3> QED BY <1>5, <2>2, <3>1
  <2> QED BY <2>1, <2>3, <2>4 DEF MergeTypes
<1>7. KeysInv'
  <2>1. CASE seen' = seen /\ keys' = keys
    BY <1>1, <2>1 DEF KeysInv
  <2>2. CASE /\ <<t, k>> \notin seen /\ seen' = seen \cup {<<t, k>>}
             /\ keys' = [keys EXCEPT ![t] = Append(@, k)]
    <3> SUFFICES ASSUME NEW u \in Types
                 PROVE  /\ {keys'[u][m] : m \in DOMAIN keys'[u]} = {l \in Keys : <<u, l>> \in seen'}
                        /\ \A m, l \in DOMAIN keys'[u] : keys'[u][m] = keys'[u][l] => m = l
      BY DEF KeysInv
    <3>1. /\ {keys[u][m] : m \in DOMAIN keys[u]} = {l \in Keys : <<u, l>> \in seen}
          /\ \A m, l \in DOMAIN keys[u] : keys[u][m] = keys[u][l] => m = l
          /\ keys[u] \in Seq(Keys)
      BY <1>1 DEF KeysInv, MergeTypes
    <3>2. CASE u # t
      <4>1. keys'[u] = keys[u]
        BY <1>1, <2>2, <3>2 DEF MergeTypes
      <4>2. \A l : <<u, l>> \in seen' <=> <<u, l>> \in seen
        BY <2>2, <3>2
      <4> QED BY <3>1, <4>1, <4>2
    <3>3. CASE u = t
      <4> DEFINE s == keys[u]
                 r == Append(s, k)
      <4>1. keys'[u] = r
        BY <1>1, <2>2, <3>3 DEF MergeTypes
      <4>2. \A l : <<u, l>> \in seen' <=> <<u, l>> \in seen \/ l = k
        BY <2>2, <3>3
      <4>3. k \notin {s[m] : m \in DOMAIN s}
        BY <2>2, <3>1, <3>3
      <4>4. /\ s \in Seq(Keys) /\ Len(s) \in Nat /\ DOMAIN s = 1..Len(s) /\ DOMAIN r = 1..(Len(s) + 1)
            /\ r[Len(s) + 1] = k /\ \A m \in DOMAIN s : r[m] = s[m]
        BY <1>2, <3>1
      <4> HIDE DEF r, s
      <4>5. \A l : (\E m \in DOMAIN r : l = r[m]) <=> (\E m \in DOMAIN s : l = s[m]) \/ l = k
        <5>1. \A m : m \in DOMAIN r <=> m \in DOMAIN s \/ m = Len(s) + 1
          BY <4>4
        <5> QED BY <4>4, <5>1
      <4>6. \A l : (\E m \in DOMAIN s : l = s[m]) <=> l \in Keys /\ <<u, l>> \in seen
        BY <3>1, Zenon DEF s
      <4>7. \A l : (\E m \in DOMAIN r : l = r[m]) <=> l \in Keys /\ <<u, l>> \in seen'
        BY <1>2, <4>2, <4>5, <4>6, Zenon
      <4>8. {r[m] : m \in DOMAIN r} = {l \in Keys : <<u, l>> \in seen'}
        BY <4>7, Zenon
      <4>9. \A m, l \in DOMAIN r : r[m] = r[l] => m = l
        BY <3>1, <4>3, <4>4 DEF s
      <4> QED BY <4>1, <4>8, <4>9
    <3> QED BY <3>2, <3>3
  <2> QED BY <1>5, <2>1, <2>2
<1> QED BY <1>3, <1>6, <1>7

\* A key other than the one of the entry keeps its entry; so does the entry's own key when
\* it is skipped; otherwise it gets its new reference.
LEMMA VisitKeepsReference ==
  ASSUME MergeInv, U!Visit
  PROVE  U!LoopKeepsReference'
<1> DEFINE n == visited
           t == entries[n + 1].type
           k == entries[n + 1].key
<1>1. /\ entries \in Seq(U!Input) /\ n \in 0..Len(entries) /\ n < Len(entries)
      /\ visited' = n + 1 /\ entries' = entries
      /\ seen \subseteq Types \X Keys /\ DOMAIN dedup = seen
      /\ seen' \subseteq Types \X Keys /\ DOMAIN dedup' = seen'
  BY VisitKeepsTypes DEF MergeInv, MergeTypes, U!Visit
<1>2. \A u \in Types, l \in Keys :
        /\ <<u, l>> \in seen <=> U!Matching(n, u, l) # {}
        /\ <<u, l>> \in seen => U!IsReference(dedup[<<u, l>>], n, u, l)
  <2> SUFFICES ASSUME NEW u \in Types, NEW l \in Keys
               PROVE  /\ <<u, l>> \in seen <=> U!Matching(n, u, l) # {}
                      /\ <<u, l>> \in seen => U!IsReference(dedup[<<u, l>>], n, u, l)
    OBVIOUS
  <2>1. <<u, l>> \in Types \X Keys /\ <<u, l>>[1] = u /\ <<u, l>>[2] = l
    OBVIOUS
  <2>2. /\ DOMAIN dedup = {tk \in Types \X Keys : U!Matching(n, tk[1], tk[2]) # {}}
        /\ \A tk \in DOMAIN dedup : U!IsReference(dedup[tk], n, tk[1], tk[2])
    BY DEF MergeInv, U!LoopKeepsReference
  <2>3. <<u, l>> \in DOMAIN dedup <=> U!Matching(n, u, l) # {}
    BY <2>1, <2>2
  <2>4. <<u, l>> \in DOMAIN dedup => U!IsReference(dedup[<<u, l>>], n, u, l)
    BY <2>1, <2>2
  <2> QED BY <1>1, <2>3, <2>4
<1>3. Skipped(n + 1, t, k) \/ Joined(n + 1, t, k) \/ Added(n + 1, t, k)
  BY VisitCases DEF MergeInv
<1> HIDE DEF n, t, k
<1>4. ASSUME NEW u \in Types, NEW l \in Keys
      PROVE  /\ <<u, l>> \in seen' <=> U!Matching(n + 1, u, l) # {}
             /\ <<u, l>> \in seen' => U!IsReference(dedup'[<<u, l>>], n + 1, u, l)
  <2>1. \A j : j \in U!Matching(n + 1, u, l) <=> j \in U!Matching(n, u, l) \/ (j = n + 1 /\ Counts(n + 1, u, l))
    BY <1>1, MatchingGrows
  <2>2. CASE /\ <<u, l>> \in seen' <=> <<u, l>> \in seen
             /\ <<u, l>> \in seen => dedup'[<<u, l>>] = dedup[<<u, l>>]
             /\ Counts(n + 1, u, l)
                  => <<u, l>> \in seen /\ (~entries[n + 1].append \/ ~dedup[<<u, l>>].append)
    <3>1. <<u, l>> \in seen' <=> U!Matching(n + 1, u, l) # {}
      BY <1>2, <2>1, <2>2
    <3>2. <<u, l>> \in seen => U!IsReference(dedup[<<u, l>>], n + 1, u, l)
      BY <1>1, <1>2, <2>2, ReferenceKept
    <3> QED BY <2>2, <3>1, <3>2
  <2>3. CASE <<u, l>> # <<t, k>>
    <3>1. ~Counts(n + 1, u, l)
      BY <2>3 DEF Counts, t, k
    <3>2. <<u, l>> \in seen' <=> <<u, l>> \in seen
      BY <1>3, <2>3 DEF Skipped, Joined, Added
    <3>3. <<u, l>> \in seen => dedup'[<<u, l>>] = dedup[<<u, l>>]
      BY <1>1, <1>3, <2>3 DEF Skipped, Joined, Added, Put
    <3> QED BY <2>2, <3>1, <3>2, <3>3
  <2>4. CASE u = t /\ l = k /\ Skipped(n + 1, t, k)
    BY <2>2, <2>4 DEF Skipped
  <2>5. CASE u = t /\ l = k /\ Joined(n + 1, t, k)
    <3>1. /\ Counts(n + 1, u, l) /\ <<u, l>> \in seen /\ <<u, l>> \in seen'
          /\ entries[n + 1].append /\ dedup[<<u, l>>].append
      BY <2>5 DEF Joined
    <3>2. dedup'[<<u, l>>] = U!Join(U!Entry(n + 1), dedup[<<u, l>>])
      BY <2>5 DEF Joined, Put
    <3>3. U!IsReference(U!Join(U!Entry(n + 1), dedup[<<u, l>>]), n + 1, u, l)
      BY <1>1, <1>2, <3>1, ReferenceJoined
    <3>4. U!Matching(n + 1, u, l) # {}
      BY <2>1, <3>1
    <3> QED BY <3>1, <3>2, <3>3, <3>4
  <2>6. CASE u = t /\ l = k /\ Added(n + 1, t, k)
    <3>1. Counts(n + 1, u, l) /\ <<u, l>> \notin seen /\ <<u, l>> \in seen'
      BY <2>6 DEF Added
    <3>2. dedup'[<<u, l>>] = U!Entry(n + 1)
      BY <2>6 DEF Added, Put
    <3>3. U!IsReference(U!Entry(n + 1), n + 1, u, l)
      BY <1>1, <1>2, <3>1, ReferenceFresh
    <3>4. U!Matching(n + 1, u, l) # {}
      BY <2>1, <3>1
    <3> QED BY <3>1, <3>2, <3>3, <3>4
  <2> QED BY <1>3, <2>3, <2>4, <2>5, <2>6
<1>5. \A tk \in Types \X Keys : tk = <<tk[1], tk[2]>> /\ tk[1] \in Types /\ tk[2] \in Keys
  OBVIOUS
<1>6. \A tk \in Types \X Keys :
        /\ tk \in seen' <=> U!Matching(n + 1, tk[1], tk[2]) # {}
        /\ tk \in seen' => U!IsReference(dedup'[tk], n + 1, tk[1], tk[2])
  <2> SUFFICES ASSUME NEW tk \in Types \X Keys
               PROVE  /\ tk \in seen' <=> U!Matching(n + 1, tk[1], tk[2]) # {}
                      /\ tk \in seen' => U!IsReference(dedup'[tk], n + 1, tk[1], tk[2])
    OBVIOUS
  <2>1. /\ <<tk[1], tk[2]>> \in seen' <=> U!Matching(n + 1, tk[1], tk[2]) # {}
        /\ <<tk[1], tk[2]>> \in seen' => U!IsReference(dedup'[<<tk[1], tk[2]>>], n + 1, tk[1], tk[2])
    BY <1>4, <1>5
  <2>2. tk = <<tk[1], tk[2]>>
    BY <1>5
  <2> QED BY <2>1, <2>2
<1>7. /\ seen' = {tk \in Types \X Keys : U!Matching(n + 1, tk[1], tk[2]) # {}}
      /\ \A tk \in seen' : U!IsReference(dedup'[tk], n + 1, tk[1], tk[2])
  BY <1>1, <1>6
<1>8. DOMAIN dedup' = {tk \in Types \X Keys : U!Matching(visited, tk[1], tk[2]) # {}}'
  BY <1>1, <1>7, Zenon DEF U!Matching
<1>9. (\A tk \in DOMAIN dedup : U!IsReference(dedup[tk], visited, tk[1], tk[2]))'
  <2> SUFFICES ASSUME NEW tk \in seen'
               PROVE  U!IsReference(dedup[tk], visited, tk[1], tk[2])'
    BY <1>1
  <2>1. U!IsReference(dedup'[tk], visited', tk[1], tk[2])
    BY <1>1, <1>7
  <2> QED BY <1>1, <2>1, Zenon DEF U!IsReference, U!Matching
<1> QED
  BY <1>8, <1>9 DEF U!LoopKeepsReference

\* What sort.Strings does to keys that are listed once.
LEMMA SortingIsStrict ==
  ASSUME NEW s \in Seq(Keys), \A m, n \in DOMAIN s : s[m] = s[n] => m = n, NEW r \in U!Sortings(s)
  PROVE  /\ DOMAIN r = DOMAIN s /\ \A n \in DOMAIN r : r[n] \in Keys
         /\ \A m, n \in DOMAIN r : m < n => r[m] < r[n]
         /\ {r[n] : n \in DOMAIN r} = {s[n] : n \in DOMAIN s}
<1>1. PICK p \in U!Bijection(DOMAIN s, DOMAIN s) : r = [n \in DOMAIN s |-> s[p[n]]]
  BY DEF U!Sortings
<1>2. /\ \A n \in DOMAIN s : p[n] \in DOMAIN s
      /\ \A m, n \in DOMAIN s : p[m] = p[n] => m = n
      /\ \A n \in DOMAIN s : \E m \in DOMAIN s : p[m] = n
  BY DEF U!Bijection, U!Injection, U!Surjection, U!IsInjective
<1>3. DOMAIN r = DOMAIN s /\ \A n \in DOMAIN s : r[n] = s[p[n]] /\ r[n] \in Keys
  <2>1. \A n \in DOMAIN s : s[n] \in Keys
    OBVIOUS
  <2>2. DOMAIN r = DOMAIN s /\ \A n \in DOMAIN s : r[n] = s[p[n]]
    BY <1>1, Zenon
  <2> QED BY <1>2, <2>1, <2>2, Zenon
<1>4. ASSUME NEW m \in DOMAIN r, NEW n \in DOMAIN r, m < n PROVE r[m] < r[n]
  <2>1. r[m] <= r[n]
    BY <1>3, <1>4 DEF U!Sortings
  <2>2. m \in Nat /\ n \in Nat
    BY <1>3
  <2>3. m # n
    BY <1>4, <2>2
  <2>4. r[m] # r[n]
    <3>1. p[m] \in DOMAIN s /\ p[n] \in DOMAIN s /\ p[m] # p[n]
      BY <1>2, <1>3, <2>3
    <3>2. s[p[m]] # s[p[n]]
      BY <3>1
    <3> QED BY <1>3, <3>2
  <2>5. r[m] \in Nat /\ r[n] \in Nat
    BY <1>3, MergeAssumption
  <2> QED BY <2>1, <2>4, <2>5
<1>5. \A k : (\E n \in DOMAIN r : k = r[n]) <=> (\E n \in DOMAIN s : k = s[n])
  <2>1. ASSUME NEW n \in DOMAIN r PROVE \E m \in DOMAIN s : r[n] = s[m]
    BY <1>2, <1>3, Zenon
  <2>2. ASSUME NEW n \in DOMAIN s PROVE \E m \in DOMAIN r : s[n] = r[m]
    <3>1. PICK m \in DOMAIN s : p[m] = n
      BY <1>2
    <3>2. m \in DOMAIN r /\ r[m] = s[n]
      BY <1>3, <3>1
    <3> QED BY <3>2
  <2> QED BY <2>1, <2>2, Zenon
<1>6. {r[n] : n \in DOMAIN r} = {s[n] : n \in DOMAIN s}
  <2>1. ASSUME NEW k PROVE k \in {r[n] : n \in DOMAIN r} <=> k \in {s[n] : n \in DOMAIN s}
    <3>1. k \in {r[n] : n \in DOMAIN r} <=> \E n \in DOMAIN r : k = r[n]
      OBVIOUS
    <3>2. k \in {s[n] : n \in DOMAIN s} <=> \E n \in DOMAIN s : k = s[n]
      OBVIOUS
    <3> QED BY <1>5, <3>1, <3>2
  <2> QED BY <2>1
<1> QED BY <1>3, <1>4, <1>6

\* The rules returned are those kept, in the order of their keys.
LEMMA OrderKeeps ==
  ASSUME MergeInv, U!Order
  PROVE  MergeInv'
<1>1. PICK sorted : /\ \A t \in Types : sorted[t] \in U!Sortings(keys[t])
                    /\ result' = [t \in Types |-> [n \in DOMAIN sorted[t] |-> dedup[<<t, sorted[t][n]>>]]]
  BY DEF U!Order
<1>2. /\ UNCHANGED <<entries, visited, dedup, keys, seen>> /\ visited = Len(entries)
      /\ MergeTypes /\ KeysInv /\ U!LoopKeepsReference
  BY DEF U!Order, MergeInv
<1>3. MergeTypes' /\ KeysInv' /\ U!LoopKeepsReference'
  <2>1. MergeTypes' /\ KeysInv'
    BY <1>2 DEF MergeTypes, KeysInv
  <2>2. U!LoopKeepsReference'
    BY <1>2 DEF U!LoopKeepsReference, U!IsReference, U!Matching
  <2> QED BY <2>1, <2>2
<1>4. ASSUME NEW t \in Types
      PROVE  /\ \A n \in DOMAIN result'[t] : n > 1 => result'[t][n - 1].key < result'[t][n].key
             /\ {result'[t][n].key : n \in DOMAIN result'[t]} = {k \in Keys : U!Matching(visited, t, k) # {}}
             /\ \A n \in DOMAIN result'[t] :
                  U!IsReference(result'[t][n], visited, t, result'[t][n].key)
  <2> DEFINE r == sorted[t]
  <2>1. /\ keys[t] \in Seq(Keys) /\ \A m, n \in DOMAIN keys[t] : keys[t][m] = keys[t][n] => m = n
        /\ {keys[t][n] : n \in DOMAIN keys[t]} = {k \in Keys : <<t, k>> \in seen}
        /\ r \in U!Sortings(keys[t])
    BY <1>1, <1>2 DEF MergeTypes, KeysInv
  <2> HIDE DEF r
  <2>2. /\ DOMAIN r = DOMAIN keys[t] /\ \A n \in DOMAIN r : r[n] \in Keys
        /\ \A m, n \in DOMAIN r : m < n => r[m] < r[n]
        /\ {r[n] : n \in DOMAIN r} = {k \in Keys : <<t, k>> \in seen}
    BY <2>1, SortingIsStrict
  <2>3. \A n \in DOMAIN r : <<t, r[n]>> \in seen
    BY <2>2
  <2>4. \A k \in Keys :
          /\ <<t, k>> \in seen <=> U!Matching(visited, t, k) # {}
          /\ <<t, k>> \in seen => U!IsReference(dedup[<<t, k>>], visited, t, k) /\ dedup[<<t, k>>].key = k
    <3> SUFFICES ASSUME NEW k \in Keys
                 PROVE  /\ <<t, k>> \in seen <=> U!Matching(visited, t, k) # {}
                        /\ <<t, k>> \in seen
                             => U!IsReference(dedup[<<t, k>>], visited, t, k) /\ dedup[<<t, k>>].key = k
      OBVIOUS
    <3>1. <<t, k>> \in Types \X Keys /\ <<t, k>>[1] = t /\ <<t, k>>[2] = k
      OBVIOUS
    <3>2. /\ seen = {tk \in Types \X Keys : U!Matching(visited, tk[1], tk[2]) # {}}
          /\ \A tk \in seen : U!IsReference(dedup[tk], visited, tk[1], tk[2])
      BY <1>2 DEF MergeTypes, U!LoopKeepsReference
    <3>3. <<t, k>> \in seen <=> U!Matching(visited, t, k) # {}
      BY <3>1, <3>2
    <3>4. <<t, k>> \in seen => U!IsReference(dedup[<<t, k>>], visited, t, k)
      BY <3>1, <3>2
    <3>5. \A e : U!IsReference(e, visited, t, k) => e.key = k
      BY DEF U!IsReference
    <3> QED BY <3>3, <3>4, <3>5
  <2>5. result'[t] = [n \in DOMAIN r |-> dedup[<<t, r[n]>>]]
    BY <1>1 DEF r
  <2>6. /\ DOMAIN result'[t] = DOMAIN r
        /\ \A n \in DOMAIN r : result'[t][n] = dedup[<<t, r[n]>>] /\ result'[t][n].key = r[n]
    BY <2>2, <2>3, <2>4, <2>5
  <2>7. \A n \in DOMAIN r : n > 1 => r[n - 1] < r[n]
    <3>1. DOMAIN r = 1..Len(keys[t]) /\ Len(keys[t]) \in Nat
      BY <2>1, <2>2
    <3> SUFFICES ASSUME NEW n \in DOMAIN r, n > 1 PROVE r[n - 1] < r[n]
      OBVIOUS
    <3>2. n - 1 \in DOMAIN r /\ n - 1 < n
      BY <3>1
    <3> QED BY <2>2, <3>2
  <2>8. \A n \in DOMAIN r : n > 1 => n - 1 \in DOMAIN r
    BY <2>1, <2>2
  <2>9. \A n \in DOMAIN result'[t] : n > 1 => result'[t][n - 1].key < result'[t][n].key
    BY <2>6, <2>7, <2>8
  <2>10. \A k : (\E n \in DOMAIN result'[t] : k = result'[t][n].key) <=> k \in Keys /\ U!Matching(visited, t, k) # {}
    <3>1. \A k : (\E n \in DOMAIN r : k = r[n]) <=> k \in Keys /\ <<t, k>> \in seen
      BY <2>2, Zenon
    <3>2. \A k : (\E n \in DOMAIN result'[t] : k = result'[t][n].key) <=> (\E n \in DOMAIN r : k = r[n])
      BY <2>6, Zenon
    <3> QED BY <2>4, <3>1, <3>2, Zenon
  <2>11. {result'[t][n].key : n \in DOMAIN result'[t]} = {k \in Keys : U!Matching(visited, t, k) # {}}
    BY <2>10, Zenon
  <2>12. \A n \in DOMAIN result'[t] : U!IsReference(result'[t][n], visited, t, result'[t][n].key)
    BY <2>2, <2>3, <2>4, <2>6
  <2> QED BY <2>9, <2>11, <2>12
<1>5. U!RulesAreOrderedOnce'
  <2> SUFFICES ASSUME NEW t \in Types
               PROVE  (/\ \A n \in DOMAIN result[t] : n > 1 => result[t][n - 1].key < result[t][n].key
                       /\ {result[t][n].key : n \in DOMAIN result[t]} = {k \in Keys : U!Matching(visited, t, k) # {}}
                       /\ \A n \in DOMAIN result[t] : U!IsReference(result[t][n], visited, t, result[t][n].key))'
    BY DEF U!RulesAreOrderedOnce
  <2>1. {k \in Keys : U!Matching(visited, t, k) # {}}' = {k \in Keys : U!Matching(visited, t, k) # {}}
    BY <1>2 DEF U!Matching
  <2>2. ASSUME NEW n \in DOMAIN result'[t]
        PROVE  U!IsReference(result[t][n], visited, t, result[t][n].key)'
    <3>1. U!IsReference(result'[t][n], visited, t, result'[t][n].key)
      BY <1>4, <2>2
    <3> QED BY <1>2, <3>1, Zenon DEF U!IsReference, U!Matching
  <2> QED BY <1>4, <2>1, <2>2
<1> QED BY <1>3, <1>5 DEF MergeInv

\* Every step of the client keeps the invariant of the merge.
LEMMA MergeNext == MergeInv /\ [ADNext]_allVars => MergeInv'
<1> SUFFICES ASSUME MergeInv, [ADNext]_allVars PROVE MergeInv'
  OBVIOUS
<1>1. U!Visit \/ U!Order \/ UNCHANGED mergeVars
  BY DEF ADNext, StepAD, StepKrb5, StepRegistry, StepMerge, U!Next, allVars
<1>2. CASE U!Visit
  <2>1. MergeTypes' /\ KeysInv' /\ U!LoopKeepsReference' /\ result' = <<>>
    BY <1>2, VisitKeepsTypes, VisitKeepsReference DEF U!Visit
  <2>2. U!RulesAreOrderedOnce'
    BY <2>1 DEF U!RulesAreOrderedOnce
  <2> QED BY <2>1, <2>2 DEF MergeInv
<1>3. CASE U!Order
  BY <1>3, OrderKeeps
<1>4. CASE UNCHANGED mergeVars
  <2>1. UNCHANGED <<entries, visited, dedup, keys, seen, result>>
    BY <1>4 DEF mergeVars
  <2>2. MergeTypes' /\ KeysInv'
    BY <2>1 DEF MergeInv, MergeTypes, KeysInv
  <2>3. U!LoopKeepsReference'
    BY <2>1 DEF MergeInv, U!LoopKeepsReference, U!IsReference, U!Matching
  <2>4. U!RulesAreOrderedOnce'
    BY <2>1 DEF MergeInv, U!RulesAreOrderedOnce, U!IsReference, U!Matching
  <2> QED BY <2>2, <2>3, <2>4 DEF MergeInv
<1> QED BY <1>1, <1>2, <1>3, <1>4

\* GetUniqueRules: for any number of GPOs, entries, types and keys, and any mix of
\* strategies and disabled entries, the loop holds after each entry the reference of what
\* it has visited, and the map it returns lists each key that is set once, in the order of
\* the keys, with its reference value.
THEOREM MergeSoundness == ADSpec => []MergeIsReference
<1>1. MergeInv => MergeIsReference
  BY DEF MergeInv, MergeIsReference
<1> QED
  BY <1>1, MergeInit, MergeNext, PTL DEF ADSpec

-----------------------------------------------------------------------------
(* The entries and the rules of a GPO, in Registry.                         *)

\* The entries that are decoded of a group, all but its meta data: their number and keys.
HasMeta(p) == p.kind \notin {"basic", "cert"}
Count(p) == 1 + (IF p.flag THEN 1 ELSE 0) + (IF p.release THEN 1 ELSE 0)
DecodedKey(p, n) ==
  IF n = 1 THEN (IF p.kind = "cert" THEN "cert" ELSE IF p.kind = "foreign" THEN "other" ELSE "all")
  ELSE IF n = 2 /\ p.flag THEN "override" ELSE "release"

Values == {"empty", "all", "release", "true", "default"}
Item == [group : DOMAIN groups, key : {"all", "cert", "other", "override", "release"},
         meta : 0..Len(groups), disabled : BOOLEAN, err : BOOLEAN, value : Values]

\* Disabling and Off of Registry, for any groups.
LastOff(gs, g) ==
  \E h \in 1..(g - 1) :
    /\ HasMeta(gs[h]) /\ gs[h].state # "enabled"
    /\ \A k \in (h + 1)..(g - 1) : ~HasMeta(gs[k])
IsOff(gs, g) == gs[g].state # "enabled" \/ (gs[g].kind = "cert" /\ LastOff(gs, g))

\* The value of a policy on all releases, and of each of its keys.
BaseValue(gs, g) == IF IsOff(gs, g) THEN "empty" ELSE IF gs[g].empty THEN "default" ELSE "all"
KeyValue(gs, g, key) ==
  IF key \in {"override", "release"} /\ ~IsOff(gs, g)
  THEN (IF key = "override" THEN "true" ELSE "release") ELSE BaseValue(gs, g)

\* The decoded entry x is the one of this key of group g.
IsDecoded(gs, x, g, key) ==
  /\ x.group = g /\ x.key = key /\ (x.disabled <=> IsOff(gs, g))
  /\ x.meta = IF key \in {"all", "override", "release"} THEN g ELSE 0
  /\ x.err <=> ~IsOff(gs, g) /\ gs[g].kind = "bad"
  /\ ~x.err => x.value = KeyValue(gs, g, key)

\* The sequence s holds the first m entries of group g.
Decoded(gs, s, g, m) ==
  DOMAIN s = 1..m /\ \A n \in 1..m : IsDecoded(gs, s[n], g, DecodedKey(gs[g], n))

RegistryTypes ==
  /\ groups \in Seq(G!Groups) /\ size \in 0..(MaxToken + 1) /\ G!TypeOK
  /\ decoded \in [DOMAIN groups -> Seq(Item)]

\* Nothing is decoded yet.
Blank == segment = 1 /\ position = 1 /\ rules = <<>> /\ \A g \in DOMAIN groups : decoded[g] = <<>>

ReadInv == phase = "read" => Blank /\ token <= size /\ token <= MaxToken /\ ~disabledContainer

\* The segments before the entry to treat are decoded, the ones after it are empty, and
\* the decoder remembers the container of the entry.
DecodeInv ==
  phase = "decode" =>
    /\ size <= MaxToken /\ rules = <<>>
    /\ \A g \in DOMAIN groups :
         /\ g < segment => Decoded(groups, decoded[g], g, Count(groups[g]))
         /\ g > segment => decoded[g] = <<>>
    /\ position = 1 =>
         /\ disabledContainer <=> LastOff(groups, segment)
         /\ segment \in DOMAIN groups => decoded[segment] = <<>>
    /\ position > 1 =>
         /\ segment \in DOMAIN groups /\ HasMeta(groups[segment])
         /\ position <= Count(groups[segment]) + 1
         /\ Decoded(groups, decoded[segment], segment, position - 2)
         /\ disabledContainer <=> groups[segment].state # "enabled"
         /\ groups[segment].kind # "foreign" => metaOf = segment

\* The group g, or its first entry, is parsed when the entry to treat is the one at seg, pos.
Parsed(seg, pos, g) == g < seg \/ (g = seg /\ pos > 1)

\* The rule is the one of its group, with the value of this release once it is parsed.
IsRule(gs, seg, pos, rule) ==
  LET g == rule.group IN
  /\ g \in DOMAIN gs /\ Parsed(seg, pos, g) /\ gs[g].kind # "foreign"
  /\ rule.disabled <=> IsOff(gs, g)
  /\ rule.meta = IF gs[g].kind = "cert" THEN 0 ELSE g
  /\ rule.value = IF g < seg /\ gs[g].flag /\ gs[g].release THEN KeyValue(gs, g, "release")
                  ELSE BaseValue(gs, g)

\* The rules of what is parsed, in the order of the groups.
RulesOf(gs, seg, pos, rs) ==
  /\ \A n \in DOMAIN rs : IsRule(gs, seg, pos, rs[n])
  /\ \A m, n \in DOMAIN rs : m < n => rs[m].group < rs[n].group
  /\ \A g \in DOMAIN gs : Parsed(seg, pos, g) =>
       /\ gs[g].kind = "bad" => gs[g].state # "enabled"
       /\ gs[g].kind # "foreign" => \E n \in DOMAIN rs : rs[n].group = g

RulesInv ==
  phase \in {"parse", "done"} =>
    IF size > MaxToken THEN Blank
    ELSE /\ \A g \in DOMAIN groups : Decoded(groups, decoded[g], g, Count(groups[g]))
         /\ RulesOf(groups, segment, position, rules)
         /\ position > 1 =>
              /\ segment \in DOMAIN groups /\ position <= Count(groups[segment])
              /\ currentKey = segment /\ rules # <<>> /\ rules[Len(rules)].group = segment
              /\ overrideEnabled <=> position > 2 /\ ~IsOff(groups, segment)
         /\ phase = "done" => segment = Len(groups) + 1

RegistryInv ==
  /\ RegistryTypes /\ ReadInv /\ DecodeInv /\ RulesInv
  /\ phase = "failed" => G!Fails

\* The fields of a policy of the file.
LEMMA GroupFacts ==
  ASSUME NEW p \in G!Groups
  PROVE  /\ p.kind \in {"container", "basic", "bad", "cert", "foreign"}
         /\ p.state \in {"enabled", "deleted", "marked"}
         /\ p.empty \in BOOLEAN /\ p.flag \in BOOLEAN /\ p.release \in BOOLEAN
         /\ p.kind # "container" => ~p.flag /\ ~p.release
         /\ p.kind \in {"basic", "bad"} => p.empty
         /\ p.kind \in {"cert", "foreign"} => ~p.empty
         /\ p.kind = "cert" => p.state = "enabled"
         /\ p.kind = "foreign" => p.state # "marked"
  BY DEF G!Groups

\* The keys of a group: those that are decoded, after its meta data if it has any.
LEMMA KeysFacts ==
  ASSUME NEW p \in G!Groups
  PROVE  /\ Count(p) \in 1..3 /\ (~HasMeta(p) => Count(p) = 1)
         /\ DOMAIN G!KeysOf(p) = IF HasMeta(p) THEN 1..(Count(p) + 1) ELSE {1}
         /\ HasMeta(p) => /\ G!KeysOf(p)[1] = "metaValues"
                          /\ \A n \in 1..Count(p) : G!KeysOf(p)[n + 1] = DecodedKey(p, n)
         /\ ~HasMeta(p) => G!KeysOf(p)[1] = p.kind
<1>1. CASE ~HasMeta(p)
  BY <1>1, GroupFacts DEF HasMeta, Count, G!KeysOf
<1>2. CASE p.kind = "foreign"
  BY <1>2, GroupFacts DEF HasMeta, Count, G!KeysOf, DecodedKey
<1>3. CASE p.kind \in {"container", "bad"}
  <2>1. CASE p.flag /\ p.release
    <3>1. G!KeysOf(p) = <<"metaValues", "all", "override", "release">>
      BY <1>3, <2>1 DEF G!KeysOf
    <3>2. Count(p) = 3 /\ HasMeta(p)
      BY <1>3, <2>1 DEF Count, HasMeta
    <3>3. \A n \in 1..Count(p) : G!KeysOf(p)[n + 1] = DecodedKey(p, n)
      BY <1>3, <2>1, <3>1, <3>2 DEF DecodedKey
    <3>4. DOMAIN G!KeysOf(p) = 1..(Count(p) + 1) /\ G!KeysOf(p)[1] = "metaValues"
      BY <3>1, <3>2
    <3> QED BY <3>2, <3>3, <3>4
  <2>2. CASE p.flag /\ ~p.release
    <3>1. G!KeysOf(p) = <<"metaValues", "all", "override">>
      BY <1>3, <2>2 DEF G!KeysOf
    <3>2. Count(p) = 2 /\ HasMeta(p)
      BY <1>3, <2>2 DEF Count, HasMeta
    <3>3. \A n \in 1..Count(p) : G!KeysOf(p)[n + 1] = DecodedKey(p, n)
      BY <1>3, <2>2, <3>1, <3>2 DEF DecodedKey
    <3>4. DOMAIN G!KeysOf(p) = 1..(Count(p) + 1) /\ G!KeysOf(p)[1] = "metaValues"
      BY <3>1, <3>2
    <3> QED BY <3>2, <3>3, <3>4
  <2>3. CASE ~p.flag /\ p.release
    <3>1. G!KeysOf(p) = <<"metaValues", "all", "release">>
      BY <1>3, <2>3 DEF G!KeysOf
    <3>2. Count(p) = 2 /\ HasMeta(p)
      BY <1>3, <2>3 DEF Count, HasMeta
    <3>3. \A n \in 1..Count(p) : G!KeysOf(p)[n + 1] = DecodedKey(p, n)
      BY <1>3, <2>3, <3>1, <3>2 DEF DecodedKey
    <3>4. DOMAIN G!KeysOf(p) = 1..(Count(p) + 1) /\ G!KeysOf(p)[1] = "metaValues"
      BY <3>1, <3>2
    <3> QED BY <3>2, <3>3, <3>4
  <2>4. CASE ~p.flag /\ ~p.release
    <3>1. G!KeysOf(p) = <<"metaValues", "all">>
      BY <1>3, <2>4 DEF G!KeysOf
    <3>2. Count(p) = 1 /\ HasMeta(p)
      BY <1>3, <2>4 DEF Count, HasMeta
    <3>3. \A n \in 1..Count(p) : G!KeysOf(p)[n + 1] = DecodedKey(p, n)
      BY <1>3, <2>4, <3>1, <3>2 DEF DecodedKey
    <3>4. DOMAIN G!KeysOf(p) = 1..(Count(p) + 1) /\ G!KeysOf(p)[1] = "metaValues"
      BY <3>1, <3>2
    <3> QED BY <3>2, <3>3, <3>4
  <2> QED BY <2>1, <2>2, <2>3, <2>4
<1> QED BY <1>1, <1>2, <1>3, GroupFacts DEF HasMeta

\* The proof's own account of what is disabled is that of the property.
LEMMA OffFacts ==
  /\ \A g : G!Disabling(g) <=> LastOff(groups, g)
  /\ \A g : G!Off(g) <=> IsOff(groups, g)
<1>1. \A g : G!Disabling(g) <=> LastOff(groups, g)
  BY DEF G!Disabling, LastOff, HasMeta
<1> QED BY <1>1 DEF G!Off, IsOff

\* The container that decides of what follows group g.
LEMMA LastOffNext ==
  ASSUME NEW gs, NEW g \in Nat \ {0}
  PROVE  /\ LastOff(gs, g + 1) <=> IF HasMeta(gs[g]) THEN gs[g].state # "enabled" ELSE LastOff(gs, g)
         /\ ~LastOff(gs, 1)
<1>1. ~LastOff(gs, 1)
  BY DEF LastOff
<1>2. CASE HasMeta(gs[g])
  <2>1. ASSUME gs[g].state # "enabled" PROVE LastOff(gs, g + 1)
    <3>1. g \in 1..((g + 1) - 1) /\ \A k \in (g + 1)..((g + 1) - 1) : FALSE
      OBVIOUS
    <3> QED BY <1>2, <2>1, <3>1 DEF LastOff
  <2>2. ASSUME LastOff(gs, g + 1) PROVE gs[g].state # "enabled"
    <3>1. PICK h \in 1..((g + 1) - 1) : /\ HasMeta(gs[h]) /\ gs[h].state # "enabled"
                                        /\ \A k \in (h + 1)..((g + 1) - 1) : ~HasMeta(gs[k])
      BY <2>2 DEF LastOff
    <3>2. h # g => g \in (h + 1)..((g + 1) - 1)
      OBVIOUS
    <3> QED BY <1>2, <3>1, <3>2
  <2> QED BY <1>1, <1>2, <2>1, <2>2
<1>3. CASE ~HasMeta(gs[g])
  <2>1. ASSUME LastOff(gs, g) PROVE LastOff(gs, g + 1)
    <3>1. PICK h \in 1..(g - 1) : /\ HasMeta(gs[h]) /\ gs[h].state # "enabled"
                                  /\ \A k \in (h + 1)..(g - 1) : ~HasMeta(gs[k])
      BY <2>1 DEF LastOff
    <3>2. h \in 1..((g + 1) - 1) /\ \A k \in (h + 1)..((g + 1) - 1) : k \in (h + 1)..(g - 1) \/ k = g
      OBVIOUS
    <3> QED BY <1>3, <3>1, <3>2 DEF LastOff
  <2>2. ASSUME LastOff(gs, g + 1) PROVE LastOff(gs, g)
    <3>1. PICK h \in 1..((g + 1) - 1) : /\ HasMeta(gs[h]) /\ gs[h].state # "enabled"
                                        /\ \A k \in (h + 1)..((g + 1) - 1) : ~HasMeta(gs[k])
      BY <2>2 DEF LastOff
    <3>2. h # g
      BY <1>3, <3>1
    <3>3. h \in 1..(g - 1) /\ \A k \in (h + 1)..(g - 1) : k \in (h + 1)..((g + 1) - 1)
      BY <3>2
    <3> QED BY <3>1, <3>3 DEF LastOff
  <2> QED BY <1>1, <1>3, <2>1, <2>2
<1> QED BY <1>2, <1>3

\* The file is read from its start, and the other components leave it alone.
LEMMA RegistryInit == ADInit => RegistryInv
<1> SUFFICES ASSUME ADInit PROVE RegistryInv
  OBVIOUS
<1> USE RegistryAssumption
<1>1. /\ groups \in Seq(G!Groups) /\ size \in 0..(MaxToken + 1)
      /\ phase = (IF focus = "registry" THEN "read" ELSE "done")
      /\ focus # "registry" => groups = <<>> /\ size = 0
      /\ segment = 1 /\ position = 1 /\ token = 0 /\ metaOf = 0 /\ disabledContainer = FALSE
      /\ currentKey = 0 /\ overrideEnabled = FALSE /\ rules = <<>>
      /\ decoded = [g \in DOMAIN groups |-> <<>>]
  <2>1. CASE focus = "registry"
    <3>1. G!Init
      BY <2>1 DEF ADInit
    <3>2. groups \in Seq(G!Groups)
      <4>1. PICK n \in 1..MaxGroups : groups \in [1..n -> G!Groups]
        BY <3>1 DEF G!Init
      <4>2. n \in Nat
        OBVIOUS
      <4> QED BY <4>1, <4>2
    <3>3. size \in 0..(MaxToken + 1)
      BY <3>1 DEF G!Init
    <3> QED BY <2>1, <3>1, <3>2, <3>3 DEF G!Init
  <2>2. CASE focus # "registry"
    <3>1. groups = <<>> /\ decoded = <<>> /\ size = 0
      BY <2>2 DEF ADInit
    <3>2. decoded = [g \in DOMAIN groups |-> <<>>]
      BY <3>1
    <3> QED BY <2>2, <3>1, <3>2 DEF ADInit
  <2> QED BY <2>1, <2>2
<1>2. Len(groups) \in Nat /\ DOMAIN groups = 1..Len(groups)
  BY <1>1
<1>3. RegistryTypes
  <2>1. rules \in Seq(G!Rule)
    BY <1>1
  <2>2. decoded \in [DOMAIN groups -> Seq(Item)]
    BY <1>1
  <2>3. disabledContainer \in BOOLEAN /\ overrideEnabled \in BOOLEAN
    BY <1>1, Zenon
  <2> QED BY <1>1, <1>2, <2>1, <2>2, <2>3 DEF RegistryTypes, G!TypeOK
<1>4. Blank
  BY <1>1 DEF Blank
<1>5. ReadInv /\ DecodeInv /\ (phase = "failed" => G!Fails)
  BY <1>1, <1>4 DEF ReadInv, DecodeInv
<1>6. RulesInv
  <2>1. CASE focus = "registry"
    BY <1>1, <2>1 DEF RulesInv
  <2>2. CASE focus # "registry"
    <3>1. groups = <<>> /\ DOMAIN groups = {} /\ Len(groups) = 0 /\ DOMAIN rules = {}
      BY <1>1, <2>2
    <3>2. RulesOf(groups, segment, position, rules)
      BY <3>1 DEF RulesOf
    <3> QED BY <1>1, <2>2, <3>1, <3>2 DEF RulesInv
  <2> QED BY <2>1, <2>2
<1> QED BY <1>3, <1>5, <1>6 DEF RegistryInv

\* readPolicy starts to decode only with a buffer that every entry fits in.
LEMMA ReadKeeps ==
  ASSUME RegistryInv, G!readPolicy
  PROVE  RegistryInv'
<1> USE RegistryAssumption
<1>1. /\ RegistryTypes /\ ReadInv /\ phase = "read"
      /\ UNCHANGED <<groups, size, segment, position, metaOf, disabledContainer, decoded, currentKey,
                     overrideEnabled, rules>>
      /\ IF size <= token THEN phase' = "decode" /\ token' = token
         ELSE token' = token + 1 /\ phase' = IF token' > MaxToken THEN "parse" ELSE "read"
  BY DEF RegistryInv, G!readPolicy
<1>2. Blank /\ token <= size /\ token <= MaxToken /\ ~disabledContainer
  BY <1>1 DEF ReadInv
<1>3. token \in Nat /\ size \in Nat /\ size <= MaxToken + 1
  BY <1>1 DEF RegistryTypes, G!TypeOK
<1>4. RegistryTypes'
  <2>1. token' \in 0..(MaxToken + 1) /\ phase' \in {"read", "decode", "parse", "done", "failed"}
    BY <1>1, <1>2, <1>3
  <2> QED BY <1>1, <2>1 DEF RegistryTypes, G!TypeOK, G!Rule, Item
<1>5. Blank'
  BY <1>1, <1>2 DEF Blank
<1>6. ReadInv'
  BY <1>1, <1>2, <1>3, <1>5 DEF ReadInv
<1>7. DecodeInv'
  <2>1. ~LastOff(groups, 1)
    BY LastOffNext
  <2>2. \A g \in DOMAIN groups : ~(g < 1)
    BY <1>1 DEF RegistryTypes
  <2> QED BY <1>1, <1>2, <1>3, <2>1, <2>2 DEF DecodeInv, Blank
<1>8. RulesInv'
  BY <1>1, <1>2, <1>3, <1>5 DEF RulesInv
<1>9. phase' # "failed"
  BY <1>1
<1> QED BY <1>4, <1>6, <1>7, <1>8, <1>9 DEF RegistryInv

\* The place of the entry to decode, and the entry.
LEMMA DecodeFacts ==
  ASSUME RegistryInv, G!DecodeEntry
  PROVE  LET p == groups[segment]
             key == G!KeysOf(p)[position]
         IN /\ segment \in DOMAIN groups /\ segment \in Nat \ {0} /\ p \in G!Groups
            /\ position \in DOMAIN G!KeysOf(p) /\ position \in Nat \ {0}
            /\ G!File[segment][position] = G!Raw(segment, key)
            /\ IF position + 1 \in DOMAIN G!KeysOf(p) THEN position' = position + 1 /\ segment' = segment
               ELSE position' = 1 /\ segment' = segment + 1
            /\ UNCHANGED <<groups, size, phase, token, currentKey, overrideEnabled, rules>>
            /\ DOMAIN groups = 1..Len(groups) /\ Len(groups) \in Nat
<1> DEFINE p == groups[segment]
<1>1. phase = "decode" /\ G!More(G!File) /\ G!Advance(G!File)
  BY DEF G!DecodeEntry
<1>2. segment \in DOMAIN groups /\ position \in DOMAIN G!File[segment]
  BY <1>1 DEF G!More, G!File
<1>3. /\ DOMAIN G!File[segment] = DOMAIN G!KeysOf(p)
      /\ \A n \in DOMAIN G!KeysOf(p) : G!File[segment][n] = G!Raw(segment, G!KeysOf(p)[n])
  BY <1>2 DEF G!File
<1>4. /\ groups \in Seq(G!Groups) /\ position \in 1..4
  BY DEF RegistryInv, RegistryTypes, G!TypeOK
<1>5. p \in G!Groups /\ segment \in Nat \ {0} /\ position \in Nat \ {0}
  BY <1>2, <1>4
<1>6. IF position + 1 \in DOMAIN G!KeysOf(p) THEN position' = position + 1 /\ segment' = segment
      ELSE position' = 1 /\ segment' = segment + 1
  BY <1>1, <1>3 DEF G!Advance
<1>7. DOMAIN groups = 1..Len(groups) /\ Len(groups) \in Nat
  BY <1>4
<1>8. UNCHANGED <<groups, size, phase, token, currentKey, overrideEnabled, rules>>
  BY DEF G!DecodeEntry
<1> HIDE DEF p
<1> QED BY <1>2, <1>3, <1>5, <1>6, <1>7, <1>8 DEF p

\* The next entry of the group is decoded.
LEMMA DecodedGrows ==
  ASSUME RegistryInv, G!DecodeEntry, phase = "decode",
         NEW n, n = IF HasMeta(groups[segment]) THEN position - 1 ELSE 1,
         n \in 1..Count(groups[segment]),
         NEW x \in Item, IsDecoded(groups, x, segment, DecodedKey(groups[segment], n)),
         decoded' = [decoded EXCEPT ![segment] = Append(@, x)],
         disabledContainer' = disabledContainer, metaOf' \in 0..Len(groups),
         HasMeta(groups[segment]) => metaOf' = metaOf
  PROVE  RegistryInv'
<1> DEFINE p == groups[segment]
           s == decoded[segment]
           r == Append(s, x)
<1>1. /\ segment \in DOMAIN groups /\ segment \in Nat \ {0} /\ p \in G!Groups
      /\ position \in DOMAIN G!KeysOf(p) /\ position \in Nat \ {0}
      /\ IF position + 1 \in DOMAIN G!KeysOf(p) THEN position' = position + 1 /\ segment' = segment
         ELSE position' = 1 /\ segment' = segment + 1
      /\ UNCHANGED <<groups, size, phase, token, currentKey, overrideEnabled, rules>>
      /\ DOMAIN groups = 1..Len(groups) /\ Len(groups) \in Nat
  BY DecodeFacts
<1>2. /\ Count(p) \in 1..3 /\ (~HasMeta(p) => Count(p) = 1)
      /\ DOMAIN G!KeysOf(p) = IF HasMeta(p) THEN 1..(Count(p) + 1) ELSE {1}
  BY <1>1, KeysFacts
<1>3. /\ size <= MaxToken /\ rules = <<>>
      /\ \A g \in DOMAIN groups :
           /\ g < segment => Decoded(groups, decoded[g], g, Count(groups[g]))
           /\ g > segment => decoded[g] = <<>>
      /\ position = 1 => (disabledContainer <=> LastOff(groups, segment)) /\ s = <<>>
      /\ position > 1 =>
           /\ HasMeta(p) /\ Decoded(groups, s, segment, position - 2)
           /\ disabledContainer <=> p.state # "enabled"
           /\ p.kind # "foreign" => metaOf = segment
  BY <1>1 DEF RegistryInv, DecodeInv
<1>4. decoded \in [DOMAIN groups -> Seq(Item)] /\ s \in Seq(Item) /\ G!TypeOK
  BY <1>1 DEF RegistryInv, RegistryTypes
<1>5. IF n < Count(p) THEN HasMeta(p) /\ position' = n + 2 /\ segment' = segment
      ELSE position' = 1 /\ segment' = segment + 1
  BY <1>1, <1>2
<1>6. DOMAIN s = 1..(n - 1) /\ \A m \in 1..(n - 1) : IsDecoded(groups, s[m], segment, DecodedKey(p, m))
  <2>1. CASE HasMeta(p) /\ position > 1
    <3>1. n - 1 = position - 2
      BY <1>1, <2>1
    <3>2. Decoded(groups, s, segment, n - 1)
      BY <1>3, <2>1, <3>1
    <3> QED BY <3>2 DEF Decoded
  <2>2. CASE ~HasMeta(p)
    BY <1>1, <1>2, <1>3, <2>2
  <2>3. HasMeta(p) => position > 1
    BY <1>1
  <2> QED BY <2>1, <2>2, <2>3
<1>7. Decoded(groups, r, segment, n) /\ r \in Seq(Item)
  <2>1. Len(s) = n - 1 /\ r \in Seq(Item) /\ DOMAIN r = 1..n /\ r[n] = x
    BY <1>4, <1>6
  <2>2. \A m \in 1..n : m # n => m \in 1..(n - 1) /\ r[m] = s[m]
    BY <1>4, <1>6, <2>1
  <2> HIDE DEF r, s
  <2> QED BY <1>6, <2>1, <2>2 DEF Decoded
<1>8. decoded' \in [DOMAIN groups -> Seq(Item)] /\ decoded'[segment] = r
      /\ \A g \in DOMAIN groups : g # segment => decoded'[g] = decoded[g]
  BY <1>1, <1>4, <1>7
<1> HIDE DEF p, s, r
<1>9. RegistryTypes'
  <2>1. disabledContainer' \in BOOLEAN
    BY <1>4, Zenon DEF G!TypeOK
  <2>2. segment' \in 1..(Len(groups) + 1) /\ position' \in 1..4
    BY <1>1, <1>2, <1>5
  <2>3. groups' \in Seq(G!Groups) /\ size' \in 0..(MaxToken + 1) /\ Item' = Item /\ G!Rule' = G!Rule
    BY <1>1 DEF RegistryInv, RegistryTypes, Item, G!Rule
  <2>4. decoded' \in [DOMAIN groups' -> Seq(Item')]
    BY <1>1, <1>8, <2>3
  <2>5. G!TypeOK'
    BY <1>1, <1>4, <2>1, <2>2, <2>3 DEF G!TypeOK
  <2> QED BY <2>3, <2>4, <2>5 DEF RegistryTypes
<1>10. LastOff(groups, segment + 1) <=> IF HasMeta(p) THEN p.state # "enabled" ELSE LastOff(groups, segment)
  BY <1>1, LastOffNext DEF p
<1>11. DecodeInv'
  <2>1. CASE n < Count(p)
    <3>1. HasMeta(p) /\ position' = n + 2 /\ segment' = segment
      BY <1>5, <2>1
    <3>2. position' > 1 /\ position' - 2 = n /\ position' <= Count(p) + 1 /\ position' # 1 /\ position > 1
      BY <1>1, <1>2, <2>1, <3>1 DEF p
    <3>3. \A g \in DOMAIN groups :
            /\ g < segment => g # segment
            /\ g > segment => g # segment
      BY <1>1
    <3> QED BY <1>1, <1>3, <1>7, <1>8, <3>1, <3>2, <3>3 DEF DecodeInv, p
  <2>2. CASE ~(n < Count(p))
    <3>1. position' = 1 /\ segment' = segment + 1 /\ n = Count(p)
      BY <1>2, <1>5, <2>2 DEF p
    <3>2. \A g \in DOMAIN groups : g < segment + 1 => g < segment \/ g = segment
      BY <1>1
    <3>3. \A g \in DOMAIN groups : (g > segment + 1 \/ g = segment + 1) => g > segment /\ g # segment
      BY <1>1
    <3>4. \A g \in DOMAIN groups : g < segment => g # segment
      BY <1>1
    <3>5. disabledContainer <=> LastOff(groups, segment + 1)
      <4>1. HasMeta(p) => position > 1
        BY <1>1, <1>2 DEF p
      <4>2. ~HasMeta(p) => position = 1
        BY <1>1, <1>2
      <4> QED BY <1>3, <1>10, <4>1, <4>2
    <3>6. \A g \in DOMAIN groups :
            /\ g < segment + 1 => Decoded(groups, decoded'[g], g, Count(groups[g]))
            /\ g > segment + 1 \/ g = segment + 1 => decoded'[g] = <<>>
      BY <1>3, <1>7, <1>8, <3>1, <3>2, <3>3, <3>4 DEF p
    <3> QED BY <1>1, <1>3, <3>1, <3>5, <3>6 DEF DecodeInv
  <2> QED BY <2>1, <2>2
<1> QED BY <1>1, <1>9, <1>11 DEF RegistryInv, ReadInv, RulesInv

\* What DecodeEntry appends is the entry of its key, whatever came before it in the file.
LEMMA DecodeKeeps ==
  ASSUME RegistryInv, G!DecodeEntry
  PROVE  RegistryInv'
<1> DEFINE p == groups[segment]
           key == G!KeysOf(p)[position]
           e == G!Raw(segment, key)
           Entry(k, g, off) ==
             [group |-> e.group, key |-> k, meta |-> IF k \in {"all", "override", "release"} THEN g ELSE 0,
              disabled |-> off, err |-> ~off /\ e.type = "binary",
              value |-> IF off THEN "empty"
                        ELSE IF e.type = "sz" /\ e.value = "empty" /\ k = "all" /\ g # 0 THEN "default"
                        ELSE e.value]
<1>1. /\ segment \in DOMAIN groups /\ segment \in Nat \ {0} /\ p \in G!Groups
      /\ position \in DOMAIN G!KeysOf(p) /\ position \in Nat \ {0}
      /\ G!File[segment][position] = e
      /\ IF position + 1 \in DOMAIN G!KeysOf(p) THEN position' = position + 1 /\ segment' = segment
         ELSE position' = 1 /\ segment' = segment + 1
      /\ UNCHANGED <<groups, size, phase, token, currentKey, overrideEnabled, rules>>
      /\ DOMAIN groups = 1..Len(groups) /\ Len(groups) \in Nat
  BY DecodeFacts
<1>2. /\ Count(p) \in 1..3 /\ (~HasMeta(p) => Count(p) = 1)
      /\ DOMAIN G!KeysOf(p) = IF HasMeta(p) THEN 1..(Count(p) + 1) ELSE {1}
      /\ HasMeta(p) => /\ G!KeysOf(p)[1] = "metaValues"
                       /\ \A n \in 1..Count(p) : G!KeysOf(p)[n + 1] = DecodedKey(p, n)
      /\ ~HasMeta(p) => G!KeysOf(p)[1] = p.kind
  BY <1>1, KeysFacts
<1>3. /\ p.kind \in {"container", "basic", "bad", "cert", "foreign"}
      /\ p.state \in {"enabled", "deleted", "marked"}
      /\ p.empty \in BOOLEAN /\ p.flag \in BOOLEAN /\ p.release \in BOOLEAN
      /\ p.kind # "container" => ~p.flag /\ ~p.release
      /\ p.kind \in {"basic", "bad"} => p.empty
      /\ p.kind \in {"cert", "foreign"} => ~p.empty
      /\ p.kind = "cert" => p.state = "enabled"
      /\ p.kind = "foreign" => p.state # "marked"
  BY <1>1, GroupFacts
<1>4. /\ phase = "decode"
      /\ \/ /\ e.key = "metaValues"
            /\ disabledContainer' = G!DecodeContainer(e)
            /\ metaOf' = IF e.type = "sz" THEN e.group ELSE metaOf
            /\ UNCHANGED decoded
         \/ /\ e.key = "basic"
            /\ metaOf' = e.group
            /\ G!Decode(e, "all", e.group, e.del \/ G!Marked(e.group))
            /\ UNCHANGED disabledContainer
         \/ /\ e.key \notin {"metaValues", "basic"}
            /\ G!Decode(e, e.key, metaOf, e.del \/ disabledContainer)
            /\ UNCHANGED <<metaOf, disabledContainer>>
  <2> HIDE DEF e
  <2> QED BY <1>1 DEF G!DecodeEntry
<1>5. /\ e.group = segment /\ e.key = key
      /\ e.type = IF key = "cert" \/ (key = "metaValues" /\ p.kind = "foreign") THEN "dword"
                  ELSE IF key = "all" /\ p.kind = "bad" THEN "binary" ELSE "sz"
      /\ e.del <=> key \in {"metaValues", "basic"} /\ p.state = "deleted"
      /\ e.value = IF key \in {"metaValues", "basic"} \/ (key = "all" /\ p.empty) THEN "empty"
                   ELSE IF key = "override" THEN "true" ELSE IF key = "release" THEN "release" ELSE "all"
  BY DEF G!Raw
<1>6. /\ metaOf \in 0..Len(groups) /\ disabledContainer \in BOOLEAN /\ G!TypeOK
      /\ position = 1 => (disabledContainer <=> LastOff(groups, segment)) /\ decoded[segment] = <<>>
      /\ position > 1 =>
           /\ HasMeta(p) /\ (disabledContainer <=> p.state # "enabled")
           /\ p.kind # "foreign" => metaOf = segment
  BY <1>1, <1>4 DEF RegistryInv, RegistryTypes, G!TypeOK, DecodeInv
<1>7. ASSUME NEW k, NEW g \in 0..Len(groups), NEW off \in BOOLEAN,
             NEW n, n = IF HasMeta(p) THEN position - 1 ELSE 1, n \in 1..Count(p), k = DecodedKey(p, n),
             off <=> IsOff(groups, segment),
             k \in {"all", "override", "release"} => g = segment,
             key = k \/ (key = "basic" /\ k = "all"),
             G!Decode(e, k, g, off), disabledContainer' = disabledContainer,
             metaOf' \in 0..Len(groups), HasMeta(p) => metaOf' = metaOf
      PROVE  RegistryInv'
  <2>1. decoded' = [decoded EXCEPT ![segment] = Append(@, Entry(k, g, off))]
    BY <1>5, <1>7 DEF G!Decode
  <2>2. k \in {"all", "cert", "other", "override", "release"}
    BY <1>7 DEF DecodedKey
  <2> DEFINE x == Entry(k, g, off)
  <2> HIDE DEF e, key, p
  <2>3. /\ x.group = segment /\ x.key = k /\ x.disabled = off
        /\ x.meta = IF k \in {"all", "override", "release"} THEN segment ELSE 0
        /\ x.err = (~off /\ e.type = "binary")
        /\ x.value = IF off THEN "empty"
                     ELSE IF e.type = "sz" /\ e.value = "empty" /\ k = "all" /\ g # 0 THEN "default"
                     ELSE e.value
    BY <1>5, <1>7
  <2>4. e.type = "binary" <=> k = "all" /\ p.kind = "bad"
    <3>1. key = "basic" => p.kind = "basic"
      <4>1. CASE HasMeta(p)
        <5>1. CASE position = 1
          BY <1>2, <4>1, <5>1 DEF key
        <5>2. CASE position # 1
          <6>1. position - 1 \in 1..Count(p) /\ (position - 1) + 1 = position
            BY <1>1, <1>2, <4>1, <5>2
          <6>2. key = DecodedKey(p, position - 1)
            BY <1>2, <4>1, <6>1 DEF key
          <6> QED BY <6>2 DEF DecodedKey
        <5> QED BY <5>1, <5>2
      <4>2. CASE ~HasMeta(p)
        BY <1>1, <1>2, <4>2 DEF key
      <4> QED BY <4>1, <4>2
    <3> QED BY <1>5, <1>7, <2>2, <3>1
  <2>5. p.kind = "bad" => k = "all"
    <3>1. p.kind = "bad" => Count(p) = 1
      BY <1>3 DEF Count
    <3>2. p.kind = "bad" => n \in 1..1
      BY <1>7, <3>1, Zenon
    <3> QED BY <1>7, <3>2 DEF DecodedKey
  <2>6. ~x.err => x.value = KeyValue(groups, segment, k)
    <3>1. CASE off
      BY <1>7, <2>3, <3>1 DEF KeyValue, BaseValue
    <3>2. CASE ~off /\ k \in {"override", "release"}
      BY <1>5, <1>7, <2>3, <3>2 DEF KeyValue
    <3>3. CASE ~off /\ k \in {"cert", "other"}
      <4>1. p.kind \in {"cert", "foreign"}
        BY <1>7, <3>3 DEF DecodedKey, p
      <4> QED BY <1>3, <1>5, <1>7, <2>3, <3>3, <4>1 DEF KeyValue, BaseValue, p
    <3>4. CASE ~off /\ k = "all" /\ ~x.err
      <4>1. e.type = "sz" /\ g # 0
        BY <1>1, <1>5, <1>7, <2>3, <2>4, <3>4
      <4>2. e.value = IF p.empty THEN "empty" ELSE "all"
        <5>1. key = "basic" => p.empty
          BY <1>1, <1>2, <1>3, <1>7 DEF key, DecodedKey, p
        <5> QED BY <1>3, <1>5, <1>7, <3>4, <5>1
      <4> QED BY <1>7, <2>3, <3>4, <4>1, <4>2 DEF KeyValue, BaseValue, p
    <3> QED BY <2>2, <3>1, <3>2, <3>3, <3>4
  <2>7. IsDecoded(groups, x, segment, k)
    BY <1>7, <2>3, <2>4, <2>5, <2>6 DEF IsDecoded, p
  <2>8. x \in Item
    <3>1. /\ x.value \in Values /\ (~off /\ e.type = "binary") \in BOOLEAN
          /\ x.meta \in 0..Len(groups)
      BY <1>1, <1>5, <2>3 DEF Values
    <3> QED BY <1>1, <1>5, <1>7, <2>2, <2>3, <3>1 DEF Item
  <2> HIDE DEF x
  <2> QED BY <1>4, <1>7, <2>1, <2>7, <2>8, DecodedGrows DEF p, x
<1>8. CASE HasMeta(p) /\ position = 1
  <2>1. key = "metaValues" /\ position' = 2 /\ segment' = segment
    BY <1>1, <1>2, <1>8
  <2>2. /\ disabledContainer' = G!DecodeContainer(e) /\ decoded' = decoded
        /\ metaOf' = IF e.type = "sz" THEN e.group ELSE metaOf
    <3> HIDE DEF e
    <3> QED BY <1>4, <1>5, <2>1
  <2>3. /\ disabledContainer' \in BOOLEAN /\ (disabledContainer' <=> p.state # "enabled")
        /\ metaOf' \in 0..Len(groups) /\ (p.kind # "foreign" => metaOf' = segment)
    <3> HIDE DEF e
    <3>1. disabledContainer' = (e.del \/ (e.type = "sz" /\ groups[segment].state = "marked"))
      BY <1>5, <2>2 DEF G!DecodeContainer, G!Marked
    <3>2. (e.del <=> p.state = "deleted") /\ (e.type = "sz" <=> p.kind # "foreign")
      BY <1>5, <2>1
    <3>3. disabledContainer' <=> p.state # "enabled"
      BY <1>3, <3>1, <3>2
    <3>4. disabledContainer' \in BOOLEAN
      BY <3>1, Zenon
    <3>5. metaOf' \in 0..Len(groups) /\ (p.kind # "foreign" => metaOf' = segment)
      BY <1>1, <1>5, <1>6, <2>2, <3>2
    <3> QED BY <3>3, <3>4, <3>5
  <2>4. RegistryTypes'
    <3>1. Item' = Item /\ G!Rule' = G!Rule
      BY <1>1 DEF Item, G!Rule
    <3>2. G!TypeOK'
      BY <1>1, <1>6, <2>1, <2>3, <3>1 DEF G!TypeOK
    <3> QED BY <1>1, <2>2, <3>1, <3>2 DEF RegistryInv, RegistryTypes
  <2>5. DecodeInv'
    <3>1. /\ size <= MaxToken /\ rules = <<>> /\ decoded[segment] = <<>>
          /\ \A g \in DOMAIN groups :
               /\ g < segment => Decoded(groups, decoded[g], g, Count(groups[g]))
               /\ g > segment => decoded[g] = <<>>
      BY <1>1, <1>4, <1>8 DEF RegistryInv, DecodeInv
    <3>2. Decoded(groups, decoded[segment], segment, 0)
      BY <3>1 DEF Decoded
    <3>3. position' > 1 /\ position' # 1 /\ position' - 2 = 0 /\ position' <= Count(p) + 1
      BY <1>2, <2>1
    <3> HIDE DEF e, key
    <3> QED BY <1>1, <1>8, <2>1, <2>2, <2>3, <3>1, <3>2, <3>3 DEF DecodeInv
  <2> QED BY <1>1, <1>4, <2>4, <2>5 DEF RegistryInv, ReadInv, RulesInv
<1>9. CASE HasMeta(p) /\ position > 1
  <2> DEFINE n == position - 1
  <2>1. n \in 1..Count(p) /\ n + 1 = position
    BY <1>1, <1>2, <1>9
  <2> HIDE DEF e
  <2>2. key = DecodedKey(p, n) /\ key \notin {"metaValues", "basic"} /\ key # "cert"
    <3>1. key = DecodedKey(p, n)
      BY <1>2, <1>9, <2>1
    <3> QED BY <1>9, <3>1 DEF DecodedKey, HasMeta
  <2>3. G!Decode(e, key, metaOf, e.del \/ disabledContainer) /\ metaOf' = metaOf /\ disabledContainer' = disabledContainer
    BY <1>4, <1>5, <2>2
  <2>4. (e.del \/ disabledContainer) \in BOOLEAN /\ (e.del \/ disabledContainer <=> IsOff(groups, segment))
    BY <1>5, <1>6, <1>9, <2>2 DEF IsOff, HasMeta
  <2>5. key \in {"all", "override", "release"} => metaOf = segment
    BY <1>3, <1>6, <1>9, <2>1, <2>2 DEF DecodedKey, Count
  <2> HIDE DEF key, n, p
  <2> QED BY <1>6, <1>7, <1>9, <2>1, <2>2, <2>3, <2>4, <2>5 DEF n
<1>10. CASE p.kind = "basic"
  <2>1. ~HasMeta(p) /\ position = 1 /\ key = "basic" /\ Count(p) = 1
    BY <1>1, <1>2, <1>10 DEF HasMeta
  <2>2. /\ G!Decode(e, "all", segment, e.del \/ G!Marked(e.group)) /\ metaOf' = segment
        /\ disabledContainer' = disabledContainer
    <3> HIDE DEF e
    <3> QED BY <1>4, <1>5, <2>1
  <2>3. /\ (e.del \/ G!Marked(e.group)) \in BOOLEAN
        /\ e.del \/ G!Marked(e.group) <=> IsOff(groups, segment)
    <3> HIDE DEF e
    <3> QED BY <1>3, <1>5, <1>10, <2>1 DEF IsOff, G!Marked
  <2>4. DecodedKey(p, 1) = "all" /\ 1 \in 1..Count(p) /\ segment \in 0..Len(groups)
    BY <1>1, <1>10, <2>1 DEF DecodedKey
  <2> HIDE DEF e, key, p
  <2> QED BY <1>7, <2>1, <2>2, <2>3, <2>4
<1>11. CASE p.kind = "cert"
  <2>1. ~HasMeta(p) /\ position = 1 /\ key = "cert" /\ Count(p) = 1
    BY <1>1, <1>2, <1>11 DEF HasMeta
  <2>2. /\ G!Decode(e, "cert", metaOf, e.del \/ disabledContainer) /\ metaOf' = metaOf
        /\ disabledContainer' = disabledContainer
    <3> HIDE DEF e
    <3> QED BY <1>4, <1>5, <2>1
  <2>3. /\ (e.del \/ disabledContainer) \in BOOLEAN
        /\ e.del \/ disabledContainer <=> IsOff(groups, segment)
    <3> HIDE DEF e
    <3> QED BY <1>3, <1>5, <1>6, <1>11, <2>1 DEF IsOff
  <2>4. DecodedKey(p, 1) = "cert" /\ 1 \in 1..Count(p)
    BY <1>11, <2>1 DEF DecodedKey
  <2> HIDE DEF e, key, p
  <2> QED BY <1>6, <1>7, <2>1, <2>2, <2>3, <2>4
<1> QED BY <1>1, <1>3, <1>8, <1>9, <1>10, <1>11 DEF HasMeta

\* Once every entry is decoded the parser starts with no rule.
LEMMA DecodeEndKeeps ==
  ASSUME RegistryInv, G!DecodeEnd
  PROVE  RegistryInv'
<1>1. /\ phase = "decode" /\ ~G!More(G!File) /\ phase' = "parse" /\ segment' = 1 /\ position' = 1
      /\ UNCHANGED <<groups, size, token, metaOf, disabledContainer, decoded, currentKey, overrideEnabled, rules>>
      /\ RegistryTypes /\ DecodeInv
  BY DEF G!DecodeEnd, RegistryInv
<1>2. /\ groups \in Seq(G!Groups) /\ Len(groups) \in Nat /\ DOMAIN groups = 1..Len(groups)
      /\ segment \in 1..(Len(groups) + 1) /\ position \in 1..4 /\ size \in Int /\ MaxToken \in Int
  BY <1>1, RegistryAssumption DEF RegistryTypes, G!TypeOK
<1>3. segment = Len(groups) + 1
  <2> SUFFICES ASSUME segment \in DOMAIN groups PROVE FALSE
    BY <1>2
  <2> DEFINE p == groups[segment]
  <2>1. p \in G!Groups
    BY <1>2
  <2>2. DOMAIN G!KeysOf(p) = IF HasMeta(p) THEN 1..(Count(p) + 1) ELSE {1}
    BY <2>1, KeysFacts
  <2>3. Count(p) \in 1..3
    BY <2>1, KeysFacts
  <2>4. position \in DOMAIN G!KeysOf(p)
    BY <1>1, <1>2, <2>2, <2>3 DEF DecodeInv
  <2>5. segment \in DOMAIN G!File /\ DOMAIN G!File[segment] = DOMAIN G!KeysOf(p)
    BY DEF G!File
  <2> QED BY <1>1, <2>4, <2>5 DEF G!More
<1>4. \A g \in DOMAIN groups : Decoded(groups, decoded[g], g, Count(groups[g]))
  BY <1>1, <1>2, <1>3 DEF DecodeInv
<1>5. rules = <<>> /\ ~(size > MaxToken)
  BY <1>1, <1>2 DEF DecodeInv
<1>6. RulesOf(groups, 1, 1, rules)
  <2>1. DOMAIN rules = {} /\ \A g \in DOMAIN groups : ~Parsed(1, 1, g)
    BY <1>2, <1>5 DEF Parsed
  <2> QED BY <2>1 DEF RulesOf
<1>7. RegistryTypes'
  <2>1. Item' = Item /\ G!Rule' = G!Rule
    BY <1>1 DEF Item, G!Rule
  <2>2. G!TypeOK'
    BY <1>1, <1>2, <2>1 DEF RegistryTypes, G!TypeOK
  <2> QED BY <1>1, <2>1, <2>2 DEF RegistryTypes
<1>8. RulesInv'
  BY <1>1, <1>4, <1>5, <1>6 DEF RulesInv
<1> QED BY <1>1, <1>7, <1>8 DEF RegistryInv, ReadInv, DecodeInv

\* The place of the entry to parse, and the entry.
LEMMA ParseFacts ==
  ASSUME RegistryInv, G!ParseEntry
  PROVE  LET p == groups[segment] IN
         /\ segment \in DOMAIN groups /\ segment \in Nat \ {0} /\ p \in G!Groups
         /\ DOMAIN groups = 1..Len(groups) /\ Len(groups) \in Nat
         /\ Count(p) \in 1..3 /\ position \in 1..Count(p) /\ ~(size > MaxToken)
         /\ IsDecoded(groups, decoded[segment][position], segment, DecodedKey(p, position))
         /\ decoded[segment][position] \in Item
         /\ IF position < Count(p) THEN position' = position + 1 /\ segment' = segment
            ELSE position' = 1 /\ segment' = segment + 1
         /\ UNCHANGED <<groups, size, token, metaOf, disabledContainer, decoded>>
<1> DEFINE p == groups[segment]
<1>1. /\ phase = "parse" /\ G!More(decoded) /\ G!Advance(decoded)
      /\ UNCHANGED <<groups, size, token, metaOf, disabledContainer, decoded>>
  BY DEF G!ParseEntry
<1>2. /\ groups \in Seq(G!Groups) /\ position \in 1..4 /\ decoded \in [DOMAIN groups -> Seq(Item)]
  BY DEF RegistryInv, RegistryTypes, G!TypeOK
<1>3. segment \in DOMAIN groups /\ position \in DOMAIN decoded[segment]
  BY <1>1, <1>2 DEF G!More
<1>4. p \in G!Groups /\ segment \in Nat \ {0} /\ DOMAIN groups = 1..Len(groups) /\ Len(groups) \in Nat
  BY <1>2, <1>3
<1>5. ~(size > MaxToken)
  <2> SUFFICES ASSUME size > MaxToken PROVE FALSE
    OBVIOUS
  <2>1. Blank
    BY <1>1 DEF RegistryInv, RulesInv
  <2>2. decoded[segment] = <<>>
    BY <1>3, <2>1 DEF Blank
  <2> QED BY <1>3, <2>2
<1>6. Decoded(groups, decoded[segment], segment, Count(p))
  BY <1>1, <1>3, <1>5 DEF RegistryInv, RulesInv
<1>7. /\ DOMAIN decoded[segment] = 1..Count(p) /\ position \in 1..Count(p)
      /\ IsDecoded(groups, decoded[segment][position], segment, DecodedKey(p, position))
  BY <1>3, <1>6 DEF Decoded
<1>8. decoded[segment][position] \in Item
  BY <1>2, <1>3
<1>9. Count(p) \in 1..3
  BY <1>4, KeysFacts
<1>10. IF position < Count(p) THEN position' = position + 1 /\ segment' = segment
       ELSE position' = 1 /\ segment' = segment + 1
  <2>1. position + 1 \in DOMAIN decoded[segment] <=> position < Count(p)
    BY <1>2, <1>7, <1>9
  <2> QED BY <1>1, <2>1 DEF G!Advance
<1> HIDE DEF p
<1> QED BY <1>1, <1>3, <1>4, <1>5, <1>7, <1>8, <1>9, <1>10 DEF p

\* The step of the parser keeps the types.
LEMMA ParseTypes ==
  ASSUME RegistryInv, G!ParseEntry, rules' \in Seq(G!Rule), currentKey' \in 0..Len(groups),
         overrideEnabled' \in BOOLEAN, phase' \in {"parse", "failed"}
  PROVE  RegistryTypes'
<1>1. /\ segment \in DOMAIN groups /\ segment \in Nat \ {0} /\ DOMAIN groups = 1..Len(groups) /\ Len(groups) \in Nat
      /\ Count(groups[segment]) \in 1..3 /\ position \in 1..Count(groups[segment])
      /\ IF position < Count(groups[segment]) THEN position' = position + 1 /\ segment' = segment
         ELSE position' = 1 /\ segment' = segment + 1
      /\ UNCHANGED <<groups, size, token, metaOf, disabledContainer, decoded>>
  BY ParseFacts
<1>2. segment' \in 1..(Len(groups) + 1) /\ position' \in 1..4
  BY <1>1
<1>3. Item' = Item /\ G!Rule' = G!Rule
  BY <1>1 DEF Item, G!Rule
<1>4. G!TypeOK'
  BY <1>1, <1>2, <1>3 DEF RegistryInv, RegistryTypes, G!TypeOK
<1> QED BY <1>1, <1>3, <1>4 DEF RegistryInv, RegistryTypes

\* A rule stays the one of its group when the parser moves on, unless it passes the value of
\* this release.
LEMMA RuleKept ==
  ASSUME NEW gs, NEW seg, NEW pos, NEW seg2, NEW pos2, NEW rule,
         IsRule(gs, seg, pos, rule), Parsed(seg2, pos2, rule.group),
         \/ rule.group < seg <=> rule.group < seg2
         \/ ~gs[rule.group].flag \/ ~gs[rule.group].release \/ IsOff(gs, rule.group)
  PROVE  IsRule(gs, seg2, pos2, rule)
<1>1. IsOff(gs, rule.group) => KeyValue(gs, rule.group, "release") = BaseValue(gs, rule.group)
  BY DEF KeyValue
<1> QED BY <1>1, Zenon DEF IsRule

\* Rules stay right when the parser moves on without a change to the last one.
LEMMA RulesKept ==
  ASSUME NEW gs, NEW seg, NEW pos, NEW seg2, NEW pos2, NEW rs, RulesOf(gs, seg, pos, rs),
         \A g \in DOMAIN gs :
           /\ Parsed(seg, pos, g) =>
                /\ Parsed(seg2, pos2, g)
                /\ \/ g < seg <=> g < seg2
                   \/ ~gs[g].flag \/ ~gs[g].release \/ IsOff(gs, g)
           /\ Parsed(seg2, pos2, g) => Parsed(seg, pos, g) \/ gs[g].kind = "foreign"
  PROVE  RulesOf(gs, seg2, pos2, rs)
<1>1. ASSUME NEW n \in DOMAIN rs PROVE IsRule(gs, seg2, pos2, rs[n])
  <2>1. IsRule(gs, seg, pos, rs[n]) /\ rs[n].group \in DOMAIN gs /\ Parsed(seg, pos, rs[n].group)
    BY DEF RulesOf, IsRule
  <2> QED BY <2>1, RuleKept
<1> QED BY <1>1 DEF RulesOf

\* The first entry of a policy adds its rule.
LEMMA RulesAppended ==
  ASSUME NEW gs, NEW seg \in Nat, seg \in DOMAIN gs, DOMAIN gs \subseteq Nat, NEW T, NEW rs \in Seq(T),
         RulesOf(gs, seg, 1, rs), NEW rule \in T, rule.group = seg,
         NEW seg2, NEW pos2, (seg2 = seg /\ pos2 = 2) \/ (seg2 = seg + 1 /\ pos2 = 1),
         IsRule(gs, seg2, pos2, rule), gs[seg].kind = "bad" => gs[seg].state # "enabled"
  PROVE  RulesOf(gs, seg2, pos2, Append(rs, rule))
<1> DEFINE r == Append(rs, rule)
<1>1. /\ r \in Seq(T) /\ DOMAIN r = 1..(Len(rs) + 1) /\ DOMAIN rs = 1..Len(rs) /\ Len(rs) \in Nat
      /\ r[Len(rs) + 1] = rule /\ \A n \in DOMAIN rs : r[n] = rs[n]
  OBVIOUS
<1> HIDE DEF r
<1>2. \A n : n \in DOMAIN r <=> n \in DOMAIN rs \/ n = Len(rs) + 1
  BY <1>1
<1>3. \A g \in DOMAIN gs : /\ Parsed(seg, 1, g) <=> g < seg
                           /\ Parsed(seg2, pos2, g) <=> g < seg \/ g = seg
                           /\ g < seg => g < seg2
  BY DEF Parsed
<1>4. \A n \in DOMAIN rs : rs[n].group \in DOMAIN gs /\ rs[n].group < seg /\ IsRule(gs, seg2, pos2, rs[n])
  <2> SUFFICES ASSUME NEW n \in DOMAIN rs
               PROVE  rs[n].group \in DOMAIN gs /\ rs[n].group < seg /\ IsRule(gs, seg2, pos2, rs[n])
    OBVIOUS
  <2>1. IsRule(gs, seg, 1, rs[n]) /\ rs[n].group \in DOMAIN gs /\ Parsed(seg, 1, rs[n].group)
    BY DEF RulesOf, IsRule
  <2>2. rs[n].group < seg /\ rs[n].group < seg2 /\ Parsed(seg2, pos2, rs[n].group)
    BY <1>3, <2>1
  <2> QED BY <2>1, <2>2, RuleKept
<1>5. \A n \in DOMAIN r : IsRule(gs, seg2, pos2, r[n])
  BY <1>1, <1>2, <1>4
<1>6. ASSUME NEW m \in DOMAIN r, NEW n \in DOMAIN r, m < n PROVE r[m].group < r[n].group
  <2>1. m \in DOMAIN rs
    BY <1>1, <1>6
  <2>2. CASE n \in DOMAIN rs
    BY <1>1, <1>6, <2>1, <2>2 DEF RulesOf
  <2>3. CASE n = Len(rs) + 1
    BY <1>1, <1>4, <2>1, <2>3
  <2> QED BY <1>2, <2>2, <2>3
<1>7. ASSUME NEW g \in DOMAIN gs, Parsed(seg2, pos2, g)
      PROVE  /\ gs[g].kind = "bad" => gs[g].state # "enabled"
             /\ gs[g].kind # "foreign" => \E n \in DOMAIN r : r[n].group = g
  <2>1. CASE g < seg
    <3>1. /\ gs[g].kind = "bad" => gs[g].state # "enabled"
          /\ gs[g].kind # "foreign" => \E n \in DOMAIN rs : rs[n].group = g
      BY <1>3, <2>1 DEF RulesOf
    <3> QED BY <1>1, <1>2, <3>1
  <2>2. CASE g = seg
    BY <1>1, <1>2, <2>2
  <2> QED BY <1>3, <1>7, <2>1, <2>2
<1>8. RulesOf(gs, seg2, pos2, r)
  BY <1>5, <1>6, <1>7 DEF RulesOf
<1> QED BY <1>8 DEF r

\* The entry of this release changes the last rule, if its override is enabled.
LEMMA RulesReleased ==
  ASSUME NEW gs, NEW seg \in Nat, seg \in DOMAIN gs, DOMAIN gs \subseteq Nat, NEW pos, pos > 1,
         NEW rs \in Seq(G!Rule), RulesOf(gs, seg, pos, rs), rs # <<>>, rs[Len(rs)].group = seg,
         ~IsOff(gs, seg), gs[seg].flag, gs[seg].release
  PROVE  RulesOf(gs, seg + 1, 1, [rs EXCEPT ![Len(rs)].value = "release"])
<1> DEFINE l == Len(rs)
           r == [rs EXCEPT ![l].value = "release"]
<1>1. /\ l \in DOMAIN rs /\ DOMAIN rs = 1..l /\ l \in Nat /\ DOMAIN r = DOMAIN rs
      /\ \A n \in DOMAIN rs : n # l => r[n] = rs[n]
      /\ r[l].group = seg /\ r[l].disabled = rs[l].disabled /\ r[l].meta = rs[l].meta /\ r[l].value = "release"
  <2>1. l \in DOMAIN rs /\ DOMAIN rs = 1..l /\ l \in Nat
    OBVIOUS
  <2>2. rs[l] \in G!Rule
    BY <2>1
  <2> QED BY <2>1, <2>2 DEF G!Rule
<1> HIDE DEF r, l
<1>2. \A n \in DOMAIN rs : r[n].group = rs[n].group
  BY <1>1 DEF l
<1>3. \A g \in DOMAIN gs : /\ Parsed(seg, pos, g) <=> g < seg \/ g = seg
                           /\ Parsed(seg + 1, 1, g) <=> g < seg \/ g = seg
                           /\ g < seg => g < seg + 1
  BY DEF Parsed
<1>4. ASSUME NEW n \in DOMAIN r PROVE IsRule(gs, seg + 1, 1, r[n])
  <2>1. IsRule(gs, seg, pos, rs[n]) /\ rs[n].group \in DOMAIN gs /\ Parsed(seg, pos, rs[n].group)
    BY <1>1 DEF RulesOf, IsRule
  <2>2. CASE n # l
    <3>1. n < l
      BY <1>1, <2>2
    <3>2. rs[n].group < seg
      BY <1>1, <3>1 DEF RulesOf, l
    <3>3. Parsed(seg + 1, 1, rs[n].group) /\ (rs[n].group < seg <=> rs[n].group < seg + 1)
      BY <1>3, <2>1, <3>2
    <3>4. IsRule(gs, seg + 1, 1, rs[n])
      BY <2>1, <3>3, RuleKept
    <3> QED BY <1>1, <2>2, <3>4
  <2>3. CASE n = l
    <3>1. KeyValue(gs, seg, "release") = "release"
      BY DEF KeyValue
    <3>2. seg < seg + 1 /\ Parsed(seg + 1, 1, seg)
      BY <1>3
    <3>3. /\ rs[l].group = seg /\ gs[seg].kind # "foreign" /\ (rs[l].disabled <=> IsOff(gs, seg))
          /\ rs[l].meta = IF gs[seg].kind = "cert" THEN 0 ELSE seg
      BY <2>1, <2>3 DEF IsRule, l
    <3> QED BY <1>1, <2>3, <3>1, <3>2, <3>3 DEF IsRule
  <2> QED BY <2>2, <2>3
<1>5. \A m, n \in DOMAIN r : m < n => r[m].group < r[n].group
  BY <1>1, <1>2 DEF RulesOf
<1>6. \A g \in DOMAIN gs : Parsed(seg + 1, 1, g) =>
        /\ gs[g].kind = "bad" => gs[g].state # "enabled"
        /\ gs[g].kind # "foreign" => \E n \in DOMAIN r : r[n].group = g
  <2> SUFFICES ASSUME NEW g \in DOMAIN gs, Parsed(seg + 1, 1, g)
               PROVE  /\ gs[g].kind = "bad" => gs[g].state # "enabled"
                      /\ gs[g].kind # "foreign" => \E n \in DOMAIN r : r[n].group = g
    OBVIOUS
  <2>1. /\ gs[g].kind = "bad" => gs[g].state # "enabled"
        /\ gs[g].kind # "foreign" => \E n \in DOMAIN rs : rs[n].group = g
    BY <1>3 DEF RulesOf
  <2> QED BY <1>1, <1>2, <2>1
<1>7. RulesOf(gs, seg + 1, 1, r)
  BY <1>4, <1>5, <1>6 DEF RulesOf
<1> QED BY <1>7 DEF r, l

\* One step per branch of the loop of parseGPO.
LEMMA ParseKeeps ==
  ASSUME RegistryInv, G!ParseEntry
  PROVE  RegistryInv'
<1> DEFINE p == groups[segment]
           e == decoded[segment][position]
           k == DecodedKey(p, position)
<1>1. /\ segment \in DOMAIN groups /\ segment \in Nat \ {0} /\ p \in G!Groups
      /\ DOMAIN groups = 1..Len(groups) /\ Len(groups) \in Nat
      /\ Count(p) \in 1..3 /\ position \in 1..Count(p) /\ ~(size > MaxToken)
      /\ IsDecoded(groups, e, segment, k) /\ e \in Item
      /\ IF position < Count(p) THEN position' = position + 1 /\ segment' = segment
         ELSE position' = 1 /\ segment' = segment + 1
      /\ UNCHANGED <<groups, size, token, metaOf, disabledContainer, decoded>>
  BY ParseFacts
<1>2. /\ \A g \in DOMAIN groups : Decoded(groups, decoded[g], g, Count(groups[g]))
      /\ RulesOf(groups, segment, position, rules)
      /\ position > 1 =>
           /\ currentKey = segment /\ rules # <<>> /\ rules[Len(rules)].group = segment
           /\ overrideEnabled <=> position > 2 /\ ~IsOff(groups, segment)
      /\ phase = "parse"
  BY <1>1 DEF RegistryInv, RulesInv, G!ParseEntry
<1>3. /\ rules \in Seq(G!Rule) /\ currentKey \in 0..Len(groups) /\ overrideEnabled \in BOOLEAN
  BY DEF RegistryInv, RegistryTypes, G!TypeOK
<1>4. /\ p.kind \in {"container", "basic", "bad", "cert", "foreign"}
      /\ p.flag \in BOOLEAN /\ p.release \in BOOLEAN
      /\ p.kind # "container" => ~p.flag /\ ~p.release
      /\ p.kind = "cert" => p.state = "enabled"
  BY <1>1, GroupFacts
<1>5. /\ e.group = segment /\ e.key = k /\ (e.disabled <=> IsOff(groups, segment))
      /\ e.meta = IF k \in {"all", "override", "release"} THEN segment ELSE 0
      /\ e.err <=> ~IsOff(groups, segment) /\ p.kind = "bad"
      /\ ~e.err => e.value = KeyValue(groups, segment, k)
      /\ e.value \in Values /\ e.disabled \in BOOLEAN /\ e.meta \in 0..Len(groups)
  BY <1>1 DEF IsDecoded, Item
<1>6. ASSUME rules' \in Seq(G!Rule), currentKey' \in 0..Len(groups), overrideEnabled' \in BOOLEAN,
             phase' = "parse", RulesOf(groups, segment', position', rules'),
             position < Count(p) =>
               /\ currentKey' = segment /\ rules' # <<>> /\ rules'[Len(rules')].group = segment
               /\ overrideEnabled' <=> position + 1 > 2 /\ ~IsOff(groups, segment)
      PROVE  RegistryInv'
  <2>1. RegistryTypes'
    BY <1>6, ParseTypes
  <2>2. CASE position < Count(p)
    <3>1. position' = position + 1 /\ segment' = segment /\ position' <= Count(p)
      BY <1>1, <2>2
    <3>2. RulesInv'
      BY <1>1, <1>2, <1>6, <2>2, <3>1 DEF RulesInv
    <3> QED BY <1>6, <2>1, <3>2 DEF RegistryInv, ReadInv, DecodeInv
  <2>3. CASE ~(position < Count(p))
    <3>1. position' = 1
      BY <1>1, <2>3
    <3>2. RulesInv'
      BY <1>1, <1>2, <1>6, <3>1 DEF RulesInv
    <3> QED BY <1>6, <2>1, <3>2 DEF RegistryInv, ReadInv, DecodeInv
  <2> QED BY <2>2, <2>3
<1>7. \/ e.key = "other" /\ UNCHANGED <<phase, currentKey, overrideEnabled, rules>>
      \/ /\ e.key # "other" /\ e.err
         /\ phase' = "failed" /\ UNCHANGED <<currentKey, overrideEnabled, rules>>
      \/ /\ e.key \in {"all", "cert"} /\ ~e.err
         /\ currentKey' = e.group /\ overrideEnabled' = G!OverrideOff
         /\ rules' = Append(rules, [group |-> e.group, value |-> e.value, disabled |-> e.disabled, meta |-> e.meta])
         /\ UNCHANGED phase
      \/ /\ e.key = "override" /\ ~e.err
         /\ overrideEnabled' = (overrideEnabled \/ (currentKey = e.group /\ e.value = "true"))
         /\ UNCHANGED <<phase, currentKey, rules>>
      \/ /\ e.key = "release" /\ ~e.err
         /\ rules' = IF currentKey = e.group /\ overrideEnabled
                     THEN [rules EXCEPT ![Len(rules)].value = e.value] ELSE rules
         /\ UNCHANGED <<phase, currentKey, overrideEnabled>>
  BY DEF G!ParseEntry
<1>8. Count(p) = 1 + (IF p.flag THEN 1 ELSE 0) + (IF p.release THEN 1 ELSE 0)
  BY DEF Count
<1>9. /\ k \in {"all", "cert", "other"} <=> position = 1
      /\ k = "other" <=> position = 1 /\ p.kind = "foreign"
      /\ k = "cert" <=> position = 1 /\ p.kind = "cert"
      /\ k = "override" => position = 2 /\ p.flag
      /\ k = "release" => position > 1 /\ position = Count(p) /\ p.release /\ (position > 2 <=> p.flag)
  BY <1>1, <1>4, <1>8 DEF DecodedKey
<1> HIDE DEF p, e, k
<1>10. \A g \in DOMAIN groups :
         /\ g < segment => g < segment + 1
         /\ g < segment + 1 <=> g < segment \/ g = segment
         /\ Parsed(segment + 1, 1, g) <=> g < segment \/ g = segment
         /\ position > 1 => (Parsed(segment, position, g) <=> g < segment \/ g = segment)
         /\ position = 1 => (Parsed(segment, position, g) <=> g < segment)
         /\ position > 1 => (Parsed(segment, position + 1, g) <=> g < segment \/ g = segment)
  BY <1>1 DEF Parsed
<1>11. CASE e.key = "other" /\ UNCHANGED <<phase, currentKey, overrideEnabled, rules>>
  <2>1. position = 1 /\ p.kind = "foreign" /\ Count(p) = 1
    BY <1>1, <1>4, <1>5, <1>8, <1>9, <1>11
  <2>2. segment' = segment + 1 /\ position' = 1
    BY <1>1, <2>1
  <2>3. \A g \in DOMAIN groups :
          /\ Parsed(segment, position, g) =>
               /\ Parsed(segment + 1, 1, g)
               /\ \/ g < segment <=> g < segment + 1
                  \/ ~groups[g].flag \/ ~groups[g].release \/ IsOff(groups, g)
          /\ Parsed(segment + 1, 1, g) => Parsed(segment, position, g) \/ groups[g].kind = "foreign"
    BY <1>10, <2>1 DEF p
  <2>4. RulesOf(groups, segment', position', rules')
    BY <1>2, <1>11, <2>2, <2>3, RulesKept
  <2>5. ~(position < Count(p))
    BY <2>1
  <2> QED BY <1>2, <1>3, <1>6, <1>11, <2>4, <2>5
<1>12. CASE /\ e.key # "other" /\ e.err
            /\ phase' = "failed" /\ UNCHANGED <<currentKey, overrideEnabled, rules>>
  <2>1. RegistryTypes'
    BY <1>3, <1>12, ParseTypes
  <2>2. groups[segment].kind = "bad" /\ groups[segment].state = "enabled"
    BY <1>5, <1>12 DEF IsOff, p
  <2>3. G!Fails'
    BY <1>1, <2>2 DEF G!Fails
  <2> QED BY <1>12, <2>1, <2>3 DEF RegistryInv, ReadInv, DecodeInv, RulesInv
<1>13. CASE /\ e.key \in {"all", "cert"} /\ ~e.err
            /\ currentKey' = e.group /\ overrideEnabled' = G!OverrideOff
            /\ rules' = Append(rules, [group |-> e.group, value |-> e.value, disabled |-> e.disabled, meta |-> e.meta])
            /\ UNCHANGED phase
  <2> DEFINE rule == [group |-> e.group, value |-> e.value, disabled |-> e.disabled, meta |-> e.meta]
  <2>1. /\ position = 1 /\ k \in {"all", "cert"} /\ p.kind # "foreign" /\ (p.kind = "cert" <=> k = "cert")
    BY <1>5, <1>9, <1>13
  <2>2. rule \in G!Rule /\ rule.group = segment
    BY <1>1, <1>5 DEF G!Rule, Values
  <2>3. rules' \in Seq(G!Rule) /\ rules' # <<>> /\ rules'[Len(rules')] = rule
    BY <1>3, <1>13, <2>2
  <2>4. /\ rule.value = BaseValue(groups, segment) /\ (rule.disabled <=> IsOff(groups, segment))
        /\ rule.meta = IF p.kind = "cert" THEN 0 ELSE segment
    BY <1>5, <1>13, <2>1 DEF KeyValue
  <2>5. p.kind = "bad" => p.state # "enabled"
    BY <1>5, <1>13 DEF IsOff, p
  <2> HIDE DEF rule
  <2>6. ASSUME NEW seg2, NEW pos2, (seg2 = segment /\ pos2 = 2) \/ (seg2 = segment + 1 /\ pos2 = 1),
               seg2 = segment + 1 => ~p.flag /\ ~p.release
        PROVE  RulesOf(groups, seg2, pos2, Append(rules, rule))
    <3>1. Parsed(seg2, pos2, segment) /\ (segment < seg2 => seg2 = segment + 1)
      BY <1>1, <2>6 DEF Parsed
    <3>2. IsRule(groups, seg2, pos2, rule)
      BY <1>1, <2>1, <2>2, <2>4, <2>6, <3>1 DEF IsRule, p
    <3>3. DOMAIN groups \subseteq Nat /\ segment \in Nat
      BY <1>1
    <3> QED BY <1>1, <1>2, <1>3, <2>1, <2>2, <2>5, <2>6, <3>2, <3>3, RulesAppended DEF p
  <2>7. (segment' = segment /\ position' = 2) \/ (segment' = segment + 1 /\ position' = 1)
    BY <1>1, <2>1
  <2>8. segment' = segment + 1 => ~p.flag /\ ~p.release
    BY <1>1, <1>4, <1>8, <2>1
  <2>9. RulesOf(groups, segment', position', rules')
    BY <1>13, <2>6, <2>7, <2>8 DEF rule
  <2>10. overrideEnabled' = FALSE /\ currentKey' = segment /\ phase' = "parse"
    BY <1>2, <1>5, <1>13 DEF G!OverrideOff
  <2>11. overrideEnabled' \in BOOLEAN
    BY <2>10, Zenon
  <2>12. currentKey' \in 0..Len(groups) /\ ~(position + 1 > 2)
    BY <1>1, <2>1, <2>10
  <2>13. rules'[Len(rules')].group = segment
    BY <2>2, <2>3
  <2> QED BY <1>6, <2>3, <2>9, <2>10, <2>11, <2>12, <2>13
<1>14. CASE /\ e.key = "override" /\ ~e.err
            /\ overrideEnabled' = (overrideEnabled \/ (currentKey = e.group /\ e.value = "true"))
            /\ UNCHANGED <<phase, currentKey, rules>>
  <2>1. position = 2 /\ p.flag /\ k = "override" /\ position > 1 /\ ~(position > 2)
    BY <1>5, <1>9, <1>14
  <2>2. e.value = "true" <=> ~IsOff(groups, segment)
    BY <1>5, <1>14, <2>1 DEF KeyValue, BaseValue
  <2>3. overrideEnabled' <=> position + 1 > 2 /\ ~IsOff(groups, segment)
    <3>1. ~overrideEnabled /\ currentKey = e.group
      BY <1>2, <1>5, <2>1
    <3>2. position + 1 > 2
      BY <2>1
    <3>3. overrideEnabled' <=> overrideEnabled \/ (currentKey = e.group /\ e.value = "true")
      BY <1>14
    <3> QED BY <2>2, <3>1, <3>2, <3>3
  <2>4. overrideEnabled' \in BOOLEAN
    BY <1>14, Zenon
  <2>5. RulesOf(groups, segment', position', rules')
    <3>1. CASE position < Count(p)
      <4>1. position' = position + 1 /\ segment' = segment
        BY <1>1, <3>1
      <4>2. \A g \in DOMAIN groups :
              /\ Parsed(segment, position, g) =>
                   /\ Parsed(segment, position + 1, g)
                   /\ \/ g < segment <=> g < segment
                      \/ ~groups[g].flag \/ ~groups[g].release \/ IsOff(groups, g)
              /\ Parsed(segment, position + 1, g) => Parsed(segment, position, g) \/ groups[g].kind = "foreign"
        BY <1>10, <2>1
      <4> QED BY <1>2, <1>14, <4>1, <4>2, RulesKept
    <3>2. CASE ~(position < Count(p))
      <4>1. position' = 1 /\ segment' = segment + 1 /\ ~p.release
        BY <1>1, <1>4, <1>8, <2>1, <3>2
      <4>2. \A g \in DOMAIN groups :
              /\ Parsed(segment, position, g) =>
                   /\ Parsed(segment + 1, 1, g)
                   /\ \/ g < segment <=> g < segment + 1
                      \/ ~groups[g].flag \/ ~groups[g].release \/ IsOff(groups, g)
              /\ Parsed(segment + 1, 1, g) => Parsed(segment, position, g) \/ groups[g].kind = "foreign"
        BY <1>10, <2>1, <4>1 DEF p
      <4> QED BY <1>2, <1>14, <4>1, <4>2, RulesKept
    <3> QED BY <3>1, <3>2
  <2> QED BY <1>2, <1>3, <1>6, <1>14, <2>1, <2>3, <2>4, <2>5
<1>15. CASE /\ e.key = "release" /\ ~e.err
            /\ rules' = IF currentKey = e.group /\ overrideEnabled
                        THEN [rules EXCEPT ![Len(rules)].value = e.value] ELSE rules
            /\ UNCHANGED <<phase, currentKey, overrideEnabled>>
  <2>1. /\ k = "release" /\ position > 1 /\ position = Count(p) /\ p.release /\ (position > 2 <=> p.flag)
        /\ ~(position < Count(p)) /\ segment' = segment + 1 /\ position' = 1
    BY <1>1, <1>5, <1>9, <1>15
  <2>2. /\ currentKey = segment /\ rules # <<>> /\ rules[Len(rules)].group = segment
        /\ overrideEnabled <=> p.flag /\ ~IsOff(groups, segment)
    BY <1>2, <2>1
  <2>3. RulesOf(groups, segment', position', rules') /\ rules' \in Seq(G!Rule)
    <3>1. CASE overrideEnabled
      <4>1. e.value = "release"
        BY <1>5, <1>15, <2>1, <2>2, <3>1 DEF KeyValue
      <4>2. rules' = [rules EXCEPT ![Len(rules)].value = "release"]
        BY <1>5, <1>15, <2>2, <3>1, <4>1
      <4>3. DOMAIN groups \subseteq Nat /\ segment \in Nat
        BY <1>1
      <4>4. RulesOf(groups, segment + 1, 1, [rules EXCEPT ![Len(rules)].value = "release"])
        BY <1>1, <1>2, <1>3, <2>1, <2>2, <3>1, <4>3, RulesReleased DEF p
      <4>5. [rules EXCEPT ![Len(rules)].value = "release"] \in Seq(G!Rule)
        <5>1. Len(rules) \in DOMAIN rules /\ rules[Len(rules)] \in G!Rule
          BY <1>3, <2>2
        <5>2. [rules[Len(rules)] EXCEPT !.value = "release"] \in G!Rule
          BY <5>1 DEF G!Rule
        <5> QED BY <1>3, <5>1, <5>2
      <4> QED BY <2>1, <4>2, <4>4, <4>5
    <3>2. CASE ~overrideEnabled
      <4>1. rules' = rules
        BY <1>15, <3>2
      <4>2. \A g \in DOMAIN groups :
              /\ Parsed(segment, position, g) =>
                   /\ Parsed(segment + 1, 1, g)
                   /\ \/ g < segment <=> g < segment + 1
                      \/ ~groups[g].flag \/ ~groups[g].release \/ IsOff(groups, g)
              /\ Parsed(segment + 1, 1, g) => Parsed(segment, position, g) \/ groups[g].kind = "foreign"
        BY <1>10, <2>1, <2>2, <3>2 DEF p
      <4> QED BY <1>2, <1>3, <2>1, <4>1, <4>2, RulesKept
    <3> QED BY <3>1, <3>2
  <2> QED BY <1>2, <1>3, <1>6, <1>15, <2>1, <2>3
<1> QED BY <1>7, <1>11, <1>12, <1>13, <1>14, <1>15

\* At the end of the entries every policy is parsed.
LEMMA ParseEndKeeps ==
  ASSUME RegistryInv, G!ParseEnd
  PROVE  RegistryInv'
<1>1. /\ phase = "parse" /\ ~G!More(decoded) /\ phase' = "done" /\ RegistryTypes /\ RulesInv
      /\ UNCHANGED <<groups, size, token, segment, position, metaOf, disabledContainer, decoded, currentKey,
                     overrideEnabled, rules>>
  BY DEF G!ParseEnd, RegistryInv
<1>2. /\ groups \in Seq(G!Groups) /\ Len(groups) \in Nat /\ DOMAIN groups = 1..Len(groups)
      /\ segment \in 1..(Len(groups) + 1) /\ position \in 1..4 /\ DOMAIN decoded = DOMAIN groups
  BY <1>1 DEF RegistryTypes, G!TypeOK
<1>3. RegistryTypes'
  <2>1. Item' = Item /\ G!Rule' = G!Rule
    BY <1>1 DEF Item, G!Rule
  <2>2. G!TypeOK'
    BY <1>1, <2>1 DEF RegistryTypes, G!TypeOK
  <2> QED BY <1>1, <2>1, <2>2 DEF RegistryTypes
<1>4. RulesInv'
  <2>1. CASE size > MaxToken
    BY <1>1, <2>1 DEF RulesInv, Blank
  <2>2. CASE ~(size > MaxToken)
    <3>1. segment = Len(groups) + 1
      <4> SUFFICES ASSUME segment \in DOMAIN groups PROVE FALSE
        BY <1>2
      <4>1. groups[segment] \in G!Groups
        BY <1>2
      <4>2. Count(groups[segment]) \in 1..3
        BY <4>1, KeysFacts
      <4>3. DOMAIN decoded[segment] = 1..Count(groups[segment])
        BY <1>1, <2>2 DEF RulesInv, Decoded
      <4>4. position \in DOMAIN decoded[segment]
        BY <1>1, <1>2, <2>2, <4>2, <4>3 DEF RulesInv
      <4> QED BY <1>1, <1>2, <4>4 DEF G!More
    <3> QED BY <1>1, <2>2, <3>1 DEF RulesInv
  <2> QED BY <2>1, <2>2
<1> QED BY <1>1, <1>3, <1>4 DEF RegistryInv, ReadInv, DecodeInv

\* Every step of the client keeps the invariant of the registry file.
LEMMA RegistryNext == RegistryInv /\ [ADNext]_allVars => RegistryInv'
<1> SUFFICES ASSUME RegistryInv, [ADNext]_allVars PROVE RegistryInv'
  OBVIOUS
<1>1. G!Next \/ UNCHANGED polVars
  BY DEF ADNext, StepAD, StepKrb5, StepRegistry, StepMerge, allVars
<1>2. CASE G!Next
  BY <1>2, ReadKeeps, DecodeKeeps, DecodeEndKeeps, ParseKeeps, ParseEndKeeps DEF G!Next
<1>3. CASE UNCHANGED polVars
  <2>1. UNCHANGED <<groups, size, phase, token, segment, position, metaOf, disabledContainer, decoded, currentKey,
                    overrideEnabled, rules>>
    BY <1>3 DEF polVars
  <2>2. Item' = Item /\ G!Rule' = G!Rule /\ (G!Fails' <=> G!Fails)
    BY <2>1 DEF Item, G!Rule, G!Fails
  <2>3. RegistryTypes'
    <3>1. G!TypeOK'
      BY <2>1, <2>2 DEF RegistryInv, RegistryTypes, G!TypeOK
    <3> QED BY <2>1, <2>2, <3>1 DEF RegistryInv, RegistryTypes
  <2>4. ReadInv' /\ DecodeInv' /\ RulesInv'
    BY <2>1 DEF RegistryInv, ReadInv, DecodeInv, RulesInv, Blank
  <2> QED BY <2>1, <2>2, <2>3, <2>4 DEF RegistryInv
<1> QED BY <1>1, <1>2, <1>3

\* DecodePolicy and parseGPO: for any number of policies in a file and any order of them, a
\* GPO yields one rule for each of its policies, in order, with the value of this release,
\* the state and the meta data of that policy and of none of its neighbours, save the
\* certificate key, which a disabled container before it disables; an unsupported value of
\* an enabled policy fails the GPO, and a file with an entry that fits no buffer is empty.
THEOREM RegistrySoundness == ADSpec => []RulesAreMeant
<1>1. RegistryInv => RulesAreMeant
  <2> SUFFICES ASSUME RegistryInv PROVE G!TypeOK /\ G!RulesAreMeant
    BY DEF RulesAreMeant
  <2>1. G!TypeOK /\ (phase = "failed" => G!Fails) /\ groups \in Seq(G!Groups)
    BY DEF RegistryInv, RegistryTypes
  <2>2. ASSUME phase = "done", size > MaxToken PROVE rules = <<>>
    BY <2>2 DEF RegistryInv, RulesInv, Blank
  <2>3. ASSUME phase = "done", ~(size > MaxToken)
        PROVE  /\ ~G!Fails
               /\ {rules[n].group : n \in DOMAIN rules} = {g \in DOMAIN groups : groups[g].kind # "foreign"}
               /\ \A m, n \in DOMAIN rules : m < n => rules[m].group < rules[n].group
               /\ \A n \in DOMAIN rules : G!IsMeant(rules[n])
    <3>1. RulesOf(groups, segment, position, rules) /\ segment = Len(groups) + 1
      BY <2>3 DEF RegistryInv, RulesInv
    <3>2. \A g \in DOMAIN groups : Parsed(segment, position, g) /\ g < segment
      BY <2>1, <3>1 DEF Parsed
    <3>3. ~G!Fails
      BY <3>1, <3>2 DEF RulesOf, G!Fails
    <3>4. \A g : (\E n \in DOMAIN rules : rules[n].group = g) <=> g \in DOMAIN groups /\ groups[g].kind # "foreign"
      BY <3>1, <3>2 DEF RulesOf, IsRule
    <3>5. {rules[n].group : n \in DOMAIN rules} = {g \in DOMAIN groups : groups[g].kind # "foreign"}
      BY <3>4
    <3>6. ASSUME NEW n \in DOMAIN rules PROVE G!IsMeant(rules[n])
      <4> DEFINE rule == rules[n]
                 g == rule.group
      <4>1. IsRule(groups, segment, position, rule)
        BY <3>1 DEF RulesOf
      <4>2. /\ g \in DOMAIN groups /\ g < segment /\ (rule.disabled <=> IsOff(groups, g))
            /\ rule.meta = IF groups[g].kind = "cert" THEN 0 ELSE g
            /\ rule.value = IF groups[g].flag /\ groups[g].release THEN KeyValue(groups, g, "release")
                            ELSE BaseValue(groups, g)
        BY <3>2, <4>1 DEF IsRule
      <4>3. G!Off(g) <=> IsOff(groups, g)
        BY OffFacts
      <4>4. rule.disabled \in BOOLEAN /\ G!Off(g) \in BOOLEAN
        <5>1. rules \in Seq(G!Rule)
          BY <2>1 DEF G!TypeOK
        <5>2. rules[n] \in G!Rule
          BY <5>1
        <5>3. rule.disabled \in BOOLEAN
          BY <5>2 DEF G!Rule
        <5>4. G!Off(g) \in BOOLEAN
          BY Zenon DEF G!Off
        <5> QED BY <5>3, <5>4
      <4>5. rule.disabled = G!Off(g)
        BY <4>2, <4>3, <4>4
      <4>6. rule.value = IF G!Off(g) THEN "empty" ELSE IF groups[g].flag /\ groups[g].release THEN "release"
                         ELSE IF groups[g].empty THEN "default" ELSE "all"
        BY <4>2, <4>3 DEF KeyValue, BaseValue
      <4> QED BY <4>2, <4>5, <4>6 DEF G!IsMeant
    <3> QED BY <3>1, <3>3, <3>5, <3>6 DEF RulesOf
  <2> QED BY <2>1, <2>2, <2>3 DEF G!RulesAreMeant
<1> QED
  BY <1>1, RegistryInit, RegistryNext, PTL DEF ADSpec
=============================================================================
