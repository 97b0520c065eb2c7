------------------------------ MODULE ADClient ------------------------------
(***************************************************************************)
(* From AD to the rules that managers apply: GetPolicies and its cache     *)
(* (AD), the ticket it works with (Krb5Cache), the parsing of a GPO        *)
(* (Registry) and the merge of the rules of several (UniqueRules).  The    *)
(* four share no variable: focus is the one that moves, and their state    *)
(* spaces add up.                                                          *)
(***************************************************************************)
EXTENDS AD

CONSTANTS
  Paths, NoPath, MaxClock, MaxGroups, MaxToken, Types, Keys, MaxEntries

ASSUME ClockAssumption == MaxClock \in Nat

ASSUME RegistryAssumption == MaxToken \in Nat

\* The keys of the rules are numbered in their order.
ASSUME MergeAssumption == MaxEntries \in Nat /\ Keys \subseteq Nat

VARIABLES
  focus,
  clock, ticket, link, copy, krbLock, content, krbPc, src, used, pointed, switched, raced,
  groups, size, phase, token, segment, position, metaOf, disabledContainer, decoded, currentKey,
  overrideEnabled, rules,
  entries, visited, dedup, keys, seen, result

K == INSTANCE Krb5Cache WITH lock <- krbLock, pc <- krbPc
G == INSTANCE Registry WITH i <- position
U == INSTANCE UniqueRules WITH i <- visited

krbVars == <<clock, ticket, link, copy, krbLock, content, krbPc, src, used, pointed, switched, raced>>
polVars == <<groups, size, phase, token, segment, position, metaOf, disabledContainer, decoded, currentKey,
             overrideEnabled, rules>>
mergeVars == <<entries, visited, dedup, keys, seen, result>>
allVars == <<focus, vars, krbVars, polVars, mergeVars>>

ADInit ==
  /\ focus \in {"ad", "krb5", "registry", "merge"}
  /\ Init /\ K!Init
  /\ IF focus = "registry" THEN G!Init
     ELSE /\ groups = <<>> /\ size = 0 /\ phase = "done" /\ token = 0 /\ segment = 1 /\ position = 1
          /\ metaOf = 0 /\ disabledContainer = FALSE /\ decoded = <<>> /\ currentKey = 0
          /\ overrideEnabled = FALSE /\ rules = <<>>
  /\ IF focus = "merge" THEN U!Init
     ELSE /\ entries = <<>> /\ visited = 0 /\ dedup = <<>> /\ keys = [t \in Types |-> <<>>]
          /\ seen = {} /\ result = <<>>

StepAD == focus = "ad" /\ Next /\ UNCHANGED <<focus, krbVars, polVars, mergeVars>>
StepKrb5 == focus = "krb5" /\ K!Next /\ UNCHANGED <<focus, vars, polVars, mergeVars>>
StepRegistry == focus = "registry" /\ G!Next /\ UNCHANGED <<focus, vars, krbVars, mergeVars>>
StepMerge == focus = "merge" /\ U!Next /\ UNCHANGED <<focus, vars, krbVars, polVars>>

ADNext == StepAD \/ StepKrb5 \/ StepRegistry \/ StepMerge
ADSpec == ADInit /\ [][ADNext]_allVars

----------------------------------------------------------------------------
(* ad.go, download.go: the locks never deadlock, some call can always go on, and the      *)
(* state of GetPolicies and of the tickets has its type.                                  *)
LocksAreSound == TypeOK /\ K!TypeOK /\ CallsCanProceed

(* ad.go: a call works with the ticket its symlink points to, unless it was moved or  *)
(* renewed while the copy was made.                                                   *)
CopyIsCurrentUndisturbed == K!CopyIsCurrentUndisturbed

(* registry.go, parseGPO: a GPO yields the rules its administrator meant, and the     *)
(* state of the parser has its type.                                                  *)
RulesAreMeant == G!TypeOK /\ G!RulesAreMeant

(* policies.go: the merge of the GPOs keeps, for every key, the reference value, and  *)
(* returns each key once, in order.                                                   *)
MergeIsReference == U!LoopKeepsReference /\ U!RulesAreOrderedOnce
=============================================================================
