---------------------------- MODULE UniqueRules ----------------------------
(***************************************************************************)
(* Policies.GetUniqueRules: the loop that merges the entries of the GPOs   *)
(* of an object, closest GPO first, against a definition of the result.    *)
(* The input is the sequence of entries in an order in which the nested    *)
(* loops may visit them.  Keys are numbers, in their sort order; a value   *)
(* is the sequence of the positions of the entries joined in it.           *)
(***************************************************************************)
EXTENDS Naturals, Sequences, Functions

CONSTANTS
  Types,      \* the types of rules: dconf, scripts...
  Keys,       \* the keys of the entries
  MaxEntries  \* bound: entries in all the GPOs

VARIABLES
  entries, \* the input
  i,       \* entries visited so far
  dedup,   \* the entry kept for each type and key seen
  keys,    \* the keys of each type, in the order they were met
  seen,    \* the set of type + key
  result   \* the returned map, once it is built

vars == <<entries, i, dedup, keys, seen, result>>

Input == [type : Types, key : Keys, append : BOOLEAN, disabled : BOOLEAN]

\* An entry of the input with its value and its meta.
Entry(n) == [key |-> entries[n].key, append |-> entries[n].append,
             disabled |-> entries[n].disabled, value |-> <<n>>, meta |-> n]

Init ==
  /\ \E n \in 0..MaxEntries : entries \in [1..n -> Input]
  /\ i = 0 /\ dedup = << >> /\ keys = [t \in Types |-> << >>] /\ seen = {}
  /\ result = << >>

\* Mutant: the further value is put after the closer one.
JoinAfter(e, old) == [e EXCEPT !.value = old.value \o @, !.meta = old.meta]

\* The further value is listed before the closer one, whose meta is kept.
Join(e, old) == [e EXCEPT !.value = @ \o old.value, !.meta = old.meta]

Keep(t, e) ==
  dedup' = [tk \in DOMAIN dedup \cup {<<t, e.key>>} |-> IF tk = <<t, e.key>> THEN e ELSE dedup[tk]]
See(t, e) ==
  /\ seen' = seen \cup {<<t, e.key>>}
  /\ keys' = [keys EXCEPT ![t] = Append(@, e.key)]

\* Mutant: a joined key is met again.
VisitAppendTwice(t, e) ==
  IF e.disabled \/ (<<t, e.key>> \in seen /\ ~dedup[<<t, e.key>>].append)
  THEN UNCHANGED <<dedup, seen, keys>>
  ELSE /\ Keep(t, IF <<t, e.key>> \in seen THEN Join(e, dedup[<<t, e.key>>]) ELSE e)
       /\ See(t, e)

\* Strategy append: disabled entries are skipped, and so is what a closer entry
\* overrides.
VisitAppend(t, e) ==
  IF e.disabled \/ (<<t, e.key>> \in seen /\ ~dedup[<<t, e.key>>].append)
  THEN UNCHANGED <<dedup, seen, keys>>
  ELSE IF <<t, e.key>> \in seen
       THEN Keep(t, Join(e, dedup[<<t, e.key>>])) /\ UNCHANGED <<seen, keys>>
       ELSE Keep(t, e) /\ See(t, e)

\* Any other strategy: the closest entry wins.
VisitOverride(t, e) ==
  IF <<t, e.key>> \in seen THEN UNCHANGED <<dedup, seen, keys>> ELSE Keep(t, e) /\ See(t, e)

Visit ==
  /\ i < Len(entries) /\ i' = i + 1
  /\ LET t == entries[i'].type
         e == Entry(i')
     IN IF e.append THEN VisitAppend(t, e) ELSE VisitOverride(t, e)
  /\ UNCHANGED <<entries, result>>

\* sort.Strings: the sequence permuted into ascending order.
Sortings(s) ==
  {r \in {[n \in DOMAIN s |-> s[p[n]]] : p \in Bijection(DOMAIN s, DOMAIN s)} :
     \A m, n \in DOMAIN s : m < n => r[m] <= r[n]}

\* The entries of each type, by ascending key.
Order ==
  /\ i = Len(entries) /\ result = << >>
  /\ \E sorted \in [Types -> UNION {Sortings(keys[t]) : t \in Types}] :
       /\ \A t \in Types : sorted[t] \in Sortings(keys[t])
       /\ result' = [t \in Types |-> [n \in DOMAIN sorted[t] |-> dedup[<<t, sorted[t][n]>>]]]
  /\ UNCHANGED <<entries, i, dedup, keys, seen>>

Next == Visit \/ Order
Spec == Init /\ [][Next]_vars

-----------------------------------------------------------------------------
(* The reference: what is kept for a type and key of the first n entries. *)

Matching(n, t, k) ==
  {j \in 1..n : /\ entries[j].type = t /\ entries[j].key = k
                /\ ~(entries[j].append /\ entries[j].disabled)}

\* The closest entry decides: if it overrides it stands alone, if it appends
\* all appended values are listed once, furthest first.
IsReference(e, n, t, k) ==
  \E first \in Matching(n, t, k) :
    /\ \A j \in Matching(n, t, k) : first <= j
    /\ e.key = k /\ e.append = entries[first].append /\ e.disabled = entries[first].disabled
    /\ e.meta = first
    /\ IF entries[first].append
       THEN /\ e.value \in Seq(1..n) /\ \A a, b \in DOMAIN e.value : a < b => e.value[a] > e.value[b]
            /\ {e.value[a] : a \in DOMAIN e.value} = {j \in Matching(n, t, k) : entries[j].append}
       ELSE e.value = <<first>>

\* After each entry the loop has kept, for every type and key met, the reference
\* value of what it has visited, whatever mix of strategies and disabled entries
\* the GPOs hold.
LoopKeepsReference ==
  /\ DOMAIN dedup = {tk \in Types \X Keys : Matching(i, tk[1], tk[2]) # {}}
  /\ \A tk \in DOMAIN dedup : IsReference(dedup[tk], i, tk[1], tk[2])

\* The returned entries of a type are in strictly ascending order of their keys,
\* one for each key that is set, each the reference of its key.
RulesAreOrderedOnce ==
  result # << >> => \A t \in Types :
    /\ \A n \in DOMAIN result[t] : n > 1 => result[t][n - 1].key < result[t][n].key
    /\ {result[t][n].key : n \in DOMAIN result[t]} = {k \in Keys : Matching(i, t, k) # {}}
    /\ \A n \in DOMAIN result[t] : IsReference(result[t][n], i, t, result[t][n].key)
=============================================================================
