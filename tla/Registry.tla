------------------------------ MODULE Registry ------------------------------
(***************************************************************************)
(* From a Registry.pol file to the rules of a GPO: DecodePolicy            *)
(* (internal/ad/registry) and the loop of parseGPO (internal/ad).          *)
(*                                                                         *)
(* The file is flat.  The meta data of a policy is an entry of its own     *)
(* that precedes the entries of the policy, and what the decoder remembers *)
(* of it applies to all that follows until the next one.                   *)
(*                                                                         *)
(* The input is what the administrator set, one group of entries each:     *)
(*   container  metaValues, all, the override flag and value of a release  *)
(*   basic      a policy without a value                                   *)
(*   cert       the certificate key of Windows, which has no meta data     *)
(*   foreign    a policy of another vendor, with a metaValues of its own   *)
(*   bad        a container whose value has an unsupported type            *)
(* Values are "empty" (the empty string), "all", "release", "true" and     *)
(* "default".  A flat list of entries is kept in segments, one for each    *)
(* group; segment and i are the place of the entry to treat.               *)
(***************************************************************************)
EXTENDS Naturals, Sequences

CONSTANTS
  MaxGroups,  \* bound: policies in a file
  MaxToken    \* the largest entry the scanner takes, in doublings of its first buffer

VARIABLES
  groups, size,                   \* the input: the policies, the size of the largest entry
  phase, token,                   \* the stage, the size of the buffer
  segment, i,                     \* the entry to treat: its group, its place in it
  metaOf, disabledContainer,      \* what the decoder remembers
  decoded,                        \* entries
  currentKey, overrideEnabled,    \* what the parser remembers
  rules                           \* the rules of the GPO

vars == <<groups, size, phase, token, segment, i, metaOf, disabledContainer, decoded, currentKey,
          overrideEnabled, rules>>

Groups ==
  {p \in [kind : {"container", "basic", "cert", "foreign", "bad"},
          state : {"enabled", "deleted", "marked"},   \* marked: DISABLED in the meta data
          empty : BOOLEAN, flag : BOOLEAN, release : BOOLEAN] :
     /\ p.kind # "container" => p.empty = (p.kind \in {"basic", "bad"}) /\ ~p.flag /\ ~p.release
     /\ p.kind = "cert" => p.state = "enabled"
     /\ p.kind = "foreign" => p.state # "marked"}

\* The keys of the entries of a group, in order.
KeysOf(p) ==
  IF p.kind \in {"basic", "cert"} THEN <<p.kind>>
  ELSE IF p.kind = "foreign" THEN <<"metaValues", "other">>
  ELSE IF p.flag /\ p.release THEN <<"metaValues", "all", "override", "release">>
  ELSE IF p.flag THEN <<"metaValues", "all", "override">>
  ELSE IF p.release THEN <<"metaValues", "all", "release">> ELSE <<"metaValues", "all">>

\* An entry of group g.  Meta data and what deletes a policy are in its first one.
Raw(g, key) ==
  LET p == groups[g] IN
  [group |-> g, key |-> key,
   type |-> IF key = "cert" \/ (key = "metaValues" /\ p.kind = "foreign") THEN "dword"
            ELSE IF key = "all" /\ p.kind = "bad" THEN "binary" ELSE "sz",
   del |-> key \in {"metaValues", "basic"} /\ p.state = "deleted",
   value |-> IF key \in {"metaValues", "basic"} \/ (key = "all" /\ p.empty) THEN "empty"
             ELSE IF key = "override" THEN "true" ELSE IF key = "release" THEN "release" ELSE "all"]

File == [g \in DOMAIN groups |-> [n \in DOMAIN KeysOf(groups[g]) |-> Raw(g, KeysOf(groups[g])[n])]]

\* An entry of the list s is left to treat; the step to the one after it.
More(s) == segment \in DOMAIN s /\ i \in DOMAIN s[segment]
Advance(s) ==
  IF i + 1 \in DOMAIN s[segment] THEN i' = i + 1 /\ UNCHANGED segment
  ELSE i' = 1 /\ segment' = segment + 1

Rule == [group : DOMAIN groups, value : {"empty", "all", "release", "true", "default"},
         disabled : BOOLEAN, meta : 0..Len(groups)]

TypeOK ==
  /\ phase \in {"read", "decode", "parse", "done", "failed"} /\ token \in 0..MaxToken + 1
  /\ segment \in 1..Len(groups) + 1 /\ i \in 1..4
  /\ metaOf \in 0..Len(groups) /\ disabledContainer \in BOOLEAN
  /\ currentKey \in 0..Len(groups) /\ overrideEnabled \in BOOLEAN
  /\ rules \in Seq(Rule)

Init ==
  /\ \E n \in 1..MaxGroups : groups \in [1..n -> Groups]
  /\ size \in {0, MaxToken, MaxToken + 1}
  /\ size # 0 => Len(groups) = 1
  /\ phase = "read" /\ token = 0 /\ segment = 1 /\ i = 1
  /\ metaOf = 0 /\ disabledContainer = FALSE /\ decoded = [g \in DOMAIN groups |-> <<>>]
  /\ currentKey = 0 /\ overrideEnabled = FALSE /\ rules = <<>>

\* readPolicy: a larger buffer is tried until the largest entry fits; past the limit
\* the file counts as one without entries.
readPolicy ==
  /\ phase = "read"
  /\ IF size <= token THEN phase' = "decode" /\ UNCHANGED token
     ELSE /\ token' = token + 1
          /\ phase' = IF token' > MaxToken THEN "parse" ELSE "read"
  /\ UNCHANGED <<groups, size, segment, i, metaOf, disabledContainer, decoded, currentKey,
                 overrideEnabled, rules>>

Marked(g) == groups[g].state = "marked"

\* The entry e under a key, with the meta data of g: the value of an enabled one; one of an
\* unsupported type is kept with its error.
Decode(e, key, g, off) ==
  decoded' = [decoded EXCEPT ![e.group] = Append(@,
    [group |-> e.group, key |-> key, meta |-> IF key \in {"all", "override", "release"} THEN g ELSE 0,
     disabled |-> off, err |-> ~off /\ e.type = "binary",
     value |-> IF off THEN "empty"
               ELSE IF e.type = "sz" /\ e.value = "empty" /\ key = "all" /\ g # 0 THEN "default"
               ELSE e.value])]

\* DecodePolicy, metaValues: it says whether the entries that follow are disabled.  Meta
\* data of another type is skipped.
\* Mutant: a container does not end the disabled one before it.
DecodeContainerSticky(e) == disabledContainer \/ e.del \/ (e.type = "sz" /\ Marked(e.group))
DecodeContainer(e) == e.del \/ (e.type = "sz" /\ Marked(e.group))

DecodeEntry ==
  /\ phase = "decode" /\ More(File) /\ Advance(File)
  /\ LET e == File[segment][i] IN
     \/ /\ e.key = "metaValues"
        /\ disabledContainer' = DecodeContainer(e)
        /\ metaOf' = IF e.type = "sz" THEN e.group ELSE metaOf
        /\ UNCHANGED decoded
     \/ /\ e.key = "basic"
        /\ metaOf' = e.group
        /\ Decode(e, "all", e.group, e.del \/ Marked(e.group))
        /\ UNCHANGED disabledContainer
     \/ /\ e.key \notin {"metaValues", "basic"}
        /\ Decode(e, e.key, metaOf, e.del \/ disabledContainer)
        /\ UNCHANGED <<metaOf, disabledContainer>>
  /\ UNCHANGED <<groups, size, phase, token, currentKey, overrideEnabled, rules>>

DecodeEnd ==
  /\ phase = "decode" /\ ~More(File) /\ phase' = "parse" /\ segment' = 1 /\ i' = 1
  /\ UNCHANGED <<groups, size, token, metaOf, disabledContainer, decoded, currentKey, overrideEnabled, rules>>

\* parseGPO: the certificate key becomes one of ours; those of others are skipped; an
\* entry with an error is the error of the GPO; 'all' is the rule, which an enabled
\* override for this release then changes.
\* Mutant: the override of the rule before stays enabled.
OverrideOffKept == overrideEnabled
OverrideOff == FALSE

ParseEntry ==
  /\ phase = "parse" /\ More(decoded) /\ Advance(decoded)
  /\ LET e == decoded[segment][i] IN
     \/ e.key = "other" /\ UNCHANGED <<phase, currentKey, overrideEnabled, rules>>
     \/ /\ e.key # "other" /\ e.err
        /\ phase' = "failed" /\ UNCHANGED <<currentKey, overrideEnabled, rules>>
     \/ /\ e.key \in {"all", "cert"} /\ ~e.err
        /\ currentKey' = e.group /\ overrideEnabled' = OverrideOff
        /\ rules' = Append(rules, [group |-> e.group, value |-> e.value, disabled |-> e.disabled, meta |-> e.meta])
        /\ UNCHANGED phase
     \/ /\ e.key = "override" /\ ~e.err
        /\ overrideEnabled' = (overrideEnabled \/ (currentKey = e.group /\ e.value = "true"))
        /\ UNCHANGED <<phase, currentKey, rules>>
     \/ /\ e.key = "release" /\ ~e.err
        /\ rules' = IF currentKey = e.group /\ overrideEnabled
                    THEN [rules EXCEPT ![Len(rules)].value = e.value] ELSE rules
        /\ UNCHANGED <<phase, currentKey, overrideEnabled>>
  /\ UNCHANGED <<groups, size, token, metaOf, disabledContainer, decoded>>

ParseEnd ==
  /\ phase = "parse" /\ ~More(decoded) /\ phase' = "done"
  /\ UNCHANGED <<groups, size, token, segment, i, metaOf, disabledContainer, decoded, currentKey,
                 overrideEnabled, rules>>

Next == readPolicy \/ DecodeEntry \/ DecodeEnd \/ ParseEntry \/ ParseEnd

----------------------------------------------------------------------------
\* The last container before group g is disabled.
Disabling(g) ==
  \E h \in 1..(g - 1) :
    /\ groups[h].kind \notin {"basic", "cert"} /\ groups[h].state # "enabled"
    /\ \A k \in (h + 1)..(g - 1) : groups[k].kind \in {"basic", "cert"}

\* The certificate key has no container: the last one before it decides.
Off(g) == groups[g].state # "enabled" \/ (groups[g].kind = "cert" /\ Disabling(g))

\* The rule is what the administrator meant for its group.
IsMeant(rule) ==
  LET p == groups[rule.group] IN
  /\ rule.disabled = Off(rule.group)
  /\ rule.meta = IF p.kind = "cert" THEN 0 ELSE rule.group
  /\ rule.value = IF Off(rule.group) THEN "empty" ELSE IF p.flag /\ p.release THEN "release"
                  ELSE IF p.empty THEN "default" ELSE "all"

Fails == \E g \in DOMAIN groups : groups[g].kind = "bad" /\ groups[g].state = "enabled"

(* ad.go, registry.go: a GPO yields one rule for each policy in its file, in order,  *)
(* with the value of this release, the default for an empty one, and the state and   *)
(* the meta data of that policy and of none of its neighbours; an unsupported value  *)
(* fails the GPO unless it is disabled.  Excepted are a file with an entry past the  *)
(* limit of the scanner, which counts as empty, and a certificate key that follows a *)
(* disabled policy, which is disabled with it.                                       *)
RulesAreMeant ==
  /\ phase = "failed" => Fails
  /\ phase = "done" =>
       IF size > MaxToken THEN rules = <<>>
       ELSE /\ ~Fails
            /\ {rules[n].group : n \in DOMAIN rules} = {g \in DOMAIN groups : groups[g].kind # "foreign"}
            /\ \A m, n \in DOMAIN rules : m < n => rules[m].group < rules[n].group
            /\ \A n \in DOMAIN rules : IsMeant(rules[n])
=============================================================================
