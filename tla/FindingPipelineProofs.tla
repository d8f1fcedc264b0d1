----------------------- MODULE FindingPipelineProofs -----------------------
(***************************************************************************)
(* Proofs about the report of a chain, for any number of files, statements,*)
(* mutations, rules and findings.                                          *)
(***************************************************************************)
EXTENDS FindingPipeline, TLAPS

LEMMA RulesTyped == NRules \in Nat /\ Rules \subseteq Nat /\ Rules = 1..NRules
BY PipelineAssumption DEF Rules

(* The order of the places in a chain. *)
LEMMA OrderFacts ==
    ASSUME NEW p \in Places, NEW q \in Places
    PROVE  /\ ~Before(p, p) /\ ~(Before(p, q) /\ AtMost(q, p))
           /\ \A r \in Places : AtMost(p, q) /\ Before(q, r) => Before(p, r)
           /\ \A r \in Places : AtMost(p, q) /\ AtMost(q, r) => AtMost(p, r)
<1>1. \A x \in Places : x[1] \in Nat /\ x[2] \in Nat
  BY DEF Places
<1>2. QED
  BY <1>1 DEF Before, AtMost

LEMMA NextPlaces ==
    ASSUME TypeOK
    PROVE  /\ pos[1] \in Nat /\ pos[2] \in Nat
           /\ <<pos[1] + 1, 0>> \in Places /\ Before(pos, <<pos[1] + 1, 0>>)
           /\ <<pos[1], pos[2] + 1>> \in Places /\ Before(pos, <<pos[1], pos[2] + 1>>)
BY DEF TypeOK, Places, Before

(* The elements of a sequence. *)
Elements(s) == {s[i] : i \in 1..Len(s)}

LEMMA AppendElements ==
    ASSUME NEW S, NEW s \in Seq(S), NEW v \in S
    PROVE  /\ Append(s, v) \in Seq(S)
           /\ {Append(s, v)[i] : i \in 1..Len(Append(s, v))} = {s[i] : i \in 1..Len(s)} \cup {v}
<1>1. Len(s) \in Nat /\ Len(Append(s, v)) = Len(s) + 1 /\ Append(s, v)[Len(s) + 1] = v
      /\ \A i \in 1..Len(s) : Append(s, v)[i] = s[i]
  OBVIOUS
<1>2. \A i \in 1..(Len(s) + 1) : i \in 1..Len(s) \/ i = Len(s) + 1
  BY <1>1
<1>3. \A i \in 1..Len(s) : i \in 1..(Len(s) + 1)
  BY <1>1
<1>4. Len(s) + 1 \in 1..(Len(s) + 1)
  BY <1>1
<1>5. QED
  BY <1>1, <1>2, <1>3, <1>4

LEMMA ConcatElements ==
    ASSUME NEW S, NEW s \in Seq(S), NEW t \in Seq(S)
    PROVE  /\ s \o t \in Seq(S)
           /\ Elements(s \o t) = Elements(s) \cup Elements(t)
<1>1. Len(s) \in Nat /\ Len(t) \in Nat /\ Len(s \o t) = Len(s) + Len(t)
      /\ \A i \in 1..(Len(s) + Len(t)) :
             (s \o t)[i] = IF i <= Len(s) THEN s[i] ELSE t[i - Len(s)]
  OBVIOUS
<1>2. \A i \in 1..(Len(s) + Len(t)) : i \in 1..Len(s) \/ (~(i <= Len(s)) /\ i - Len(s) \in 1..Len(t))
  BY <1>1
<1>3. \A i \in 1..Len(s) : i \in 1..(Len(s) + Len(t)) /\ i <= Len(s)
  BY <1>1
<1>4. \A i \in 1..Len(t) : /\ i + Len(s) \in 1..(Len(s) + Len(t)) /\ ~(i + Len(s) <= Len(s))
                           /\ (i + Len(s)) - Len(s) = i
  BY <1>1
<1>5. \A i \in 1..Len(s) : (s \o t)[i] = s[i]
  BY <1>1, <1>3
<1>6. \A i \in 1..Len(t) : (s \o t)[i + Len(s)] = t[i]
  BY <1>1, <1>4
<1>7. ASSUME NEW x \in {(s \o t)[i] : i \in 1..Len(s \o t)}
      PROVE  x \in {s[i] : i \in 1..Len(s)} \cup {t[i] : i \in 1..Len(t)}
  <2>1. PICK i \in 1..(Len(s) + Len(t)) : x = (s \o t)[i]
    BY <1>1, <1>7
  <2>2. QED
    BY <1>1, <1>2, <2>1
<1>8. ASSUME NEW x \in {s[i] : i \in 1..Len(s)} \cup {t[i] : i \in 1..Len(t)}
      PROVE  x \in {(s \o t)[i] : i \in 1..Len(s \o t)}
  <2>1. CASE x \in {s[i] : i \in 1..Len(s)}
    BY <1>1, <1>3, <1>5, <2>1
  <2>2. CASE x \in {t[i] : i \in 1..Len(t)}
    <3>1. PICK i \in 1..Len(t) : x = t[i]
      BY <2>2
    <3>2. i + Len(s) \in 1..Len(s \o t) /\ x = (s \o t)[i + Len(s)]
      BY <1>1, <1>4, <1>6, <3>1
    <3>3. QED
      BY <3>2
  <2>3. QED
    BY <1>8, <2>1, <2>2
<1>9. s \o t \in Seq(S)
  OBVIOUS
<1>10. QED
  BY <1>7, <1>8, <1>9 DEF Elements
-----------------------------------------------------------------------------
(* Types *)

LEMMA InitTypeOK == Init => TypeOK
<1> SUFFICES ASSUME Init PROVE TypeOK
  OBVIOUS
<1>1. [scope |-> "chain", at |-> NoPos] \in EvidenceRecords
  BY DEF EvidenceRecords
<1>2. transaction \in [open : BOOLEAN, aborted : BOOLEAN, evidence : SUBSET EvidenceRecords]
      /\ checkpoint \in [full : BOOLEAN, evidence : SUBSET EvidenceRecords,
                         not_evaluated : SUBSET Rules]
  BY DEF Init, Closed, NoCheckpoint
<1>3. pos \in Places /\ rule \in Nat /\ todo \in Nat
  BY DEF Init, Places
<1>4. evidence \subseteq EvidenceRecords
  BY <1>1 DEF Init
<1>5. QED
  BY <1>2, <1>3, <1>4 DEF Init, TypeOK

LEMMA ViolationTyped ==
    ASSUME TypeOK, NEW k \in Keys \cup {NoKey} \cup SuppressionKeys,
           NEW tier \in {1, 2, 3}, NEW placed \in BOOLEAN
    PROVE  Violation(k, tier, placed) \in Violations
BY DEF Violation, Violations, TypeOK

(* The key of a finding about a directive is none of the rules' own. *)
LEMMA SuppressionKeyFacts ==
    ASSUME NEW r \in Rules
    PROVE  SuppressionKey(r) \in SuppressionKeys /\ SuppressionKey(r) \notin Keys
BY PipelineAssumption DEF SuppressionKeys

LEMMA FoundTyped ==
    ASSUME NEW found \in Found
    PROVE  found.key \in Keys \cup {NoKey} /\ found.tier \in {1, 2, 3}
BY PipelineAssumption

(* The rule loop changes the buffers, evidence, the record of skipped rules and
   the rule whose turn it is. *)
LEMMA RuleTypeOK ==
    ASSUME TypeOK, UNCHANGED allow_inline_suppressions,
           \/ InlineSuppressionDisabled \/ SkipRule \/ RecordNotEvaluated \/ FindNothing
           \/ \E missing \in BOOLEAN : Evaluate(missing)
           \/ \E found \in Found, last \in BOOLEAN : Collect(found, last)
    PROVE  TypeOK'
<1>0. rule + 1 \in Nat
  BY DEF TypeOK
<1>1. CASE InlineSuppressionDisabled
  <2> DEFINE key == SuppressionKey(rule)
  <2>1. Violation(key, 1, FALSE) \in Violations
    <3>1. key \in SuppressionKeys
      BY <1>1, SuppressionKeyFacts DEF InlineSuppressionDisabled, Evaluates
    <3>2. QED
      BY <3>1, ViolationTyped
  <2>2. statement_violations' \in Seq(Violations)
    <3>1. statement_violations \in Seq(Violations)
          /\ statement_violations' = Append(statement_violations, Violation(key, 1, FALSE))
      BY <1>1 DEF InlineSuppressionDisabled, TypeOK
    <3>2. QED
      BY <2>1, <3>1, AppendElements
  <2>3. QED
    BY <1>0, <1>1, <2>2 DEF InlineSuppressionDisabled, NextRule, TypeOK, perfile
<1>2. CASE SkipRule \/ FindNothing
  BY <1>0, <1>2 DEF SkipRule, FindNothing, NextRule, TypeOK, perfile, buffers
<1>3. CASE RecordNotEvaluated
  <2>1. rule \in Rules /\ <<pos, rule>> \in Places \X Rules
    BY <1>3 DEF RecordNotEvaluated, Evaluates, TypeOK
  <2>2. QED
    BY <1>0, <1>3, <2>1 DEF RecordNotEvaluated, NextRule, TypeOK, perfile, buffers
<1>4. ASSUME NEW missing \in BOOLEAN, Evaluate(missing) PROVE TypeOK'
  <2>1. [scope |-> "statement", at |-> pos] \in EvidenceRecords
    BY DEF EvidenceRecords, TypeOK
  <2>2. evidence' \subseteq EvidenceRecords
    BY <1>4, <2>1 DEF Evaluate, TypeOK
  <2>3. QED
    <3>1. phase' = "collect"
          /\ UNCHANGED <<pos, kind, todo, result, rule, file_ignores, stmt_ignores, transaction,
                         checkpoint, not_evaluated, statement_warned_keys, statement_violations,
                         warned_keys, all_violations, findings, failures, skipped>>
      BY <1>4 DEF Evaluate, perfile, buffers, history
    <3>2. findings \in Seq([violation : Violations, certainty : Certainties])
      BY <1>4 DEF Evaluate, Evaluates, TypeOK
    <3>3. QED
      BY <2>2, <3>1, <3>2 DEF TypeOK
<1>5. ASSUME NEW found \in Found, NEW last \in BOOLEAN, Collect(found, last) PROVE TypeOK'
  <2>1. Violation(found.key, found.tier, TRUE) \in Violations
    BY FoundTyped, ViolationTyped
  <2>2. statement_violations' \in Seq(Violations)
    <3> DEFINE v == Violation(found.key, found.tier, TRUE)
    <3>1. statement_violations \in Seq(Violations)
          /\ statement_violations' \in {statement_violations, Append(statement_violations, v)}
      BY <1>5 DEF Collect, TypeOK
    <3> HIDE DEF v
    <3>2. v \in Violations
      BY <2>1 DEF v
    <3>3. QED
      BY <3>1, <3>2, AppendElements
  <2>3. statement_warned_keys' \subseteq Keys
    BY <1>5, FoundTyped DEF Collect, TypeOK
  <2>4. phase' \in {"rules", "collect"} /\ rule' \in Nat
    BY <1>0, <1>5 DEF Collect, TypeOK
  <2>5. QED
    BY <1>5, <2>2, <2>3, <2>4 DEF Collect, TypeOK, perfile, state, history
<1>6. QED
  BY <1>1, <1>2, <1>3, <1>4, <1>5

(* apply *)
LEMMA ApplyTypeOK ==
    ASSUME TypeOK, UNCHANGED allow_inline_suppressions,
           \/ NotExecuted \/ ApplyConflict \/ ApplyControl
           \/ \E r \in {"applied", "unresolved"}, recorded \in {{}} \cup {{e} : e \in Records} :
                  ApplyCatalog(r, recorded)
    PROVE  TypeOK'
<1>1. CASE NotExecuted
  BY <1>1 DEF NotExecuted, ToRules, TypeOK, state, buffers, perfile, history
<1>2. CASE ApplyConflict
  <2>1. transaction' \in [open : BOOLEAN, aborted : BOOLEAN, evidence : SUBSET EvidenceRecords]
    BY <1>2 DEF ApplyConflict, TypeOK
  <2>2. evidence' \subseteq EvidenceRecords /\ not_evaluated' \subseteq Rules
    BY <1>2 DEF ApplyConflict, TypeOK
  <2>3. /\ phase' = "rules" /\ rule' = 1 /\ result' = "conflict" /\ failures' = failures \cup {pos}
        /\ statement_warned_keys' = {} /\ statement_violations' = <<>>
        /\ UNCHANGED <<pos, kind, todo, file_ignores, stmt_ignores, checkpoint, warned_keys,
                       all_violations, findings, skipped>>
    BY <1>2 DEF ApplyConflict, ToRules, perfile
  <2>4. <<>> \in Seq(Violations) /\ phase # "done"
    BY <1>2 DEF ApplyConflict
  <2>5. QED
    BY <2>1, <2>2, <2>3, <2>4 DEF TypeOK
<1>3. CASE ApplyControl
  <2>1. transaction' \in [open : BOOLEAN, aborted : BOOLEAN, evidence : SUBSET EvidenceRecords]
    BY <1>3 DEF ApplyControl, TypeOK, Closed
  <2>2. evidence' \subseteq EvidenceRecords
    BY <1>3 DEF ApplyControl, TypeOK
  <2>3. QED
    BY <1>3, <2>1, <2>2 DEF ApplyControl, ToRules, TypeOK, buffers, perfile, history
<1>4. ASSUME NEW r \in {"applied", "unresolved"}, NEW recorded \in {{}} \cup {{e} : e \in Records},
             ApplyCatalog(r, recorded)
      PROVE  TypeOK'
  <2>1. recorded \subseteq EvidenceRecords
    BY DEF Records, EvidenceRecords, TypeOK
  <2>2. QED
    BY <1>4, <2>1 DEF ApplyCatalog, ToRules, TypeOK, buffers, perfile, history
<1>5. QED
  BY <1>1, <1>2, <1>3, <1>4

(* Files and statements. *)
LEMMA FileTypeOK ==
    ASSUME TypeOK, UNCHANGED allow_inline_suppressions,
           \/ \E ignores \in Directives : StartFile(ignores)
           \/ ParseError \/ EndFile \/ Finish \/ NextMutation \/ EndStatement
           \/ \E k \in {"catalog", "begin", "commit", "rollback"}, n \in 1..MaxMutations,
                 ignores \in Directives : StartStatement(k, n, ignores)
    PROVE  TypeOK'
<1>0. \A ignores \in Directives : ignores \subseteq Rules
  BY DEF Directives
<1> USE DEF state, buffers, perfile, history
<1>1. ASSUME NEW ignores \in Directives, StartFile(ignores) PROVE TypeOK'
  BY <1>0, <1>1, NextPlaces DEF StartFile, TypeOK
<1>2. CASE ParseError
  BY <1>2 DEF ParseError, TypeOK
<1>3. CASE EndFile
  <2> DEFINE new == [i \in 1..Len(all_violations) |-> ReportFinding(all_violations[i])]
             F == [violation : Violations, certainty : Certainties]
  <2>1. \A v \in Violations : ReportFinding(v) \in F
    BY DEF ReportFinding, CertaintyAt, Certainties
  <2>2. new \in Seq(F)
    BY <2>1 DEF TypeOK
  <2>3. findings \in Seq(F) /\ findings' = findings \o new
    BY <1>3 DEF EndFile, TypeOK
  <2> HIDE DEF F, new
  <2>4. findings' \in Seq(F)
    BY <2>2, <2>3
  <2>5. <<>> \in Seq(Violations)
    OBVIOUS
  <2>6. QED
    BY <1>3, <2>4, <2>5 DEF EndFile, TypeOK, F
<1>4. CASE Finish
  BY <1>4 DEF Finish, TypeOK
<1>5. CASE NextMutation
  BY <1>5 DEF NextMutation, TypeOK
<1>6. CASE EndStatement
  <2>1. checkpoint' \in [full : BOOLEAN, evidence : SUBSET EvidenceRecords,
                         not_evaluated : SUBSET Rules]
    BY <1>6 DEF EndStatement, NoCheckpoint
  <2>2. all_violations' \in Seq(Violations) /\ statement_violations' \in Seq(Violations)
    BY <1>6 DEF EndStatement, TypeOK
  <2>3. QED
    BY <1>6, <2>1, <2>2 DEF EndStatement, TypeOK
<1>7. ASSUME NEW k \in {"catalog", "begin", "commit", "rollback"}, NEW n \in 1..MaxMutations,
             NEW ignores \in Directives, StartStatement(k, n, ignores)
      PROVE  TypeOK'
  <2>1. checkpoint' \in [full : BOOLEAN, evidence : SUBSET EvidenceRecords,
                         not_evaluated : SUBSET Rules]
    BY <1>7 DEF StartStatement, TypeOK
  <2>2. n \in Nat
    BY PipelineAssumption
  <2>3. QED
    BY <1>0, <1>7, <2>1, <2>2, NextPlaces DEF StartStatement, TypeOK
<1>8. QED
  BY <1>1, <1>2, <1>3, <1>4, <1>5, <1>6, <1>7

LEMMA StepTypeOK == ASSUME TypeOK, Next PROVE TypeOK'
BY RuleTypeOK, ApplyTypeOK, FileTypeOK DEF Next, Step
-----------------------------------------------------------------------------
(* The rest of the invariant *)

LEMMA ElementsTyped ==
    ASSUME TypeOK
    PROVE  /\ Reported \subseteq Violations /\ Buffered \subseteq Violations
           /\ \A v \in Reported \cup Buffered : v.pos \in Places
<1>1. Reported \subseteq Violations /\ Buffered \subseteq Violations
  BY DEF TypeOK, Reported, Buffered
<1>2. \A v \in Violations : v.pos \in Places
  BY DEF Violations
<1>3. QED
  BY <1>1, <1>2

(* Nothing that the invariant is about changes but the place and the phase. *)
LEMMA QuietInv ==
    ASSUME PipelineInv, TypeOK',
           UNCHANGED <<statement_violations, statement_warned_keys, all_violations, warned_keys,
                       failures, skipped, evidence, transaction, not_evaluated>>,
           AtMost(pos, pos'), Working' <=> Working,
           Working => /\ UNCHANGED <<pos, kind, checkpoint>>
                      /\ kind # "catalog" => todo' = todo
                      /\ pos \in failures => phase' # "apply" /\ result' = "conflict"
    PROVE  PipelineInv'
<1> USE DEF PipelineInv
<1>1. Reported' = Reported /\ Buffered' = Buffered
  BY DEF Reported, Buffered
<1>2. pos \in Places /\ pos' \in Places /\ failures \subseteq Places
      /\ \A v \in Reported \cup Buffered : v.pos \in Places
  BY ElementsTyped DEF TypeOK
<1>3. PlacesInv'
  <2>1. \A f \in failures : AtMost(f, pos')
    BY <1>2, OrderFacts DEF PlacesInv
  <2>2. ASSUME NEW v \in Reported PROVE AtMost(v.pos, pos') /\ (Working => v.pos # pos')
    BY <1>2, OrderFacts DEF PlacesInv
  <2>3. QED
    BY <1>1, <2>1, <2>2 DEF PlacesInv
<1>4. LeaksInv' /\ KeysInv'
  BY <1>1 DEF LeaksInv, KeysInv, OncePerKey
<1>5. SkipsInv'
  BY DEF SkipsInv
<1>6. EvidenceInv'
  <2>1. ASSUME NEW e \in evidence, e.at # NoPos PROVE AtMost(e.at, pos')
    <3>1. e.at \in Places /\ AtMost(e.at, pos)
      BY <2>1 DEF EvidenceInv, TypeOK, EvidenceRecords
    <3>2. QED
      BY <1>2, <3>1, OrderFacts
  <2>2. Working /\ kind # "catalog" => todo = 1
    BY DEF EvidenceInv
  <2>3. QED
    BY <2>1, <2>2 DEF EvidenceInv
<1>7. TaintsInv'
  BY <1>1 DEF TaintsInv, Taints, Before
<1>8. QED
  BY <1>3, <1>4, <1>5, <1>6, <1>7

(* A finding joins the buffers of the running statement. *)
LEMMA FindingInv ==
    ASSUME PipelineInv, TypeOK', Working, Working', phase' # "apply",
           NEW k \in Keys \cup {NoKey} \cup SuppressionKeys, NEW tier \in {1, 2, 3}, NEW placed \in BOOLEAN,
           statement_violations' = Append(statement_violations, Violation(k, tier, placed)),
           statement_warned_keys' = statement_warned_keys \cup ({k} \cap Keys),
           k \in Keys => k \notin warned_keys /\ k \notin statement_warned_keys,
           UNCHANGED <<pos, kind, todo, result, transaction, checkpoint, evidence, not_evaluated,
                       warned_keys, all_violations, failures, skipped>>
    PROVE  PipelineInv'
<1> USE DEF PipelineInv
<1> DEFINE v == Violation(k, tier, placed)
<1>1. v \in Violations /\ statement_violations \in Seq(Violations)
  BY ViolationTyped DEF TypeOK
<1>2. /\ v.pos = pos /\ v.key = k /\ v.placed = placed /\ v.conflict = (result = "conflict")
      /\ v.doubted = \E record \in evidence : record.scope = "chain" /\ Taints(record, pos)
  BY DEF Violation
<1> HIDE DEF v
<1>3. Reported' = Reported /\ Buffered' = Buffered \cup {v}
  <2>1. statement_violations' = Append(statement_violations, v)
    BY DEF v
  <2>2. QED
    BY <1>1, <2>1, AppendElements DEF Reported, Buffered
<1>4. PlacesInv'
  BY <1>2, <1>3 DEF PlacesInv
<1>5. LeaksInv'
  BY <1>2, <1>3 DEF PlacesInv, LeaksInv
<1>6. KeysInv'
  <2>1. warned_keys' \cap statement_warned_keys' = {}
    BY DEF KeysInv
  <2>2. statement_warned_keys' = {w.key : w \in Buffered'} \cap Keys
    BY <1>2, <1>3 DEF KeysInv
  <2>3. OncePerKey(statement_violations')
    <3> DEFINE n == Len(statement_violations)
    <3>1. /\ n \in Nat /\ Len(statement_violations') = n + 1 /\ statement_violations'[n + 1] = v
          /\ \A i \in 1..n : statement_violations'[i] = statement_violations[i]
      BY <1>1 DEF v
    <3>2. \A i \in 1..n : k \in Keys => statement_violations[i].key # k
      <4>1. \A i \in 1..n : statement_violations[i] \in Buffered
        BY DEF Buffered
      <4>2. QED
        BY <4>1 DEF KeysInv
    <3>3. ASSUME NEW i \in 1..(n + 1), NEW j \in 1..(n + 1),
                 statement_violations'[i].key = statement_violations'[j].key,
                 statement_violations'[i].key \in Keys
          PROVE  i = j
      <4>1. CASE i \in 1..n /\ j \in 1..n
        BY <3>1, <3>3, <4>1 DEF KeysInv, OncePerKey
      <4>2. CASE i = n + 1 /\ j \in 1..n
        BY <1>2, <3>1, <3>2, <3>3, <4>2
      <4>3. CASE j = n + 1 /\ i \in 1..n
        BY <1>2, <3>1, <3>2, <3>3, <4>3
      <4>4. QED
        BY <3>1, <4>1, <4>2, <4>3
    <3>4. QED
      BY <3>1, <3>3 DEF OncePerKey
  <2>4. QED
    BY <1>3, <2>1, <2>2, <2>3 DEF KeysInv, OncePerKey
<1>7. SkipsInv' /\ EvidenceInv'
  BY DEF SkipsInv, EvidenceInv, Working
<1>8. TaintsInv'
  <2>1. ASSUME ~v.doubted, NEW e \in evidence, Taints(e, v.pos)
        PROVE  e = [scope |-> "statement", at |-> v.pos]
    <3>1. e.scope # "chain" /\ e \in EvidenceRecords /\ pos \in Places /\ pos # NoPos
      BY <1>2, <2>1, PipelineAssumption DEF TypeOK, Places
    <3>2. e.scope = "statement" /\ e.at # NoPos
      BY <3>1, PipelineAssumption DEF EvidenceRecords, Places
    <3>3. e.at = v.pos
      BY <1>2, <2>1, <3>1, <3>2 DEF Taints
    <3>4. QED
      BY <3>1, <3>2, <3>3 DEF EvidenceRecords
  <2>2. QED
    BY <1>3, <2>1 DEF TaintsInv, Taints, Before
<1>9. QED
  BY <1>4, <1>5, <1>6, <1>7, <1>8

(* Evidence of the running statement. *)
LEMMA RecordInv ==
    ASSUME PipelineInv, TypeOK', Working, Working',
           NEW new, \A e \in new : e \in [scope : {"chain", "statement"}, at : {pos}],
           evidence' = evidence \cup new,
           pos \in failures => phase' # "apply" /\ result' = "conflict",
           UNCHANGED <<pos, kind, todo, transaction, checkpoint, not_evaluated,
                       statement_violations, statement_warned_keys,
                       warned_keys, all_violations, failures, skipped>>
    PROVE  PipelineInv'
<1> USE DEF PipelineInv
<1>1. Reported' = Reported /\ Buffered' = Buffered
  BY DEF Reported, Buffered
<1>2. PlacesInv'
  BY <1>1 DEF PlacesInv
<1>3. LeaksInv' /\ KeysInv' /\ SkipsInv'
  BY <1>1 DEF LeaksInv, KeysInv, OncePerKey, SkipsInv
<1>4. EvidenceInv'
  <2>1. \A e \in new : AtMost(e.at, pos)
    BY DEF AtMost
  <2>2. QED
    BY <2>1 DEF EvidenceInv
<1>5. TaintsInv'
  <2> SUFFICES ASSUME NEW v \in Reported \cup Buffered, v.placed, ~v.doubted,
                      NEW e \in evidence \cup new, Taints(e, v.pos)
               PROVE  e = [scope |-> "statement", at |-> v.pos]
    BY <1>1 DEF TaintsInv, Taints, Before
  <2>1. CASE e \in evidence
    BY <2>1 DEF TaintsInv
  <2>2. CASE e \in new
    <3>1. e \in [scope : {"chain", "statement"}, at : {pos}] /\ pos \in Places /\ v.pos \in Places
      BY <2>2, ElementsTyped DEF TypeOK
    <3>2. AtMost(v.pos, pos)
      BY DEF PlacesInv, AtMost
    <3>3. pos # NoPos /\ v.pos # NoPos /\ ~Before(pos, v.pos)
      BY <3>1, <3>2, PipelineAssumption, OrderFacts DEF Places
    <3>4. e.scope = "statement" /\ e.at = v.pos
      BY <3>1, <3>3 DEF Taints
    <3>5. QED
      BY <3>1, <3>4
  <2>3. QED
    BY <2>1, <2>2
<1>6. QED
  BY <1>2, <1>3, <1>4, <1>5

(* The rule loop. *)
LEMMA RuleInv ==
    ASSUME PipelineInv, TypeOK',
           \/ InlineSuppressionDisabled \/ SkipRule \/ RecordNotEvaluated \/ FindNothing
           \/ \E missing \in BOOLEAN : Evaluate(missing)
           \/ \E found \in Found, last \in BOOLEAN : Collect(found, last)
    PROVE  PipelineInv'
<1>0. TypeOK /\ pos \in Places /\ AtMost(pos, pos)
      /\ (Working /\ pos \in failures => phase # "apply" /\ result = "conflict")
  BY DEF PipelineInv, TypeOK, AtMost, PlacesInv
<1>1. CASE InlineSuppressionDisabled
  <2>1. /\ phase = "rules" /\ phase' = "rules"
        /\ statement_violations' = Append(statement_violations,
                                           Violation(SuppressionKey(rule), 1, FALSE))
        /\ rule \in Rules
        /\ UNCHANGED <<pos, kind, todo, result, transaction, checkpoint, evidence, not_evaluated,
                       statement_warned_keys, warned_keys, all_violations, failures, skipped>>
    BY <1>1 DEF InlineSuppressionDisabled, Evaluates, NextRule, perfile
  <2>2. Working /\ Working' /\ phase' # "apply"
        /\ statement_warned_keys' = statement_warned_keys \cup ({SuppressionKey(rule)} \cap Keys)
        /\ SuppressionKey(rule) \in SuppressionKeys /\ SuppressionKey(rule) \notin Keys
    BY <2>1, SuppressionKeyFacts DEF Working
  <2>3. QED
    BY <2>1, <2>2, FindingInv
<1>2. CASE SkipRule \/ FindNothing
  <2>1. /\ phase = "rules" /\ phase' = "rules"
        /\ UNCHANGED <<pos, kind, todo, result, transaction, checkpoint, evidence, not_evaluated,
                       statement_warned_keys, statement_violations, warned_keys, all_violations,
                       failures, skipped>>
    BY <1>2 DEF SkipRule, FindNothing, Evaluates, NextRule, perfile, buffers
  <2>2. Working /\ Working'
    BY <2>1 DEF Working
  <2>3. QED
    BY <1>0, <2>1, <2>2, QuietInv
<1>3. CASE RecordNotEvaluated
  <2>1. /\ phase = "rules" /\ phase' = "rules"
        /\ not_evaluated' = not_evaluated \cup {rule} /\ skipped' = skipped \cup {<<pos, rule>>}
        /\ UNCHANGED <<pos, kind, todo, result, transaction, checkpoint, evidence,
                       statement_warned_keys, statement_violations, warned_keys, all_violations,
                       failures>>
    BY <1>3 DEF RecordNotEvaluated, Evaluates, NextRule, perfile, buffers
  <2>2. Working /\ Working' /\ Reported' = Reported /\ Buffered' = Buffered
    BY <2>1 DEF Working, Reported, Buffered
  <2>3. PlacesInv' /\ LeaksInv'
    BY <2>1, <2>2 DEF PipelineInv, PlacesInv, LeaksInv
  <2>4. KeysInv'
    BY <2>1, <2>2 DEF PipelineInv, KeysInv, OncePerKey
  <2>5. SkipsInv'
    BY <2>1, <2>2 DEF PipelineInv, SkipsInv
  <2>6. EvidenceInv'
    BY <2>1, <2>2 DEF PipelineInv, EvidenceInv
  <2>7. TaintsInv'
    BY <2>1, <2>2 DEF PipelineInv, TaintsInv, Taints, Before
  <2>8. QED
    BY <2>3, <2>4, <2>5, <2>6, <2>7 DEF PipelineInv
<1>4. ASSUME NEW missing \in BOOLEAN, Evaluate(missing) PROVE PipelineInv'
  <2> DEFINE new == IF missing THEN {[scope |-> "statement", at |-> pos]} ELSE {}
  <2>1. /\ phase = "rules" /\ phase' = "collect" /\ evidence' = evidence \cup new
        /\ UNCHANGED <<pos, kind, todo, result, transaction, checkpoint, not_evaluated,
                       statement_warned_keys, statement_violations, warned_keys, all_violations,
                       failures, skipped>>
    BY <1>4 DEF Evaluate, Evaluates, perfile, buffers, history
  <2>2. \A e \in new : e \in [scope : {"chain", "statement"}, at : {pos}]
    OBVIOUS
  <2>3. Working /\ Working'
    BY <2>1 DEF Working
  <2> HIDE DEF new
  <2>4. QED
    BY <1>0, <2>1, <2>2, <2>3, RecordInv
<1>5. ASSUME NEW found \in Found, NEW last \in BOOLEAN, Collect(found, last) PROVE PipelineInv'
  <2>1. /\ phase = "collect" /\ phase' \in {"collect", "rules"}
        /\ UNCHANGED <<pos, kind, todo, result, transaction, checkpoint, evidence, not_evaluated,
                       warned_keys, all_violations, failures, skipped>>
    BY <1>5 DEF Collect, state, perfile, history
  <2>2. Working /\ Working' /\ phase' # "apply"
    BY <2>1 DEF Working
  <2>3. CASE Fresh(found.key)
    <3>1. found.key \in Keys \cup {NoKey} /\ found.tier \in {1, 2, 3}
      BY FoundTyped
    <3>2. /\ statement_violations' =
               Append(statement_violations, Violation(found.key, found.tier, TRUE))
          /\ statement_warned_keys' = statement_warned_keys \cup ({found.key} \cap Keys)
          /\ found.key \in Keys =>
                 found.key \notin warned_keys /\ found.key \notin statement_warned_keys
      <4>1. {found.key} \ {NoKey} = {found.key} \cap Keys /\ NoKey \notin Keys
        BY <3>1, PipelineAssumption
      <4>2. QED
        BY <1>5, <2>3, <4>1 DEF Collect, Fresh
    <3>3. QED
      BY <2>1, <2>2, <3>1, <3>2, FindingInv
  <2>4. CASE ~Fresh(found.key)
    <3>1. UNCHANGED <<statement_violations, statement_warned_keys>>
      BY <1>5, <2>4 DEF Collect
    <3>2. QED
      BY <1>0, <2>1, <2>2, <3>1, QuietInv
  <2>5. QED
    BY <2>3, <2>4
<1>6. QED
  BY <1>1, <1>2, <1>3, <1>4, <1>5

(* apply: a failure empties the buffers and takes evidence back. *)
LEMMA ConflictInv == ASSUME PipelineInv, TypeOK', ApplyConflict PROVE PipelineInv'
<1> USE DEF PipelineInv
<1>1. /\ phase = "apply" /\ kind = "catalog" /\ phase' = "rules" /\ result' = "conflict"
      /\ transaction' = [transaction EXCEPT !.aborted = transaction.open]
      /\ evidence' = checkpoint.evidence
      /\ not_evaluated' = IF checkpoint.full THEN checkpoint.not_evaluated ELSE not_evaluated
      /\ statement_warned_keys' = {} /\ statement_violations' = <<>>
      /\ failures' = failures \cup {pos}
      /\ UNCHANGED <<pos, kind, todo, checkpoint, warned_keys, all_violations, skipped>>
  BY DEF ApplyConflict, ToRules, perfile
<1>2. Working /\ Working' /\ Reported' = Reported /\ Buffered' = {}
  BY <1>1 DEF Working, Reported, Buffered
<1>3. PlacesInv'
  BY <1>1, <1>2 DEF PlacesInv, AtMost
<1>4. LeaksInv'
  BY <1>1, <1>2 DEF PlacesInv, LeaksInv
<1>5. KeysInv'
  <2>1. OncePerKey(statement_violations')
    BY <1>1 DEF OncePerKey
  <2>2. OncePerKey(all_violations')
    BY <1>1 DEF OncePerKey, KeysInv
  <2>3. QED
    BY <1>1, <1>2, <2>1, <2>2 DEF KeysInv, OncePerKey
<1>6. SkipsInv'
  BY <1>1, <1>2 DEF SkipsInv
<1>7. evidence' \subseteq evidence
  BY <1>1, <1>2 DEF EvidenceInv
<1>8. EvidenceInv'
  <2>1. transaction'.open = transaction.open /\ transaction'.evidence = transaction.evidence
    BY <1>1 DEF TypeOK
  <2>2. QED
    BY <1>1, <1>2, <1>7, <2>1 DEF EvidenceInv
<1>9. TaintsInv'
  BY <1>1, <1>2, <1>7 DEF TaintsInv, Taints, Before
<1>10. QED
  BY <1>3, <1>4, <1>5, <1>6, <1>8, <1>9

LEMMA ControlInv == ASSUME PipelineInv, TypeOK', ApplyControl PROVE PipelineInv'
<1> USE DEF PipelineInv
<1>1. /\ phase = "apply" /\ kind # "catalog" /\ phase' = "rules"
      /\ UNCHANGED <<pos, kind, todo, checkpoint, not_evaluated, statement_violations,
                     statement_warned_keys, warned_keys, all_violations, failures, skipped>>
  BY DEF ApplyControl, ToRules, buffers, perfile, history
<1>2. Working /\ Working' /\ Reported' = Reported /\ Buffered' = Buffered
  BY <1>1 DEF Working, Reported, Buffered
<1>3. PlacesInv'
  BY <1>1, <1>2 DEF PlacesInv
<1>4. LeaksInv' /\ KeysInv' /\ SkipsInv'
  BY <1>1, <1>2 DEF LeaksInv, KeysInv, OncePerKey, SkipsInv
<1>5. evidence' \subseteq evidence
  BY DEF ApplyControl, EvidenceInv
<1>6. transaction'.open => transaction'.evidence \subseteq evidence'
  BY DEF ApplyControl, EvidenceInv, Closed
<1>7. EvidenceInv'
  BY <1>1, <1>2, <1>5, <1>6 DEF EvidenceInv
<1>8. TaintsInv'
  BY <1>1, <1>2, <1>5 DEF TaintsInv, Taints, Before
<1>9. QED
  BY <1>3, <1>4, <1>7, <1>8

LEMMA ApplyInv ==
    ASSUME PipelineInv, TypeOK',
           \/ NotExecuted \/ ApplyConflict \/ ApplyControl
           \/ \E r \in {"applied", "unresolved"}, recorded \in {{}} \cup {{e} : e \in Records} :
                  ApplyCatalog(r, recorded)
    PROVE  PipelineInv'
<1>0. TypeOK /\ AtMost(pos, pos) /\ (phase = "apply" => pos \notin failures)
  BY DEF PipelineInv, AtMost, PlacesInv, Working
<1>1. CASE NotExecuted
  <2>1. /\ phase = "apply" /\ phase' = "rules"
        /\ UNCHANGED <<pos, kind, todo, transaction, checkpoint, evidence, not_evaluated,
                       statement_warned_keys, statement_violations, warned_keys, all_violations,
                       failures, skipped>>
    BY <1>1 DEF NotExecuted, ToRules, state, perfile, buffers, history
  <2>2. Working /\ Working'
    BY <2>1 DEF Working
  <2>3. QED
    BY <1>0, <2>1, <2>2, QuietInv
<1>2. ASSUME NEW r \in {"applied", "unresolved"}, NEW recorded \in {{}} \cup {{e} : e \in Records},
             ApplyCatalog(r, recorded)
      PROVE  PipelineInv'
  <2>1. /\ phase = "apply" /\ phase' = "rules" /\ evidence' = evidence \cup recorded
        /\ UNCHANGED <<pos, kind, todo, transaction, checkpoint, not_evaluated,
                       statement_warned_keys, statement_violations, warned_keys, all_violations,
                       failures, skipped>>
    BY <1>2 DEF ApplyCatalog, ToRules, perfile, buffers, history
  <2>2. \A e \in recorded : e \in [scope : {"chain", "statement"}, at : {pos}]
    BY DEF Records
  <2>3. Working /\ Working'
    BY <2>1 DEF Working
  <2>4. QED
    BY <1>0, <2>1, <2>2, <2>3, RecordInv
<1>3. QED
  BY <1>1, <1>2, ConflictInv, ControlInv

(* Files and statements. *)
LEMMA StartStatementInv ==
    ASSUME PipelineInv, TypeOK', NEW k \in {"catalog", "begin", "commit", "rollback"},
           NEW n \in 1..MaxMutations, NEW ignores \in Directives, StartStatement(k, n, ignores)
    PROVE  PipelineInv'
<1> USE DEF PipelineInv
<1>1. /\ phase = "statement" /\ phase' = "apply" /\ pos' = <<pos[1], pos[2] + 1>>
      /\ kind' = k /\ todo' = n /\ (k # "catalog" => n = 1)
      /\ checkpoint'.evidence = evidence /\ checkpoint'.not_evaluated = not_evaluated
      /\ UNCHANGED <<transaction, evidence, not_evaluated, statement_violations,
                     statement_warned_keys, warned_keys, all_violations, failures, skipped>>
  BY DEF StartStatement, state, buffers, perfile, history
<1>2. ~Working /\ Working' /\ Reported' = Reported /\ Buffered' = Buffered
  BY <1>1 DEF Working, Reported, Buffered
<1>3. pos \in Places /\ pos' \in Places /\ Before(pos, pos')
  BY <1>1, NextPlaces DEF TypeOK
<1>4. ASSUME NEW p \in Places, AtMost(p, pos) PROVE AtMost(p, pos') /\ p # pos'
  <2>1. Before(p, pos')
    BY <1>3, <1>4, OrderFacts
  <2>2. QED
    BY <1>3, <2>1, OrderFacts DEF AtMost
<1>5. PlacesInv'
  <2>1. \A f \in failures : AtMost(f, pos') /\ f # pos'
    BY <1>4 DEF PlacesInv, TypeOK
  <2>2. \A v \in Reported : AtMost(v.pos, pos') /\ v.pos # pos'
    BY <1>4, ElementsTyped DEF PlacesInv
  <2>3. Buffered = {}
    BY <1>2 DEF PlacesInv
  <2>4. QED
    BY <1>1, <1>2, <2>1, <2>2, <2>3 DEF PlacesInv
<1>6. LeaksInv' /\ KeysInv'
  BY <1>1, <1>2 DEF LeaksInv, KeysInv, OncePerKey
<1>7. SkipsInv'
  BY <1>1 DEF SkipsInv
<1>8. EvidenceInv'
  <2>1. ASSUME NEW e \in evidence, e.at # NoPos PROVE AtMost(e.at, pos')
    <3>1. e.at \in Places /\ AtMost(e.at, pos)
      BY <2>1 DEF EvidenceInv, TypeOK, EvidenceRecords
    <3>2. QED
      BY <1>4, <3>1
  <2>2. transaction.open => transaction.evidence \subseteq evidence
    BY DEF EvidenceInv
  <2>3. QED
    BY <1>1, <2>1, <2>2 DEF EvidenceInv
<1>9. TaintsInv'
  BY <1>1, <1>2 DEF TaintsInv, Taints, Before
<1>10. QED
  BY <1>5, <1>6, <1>7, <1>8, <1>9

LEMMA OncePerKeyConcat ==
    ASSUME NEW s \in Seq(Violations), NEW t \in Seq(Violations), OncePerKey(s), OncePerKey(t),
           \A i \in 1..Len(s), j \in 1..Len(t) : s[i].key \in Keys => s[i].key # t[j].key
    PROVE  OncePerKey(s \o t)
<1>1. Len(s) \in Nat /\ Len(t) \in Nat /\ Len(s \o t) = Len(s) + Len(t)
      /\ \A i \in 1..(Len(s) + Len(t)) :
             (s \o t)[i] = IF i <= Len(s) THEN s[i] ELSE t[i - Len(s)]
  OBVIOUS
<1>2. SUFFICES ASSUME NEW i \in 1..(Len(s) + Len(t)), NEW j \in 1..(Len(s) + Len(t)),
                      (s \o t)[i].key = (s \o t)[j].key, (s \o t)[i].key \in Keys
               PROVE  i = j
  BY <1>1 DEF OncePerKey
<1>3. CASE i <= Len(s) /\ j <= Len(s)
  <2>1. i \in 1..Len(s) /\ j \in 1..Len(s) /\ (s \o t)[i] = s[i] /\ (s \o t)[j] = s[j]
    BY <1>1, <1>3
  <2>2. QED
    BY <1>2, <2>1 DEF OncePerKey
<1>4. CASE ~(i <= Len(s)) /\ ~(j <= Len(s))
  <2>1. /\ i - Len(s) \in 1..Len(t) /\ j - Len(s) \in 1..Len(t)
        /\ (s \o t)[i] = t[i - Len(s)] /\ (s \o t)[j] = t[j - Len(s)]
    BY <1>1, <1>4
  <2>2. i - Len(s) = j - Len(s)
    BY <1>2, <2>1 DEF OncePerKey
  <2>3. QED
    BY <1>1, <2>2
<1>5. CASE i <= Len(s) /\ ~(j <= Len(s))
  <2>1. /\ i \in 1..Len(s) /\ j - Len(s) \in 1..Len(t)
        /\ (s \o t)[i] = s[i] /\ (s \o t)[j] = t[j - Len(s)]
    BY <1>1, <1>5
  <2>2. QED
    BY <1>2, <2>1
<1>6. CASE ~(i <= Len(s)) /\ j <= Len(s)
  <2>1. /\ j \in 1..Len(s) /\ i - Len(s) \in 1..Len(t)
        /\ (s \o t)[j] = s[j] /\ (s \o t)[i] = t[i - Len(s)]
    BY <1>1, <1>6
  <2>2. QED
    BY <1>2, <2>1
<1>7. QED
  BY <1>3, <1>4, <1>5, <1>6

LEMMA EndStatementInv == ASSUME PipelineInv, TypeOK', EndStatement PROVE PipelineInv'
<1> USE DEF PipelineInv
<1>1. /\ phase = "rules" /\ phase' = "statement"
      /\ warned_keys' = warned_keys \cup statement_warned_keys
      /\ all_violations' = all_violations \o statement_violations
      /\ statement_warned_keys' = {} /\ statement_violations' = <<>>
      /\ UNCHANGED <<pos, transaction, evidence, not_evaluated, failures, skipped>>
  BY DEF EndStatement, state, history
<1>2. all_violations \in Seq(Violations) /\ statement_violations \in Seq(Violations)
  BY DEF TypeOK
<1>3. Working /\ ~Working' /\ Reported' = Reported \cup Buffered /\ Buffered' = {}
  <2>1. Reported' = Reported \cup Buffered
    <3>1. /\ Reported = Elements(all_violations) /\ Buffered = Elements(statement_violations)
          /\ Reported' = Elements(all_violations')
      BY DEF Elements, Reported, Buffered
    <3>2. QED
      BY <1>1, <1>2, <3>1, ConcatElements
  <2>2. Buffered' = {}
    BY <1>1 DEF Buffered
  <2>3. QED
    BY <1>1, <2>1, <2>2 DEF Working
<1>4. PlacesInv'
  BY <1>1, <1>3 DEF PlacesInv, AtMost
<1>5. LeaksInv'
  BY <1>1, <1>3 DEF LeaksInv
<1>6. KeysInv'
  <2>1. ASSUME NEW i \in 1..Len(all_violations), NEW j \in 1..Len(statement_violations),
               all_violations[i].key \in Keys
        PROVE  all_violations[i].key # statement_violations[j].key
    <3>1. all_violations[i] \in Reported /\ statement_violations[j] \in Buffered
      BY DEF Reported, Buffered
    <3>2. QED
      BY <2>1, <3>1 DEF KeysInv
  <2>2. OncePerKey(all_violations \o statement_violations)
    BY <1>2, <2>1, OncePerKeyConcat DEF KeysInv
  <2>3. OncePerKey(all_violations') /\ OncePerKey(statement_violations')
    BY <1>1, <2>2 DEF OncePerKey
  <2>4. warned_keys' = {v.key : v \in Reported'} \cap Keys
    BY <1>1, <1>3 DEF KeysInv
  <2>5. QED
    BY <1>1, <1>3, <2>3, <2>4 DEF KeysInv, OncePerKey
<1>7. SkipsInv' /\ EvidenceInv'
  BY <1>1, <1>3 DEF SkipsInv, EvidenceInv
<1>8. TaintsInv'
  BY <1>1, <1>3 DEF TaintsInv, Taints, Before
<1>9. QED
  BY <1>4, <1>5, <1>6, <1>7, <1>8

LEMMA EndFileInv == ASSUME PipelineInv, TypeOK', EndFile PROVE PipelineInv'
<1> USE DEF PipelineInv
<1>1. /\ phase = "statement" /\ phase' = "file"
      /\ warned_keys' = {} /\ all_violations' = <<>>
      /\ UNCHANGED <<pos, transaction, evidence, not_evaluated, statement_violations,
                     statement_warned_keys, failures, skipped>>
  BY DEF EndFile, state, buffers, history
<1>2. ~Working /\ ~Working' /\ Reported' = {} /\ Buffered' = Buffered /\ Buffered = {}
  <2>1. ~Working /\ ~Working'
    BY <1>1 DEF Working
  <2>2. Reported' = {} /\ Buffered' = Buffered
    BY <1>1 DEF Reported, Buffered
  <2>3. QED
    BY <2>1, <2>2 DEF PlacesInv
<1>3. PlacesInv' /\ LeaksInv' /\ TaintsInv'
  BY <1>1, <1>2 DEF PlacesInv, LeaksInv, TaintsInv
<1>4. KeysInv'
  BY <1>1, <1>2 DEF KeysInv, OncePerKey
<1>5. SkipsInv' /\ EvidenceInv'
  BY <1>1, <1>2 DEF SkipsInv, EvidenceInv
<1>6. QED
  BY <1>3, <1>4, <1>5

LEMMA FileInv ==
    ASSUME PipelineInv, TypeOK',
           \/ \E ignores \in Directives : StartFile(ignores)
           \/ ParseError \/ Finish \/ NextMutation
    PROVE  PipelineInv'
<1>0. TypeOK /\ AtMost(pos, pos) /\ todo \in Nat
      /\ (phase = "rules" /\ kind # "catalog" => todo = 1)
      /\ (phase = "rules" /\ pos \in failures => result = "conflict")
  BY DEF PipelineInv, TypeOK, AtMost, PlacesInv, EvidenceInv, Working
<1>1. ASSUME NEW ignores \in Directives, StartFile(ignores) PROVE PipelineInv'
  <2>1. /\ phase = "file" /\ phase' = "statement" /\ AtMost(pos, pos')
        /\ UNCHANGED <<transaction, evidence, not_evaluated, statement_warned_keys,
                       statement_violations, warned_keys, all_violations, failures, skipped>>
    BY <1>0, <1>1, NextPlaces DEF StartFile, state, perfile, buffers, history, AtMost
  <2>2. ~Working /\ ~Working'
    BY <2>1 DEF Working
  <2>3. QED
    BY <2>1, <2>2, QuietInv
<1>2. CASE ParseError \/ Finish
  <2>1. /\ phase = "file" /\ phase' \in {"error", "done"} /\ pos' = pos
        /\ UNCHANGED <<transaction, evidence, not_evaluated, statement_warned_keys,
                       statement_violations, warned_keys, all_violations, failures, skipped>>
    BY <1>2 DEF ParseError, Finish, state, perfile, buffers, history
  <2>2. ~Working /\ ~Working'
    BY <2>1 DEF Working
  <2>3. QED
    BY <1>0, <2>1, <2>2, QuietInv
<1>3. CASE NextMutation
  <2>1. /\ phase = "rules" /\ phase' = "apply" /\ todo > 1 /\ result # "conflict"
        /\ UNCHANGED <<pos, kind, checkpoint, transaction, evidence, not_evaluated,
                       statement_warned_keys, statement_violations, warned_keys, all_violations,
                       failures, skipped>>
    BY <1>3 DEF NextMutation, state, perfile, buffers, history
  <2>2. Working /\ Working' /\ kind = "catalog" /\ pos \notin failures
    BY <1>0, <2>1 DEF Working
  <2>3. QED
    BY <1>0, <2>1, <2>2, QuietInv
<1>4. QED
  BY <1>1, <1>2, <1>3
-----------------------------------------------------------------------------
(* The theorems *)

LEMMA InitPipelineInv == Init => PipelineInv
<1> SUFFICES ASSUME Init PROVE PipelineInv
  OBVIOUS
<1>1. TypeOK
  BY InitTypeOK
<1>2. Reported = {} /\ Buffered = {} /\ ~Working
  BY DEF Init, Reported, Buffered, Working
<1>3. PlacesInv /\ LeaksInv /\ SkipsInv /\ TaintsInv
  BY <1>2 DEF Init, PlacesInv, LeaksInv, SkipsInv, TaintsInv
<1>4. KeysInv
  BY <1>2 DEF Init, KeysInv, OncePerKey
<1>5. EvidenceInv
  BY <1>2 DEF Init, EvidenceInv, Closed
<1>6. QED
  BY <1>1, <1>3, <1>4, <1>5 DEF PipelineInv

LEMMA StepPipelineInv == ASSUME PipelineInv, [Next]_vars PROVE PipelineInv'
<1>1. CASE Next
  <2>1. TypeOK'
    BY <1>1, StepTypeOK DEF PipelineInv
  <2>2. QED
    BY <1>1, <2>1, RuleInv, ApplyInv, StartStatementInv, EndStatementInv, EndFileInv, FileInv
       DEF Next, Step
<1>2. CASE UNCHANGED vars
  <2>1. TypeOK' /\ (Working' <=> Working) /\ AtMost(pos, pos')
    BY <1>2 DEF PipelineInv, TypeOK, vars, Working, AtMost
  <2>2. Working /\ pos \in failures => phase # "apply" /\ result = "conflict"
    BY DEF PipelineInv, PlacesInv
  <2>3. QED
    BY <1>2, <2>1, <2>2, QuietInv DEF vars
<1>3. QED
  BY <1>1, <1>2

(* The inductive invariant of the statement loop, for every chain. *)
THEOREM PipelineInvariant == Spec => []PipelineInv
<1>1. Init => PipelineInv
  BY InitPipelineInv
<1>2. PipelineInv /\ [Next]_vars => PipelineInv'
  BY StepPipelineInv
<1>3. QED
  BY <1>1, <1>2, PTL DEF Spec

(* The findings of a statement that fails are only those about its failing
   action: analyze_parsed_file clears the buffers before the rules see it. *)
THEOREM FailureNeverLeaks == Spec => []FailedStatementLeaksNothing
<1>1. PipelineInv => FailedStatementLeaksNothing
  BY DEF PipelineInv, LeaksInv, FailedStatementLeaksNothing
<1>2. QED
  BY <1>1, PipelineInvariant, PTL

(* The recorded keys of a file are those its rules gave the findings it reports,
   and each of them is reported once: a failed statement takes its keys back with
   it (analyze_parsed_file).  Findings about forbidden directives do not count:
   their keys are never recorded. *)
THEOREM KeysAlwaysReported == Spec => []KeysAreReported
<1>1. PipelineInv => KeysAreReported
  BY DEF PipelineInv, KeysInv, OncePerKey, KeysAreReported
<1>2. QED
  BY <1>1, PipelineInvariant, PTL

(* A chain that reads safe skipped no rule that could have halted it, but in a
   statement that failed: neither the undo log nor ROLLBACK forgets a skip. *)
THEOREM SafeIsEarned == Spec => []SafeMeansEveryCheckRan
<1>1. PipelineInv => SafeMeansEveryCheckRan
  BY DEF PipelineInv, SkipsInv, SafeMeansEveryCheckRan, ReadsSafe
<1>2. QED
  BY <1>1, PipelineInvariant, PTL

(* Certainty is computed when the file ends, from the log as it is then, and
   yet nothing later than a statement has made its findings less certain. *)
THEOREM LaterEvidenceNeverTaints == Spec => LaterNeverTaints
<1> DEFINE Added ==
        \A i \in (Len(findings) + 1)..Len(findings') :
            LET f == findings'[i]
                v == f.violation
            IN  v.placed /\ f.certainty = "tainted" /\ ~v.doubted =>
                    [scope |-> "statement", at |-> v.pos] \in evidence
<1>1. ASSUME PipelineInv, [Next]_vars, phase = "statement", phase' = "file" PROVE Added
  <2>1. EndFile
    BY <1>1 DEF Next, Step, vars, StartFile, ParseError, EndFile, Finish, StartStatement,
       NotExecuted, ApplyConflict, ApplyControl, ApplyCatalog, InlineSuppressionDisabled, SkipRule,
       RecordNotEvaluated, FindNothing, Evaluate, Evaluates, Collect, NextMutation, EndStatement
  <2> DEFINE n == Len(findings)
             new == [i \in 1..Len(all_violations) |-> ReportFinding(all_violations[i])]
             F == [violation : Violations, certainty : Certainties]
  <2>2. \A v \in Violations : ReportFinding(v) \in F
    BY DEF ReportFinding, CertaintyAt, Certainties
  <2>3. all_violations \in Seq(Violations) /\ findings \in Seq(F)
    BY <1>1 DEF PipelineInv, TypeOK
  <2>4. new \in Seq(F) /\ Len(new) = Len(all_violations)
    BY <2>2, <2>3
  <2>5. findings' = findings \o new
    BY <2>1 DEF EndFile
  <2>6. ASSUME NEW i \in (n + 1)..Len(findings')
        PROVE  i - n \in 1..Len(all_violations) /\ findings'[i] = ReportFinding(all_violations[i - n])
    <3> HIDE DEF new, F
    <3>0. /\ Len(findings \o new) = Len(findings) + Len(new)
          /\ \A j \in 1..(Len(findings) + Len(new)) :
                 (findings \o new)[j] = IF j <= Len(findings) THEN findings[j]
                                        ELSE new[j - Len(findings)]
      BY <2>3, <2>4
    <3>1. /\ n \in Nat /\ Len(all_violations) \in Nat
          /\ Len(findings') = n + Len(all_violations)
          /\ \A j \in 1..(n + Len(all_violations)) :
                 findings'[j] = IF j <= n THEN findings[j] ELSE new[j - n]
      BY <2>3, <2>4, <2>5, <3>0
    <3>2. i - n \in 1..Len(all_violations) /\ findings'[i] = new[i - n]
      BY <3>1
    <3>3. QED
      BY <3>2 DEF new
  <2>7. SUFFICES ASSUME NEW i \in (n + 1)..Len(findings'),
                        findings'[i].violation.placed, findings'[i].certainty = "tainted",
                        ~findings'[i].violation.doubted
                 PROVE  [scope |-> "statement", at |-> findings'[i].violation.pos] \in evidence
    BY DEF Added
  <2>8. PICK v \in Reported : findings'[i] = ReportFinding(v)
    BY <2>6 DEF Reported
  <2>9. /\ findings'[i].violation = v /\ v.placed /\ ~v.doubted
        /\ CertaintyAt(v.pos) = "tainted"
    BY <2>7, <2>8 DEF ReportFinding
  <2>10. PICK e \in evidence : Taints(e, v.pos)
    BY <2>9 DEF CertaintyAt
  <2>11. e = [scope |-> "statement", at |-> v.pos]
    BY <1>1, <2>9, <2>10 DEF PipelineInv, TaintsInv
  <2>12. QED
    BY <2>9, <2>10, <2>11
<1>2. PipelineInv /\ [Next]_vars => [phase = "statement" /\ phase' = "file" => Added]_vars
  BY <1>1
<1>3. QED
  BY <1>2, PipelineInvariant, PTL DEF Spec, LaterNeverTaints, Added
=============================================================================
