--------------------------- MODULE FindingPipeline ---------------------------
(***************************************************************************)
(* How the engine turns rule results into a report: analyze_parsed_file,   *)
(* analyze_chain_with_locations and certainty_for_statement (engine.rs,    *)
(* report/violations.rs, report/reporter.rs).                              *)
(*                                                                         *)
(* A statement buffers its findings and deduplication keys and hands them  *)
(* to the file when it ends; a conflict empties the buffers and restores   *)
(* the checkpoint.  Evidence is part of the simulated state: the undo log  *)
(* of an open transaction, the checkpoint and ROLLBACK bring it back.  The *)
(* record of skipped rules, not_evaluated, is outside the undo log.  What  *)
(* a mutation does and what a rule finds are left open.                    *)
(***************************************************************************)
EXTENDS Integers, Sequences, TLC

CONSTANTS
    NRules,                   \* rules 1..NRules, in registry order
    Tier1Rules,               \* the rules whose default tier is 1
    Disabled,                 \* rules switched off in the configuration
    AssertedVersion,          \* the server version is configured, not observed
    Keys, NoKey,              \* deduplication keys the rules give their findings
    Found,                    \* what a rule may report: [key, tier]
    NoPos,                    \* evidence recorded outside any statement
    MaxFiles,                 \* bound on the files of a chain
    MaxStatements,            \* bound: file i has at most MaxStatements + 1 - i
    MaxMutations,             \* bound on the mutations of a statement
    MaxFindings               \* bound on the findings of a chain

Rules == 1..NRules

(* The key of a finding about a forbidden directive; those of the rules start
   with the rule's own identifier. *)
SuppressionKey(r) == <<"inline-suppression-disabled", r>>
SuppressionKeys == {SuppressionKey(r) : r \in Rules}

ASSUME PipelineAssumption ==
    /\ {NRules, MaxFiles, MaxStatements, MaxMutations, MaxFindings} \subseteq Nat
    /\ Tier1Rules \subseteq Rules /\ Disabled \subseteq Rules
    /\ AssertedVersion \in BOOLEAN
    /\ NoKey \notin Keys /\ SuppressionKeys \cap Keys = {} /\ NoPos \notin Nat \X Nat
    /\ Found \subseteq [key : Keys \cup {NoKey}, tier : {1, 2, 3}]

VARIABLES
    phase,                  \* "file", "statement", "apply", "rules", "collect", "done", "error"
    pos,                    \* <<file_index, statement_index>>
    kind,                   \* the statement: "catalog" or transaction control
    todo,                   \* mutations of the statement yet to finish
    result,                 \* MutationResult of the mutation under evaluation
    rule,                   \* the rule whose turn it is
    allow_inline_suppressions,  \* configuration
    file_ignores, stmt_ignores,
    transaction,            \* [open, aborted, evidence when it was opened]
    checkpoint,             \* StatementCheckpoint
    evidence,               \* EvidenceLog: [scope, at]
    not_evaluated,          \* rules skipped for want of evidence
    statement_warned_keys, statement_violations,
    warned_keys, all_violations,
    findings,               \* what the chain has reported
    failures, skipped       \* history: failed statements; skipped rules by statement

state == <<transaction, evidence, not_evaluated>>
buffers == <<statement_warned_keys, statement_violations>>
perfile == <<warned_keys, all_violations>>
history == <<failures, skipped>>
vars == <<allow_inline_suppressions, phase, pos, kind, todo, result, rule, file_ignores, stmt_ignores, transaction,
          checkpoint, evidence, not_evaluated, statement_warned_keys, statement_violations,
          warned_keys, all_violations, findings, failures, skipped>>

NoCheckpoint == [full |-> TRUE, evidence |-> {}, not_evaluated |-> {}]

Closed == [open |-> FALSE, aborted |-> FALSE, evidence |-> {}]

Init ==
    /\ phase = "file" /\ pos = <<0, 0>> /\ kind = "none" /\ todo = 0
    /\ result = "none" /\ rule = 0
    /\ allow_inline_suppressions \in BOOLEAN
    /\ file_ignores = {} /\ stmt_ignores = {}
    /\ transaction = Closed
    /\ checkpoint = NoCheckpoint
    /\ evidence \in {{}, {[scope |-> "chain", at |-> NoPos]}}
    /\ not_evaluated = {}
    /\ statement_warned_keys = {} /\ statement_violations = <<>>
    /\ warned_keys = {} /\ all_violations = <<>> /\ findings = <<>>
    /\ failures = {} /\ skipped = {}
-----------------------------------------------------------------------------
(***************************************************************************)
(* certainty_for_statement                                                 *)
(***************************************************************************)
Before(p, q) == p[1] < q[1] \/ (p[1] = q[1] /\ p[2] < q[2])

(* Mutant: chain evidence taints whatever statement it is compared with. *)
TaintsAnywhere(record, here) ==
    \/ record.scope = "chain"
    \/ record.scope = "statement" /\ record.at = here

(* Chain evidence taints later statements, statement evidence its own; what
   cannot be placed on either side taints. *)
Taints(record, here) ==
    \/ record.at = NoPos \/ here = NoPos
    \/ record.scope = "chain" /\ Before(record.at, here)
    \/ record.scope = "statement" /\ record.at = here

CertaintyAt(here) ==
    IF \E record \in evidence : Taints(record, here) THEN "tainted"
    ELSE IF AssertedVersion THEN "assumed" ELSE "exact"
-----------------------------------------------------------------------------
(***************************************************************************)
(* Files and statements.                                                   *)
(***************************************************************************)
StartFile(ignores) ==
    /\ phase = "file" /\ pos[1] < MaxFiles
    /\ phase' = "statement" /\ pos' = <<pos[1] + 1, 0>>
    /\ file_ignores' = ignores
    /\ UNCHANGED <<kind, todo, result, rule, stmt_ignores, state, checkpoint, buffers,
                   perfile, findings, history>>

(* A file that does not parse fails the whole chain: no partial report. *)
ParseError ==
    /\ phase = "file" /\ pos[1] < MaxFiles
    /\ phase' = "error" /\ findings' = <<>>
    /\ UNCHANGED <<pos, kind, todo, result, rule, file_ignores, stmt_ignores, state,
                   checkpoint, buffers, perfile, history>>

(* StatementCheckpoint::capture: a clone of the state, or for a catalog
   statement of an open transaction a position in the undo log.  A directive
   the file already carries is not repeated: it would change nothing. *)
StartStatement(k, n, ignores) ==
    /\ phase = "statement" /\ pos[1] + pos[2] <= MaxStatements
    /\ k # "catalog" => n = 1
    /\ ignores \cap file_ignores = {}
    /\ phase' = "apply" /\ pos' = <<pos[1], pos[2] + 1>>
    /\ kind' = k /\ todo' = n /\ stmt_ignores' = ignores
    /\ checkpoint' = [full |-> ~transaction.open \/ k # "catalog",
                      evidence |-> evidence, not_evaluated |-> not_evaluated]
    /\ UNCHANGED <<result, rule, file_ignores, state, buffers, perfile, findings, history>>

ReportFinding(v) ==
    [violation |-> v, certainty |-> CertaintyAt(IF v.placed THEN v.pos ELSE NoPos)]

(* The findings of the file get their certainty from the log as it is now;
   the keys and directives of the file are dropped. *)
EndFile ==
    /\ phase = "statement"
    /\ phase' = "file"
    /\ file_ignores' = {} /\ warned_keys' = {} /\ all_violations' = <<>>
    /\ findings' = findings \o [i \in 1..Len(all_violations) |-> ReportFinding(all_violations[i])]
    /\ UNCHANGED <<pos, kind, todo, result, rule, stmt_ignores, state, checkpoint, buffers,
                   history>>

(* The report: sorted by tier, then by place. *)
Sorted(reported) ==
    LET Precedes(a, b) ==
            \/ a.violation.tier < b.violation.tier
            \/ a.violation.tier = b.violation.tier /\ Before(a.violation.pos, b.violation.pos)
    IN  SortSeq(reported, Precedes)

Finish ==
    /\ phase = "file" /\ pos[1] > 0
    /\ phase' = "done"
    /\ findings' = Sorted(findings)
    /\ UNCHANGED <<pos, kind, todo, result, rule, file_ignores, stmt_ignores, state,
                   checkpoint, buffers, perfile, history>>
-----------------------------------------------------------------------------
(***************************************************************************)
(* apply, as far as evidence and the transaction go.                       *)
(***************************************************************************)
ToRules(r) == phase' = "rules" /\ rule' = 1 /\ result' = r

(* An aborted transaction executes nothing but its end. *)
NotExecuted ==
    /\ phase = "apply" /\ transaction.aborted /\ kind \in {"catalog", "begin"}
    /\ ToRules("not_executed")
    /\ UNCHANGED <<pos, kind, todo, file_ignores, stmt_ignores, state, checkpoint, buffers,
                   perfile, findings, history>>

Records == [scope : {"chain", "statement"}, at : {pos}]

ApplyCatalog(r, recorded) ==
    /\ phase = "apply" /\ kind = "catalog" /\ ~transaction.aborted
    /\ r = "unresolved" => recorded # {}
    /\ evidence' = evidence \cup recorded
    /\ ToRules(r)
    /\ UNCHANGED <<pos, kind, todo, file_ignores, stmt_ignores, transaction, checkpoint,
                   not_evaluated, buffers, perfile, findings, history>>

(* Mutant: the buffered findings of the statement survive its failure. *)
ApplyConflictKeepingFindings ==
    /\ phase = "apply" /\ kind = "catalog" /\ ~transaction.aborted
    /\ transaction' = [transaction EXCEPT !.aborted = transaction.open]
    /\ evidence' = checkpoint.evidence
    /\ not_evaluated' = IF checkpoint.full THEN checkpoint.not_evaluated ELSE not_evaluated
    /\ statement_warned_keys' = {}
    /\ failures' = failures \cup {pos}
    /\ ToRules("conflict")
    /\ UNCHANGED <<pos, kind, todo, file_ignores, stmt_ignores, checkpoint,
                   statement_violations, perfile, findings, skipped>>

(* Mutant: the deduplication keys of the statement survive its failure. *)
ApplyConflictKeepingKeys ==
    /\ phase = "apply" /\ kind = "catalog" /\ ~transaction.aborted
    /\ transaction' = [transaction EXCEPT !.aborted = transaction.open]
    /\ evidence' = checkpoint.evidence
    /\ not_evaluated' = IF checkpoint.full THEN checkpoint.not_evaluated ELSE not_evaluated
    /\ statement_violations' = <<>>
    /\ failures' = failures \cup {pos}
    /\ ToRules("conflict")
    /\ UNCHANGED <<pos, kind, todo, file_ignores, stmt_ignores, checkpoint,
                   statement_warned_keys, perfile, findings, skipped>>

(* A conflict restores the checkpoint, evidence included, whatever the
   statement's mutations recorded; the undo log knows no not_evaluated. *)
ApplyConflict ==
    /\ phase = "apply" /\ kind = "catalog" /\ ~transaction.aborted
    /\ transaction' = [transaction EXCEPT !.aborted = transaction.open]
    /\ evidence' = checkpoint.evidence
    /\ not_evaluated' = IF checkpoint.full THEN checkpoint.not_evaluated ELSE not_evaluated
    /\ statement_warned_keys' = {} /\ statement_violations' = <<>>
    /\ failures' = failures \cup {pos}
    /\ ToRules("conflict")
    /\ UNCHANGED <<pos, kind, todo, file_ignores, stmt_ignores, checkpoint, perfile, findings,
                   skipped>>

(* Mutant: ROLLBACK brings the record of skipped rules back, too. *)
ApplyControlForgetting ==
    LET undone == transaction.open /\ (kind = "rollback" \/ transaction.aborted)
    IN  /\ phase = "apply" /\ kind # "catalog"
        /\ kind = "begin" => ~transaction.aborted
        /\ transaction' = IF kind # "begin" THEN Closed
                          ELSE IF transaction.open THEN transaction
                          ELSE [open |-> TRUE, aborted |-> FALSE, evidence |-> evidence]
        /\ evidence' = IF undone THEN transaction.evidence ELSE evidence
        /\ not_evaluated' = IF undone THEN {} ELSE not_evaluated
        /\ ToRules("applied")
        /\ UNCHANGED <<pos, kind, todo, file_ignores, stmt_ignores, checkpoint, buffers,
                       perfile, findings, history>>

(* BEGIN, COMMIT and ROLLBACK; a COMMIT of an aborted transaction rolls back,
   a second BEGIN and an end without a transaction change nothing. *)
ApplyControl ==
    LET undone == transaction.open /\ (kind = "rollback" \/ transaction.aborted)
    IN  /\ phase = "apply" /\ kind # "catalog"
        /\ kind = "begin" => ~transaction.aborted
        /\ transaction' = IF kind # "begin" THEN Closed
                          ELSE IF transaction.open THEN transaction
                          ELSE [open |-> TRUE, aborted |-> FALSE, evidence |-> evidence]
        /\ evidence' = IF undone THEN transaction.evidence ELSE evidence
        /\ ToRules("applied")
        /\ UNCHANGED <<pos, kind, todo, file_ignores, stmt_ignores, checkpoint, not_evaluated,
                       buffers, perfile, findings, history>>
-----------------------------------------------------------------------------
(***************************************************************************)
(* The rule loop of one mutation.                                          *)
(***************************************************************************)
(* History: `doubted` says that chain evidence of something earlier is in the
   log when the finding is made. *)
Violation(k, tier, placed) ==
    [pos |-> pos, key |-> k, tier |-> tier, placed |-> placed, conflict |-> result = "conflict",
     doubted |-> \E record \in evidence : record.scope = "chain" /\ Taints(record, pos)]

Room(n) ==
    Len(findings) + Len(all_violations) + Len(statement_violations) + n <= MaxFindings

Ignored == rule \in file_ignores \cup stmt_ignores

Evaluates == phase = "rules" /\ rule \in Rules /\ result # "not_executed"

NextRule == rule' = rule + 1 /\ UNCHANGED <<phase, pos, kind, todo, result, file_ignores,
                                            stmt_ignores, transaction, checkpoint, perfile,
                                            findings, failures>>

(* A forbidden directive is itself a finding, once per mutation: its key is
   neither looked up nor recorded. *)
InlineSuppressionDisabled ==
    /\ Evaluates /\ Ignored /\ ~allow_inline_suppressions /\ Room(1)
    /\ statement_violations' = Append(statement_violations, Violation(SuppressionKey(rule), 1, FALSE))
    /\ NextRule /\ UNCHANGED <<evidence, not_evaluated, statement_warned_keys, skipped>>

SkipRule ==
    /\ Evaluates
    /\ IF Ignored THEN allow_inline_suppressions ELSE rule \in Disabled
    /\ NextRule /\ UNCHANGED <<evidence, not_evaluated, buffers, skipped>>

(* The rule needs what the mutation could not resolve. *)
RecordNotEvaluated ==
    /\ Evaluates /\ ~Ignored /\ rule \notin Disabled /\ result = "unresolved"
    /\ not_evaluated' = not_evaluated \cup {rule}
    /\ skipped' = skipped \cup {<<pos, rule>>}
    /\ NextRule /\ UNCHANGED <<evidence, buffers>>

(* The rule finds nothing. *)
FindNothing ==
    /\ Evaluates /\ ~Ignored /\ rule \notin Disabled
    /\ NextRule /\ UNCHANGED <<evidence, not_evaluated, buffers, skipped>>

(* The rule finds something; where a capability is missing for that, the
   statement is tainted before the findings are looked at. *)
Evaluate(missing) ==
    /\ Evaluates /\ ~Ignored /\ rule \notin Disabled /\ Room(1)
    /\ phase' = "collect"
    /\ evidence' = IF missing THEN evidence \cup {[scope |-> "statement", at |-> pos]}
                   ELSE evidence
    /\ UNCHANGED <<pos, kind, todo, result, rule, file_ignores, stmt_ignores, transaction,
                   checkpoint, not_evaluated, buffers, perfile, findings, history>>

(* Neither the file nor the statement has reported a finding with this key. *)
Fresh(k) == k = NoKey \/ (k \notin warned_keys /\ k \notin statement_warned_keys)

(* One finding of the rule, dropped if its key is known; the last one hands
   over to the next rule. *)
Collect(found, last) ==
    /\ phase = "collect" /\ (found.tier = 1 => rule \in Tier1Rules)
    /\ Room(IF last THEN 1 ELSE 2)
    /\ statement_warned_keys' = statement_warned_keys \cup
           IF Fresh(found.key) THEN {found.key} \ {NoKey} ELSE {}
    /\ statement_violations' =
           IF Fresh(found.key)
           THEN Append(statement_violations, Violation(found.key, found.tier, TRUE))
           ELSE statement_violations
    /\ IF last THEN phase' = "rules" /\ rule' = rule + 1 ELSE UNCHANGED <<phase, rule>>
    /\ UNCHANGED <<pos, kind, todo, result, file_ignores, stmt_ignores, state, checkpoint,
                   perfile, findings, history>>

NextMutation ==
    /\ phase = "rules" /\ (rule > NRules \/ result = "not_executed")
    /\ todo > 1 /\ result # "conflict"
    /\ phase' = "apply" /\ todo' = todo - 1
    /\ UNCHANGED <<pos, kind, result, rule, file_ignores, stmt_ignores, state, checkpoint,
                   buffers, perfile, findings, history>>

(* A statement that ends, well or not, hands its buffers to the file. *)
EndStatement ==
    /\ phase = "rules" /\ (rule > NRules \/ result = "not_executed")
    /\ todo = 1 \/ result = "conflict"
    /\ phase' = "statement"
    /\ warned_keys' = warned_keys \cup statement_warned_keys
    /\ all_violations' = all_violations \o statement_violations
    /\ statement_warned_keys' = {} /\ statement_violations' = <<>>
    /\ kind' = "none" /\ todo' = 0 /\ result' = "none" /\ rule' = 0
    /\ stmt_ignores' = {} /\ checkpoint' = NoCheckpoint
    /\ UNCHANGED <<pos, file_ignores, state, findings, history>>
-----------------------------------------------------------------------------
Directives == {{}} \cup {{r} : r \in Rules}

Step ==
    \/ \E ignores \in Directives : StartFile(ignores)
    \/ ParseError \/ EndFile \/ Finish
    \/ \E k \in {"catalog", "begin", "commit", "rollback"}, n \in 1..MaxMutations,
          ignores \in Directives : StartStatement(k, n, ignores)
    \/ NotExecuted \/ ApplyConflict \/ ApplyControl
    \/ \E r \in {"applied", "unresolved"}, recorded \in {{}} \cup {{e} : e \in Records} :
           ApplyCatalog(r, recorded)
    \/ InlineSuppressionDisabled \/ SkipRule \/ RecordNotEvaluated \/ FindNothing
    \/ \E missing \in BOOLEAN : Evaluate(missing)
    \/ \E found \in Found, last \in BOOLEAN : Collect(found, last)
    \/ NextMutation \/ EndStatement

Next == Step /\ UNCHANGED allow_inline_suppressions

Spec == Init /\ [][Next]_vars
-----------------------------------------------------------------------------
Reported == {all_violations[i] : i \in 1..Len(all_violations)}
Final == {findings[i] : i \in 1..Len(findings)}

(* compute_verdict_with, from the point of view of a gap in the checks. *)
ReadsSafe ==
    /\ \A f \in Final : f.violation.tier = 3
    /\ not_evaluated \cap Tier1Rules = {}

(* A statement that fails reports only what the rules say of its failing      *)
(* action: nothing found for an action that was then undone gets out.         *)
FailedStatementLeaksNothing ==
    \A v \in Reported : v.pos \in failures => v.conflict

(* Between statements the recorded keys of a file are exactly the keys of the *)
(* findings its rules report, and no two of those share one: no finding is    *)
(* suppressed in favour of one that a failed statement threw away, and none   *)
(* appears twice.  The findings about forbidden directives (engine.rs,        *)
(* analyze_parsed_file) are outside this: their keys are never recorded and   *)
(* the same one may be reported for every mutation.                           *)
KeysAreReported ==
    phase = "statement" =>
        /\ \A k \in Keys : k \in warned_keys <=> \E v \in Reported : v.key = k
        /\ \A i, j \in 1..Len(all_violations) :
               all_violations[i].key = all_violations[j].key
               /\ all_violations[i].key \in Keys => i = j

(* Nothing that happens after a statement makes its findings less certain     *)
(* than chain evidence had made them when the rule ran, but evidence about    *)
(* the statement itself (certainty_for_statement).                            *)
LaterNeverTaints ==
    [][phase = "statement" /\ phase' = "file" =>
           \A i \in (Len(findings) + 1)..Len(findings') :
               LET f == findings'[i]
                   v == f.violation
               IN  v.placed /\ f.certainty = "tainted" /\ ~v.doubted =>
                       [scope |-> "statement", at |-> v.pos] \in evidence]_vars

(* SAFE means every check ran: a report reads safe only if no rule that can   *)
(* halt was skipped in a statement that did not itself fail, whether or not   *)
(* the statement was rolled back later.                                       *)
SafeMeansEveryCheckRan ==
    phase = "done" /\ ReadsSafe =>
        \A s \in skipped : s[2] \in Tier1Rules => s[1] \in failures

(* A finding a rule makes after chain evidence of an earlier statement has    *)
(* been recorded is reported tainted (certainty_for_statement: "Chain         *)
(* evidence taints later statements").                                        *)
EarlierTaintIsReported ==
    \A f \in Final :
        f.violation.placed /\ f.violation.doubted => f.certainty = "tainted"
-----------------------------------------------------------------------------
(***************************************************************************)
(* The inductive invariant behind them.                                    *)
(***************************************************************************)
Places == Nat \X Nat

(* What is recorded outside any statement is about the chain. *)
EvidenceRecords ==
    [scope : {"chain", "statement"}, at : Places] \cup [scope : {"chain"}, at : {NoPos}]

Certainties == {"tainted", "assumed", "exact"}

Violations ==
    [pos : Places, key : Keys \cup {NoKey} \cup SuppressionKeys, tier : {1, 2, 3},
     placed : BOOLEAN, conflict : BOOLEAN, doubted : BOOLEAN]

Working == phase \in {"apply", "rules", "collect"}

(* The type invariant. *)
TypeOK ==
    /\ phase \in {"file", "statement", "apply", "rules", "collect", "done", "error"}
    /\ pos \in Places
    /\ kind \in {"none", "catalog", "begin", "commit", "rollback"}
    /\ todo \in Nat /\ rule \in Nat
    /\ result \in {"none", "not_executed", "applied", "unresolved", "conflict"}
    /\ allow_inline_suppressions \in BOOLEAN
    /\ file_ignores \subseteq Rules /\ stmt_ignores \subseteq Rules
    /\ transaction \in [open : BOOLEAN, aborted : BOOLEAN, evidence : SUBSET EvidenceRecords]
    /\ checkpoint \in [full : BOOLEAN, evidence : SUBSET EvidenceRecords,
                       not_evaluated : SUBSET Rules]
    /\ evidence \subseteq EvidenceRecords /\ not_evaluated \subseteq Rules
    /\ statement_warned_keys \subseteq Keys /\ warned_keys \subseteq Keys
    /\ statement_violations \in Seq(Violations) /\ all_violations \in Seq(Violations)
    /\ phase # "done" => findings \in Seq([violation : Violations, certainty : Certainties])
    /\ failures \subseteq Places /\ skipped \subseteq Places \X Rules

Buffered == {statement_violations[i] : i \in 1..Len(statement_violations)}

AtMost(p, q) == p = q \/ Before(p, q)

(* What was reported and what failed lies behind, but for the statement at    *)
(* work, whose findings are still in its buffers.                             *)
PlacesInv ==
    /\ \A f \in failures : AtMost(f, pos)
    /\ \A v \in Reported : AtMost(v.pos, pos) /\ (Working => v.pos # pos)
    /\ \A v \in Buffered : Working /\ v.pos = pos
    /\ Working /\ pos \in failures => phase # "apply" /\ result = "conflict"

LeaksInv == \A v \in Reported \cup Buffered : v.pos \in failures => v.conflict

OncePerKey(violations) ==
    \A i, j \in 1..Len(violations) :
        violations[i].key = violations[j].key /\ violations[i].key \in Keys => i = j

(* The keys of the file and those of the statement are those the rules gave   *)
(* the findings they hold, and have none in common.                           *)
KeysInv ==
    /\ warned_keys = {v.key : v \in Reported} \cap Keys
    /\ statement_warned_keys = {v.key : v \in Buffered} \cap Keys
    /\ warned_keys \cap statement_warned_keys = {}
    /\ OncePerKey(all_violations) /\ OncePerKey(statement_violations)

(* A skipped rule is on record unless its statement failed; what the running  *)
(* statement's checkpoint lacks of the record, this statement has added.      *)
SkipsInv ==
    /\ \A s \in skipped : s[1] \in failures \/ s[2] \in not_evaluated
    /\ Working => \A s \in skipped :
           s[1] = pos \/ s[1] \in failures \/ s[2] \in checkpoint.not_evaluated

(* Undoing only takes evidence away, and none is recorded ahead.              *)
EvidenceInv ==
    /\ \A e \in evidence : e.at = NoPos \/ AtMost(e.at, pos)
    /\ transaction.open => transaction.evidence \subseteq evidence
    /\ Working /\ kind # "catalog" => todo = 1
    /\ Working /\ kind = "catalog" =>
           /\ checkpoint.evidence \subseteq evidence
           /\ transaction.open => transaction.evidence \subseteq checkpoint.evidence

(* Whatever taints a finding no chain evidence tainted is its own statement's. *)
TaintsInv ==
    \A v \in Reported \cup Buffered :
        v.placed /\ ~v.doubted =>
            \A e \in evidence :
                Taints(e, v.pos) => e = [scope |-> "statement", at |-> v.pos]

PipelineInv ==
    TypeOK /\ PlacesInv /\ LeaksInv /\ KeysInv /\ SkipsInv /\ EvidenceInv /\ TaintsInv
=============================================================================
