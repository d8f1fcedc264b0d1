---------------------------- MODULE MigrationTxn ----------------------------
(***************************************************************************)
(* The transactional core of safe-migrate: AnalysisState as the engine     *)
(* drives it (engine/engine.rs, state/apply.rs, state/apply_transaction.rs,*)
(* state/evidence.rs).                                                     *)
(*                                                                         *)
(* A statement is a list of mutations.  A catalog mutation is a sequence   *)
(* of snapshots and writes, each write covered by a snapshot the mutation  *)
(* took before, and ends Applied/NoOp/Unresolved or in a Conflict, which   *)
(* makes the engine restore the checkpoint of the statement.  Transaction  *)
(* control keeps one undo log per open frame; undoing pops the newest      *)
(* entry of the newest frame, one entry per step, as rollback_undo_log     *)
(* does.  What a mutation writes is left open: any value, any edge.        *)
(***************************************************************************)
EXTENDS UndoLog

CONSTANTS
    Root,           \* the kind of a root frame
    Savepoints,     \* savepoint names
    MaxFrames,      \* bound on open frames
    MaxUndo,        \* bound on the undo entries of all open frames
    MaxEdges,       \* bound on the edge list
    MaxMutations    \* bound on the mutations of one statement

ASSUME BoundsAssumption ==
    /\ Root \notin Savepoints
    /\ {MaxFrames, MaxUndo, MaxEdges, MaxMutations} \subseteq Nat

VARIABLES
    slots,                \* [Slots -> SlotValues]: the overlays and settings
    graph,                \* the edge list of the dependency graph
    transactions,         \* the frame stack, outermost first
    transaction_aborted,  \* an error is waiting for a ROLLBACK
    phase,                \* what the engine is doing
    left,                 \* mutations of the statement yet to finish; 0: control
    failed,               \* statement_failed
    held,                 \* what the running mutation has snapshotted
    checkpoint,           \* StatementCheckpoint of a catalog statement
    unwind                \* how far the running undo goes, and what follows it

data == <<slots, graph>>
engine == <<phase, left, failed, held, checkpoint, unwind>>
vars == <<slots, graph, transactions, transaction_aborted, phase, left, failed,
          held, checkpoint, unwind>>

Frames == [name : {Root} \cup Savepoints, undo_log : Seq(StateChanges)]

Frame(n) == [name |-> n, undo_log |-> <<>>]

InTransaction == transactions # <<>>

Top == transactions[Len(transactions)]

NoCheckpoint == [kind |-> "none"]

NoUnwind == [reason |-> "none", depth |-> 0, len |-> 0, chain |-> FALSE]

(***************************************************************************)
(* hydrate: an arbitrary synchronized catalog and no open transaction; the *)
(* confidence is exact unless the baseline itself lacks evidence.          *)
(***************************************************************************)
Init ==
    /\ \E catalog \in [CatalogSlots -> CatalogValues],
          evidence \in {{}} \cup {{code} : code \in Codes} :
           slots = [s \in Slots |->
                       IF s = "evidence" THEN evidence
                       ELSE IF s = "confidence"
                       THEN IF evidence = {} THEN Exact ELSE Tainted
                       ELSE catalog[s]]
    /\ graph = <<>>
    /\ transactions = <<>> /\ transaction_aborted = FALSE
    /\ phase = "idle" /\ left = 0 /\ failed = FALSE /\ held = {}
    /\ checkpoint = NoCheckpoint /\ unwind = NoUnwind
-----------------------------------------------------------------------------
(***************************************************************************)
(* Snapshots and writes.                                                   *)
(***************************************************************************)

(* frame.undo_log.push: only when some frame is open. *)
Pushed(entries) ==
    IF InTransaction
    THEN [transactions EXCEPT ![Len(transactions)].undo_log = @ \o entries]
    ELSE transactions

Room(n) ==
    LET size[i \in 0..Len(transactions)] ==
            IF i = 0 THEN 0 ELSE size[i - 1] + Len(transactions[i].undo_log)
    IN  InTransaction => size[Len(transactions)] + n <= MaxUndo

Mutating == phase \in {"mutating", "committing"}

Snapshot(entry, covers) ==
    /\ Mutating /\ Room(1)
    /\ transactions' = Pushed(<<entry>>)
    /\ held' = held \cup covers
    /\ UNCHANGED <<slots, graph, transaction_aborted, phase, left, failed, checkpoint, unwind>>

(* snapshot_relation, snapshot_role, snapshot_search_path, ... *)
SnapshotSlot(s) == Snapshot(SlotSnapshot(s, slots[s]), {s})

SnapshotNamespace ==
    Snapshot(NamespaceSnapshot(slots, graph),
             NamespaceSlots \cup {"graph_edges", "graph_tail"})

SnapshotGraph == Snapshot(GraphLengthMarker(Len(graph)), {"graph_tail"})

SnapshotGraphFull == Snapshot(GraphSnapshot(graph), {"graph_edges", "graph_tail"})

(* A handler changes an overlay or a setting it has snapshotted. *)
WriteSlot(s, v) ==
    /\ Mutating /\ s \in held
    /\ slots' = [slots EXCEPT ![s] = v]
    /\ UNCHANGED <<graph, transactions, transaction_aborted, phase, left, failed,
                   held, checkpoint, unwind>>

(* graph.add_edge, after snapshot_graph or a full copy; an edge the list
   already has is not added again. *)
AddEdge(e) ==
    /\ Mutating /\ "graph_tail" \in held /\ Len(graph) < MaxEdges
    /\ \A i \in 1..Len(graph) : graph[i] # e
    /\ graph' = Append(graph, e)
    /\ UNCHANGED <<slots, transactions, transaction_aborted, phase, left, failed,
                   held, checkpoint, unwind>>

(* retain_edges and mutate_edges, after snapshot_graph_full or a namespace
   copy: edges go or are rewritten, and equal ones collapse. *)
RewriteEdges(g) ==
    /\ Mutating /\ "graph_edges" \in held
    /\ \A i, j \in 1..Len(g) : g[i] = g[j] => i = j
    /\ graph' = g
    /\ UNCHANGED <<slots, transactions, transaction_aborted, phase, left, failed,
                   held, checkpoint, unwind>>

(* Mutant: the evidence log is not snapshotted, only the confidence. *)
TaintUnlogged(code) ==
    LET confidence == SlotSnapshot("confidence", slots["confidence"])
        entries == IF slots["confidence"] = Tainted THEN <<>> ELSE <<confidence>>
    IN  /\ phase \in {"mutating", "evaluating", "committing"}
        /\ code \notin slots["evidence"]
        /\ Room(Len(entries))
        /\ transactions' = Pushed(entries)
        /\ slots' = [slots EXCEPT !["evidence"] = @ \cup {code}, !["confidence"] = Tainted]
        /\ UNCHANGED <<graph, transaction_aborted, phase, left, failed, held, checkpoint, unwind>>

(* record_evidence: called by handlers and, after a mutation, for the rules
   whose findings lack a capability. *)
Taint(code) ==
    LET evidence == SlotSnapshot("evidence", slots["evidence"])
        confidence == SlotSnapshot("confidence", slots["confidence"])
        entries == IF slots["confidence"] = Tainted THEN <<evidence>>
                   ELSE <<evidence, confidence>>
    IN  /\ phase \in {"mutating", "evaluating", "committing"}
        /\ code \notin slots["evidence"]
        /\ Room(Len(entries))
        /\ transactions' = Pushed(entries)
        /\ slots' = [slots EXCEPT !["evidence"] = @ \cup {code}, !["confidence"] = Tainted]
        /\ UNCHANGED <<graph, transaction_aborted, phase, left, failed, held, checkpoint, unwind>>
-----------------------------------------------------------------------------
(***************************************************************************)
(* The statement loop of analyze_parsed_file for catalog statements.       *)
(***************************************************************************)

(* Mutant: the checkpoint remembers one entry too few. *)
CapturedShort ==
    IF InTransaction
    THEN [kind |-> "undo", depth |-> Len(transactions), len |-> Len(Top.undo_log) - 1]
    ELSE [kind |-> "full", slots |-> slots, graph |-> graph]

(* Mutant: the checkpoint counts one frame too many. *)
CapturedDeep ==
    IF InTransaction
    THEN [kind |-> "undo", depth |-> Len(transactions) + 1, len |-> Len(Top.undo_log)]
    ELSE [kind |-> "full", slots |-> slots, graph |-> graph]

(* StatementCheckpoint::capture *)
Captured ==
    IF InTransaction
    THEN [kind |-> "undo", depth |-> Len(transactions), len |-> Len(Top.undo_log)]
    ELSE [kind |-> "full", slots |-> slots, graph |-> graph]

(* In an aborted transaction apply returns NotExecuted for every mutation of
   a catalog statement: nothing changes and nothing is evaluated. *)
StartStatement(n) ==
    /\ phase = "idle" /\ ~transaction_aborted
    /\ phase' = "mutating" /\ left' = n /\ failed' = FALSE /\ held' = {}
    /\ checkpoint' = Captured
    /\ UNCHANGED <<slots, graph, transactions, transaction_aborted, unwind>>

(* The handler returns Applied, NoOp or Unresolved. *)
EndMutation ==
    /\ phase = "mutating"
    /\ phase' = "evaluating" /\ held' = {}
    /\ UNCHANGED <<slots, graph, transactions, transaction_aborted, left, failed,
                   checkpoint, unwind>>

(* The handler returns Conflict outside a transaction: the clone of the state
   taken before the statement comes back. *)
ConflictOutside ==
    /\ phase = "mutating" /\ ~InTransaction
    /\ slots' = checkpoint.slots /\ graph' = checkpoint.graph
    /\ phase' = "evaluating" /\ failed' = TRUE /\ held' = {}
    /\ UNCHANGED <<transactions, transaction_aborted, left, checkpoint, unwind>>

(* The handler returns Conflict inside a transaction: apply marks it aborted
   and the engine undoes the entries the statement has added. *)
ConflictInside ==
    /\ phase = "mutating" /\ InTransaction
    /\ transaction_aborted' = TRUE
    /\ phase' = "unwinding" /\ failed' = TRUE /\ held' = {}
    /\ unwind' = [reason |-> "statement", depth |-> checkpoint.depth,
                  len |-> checkpoint.len, chain |-> FALSE]
    /\ UNCHANGED <<slots, graph, transactions, left, checkpoint>>

NextMutation ==
    /\ phase = "evaluating" /\ left > 1 /\ ~failed
    /\ phase' = "mutating" /\ left' = left - 1
    /\ UNCHANGED <<slots, graph, transactions, transaction_aborted, failed, held,
                   checkpoint, unwind>>

(* The last mutation is done, or a failure broke the loop.  A successful
   statement outside a transaction runs apply_implicit_commit_actions. *)
EndStatement ==
    /\ phase = "evaluating" /\ (left <= 1 \/ failed)
    /\ phase' = IF ~failed /\ left = 1 /\ ~InTransaction THEN "committing" ELSE "idle"
    /\ left' = 0 /\ failed' = FALSE /\ checkpoint' = NoCheckpoint
    /\ UNCHANGED <<slots, graph, transactions, transaction_aborted, held, unwind>>
-----------------------------------------------------------------------------
(***************************************************************************)
(* Transaction control.  Each is a statement of one mutation, with a full  *)
(* checkpoint that only a Conflict would restore; the handlers conflict    *)
(* before they change anything but evidence, so a Conflict leaves the      *)
(* state as it was, marked aborted when a transaction is open.             *)
(***************************************************************************)
ControlConflict ==
    /\ phase' = "evaluating" /\ failed' = TRUE
    /\ transaction_aborted' = InTransaction
    /\ UNCHANGED <<slots, graph, transactions, left, held, checkpoint, unwind>>

ControlApplied ==
    /\ phase' = "evaluating" /\ failed' = FALSE
    /\ UNCHANGED <<slots, graph, transaction_aborted, left, held, checkpoint, unwind>>

StartUnwind(depth, chain) ==
    /\ phase' = "unwinding" /\ failed' = FALSE
    /\ unwind' = [reason |-> "rollback", depth |-> depth, len |-> 0, chain |-> chain]
    /\ UNCHANGED <<slots, graph, transactions, transaction_aborted, left, held, checkpoint>>

(* apply_begin_transaction: a second BEGIN is a NoOp. *)
BeginTransaction ==
    /\ phase = "idle" /\ ~transaction_aborted
    /\ transactions' = IF InTransaction THEN transactions ELSE <<Frame(Root)>>
    /\ ControlApplied

(* apply_commit_transaction *)
CommitOutsideChain ==
    /\ phase = "idle" /\ ~InTransaction
    /\ ControlConflict

CommitAborted(chain) ==
    /\ phase = "idle" /\ transaction_aborted
    /\ StartUnwind(0, chain)

CommitTransaction(chain) ==
    /\ phase = "idle" /\ ~transaction_aborted
    /\ chain => InTransaction
    /\ transactions' = <<>>
    /\ phase' = "committing" /\ failed' = FALSE
    /\ unwind' = [NoUnwind EXCEPT !.reason = "commit", !.chain = chain]
    /\ UNCHANGED <<slots, graph, transaction_aborted, left, held, checkpoint>>

(* restore_persistent_role_context and apply_on_commit_actions are done: for
   COMMIT after every frame is gone, for a statement on its own after it. *)
EndCommit ==
    /\ phase = "committing"
    /\ phase' = IF unwind.reason = "commit" THEN "evaluating" ELSE "idle"
    /\ transactions' = IF unwind.chain THEN <<Frame(Root)>> ELSE <<>>
    /\ held' = {} /\ unwind' = NoUnwind
    /\ UNCHANGED <<slots, graph, transaction_aborted, left, failed, checkpoint>>

(* apply_rollback_transaction *)
RollbackOutsideChain ==
    /\ phase = "idle" /\ ~InTransaction
    /\ ControlConflict

RollbackTransaction(chain) ==
    /\ phase = "idle"
    /\ chain => InTransaction
    /\ StartUnwind(0, chain)

Positions(name) == {i \in 1..Len(transactions) : transactions[i].name = name}

(* Mutant: position instead of rposition, the oldest savepoint of that name. *)
IsFirstPosition(p, name) == p \in Positions(name) /\ \A q \in Positions(name) : p <= q

(* rposition: the newest savepoint of that name. *)
IsPosition(p, name) == p \in Positions(name) /\ \A q \in Positions(name) : q <= p

(* apply_rollback_to_savepoint *)
RollbackToSavepoint(name) ==
    \E p \in 1..Len(transactions) :
        /\ phase = "idle" /\ IsPosition(p, name)
        /\ StartUnwind(p, FALSE)

RollbackToUnknown(name) ==
    /\ phase = "idle" /\ Positions(name) = {}
    /\ ControlConflict

(* apply_savepoint *)
Savepoint(name) ==
    /\ phase = "idle" /\ ~transaction_aborted /\ InTransaction
    /\ Len(transactions) < MaxFrames
    /\ transactions' = Append(transactions, Frame(name))
    /\ ControlApplied

SavepointOutside ==
    /\ phase = "idle" /\ ~InTransaction
    /\ ControlConflict

(* apply_release_savepoint: split_off, then extend the outer log by every
   released log in order. *)
StartRelease(name) ==
    \E p \in 2..Len(transactions) :
        /\ phase = "idle" /\ ~transaction_aborted /\ IsPosition(p, name)
        /\ phase' = "releasing" /\ failed' = FALSE
        /\ unwind' = [NoUnwind EXCEPT !.reason = "release", !.depth = p - 1]
        /\ UNCHANGED <<slots, graph, transactions, transaction_aborted, left, held, checkpoint>>

ReleaseUnknown(name) ==
    /\ phase = "idle" /\ ~transaction_aborted /\ Positions(name) = {}
    /\ ControlConflict

(* Mutant: the released log goes in front of the outer one. *)
MergedSwapped(p) ==
    [i \in 1..(Len(transactions) - 1) |->
        IF i < p THEN transactions[i]
        ELSE IF i = p
        THEN [transactions[p] EXCEPT !.undo_log = transactions[p + 1].undo_log \o @]
        ELSE transactions[i + 1]]

Merged(p) ==
    [i \in 1..(Len(transactions) - 1) |->
        IF i < p THEN transactions[i]
        ELSE IF i = p
        THEN [transactions[p] EXCEPT !.undo_log = @ \o transactions[p + 1].undo_log]
        ELSE transactions[i + 1]]

ReleaseFrame ==
    /\ phase = "releasing" /\ Len(transactions) > unwind.depth
    /\ transactions' = Merged(unwind.depth)
    /\ UNCHANGED <<slots, graph, transaction_aborted, engine>>

EndRelease ==
    /\ phase = "releasing" /\ Len(transactions) = unwind.depth
    /\ phase' = "evaluating" /\ unwind' = NoUnwind
    /\ UNCHANGED <<slots, graph, transactions, transaction_aborted, left, failed,
                   held, checkpoint>>
-----------------------------------------------------------------------------
(***************************************************************************)
(* rollback_frame and rollback_undo_log, newest frame and entry first, down *)
(* to unwind.len entries in frame unwind.depth.                            *)
(***************************************************************************)
Kept == IF Len(transactions) = unwind.depth THEN unwind.len ELSE 0

UndoEntry ==
    LET log == Top.undo_log
        change == log[Len(log)]
    IN  /\ phase = "unwinding" /\ InTransaction /\ Len(log) > Kept
        /\ slots' = UndoneSlots(change, slots)
        /\ graph' = UndoneGraph(change, graph)
        /\ transactions' = [transactions EXCEPT
               ![Len(transactions)].undo_log = SubSeq(@, 1, Len(@) - 1)]
        /\ UNCHANGED <<transaction_aborted, engine>>

PopFrame ==
    /\ phase = "unwinding" /\ Len(transactions) > unwind.depth
    /\ Top.undo_log = <<>>
    /\ transactions' = SubSeq(transactions, 1, Len(transactions) - 1)
    /\ UNCHANGED <<slots, graph, transaction_aborted, engine>>

(* Mutant: the aborted flag survives the rollback. *)
EndUnwindAborted ==
    /\ phase = "unwinding" /\ Len(transactions) = unwind.depth
    /\ InTransaction => Len(Top.undo_log) = Kept
    /\ transactions' = IF unwind.chain THEN <<Frame(Root)>> ELSE transactions
    /\ phase' = "evaluating" /\ unwind' = NoUnwind
    /\ UNCHANGED <<slots, graph, transaction_aborted, left, failed, held, checkpoint>>

(* A rollback clears the aborted flag; restoring a statement keeps it. *)
EndUnwind ==
    /\ phase = "unwinding" /\ Len(transactions) = unwind.depth
    /\ InTransaction => Len(Top.undo_log) = Kept
    /\ transaction_aborted' = (unwind.reason = "statement")
    /\ transactions' = IF unwind.chain THEN <<Frame(Root)>> ELSE transactions
    /\ phase' = "evaluating" /\ unwind' = NoUnwind
    /\ UNCHANGED <<slots, graph, left, failed, held, checkpoint>>
-----------------------------------------------------------------------------
Mutate ==
    \/ \E s \in CatalogSlots : SnapshotSlot(s) \/ \E v \in CatalogValues : WriteSlot(s, v)
    \/ SnapshotNamespace \/ SnapshotGraph \/ SnapshotGraphFull
    \/ \E e \in Edges : AddEdge(e)
    \/ \E n \in 0..Len(graph) : \E g \in [1..n -> Edges] : RewriteEdges(g)
    \/ \E code \in Codes : Taint(code)

RunStatement ==
    \/ \E n \in 1..MaxMutations : StartStatement(n)
    \/ EndMutation \/ ConflictOutside \/ ConflictInside
    \/ NextMutation \/ EndStatement

ControlTransaction ==
    \/ BeginTransaction \/ EndCommit
    \/ CommitOutsideChain \/ RollbackOutsideChain \/ SavepointOutside
    \/ \E chain \in BOOLEAN :
           CommitAborted(chain) \/ CommitTransaction(chain) \/ RollbackTransaction(chain)
    \/ \E name \in Savepoints :
           \/ RollbackToSavepoint(name) \/ Savepoint(name) \/ StartRelease(name)
           \/ RollbackToUnknown(name) \/ ReleaseUnknown(name)
    \/ ReleaseFrame \/ EndRelease

Unwind == UndoEntry \/ PopFrame \/ EndUnwind

Next == Mutate \/ RunStatement \/ ControlTransaction \/ Unwind

Spec == Init /\ [][Next]_vars
-----------------------------------------------------------------------------
Phases == {"idle", "mutating", "evaluating", "committing", "unwinding", "releasing"}

Checkpoints ==
    [kind : {"none"}] \cup [kind : {"undo"}, depth : Nat, len : Nat]
        \cup [kind : {"full"}, slots : SlotStates, graph : Graphs]

(* The type invariant. *)
TypeOK ==
    /\ slots \in SlotStates
    /\ graph \in Graphs
    /\ transactions \in Seq(Frames)
    /\ transaction_aborted \in BOOLEAN
    /\ phase \in Phases
    /\ left \in Nat
    /\ failed \in BOOLEAN
    /\ held \subseteq (CatalogSlots \cup {"graph_edges", "graph_tail"})
    /\ checkpoint \in Checkpoints
    /\ unwind \in [reason : {"none", "rollback", "statement", "commit", "release"},
                   depth : Nat, len : Nat, chain : BOOLEAN]

(* The outermost frame is the root, every other one a savepoint, and a        *)
(* transaction waiting for its ROLLBACK still has its root frame: a commit,   *)
(* rollback or release can never strip the root and leave the rest, whatever  *)
(* mix of savepoints, chains and failures came before.                        *)
StackShape ==
    /\ \A i \in 1..Len(transactions) : (transactions[i].name = Root) <=> (i = 1)
    /\ transaction_aborted /\ unwind.reason # "rollback" => InTransaction

(* None of the three errors of rollback_to_transaction_undo_checkpoint can    *)
(* occur: while a catalog statement of a transaction runs, the frame stack    *)
(* has the depth the checkpoint recorded and the newest log is no shorter     *)
(* than it was.                                                               *)
CheckpointUsable ==
    checkpoint.kind = "undo" =>
        /\ Len(transactions) = checkpoint.depth /\ InTransaction
        /\ Len(Top.undo_log) >= checkpoint.len

(* What each phase of the engine implies about the rest of its state.         *)
PhaseInv ==
    /\ checkpoint.kind = "none" <=> left = 0
    /\ checkpoint.kind = "full" => transactions = <<>>
    /\ unwind.reason = "none" => unwind = NoUnwind
    /\ phase \in {"idle", "mutating", "evaluating"} => unwind.reason = "none"
    /\ phase = "idle" => left = 0
    /\ phase = "mutating" => left > 0 /\ ~failed /\ ~transaction_aborted
    /\ phase = "evaluating" /\ left > 0 => failed \/ ~transaction_aborted
    /\ phase = "committing" =>
           /\ left = 0 /\ transactions = <<>> /\ ~transaction_aborted
           /\ unwind.reason \in {"none", "commit"}
    /\ phase = "releasing" =>
           /\ left = 0 /\ ~transaction_aborted /\ unwind.reason = "release"
           /\ unwind.depth \in 1..Len(transactions)
    /\ phase = "unwinding" =>
           /\ unwind.depth \in 0..Len(transactions)
           /\ \/ /\ unwind.reason = "rollback" /\ left = 0 /\ unwind.len = 0
                 /\ unwind.chain => unwind.depth = 0
              \/ /\ unwind.reason = "statement" /\ checkpoint.kind = "undo"
                 /\ unwind.depth = checkpoint.depth /\ unwind.len = checkpoint.len
                 /\ ~unwind.chain /\ transaction_aborted /\ failed

(* The inductive invariant of the frame stack and the statement loop.         *)
EngineInv == TypeOK /\ StackShape /\ CheckpointUsable /\ PhaseInv

(* Between undo steps the confidence is Tainted exactly when there is         *)
(* evidence for it, although the two are saved by separate undo entries and   *)
(* the confidence only when it changes.                                       *)
ConfidenceHasEvidence ==
    phase # "unwinding" =>
        (slots["confidence"] = Tainted <=> slots["evidence"] # {})
=============================================================================
