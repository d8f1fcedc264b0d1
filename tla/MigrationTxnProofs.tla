------------------------- MODULE MigrationTxnProofs -------------------------
(***************************************************************************)
(* EngineInv is an inductive invariant of MigrationTxn, for every set of   *)
(* slots, values, edges and savepoint names and every bound.               *)
(***************************************************************************)
EXTENDS MigrationTxn, SequenceTheorems, TLAPS

(* Replacing the log of a frame. *)
LEMMA FrameExcept ==
    ASSUME NEW f \in Frames, NEW log \in Seq(StateChanges)
    PROVE  /\ [f EXCEPT !.undo_log = log] \in Frames
           /\ [f EXCEPT !.undo_log = log].name = f.name
           /\ [f EXCEPT !.undo_log = log].undo_log = log
BY DEF Frames

(* The newest frame of an open transaction. *)
LEMMA TopTyped ==
    ASSUME transactions \in Seq(Frames), InTransaction
    PROVE  /\ Len(transactions) \in Nat \ {0}
           /\ Top \in Frames
           /\ Top.undo_log \in Seq(StateChanges)
           /\ Len(Top.undo_log) \in Nat
<1>1. Len(transactions) \in Nat \ {0}
  BY DEF InTransaction
<1>2. Top \in Frames
  BY <1>1 DEF Top
<1>3. QED
  BY <1>1, <1>2 DEF Frames

(* What a pushed snapshot leaves alone and what it extends. *)
LEMMA PushedFacts ==
    ASSUME transactions \in Seq(Frames), NEW entries \in Seq(StateChanges)
    PROVE  /\ Pushed(entries) \in Seq(Frames)
           /\ Len(Pushed(entries)) = Len(transactions)
           /\ \A i \in 1..Len(transactions) : Pushed(entries)[i].name = transactions[i].name
           /\ \A i \in 1..Len(transactions) :
                 i # Len(transactions) => Pushed(entries)[i] = transactions[i]
           /\ InTransaction =>
                 Pushed(entries)[Len(transactions)].undo_log = Top.undo_log \o entries
<1>1. CASE ~InTransaction
  BY <1>1 DEF Pushed, InTransaction
<1>2. CASE InTransaction
  <2> DEFINE n == Len(transactions)
             top == [transactions[n] EXCEPT !.undo_log = @ \o entries]
  <2>1. n \in Nat /\ n # 0
    BY <1>2 DEF InTransaction
  <2>2. transactions[n] \in Frames
    BY <2>1
  <2>3. top \in Frames /\ top.name = transactions[n].name
        /\ top.undo_log = transactions[n].undo_log \o entries
    <3>1. transactions[n].undo_log \in Seq(StateChanges)
      BY <2>2 DEF Frames
    <3>2. transactions[n].undo_log \o entries \in Seq(StateChanges)
      BY <3>1, ConcatProperties
    <3>3. QED
      BY <2>2, <3>2, FrameExcept
  <2>4. Pushed(entries) = [transactions EXCEPT ![n] = top]
    BY <1>2 DEF Pushed
  <2> HIDE DEF top
  <2>5. QED
    BY <2>1, <2>2, <2>3, <2>4 DEF Top
<1>3. QED
  BY <1>1, <1>2

(* Undoing one entry keeps slots and graph well typed. *)
LEMMA UndoneTyped ==
    ASSUME NEW change \in StateChanges, NEW st \in SlotStates, NEW g \in Graphs
    PROVE  UndoneSlots(change, st) \in SlotStates /\ UndoneGraph(change, g) \in Graphs
<1>1. UndoneGraph(change, g) \in Graphs
  BY DEF UndoneGraph, StateChanges, Graphs, Truncate
<1>2. ASSUME NEW s \in Slots
      PROVE  UndoneSlots(change, st)[s] \in SlotValues \cap ValuesOf(s)
  BY SlotsAssumption DEF UndoneSlots, StateChanges, SlotStates, ValuesOf, SlotValues, Slots
<1>3. QED
  BY <1>1, <1>2 DEF SlotStates, UndoneSlots

LEMMA InitEngineInv == Init => EngineInv
<1> SUFFICES ASSUME Init PROVE EngineInv
  OBVIOUS
<1>1. slots \in SlotStates
  <2>1. PICK catalog \in [CatalogSlots -> CatalogValues],
             evidence \in {{}} \cup {{code} : code \in Codes} :
           slots = [s \in Slots |->
                       IF s = "evidence" THEN evidence
                       ELSE IF s = "confidence"
                       THEN IF evidence = {} THEN Exact ELSE Tainted
                       ELSE catalog[s]]
    BY DEF Init
  <2>2. evidence \in SUBSET Codes
    OBVIOUS
  <2>3. ASSUME NEW s \in Slots
        PROVE  slots[s] \in SlotValues /\ slots[s] \in ValuesOf(s)
    BY <2>1, <2>2, SlotsAssumption DEF Slots, SlotValues, ValuesOf
  <2>4. QED
    BY <2>1, <2>3 DEF SlotStates
<1>2. TypeOK
  <2>1. checkpoint \in Checkpoints /\ checkpoint.kind = "none"
    BY DEF Init, Checkpoints, NoCheckpoint
  <2>2. unwind \in [reason : {"none", "rollback", "statement", "commit", "release"},
                   depth : Nat, len : Nat, chain : BOOLEAN]
    BY DEF Init, NoUnwind
  <2>3. /\ graph = <<>> /\ transactions = <<>> /\ transaction_aborted = FALSE
        /\ phase = "idle" /\ left = 0 /\ failed = FALSE /\ held = {}
    BY DEF Init
  <2>4. graph \in Graphs /\ transactions \in Seq(Frames)
    BY <2>3 DEF Graphs
  <2>5. QED
    BY <1>1, <2>1, <2>2, <2>3, <2>4 DEF TypeOK, Phases
<1>3. QED
  BY <1>2 DEF Init, EngineInv, StackShape, CheckpointUsable, PhaseInv, NoCheckpoint,
     NoUnwind, InTransaction

(* Every entry a handler pushes is a StateChange. *)
LEMMA EntriesTyped ==
    ASSUME TypeOK
    PROVE  /\ \A s \in Slots : SlotSnapshot(s, slots[s]) \in StateChanges
           /\ NamespaceSnapshot(slots, graph) \in StateChanges
           /\ GraphLengthMarker(Len(graph)) \in StateChanges
           /\ GraphSnapshot(graph) \in StateChanges
<1>1. \A s \in Slots : SlotSnapshot(s, slots[s]) \in StateChanges
  BY DEF TypeOK, SlotStates, SlotSnapshot, StateChanges
<1>2. \A s \in NamespaceSlots : slots[s] \in CatalogValues
  BY SlotsAssumption DEF TypeOK, SlotStates, ValuesOf, Slots
<1>3. NamespaceSnapshot(slots, graph) \in StateChanges
  BY <1>2 DEF TypeOK, NamespaceSnapshot, StateChanges
<1>4. GraphLengthMarker(Len(graph)) \in StateChanges /\ GraphSnapshot(graph) \in StateChanges
  BY DEF TypeOK, GraphLengthMarker, GraphSnapshot, StateChanges, Graphs
<1>5. QED
  BY <1>1, <1>3, <1>4

(* Pushing entries, and changing nothing else the invariant looks at, keeps it. *)
LEMMA PushKeepsEngineInv ==
    ASSUME EngineInv, NEW entries \in Seq(StateChanges),
           transactions' = Pushed(entries), slots' \in SlotStates,
           held' \subseteq (CatalogSlots \cup {"graph_edges", "graph_tail"}),
           UNCHANGED <<graph, transaction_aborted, phase, left, failed, checkpoint, unwind>>
    PROVE  EngineInv'
<1> USE DEF EngineInv
<1>1. /\ transactions' \in Seq(Frames)
      /\ Len(transactions') = Len(transactions)
      /\ \A i \in 1..Len(transactions) : transactions'[i].name = transactions[i].name
      /\ InTransaction =>
            transactions'[Len(transactions)].undo_log = Top.undo_log \o entries
  BY PushedFacts DEF TypeOK
<1>2. TypeOK'
  BY <1>1 DEF TypeOK
<1>3. InTransaction' <=> InTransaction
  BY <1>1 DEF InTransaction, TypeOK
<1>4. StackShape'
  BY <1>1, <1>3 DEF StackShape
<1>5. CheckpointUsable'
  <2> SUFFICES ASSUME checkpoint.kind = "undo"
               PROVE  CheckpointUsable'
    BY DEF CheckpointUsable
  <2>1. Top.undo_log \in Seq(StateChanges) /\ InTransaction
    BY TopTyped DEF CheckpointUsable, TypeOK
  <2>2. Len(Top'.undo_log) = Len(Top.undo_log) + Len(entries)
    <3>1. Len(Top.undo_log \o entries) = Len(Top.undo_log) + Len(entries)
      BY <2>1, ConcatProperties
    <3>2. Top' = transactions'[Len(transactions)]
      BY <1>1 DEF Top
    <3>3. QED
      BY <1>1, <2>1, <3>1, <3>2
  <2>3. QED
    BY <1>1, <1>3, <2>1, <2>2 DEF CheckpointUsable, TypeOK, Checkpoints
<1>6. PhaseInv'
  BY <1>1, <1>3 DEF PhaseInv, TypeOK, InTransaction
<1>7. QED
  BY <1>2, <1>4, <1>5, <1>6

(* Snapshots and writes. *)
LEMMA MutateEngineInv == ASSUME EngineInv, Mutate PROVE EngineInv'
<1>1. ASSUME NEW entry \in StateChanges, NEW covers,
             covers \subseteq (CatalogSlots \cup {"graph_edges", "graph_tail"}),
             Snapshot(entry, covers)
      PROVE  EngineInv'
  <2>1. <<entry>> \in Seq(StateChanges)
    OBVIOUS
  <2>2. QED
    BY <1>1, <2>1, PushKeepsEngineInv DEF Snapshot, EngineInv, TypeOK
<1>2. ASSUME NEW s \in CatalogSlots, SnapshotSlot(s) PROVE EngineInv'
  BY <1>1, <1>2, EntriesTyped DEF SnapshotSlot, EngineInv, Slots
<1>3. CASE SnapshotNamespace
  BY <1>1, <1>3, EntriesTyped, SlotsAssumption DEF SnapshotNamespace, EngineInv
<1>4. CASE SnapshotGraph
  BY <1>1, <1>4, EntriesTyped DEF SnapshotGraph, EngineInv
<1>5. CASE SnapshotGraphFull
  BY <1>1, <1>5, EntriesTyped DEF SnapshotGraphFull, EngineInv
<1>6. ASSUME slots' \in SlotStates, graph' \in Graphs,
             UNCHANGED <<transactions, transaction_aborted, phase, left, failed, held,
                         checkpoint, unwind>>
      PROVE  EngineInv'
  BY <1>6 DEF EngineInv, TypeOK, StackShape, CheckpointUsable, PhaseInv, InTransaction, Top
<1>7. ASSUME NEW s \in CatalogSlots, NEW v \in CatalogValues, WriteSlot(s, v)
      PROVE  EngineInv'
  <2>1. slots' \in SlotStates
    BY <1>7, SlotsAssumption
    DEF WriteSlot, EngineInv, TypeOK, SlotStates, Slots, SlotValues, ValuesOf
  <2>2. QED
    BY <1>6, <1>7, <2>1 DEF WriteSlot, EngineInv, TypeOK
<1>8. ASSUME NEW e \in Edges, AddEdge(e) PROVE EngineInv'
  BY <1>6, <1>8 DEF AddEdge, EngineInv, TypeOK, Graphs
<1>9. ASSUME NEW n \in 0..Len(graph), NEW g \in [1..n -> Edges], RewriteEdges(g)
      PROVE  EngineInv'
  <2>1. g \in Graphs
    <3>1. n \in Nat
      BY DEF EngineInv, TypeOK, Graphs
    <3>2. QED
      BY <3>1, IsASeq DEF Graphs
  <2>2. QED
    BY <1>6, <1>9, <2>1 DEF RewriteEdges, EngineInv, TypeOK
<1>10. ASSUME NEW code \in Codes, Taint(code) PROVE EngineInv'
  <2> DEFINE evidence == SlotSnapshot("evidence", slots["evidence"])
             confidence == SlotSnapshot("confidence", slots["confidence"])
             entries == IF slots["confidence"] = Tainted THEN <<evidence>>
                        ELSE <<evidence, confidence>>
  <2>1. evidence \in StateChanges /\ confidence \in StateChanges
    BY EntriesTyped DEF EngineInv, Slots
  <2>2. entries \in Seq(StateChanges)
    BY <2>1
  <2>3. slots' \in SlotStates
    <3>1. slots["evidence"] \in SUBSET Codes
      BY DEF EngineInv, TypeOK, SlotStates, Slots, ValuesOf
    <3>2. slots["evidence"] \cup {code} \in SUBSET Codes
      BY <3>1
    <3>3. slots' = [slots EXCEPT !["evidence"] = slots["evidence"] \cup {code},
                                 !["confidence"] = Tainted]
      BY <1>10 DEF Taint
    <3>4. ASSUME NEW s \in Slots PROVE slots'[s] \in SlotValues /\ slots'[s] \in ValuesOf(s)
      BY <3>2, <3>3 DEF EngineInv, TypeOK, SlotStates, SlotValues, ValuesOf, Slots
    <3>5. QED
      BY <3>3, <3>4 DEF EngineInv, TypeOK, SlotStates
  <2>4. transactions' = Pushed(entries)
        /\ UNCHANGED <<graph, transaction_aborted, phase, left, failed, held, checkpoint, unwind>>
    BY <1>10 DEF Taint
  <2>5. held' \subseteq (CatalogSlots \cup {"graph_edges", "graph_tail"})
    BY <2>4 DEF EngineInv, TypeOK
  <2> HIDE DEF entries
  <2>6. QED
    BY <2>2, <2>3, <2>4, <2>5, PushKeepsEngineInv
<1>11. QED
  BY <1>2, <1>3, <1>4, <1>5, <1>7, <1>8, <1>9, <1>10 DEF Mutate

(* The statement loop. *)
LEMMA StatementEngineInv == ASSUME EngineInv, RunStatement PROVE EngineInv'
<1> USE DEF EngineInv
<1>1. ASSUME NEW n \in 1..MaxMutations, StartStatement(n) PROVE EngineInv'
  <2>0. n \in Nat \ {0}
    BY BoundsAssumption
  <2>1. checkpoint' \in Checkpoints /\ checkpoint'.kind \in {"undo", "full"}
        /\ (checkpoint'.kind = "undo" => InTransaction /\ checkpoint'.depth = Len(transactions)
                                         /\ checkpoint'.len = Len(Top.undo_log))
        /\ (checkpoint'.kind = "full" => ~InTransaction)
    <3>1. CASE InTransaction
      BY <1>1, <3>1, TopTyped DEF StartStatement, Captured, Checkpoints, TypeOK
    <3>2. CASE ~InTransaction
      BY <1>1, <3>2 DEF StartStatement, Captured, Checkpoints, TypeOK
    <3>3. QED
      BY <3>1, <3>2
  <2>2. TypeOK'
    BY <1>1, <2>0, <2>1 DEF StartStatement, TypeOK, Phases
  <2>3. StackShape'
    BY <1>1 DEF StartStatement, StackShape, InTransaction
  <2>4. CheckpointUsable'
    <3>1. InTransaction => Len(Top.undo_log) \in Nat
      BY TopTyped DEF TypeOK
    <3>2. QED
      BY <1>1, <2>1, <3>1 DEF StartStatement, CheckpointUsable, Top, InTransaction
  <2>5. PhaseInv'
    BY <1>1, <2>0, <2>1 DEF StartStatement, PhaseInv, InTransaction
  <2>6. QED
    BY <2>2, <2>3, <2>4, <2>5
<1>2. CASE EndMutation
  BY <1>2 DEF EndMutation, TypeOK, Phases, StackShape, CheckpointUsable, PhaseInv,
     InTransaction, Top
<1>3. CASE ConflictOutside
  <2>1. checkpoint.kind = "full"
    BY <1>3 DEF ConflictOutside, PhaseInv, CheckpointUsable, TypeOK, Checkpoints
  <2>2. checkpoint.slots \in SlotStates /\ checkpoint.graph \in Graphs
    BY <2>1 DEF TypeOK, Checkpoints
  <2>3. TypeOK'
    BY <1>3, <2>2 DEF ConflictOutside, TypeOK, Phases
  <2>4. QED
    BY <1>3, <2>1, <2>3 DEF ConflictOutside, StackShape, CheckpointUsable, PhaseInv,
       InTransaction, Top
<1>4. CASE ConflictInside
  <2>1. checkpoint.kind = "undo"
    BY <1>4 DEF ConflictInside, PhaseInv, InTransaction, TypeOK, Checkpoints
  <2>2. checkpoint.depth \in Nat /\ checkpoint.len \in Nat
    BY <2>1 DEF TypeOK, Checkpoints
  <2>3. TypeOK'
    BY <1>4, <2>2 DEF ConflictInside, TypeOK, Phases
  <2>4. StackShape' /\ CheckpointUsable'
    BY <1>4 DEF ConflictInside, StackShape, CheckpointUsable, InTransaction, Top
  <2>5. PhaseInv'
    BY <1>4, <2>1, <2>2 DEF ConflictInside, PhaseInv, CheckpointUsable, TypeOK, NoUnwind
  <2>6. QED
    BY <2>3, <2>4, <2>5
<1>5. CASE NextMutation
  BY <1>5 DEF NextMutation, TypeOK, Phases, StackShape, CheckpointUsable, PhaseInv,
     InTransaction, Top
<1>6. CASE EndStatement
  BY <1>6 DEF EndStatement, TypeOK, Phases, StackShape, CheckpointUsable, PhaseInv,
     InTransaction, Top, NoCheckpoint, Checkpoints
<1>7. QED
  BY <1>1, <1>2, <1>3, <1>4, <1>5, <1>6 DEF RunStatement

(* Transaction control. *)
LEMMA ControlEngineInv == ASSUME EngineInv, ControlTransaction PROVE EngineInv'
<1> USE DEF EngineInv
<1>1. ASSUME phase = "idle", ControlConflict PROVE EngineInv'
  BY <1>1 DEF ControlConflict, TypeOK, Phases, StackShape, CheckpointUsable, PhaseInv,
     InTransaction, Top
<1>2. ASSUME NEW d \in 0..Len(transactions), NEW chain \in BOOLEAN, phase = "idle",
             chain => d = 0, StartUnwind(d, chain)
      PROVE  EngineInv'
  <2>1. checkpoint.kind = "none" /\ left = 0
    BY <1>2 DEF PhaseInv
  <2>2. d \in Nat /\ Len(transactions) \in Nat
    BY DEF TypeOK
  <2>3. TypeOK'
    BY <1>2, <2>2 DEF StartUnwind, TypeOK, Phases
  <2>4. StackShape' /\ CheckpointUsable'
    BY <1>2, <2>1 DEF StartUnwind, StackShape, CheckpointUsable, InTransaction
  <2>5. PhaseInv'
    BY <1>2, <2>1, <2>2 DEF StartUnwind, PhaseInv
  <2>6. QED
    BY <2>3, <2>4, <2>5
<1>3. Frame(Root) \in Frames /\ Frame(Root).name = Root
      /\ <<Frame(Root)>> \in Seq(Frames) /\ Len(<<Frame(Root)>>) = 1
  <2>1. Frame(Root) \in Frames /\ Frame(Root).name = Root
    BY DEF Frame, Frames
  <2>2. QED
    BY <2>1
<1>4. CASE BeginTransaction
  <2>1. transactions' \in Seq(Frames)
        /\ \A i \in 1..Len(transactions') : (transactions'[i].name = Root) <=> (i = 1)
        /\ transactions' # <<>>
    BY <1>3, <1>4 DEF BeginTransaction, TypeOK, StackShape, InTransaction
  <2>2. checkpoint.kind = "none" /\ left = 0 /\ ~transaction_aborted /\ unwind.reason = "none"
    BY <1>4 DEF BeginTransaction, PhaseInv
  <2>3. TypeOK'
    BY <1>4, <2>1 DEF BeginTransaction, ControlApplied, TypeOK, Phases
  <2>4. QED
    BY <1>4, <2>1, <2>2, <2>3 DEF BeginTransaction, ControlApplied, StackShape,
       CheckpointUsable, PhaseInv, InTransaction
<1>5. CASE EndCommit
  <2>1. /\ transactions = <<>> /\ ~transaction_aborted /\ left = 0 /\ checkpoint.kind = "none"
        /\ unwind.chain \in BOOLEAN
    BY <1>5 DEF EndCommit, PhaseInv, TypeOK
  <2>2. transactions' \in Seq(Frames)
        /\ \A i \in 1..Len(transactions') : (transactions'[i].name = Root) <=> (i = 1)
    <3>1. CASE unwind.chain
      BY <1>3, <1>5, <3>1 DEF EndCommit
    <3>2. CASE ~unwind.chain
      BY <1>5, <3>2 DEF EndCommit
    <3>3. QED
      BY <3>1, <3>2
  <2>3. TypeOK'
    BY <1>5, <2>2 DEF EndCommit, TypeOK, Phases, NoUnwind
  <2>4. StackShape' /\ CheckpointUsable'
    BY <1>5, <2>1, <2>2 DEF EndCommit, StackShape, CheckpointUsable
  <2>5. PhaseInv'
    BY <1>5, <2>1 DEF EndCommit, PhaseInv, NoUnwind
  <2>6. QED
    BY <2>3, <2>4, <2>5
<1>6. CASE CommitOutsideChain \/ RollbackOutsideChain \/ SavepointOutside
  BY <1>1, <1>6 DEF CommitOutsideChain, RollbackOutsideChain, SavepointOutside
<1>7. ASSUME NEW chain \in BOOLEAN, CommitAborted(chain) \/ RollbackTransaction(chain)
      PROVE  EngineInv'
  <2>1. 0 \in 0..Len(transactions)
    BY DEF TypeOK
  <2>2. QED
    BY <1>2, <1>7, <2>1 DEF CommitAborted, RollbackTransaction
<1>8. ASSUME NEW chain \in BOOLEAN, CommitTransaction(chain) PROVE EngineInv'
  <2>1. checkpoint.kind = "none" /\ left = 0 /\ ~transaction_aborted
    BY <1>8 DEF CommitTransaction, PhaseInv
  <2>2. transactions' = <<>> /\ transactions' \in Seq(Frames)
    BY <1>8 DEF CommitTransaction
  <2>3. TypeOK'
    BY <1>8, <2>2 DEF CommitTransaction, TypeOK, Phases, NoUnwind
  <2>4. StackShape' /\ CheckpointUsable'
    BY <1>8, <2>1, <2>2 DEF CommitTransaction, StackShape, CheckpointUsable
  <2>5. PhaseInv'
    BY <1>8, <2>1, <2>2 DEF CommitTransaction, PhaseInv, NoUnwind
  <2>6. QED
    BY <2>3, <2>4, <2>5
<1>9. ASSUME NEW name \in Savepoints, RollbackToSavepoint(name) PROVE EngineInv'
  <2>1. PICK p \in 1..Len(transactions) : phase = "idle" /\ StartUnwind(p, FALSE)
    BY <1>9 DEF RollbackToSavepoint
  <2>2. p \in 0..Len(transactions)
    BY <2>1 DEF TypeOK
  <2>3. QED
    BY <1>2, <2>1, <2>2
<1>10. ASSUME NEW name \in Savepoints, RollbackToUnknown(name) \/ ReleaseUnknown(name)
       PROVE  EngineInv'
  BY <1>1, <1>10 DEF RollbackToUnknown, ReleaseUnknown
<1>11. ASSUME NEW name \in Savepoints, Savepoint(name) PROVE EngineInv'
  <2>1. Frame(name) \in Frames /\ Frame(name).name # Root
    BY BoundsAssumption DEF Frame, Frames
  <2>2. Len(transactions) \in Nat \ {0}
    BY <1>11 DEF Savepoint, InTransaction, TypeOK
  <2>3. transactions' \in Seq(Frames) /\ transactions' # <<>>
        /\ \A i \in 1..Len(transactions') : (transactions'[i].name = Root) <=> (i = 1)
    BY <1>11, <2>1, <2>2, AppendProperties DEF Savepoint, TypeOK, StackShape
  <2>4. checkpoint.kind = "none" /\ left = 0 /\ ~transaction_aborted /\ unwind.reason = "none"
    BY <1>11 DEF Savepoint, PhaseInv
  <2>5. TypeOK'
    BY <1>11, <2>3 DEF Savepoint, ControlApplied, TypeOK, Phases
  <2>6. QED
    BY <1>11, <2>3, <2>4, <2>5 DEF Savepoint, ControlApplied, StackShape,
       CheckpointUsable, PhaseInv, InTransaction
<1>12. ASSUME NEW name \in Savepoints, StartRelease(name) PROVE EngineInv'
  <2>1. PICK p \in 2..Len(transactions) :
           /\ phase = "idle" /\ ~transaction_aborted
           /\ phase' = "releasing" /\ failed' = FALSE
           /\ unwind' = [NoUnwind EXCEPT !.reason = "release", !.depth = p - 1]
           /\ UNCHANGED <<slots, graph, transactions, transaction_aborted, left, held, checkpoint>>
    BY <1>12 DEF StartRelease
  <2>2. p - 1 \in Nat /\ p - 1 \in 1..Len(transactions) /\ Len(transactions) \in Nat
    BY <2>1 DEF TypeOK
  <2>3. unwind' = [reason |-> "release", depth |-> p - 1, len |-> 0, chain |-> FALSE]
    BY <2>1 DEF NoUnwind
  <2>4. checkpoint.kind = "none" /\ left = 0
    BY <2>1 DEF PhaseInv
  <2>5. TypeOK'
    <3>1. unwind' \in [reason : {"none", "rollback", "statement", "commit", "release"},
                       depth : Nat, len : Nat, chain : BOOLEAN]
      BY <2>2, <2>3
    <3>2. QED
      BY <2>1, <3>1 DEF TypeOK, Phases
  <2>6. StackShape' /\ CheckpointUsable'
    BY <2>1, <2>3, <2>4 DEF StackShape, CheckpointUsable
  <2>7. PhaseInv'
    BY <2>1, <2>2, <2>3, <2>4 DEF PhaseInv
  <2>8. QED
    BY <2>5, <2>6, <2>7
<1>13. CASE ReleaseFrame
  <2> DEFINE p == unwind.depth
             n == Len(transactions)
  <2>1. p \in 1..n /\ p < n /\ n \in Nat /\ checkpoint.kind = "none" /\ left = 0
        /\ ~transaction_aborted /\ unwind.reason = "release" /\ phase = "releasing"
    BY <1>13 DEF ReleaseFrame, PhaseInv, TypeOK
  <2>2. transactions' = Merged(p) /\ UNCHANGED <<slots, graph, transaction_aborted, engine>>
    BY <1>13 DEF ReleaseFrame
  <2>3. /\ transactions[p] \in Frames /\ transactions[p + 1] \in Frames
        /\ transactions[p].undo_log \in Seq(StateChanges)
        /\ transactions[p + 1].undo_log \in Seq(StateChanges)
    <3>1. transactions[p] \in Frames /\ transactions[p + 1] \in Frames
      BY <2>1 DEF TypeOK
    <3>2. QED
      BY <3>1 DEF Frames
  <2> DEFINE merged == [transactions[p] EXCEPT !.undo_log = @ \o transactions[p + 1].undo_log]
  <2>4. merged \in Frames /\ merged.name = transactions[p].name
    <3>1. transactions[p].undo_log \o transactions[p + 1].undo_log \in Seq(StateChanges)
      BY <2>3, ConcatProperties
    <3>2. QED
      BY <2>3, <3>1, FrameExcept
  <2> HIDE DEF merged
  <2>5. Merged(p) = [i \in 1..(n - 1) |-> IF i < p THEN transactions[i]
                                          ELSE IF i = p THEN merged ELSE transactions[i + 1]]
    BY DEF Merged, merged
  <2>6. ASSUME NEW i \in 1..(n - 1)
        PROVE  /\ Merged(p)[i] \in Frames
               /\ (Merged(p)[i].name = Root) <=> (i = 1)
    <3>1. i \in 1..n /\ i + 1 \in 1..n /\ i \in Nat
      BY <2>1
    <3>2. transactions[i] \in Frames /\ transactions[i + 1] \in Frames
      BY <3>1 DEF TypeOK
    <3>3. ((transactions[i].name = Root) <=> (i = 1)) /\ transactions[i + 1].name # Root
      BY <3>1 DEF StackShape
    <3>4. QED
      BY <2>1, <2>4, <2>5, <3>1, <3>2, <3>3
  <2>7. Merged(p) \in Seq(Frames) /\ Len(Merged(p)) = n - 1
    <3>1. n - 1 \in Nat
      BY <2>1
    <3>2. Merged(p) \in [1..(n - 1) -> Frames]
      BY <2>5, <2>6
    <3>3. QED
      BY <3>1, <3>2, IsASeq, LenProperties
  <2>8. TypeOK'
    BY <2>2, <2>7 DEF TypeOK, engine
  <2>9. StackShape'
    BY <2>1, <2>2, <2>6, <2>7 DEF StackShape, engine
  <2>10. CheckpointUsable'
    BY <2>1, <2>2 DEF CheckpointUsable, engine
  <2>11. PhaseInv'
    BY <2>1, <2>2, <2>7 DEF PhaseInv, engine
  <2>12. QED
    BY <2>8, <2>9, <2>10, <2>11
<1>14. CASE EndRelease
  BY <1>14 DEF EndRelease, TypeOK, Phases, StackShape, CheckpointUsable, PhaseInv,
     InTransaction, Top, NoUnwind
<1>15. QED
  BY <1>4, <1>5, <1>6, <1>7, <1>8, <1>9, <1>10, <1>11, <1>12, <1>13, <1>14
  DEF ControlTransaction

LEMMA PrefixProperties ==
    ASSUME NEW S, NEW s \in Seq(S), NEW m \in 0..Len(s)
    PROVE  /\ SubSeq(s, 1, m) \in Seq(S)
           /\ Len(SubSeq(s, 1, m)) = m
           /\ \A i \in 1..m : SubSeq(s, 1, m)[i] = s[i]
<1>1. Len(s) \in Nat /\ m \in Nat
  OBVIOUS
<1>2. \A i \in 1..m : s[i] \in S
  BY <1>1
<1>3. /\ SubSeq(s, 1, m) \in Seq(S)
      /\ Len(SubSeq(s, 1, m)) = IF 1 <= m THEN m - 1 + 1 ELSE 0
      /\ \A i \in 1..(m - 1 + 1) : SubSeq(s, 1, m)[i] = s[1 + i - 1]
  BY <1>1, <1>2, SubSeqProperties
<1>4. m - 1 + 1 = m /\ (1 <= m \/ m = 0)
  BY <1>1
<1>5. Len(SubSeq(s, 1, m)) = m
  BY <1>1, <1>3, <1>4
<1>6. ASSUME NEW i \in 1..m PROVE SubSeq(s, 1, m)[i] = s[i]
  <2>1. 1 + i - 1 = i
    OBVIOUS
  <2>2. QED
    BY <1>3, <1>4, <2>1
<1>7. QED
  BY <1>3, <1>5, <1>6

(* The undo loop. *)
LEMMA UnwindEngineInv == ASSUME EngineInv, Unwind PROVE EngineInv'
<1> USE DEF EngineInv
<1>1. CASE UndoEntry
  <2> DEFINE n == Len(transactions)
             log == Top.undo_log
             front == SubSeq(log, 1, Len(log) - 1)
             top == [transactions[n] EXCEPT !.undo_log = front]
  <2>1. n \in Nat \ {0} /\ Top \in Frames /\ log \in Seq(StateChanges) /\ Len(log) \in Nat
        /\ InTransaction
    BY <1>1, TopTyped DEF UndoEntry, TypeOK
  <2>2. Kept \in Nat /\ Len(log) > Kept /\ phase = "unwinding"
    BY <1>1 DEF UndoEntry, Kept, TypeOK
  <2>3. log[Len(log)] \in StateChanges
    BY <2>1, <2>2
  <2>4. front \in Seq(StateChanges) /\ Len(front) = Len(log) - 1
    BY <2>1, <2>2
  <2>5. top \in Frames /\ top.name = transactions[n].name /\ top.undo_log = front
    BY <2>1, <2>4, FrameExcept DEF Top
  <2>6. transactions' = [transactions EXCEPT ![n] = top]
    BY <1>1 DEF UndoEntry, Top
  <2> HIDE DEF top, front
  <2>7. /\ transactions' \in Seq(Frames) /\ Len(transactions') = n
        /\ \A i \in 1..n : transactions'[i].name = transactions[i].name
        /\ transactions'[n] = top
    BY <2>1, <2>5, <2>6, ExceptSeq DEF TypeOK
  <2>8. slots' \in SlotStates /\ graph' \in Graphs
        /\ UNCHANGED <<transaction_aborted, engine>>
    BY <1>1, <2>3, UndoneTyped DEF UndoEntry, TypeOK
  <2>9. TypeOK'
    BY <2>7, <2>8 DEF TypeOK, engine
  <2>10. InTransaction'
    BY <2>1, <2>7 DEF InTransaction
  <2>11. StackShape'
    BY <2>1, <2>7, <2>8, <2>10 DEF StackShape, engine
  <2>12. CheckpointUsable'
    <3> SUFFICES ASSUME checkpoint.kind = "undo" PROVE CheckpointUsable'
      BY <2>8 DEF CheckpointUsable, engine
    <3>1. unwind.reason = "statement" /\ unwind.depth = checkpoint.depth
          /\ unwind.len = checkpoint.len
      BY <2>2 DEF PhaseInv, TypeOK
    <3>2. Kept = checkpoint.len
      BY <3>1 DEF Kept, CheckpointUsable
    <3>3. Top'.undo_log = front
      BY <2>5, <2>7 DEF Top
    <3>4. checkpoint.len \in Nat
      BY DEF TypeOK, Checkpoints
    <3>5. QED
      BY <2>1, <2>2, <2>4, <2>7, <2>8, <2>10, <3>2, <3>3, <3>4 DEF CheckpointUsable, engine
  <2>13. PhaseInv'
    BY <2>2, <2>7, <2>8 DEF PhaseInv, engine
  <2>14. QED
    BY <2>9, <2>11, <2>12, <2>13
<1>2. CASE PopFrame
  <2> DEFINE n == Len(transactions)
  <2>1. n \in Nat /\ unwind.depth \in Nat /\ n > unwind.depth /\ phase = "unwinding"
    BY <1>2 DEF PopFrame, TypeOK
  <2>2. transactions' = SubSeq(transactions, 1, n - 1)
        /\ UNCHANGED <<slots, graph, transaction_aborted, engine>>
    BY <1>2 DEF PopFrame
  <2>3. /\ transactions' \in Seq(Frames) /\ Len(transactions') = n - 1
        /\ \A i \in 1..(n - 1) : transactions'[i] = transactions[i]
    <3>1. transactions \in Seq(Frames) /\ n - 1 \in 0..n
      BY <2>1 DEF TypeOK
    <3>2. QED
      BY <2>2, <3>1, PrefixProperties
  <2>4. unwind.reason = "rollback" /\ left = 0 /\ checkpoint.kind = "none"
    BY <2>1 DEF PhaseInv, CheckpointUsable, TypeOK
  <2>5. TypeOK'
    BY <2>2, <2>3 DEF TypeOK, engine
  <2>6. StackShape' /\ CheckpointUsable'
    BY <2>1, <2>2, <2>3, <2>4 DEF StackShape, CheckpointUsable, engine
  <2>7. PhaseInv'
    BY <2>1, <2>2, <2>3, <2>4 DEF PhaseInv, engine
  <2>8. QED
    BY <2>5, <2>6, <2>7
<1>3. CASE EndUnwind
  <2>1. CASE unwind.chain
    <3>1. transactions' = <<Frame(Root)>> /\ unwind.reason = "rollback" /\ left = 0
          /\ checkpoint.kind = "none"
      BY <1>3, <2>1 DEF EndUnwind, PhaseInv, TypeOK
    <3>2. Frame(Root) \in Frames /\ Frame(Root).name = Root
      BY DEF Frame, Frames
    <3>3. transactions' \in Seq(Frames) /\ Len(transactions') = 1
          /\ transactions'[1].name = Root
      BY <3>1, <3>2
    <3>4. TypeOK'
      BY <1>3, <3>3 DEF EndUnwind, TypeOK, Phases, NoUnwind
    <3>5. QED
      BY <1>3, <3>1, <3>3, <3>4 DEF EndUnwind, StackShape, CheckpointUsable, PhaseInv,
         NoUnwind, InTransaction
  <2>2. CASE ~unwind.chain
    <3>1. TypeOK'
      BY <1>3, <2>2 DEF EndUnwind, TypeOK, Phases, NoUnwind
    <3>2. StackShape' /\ CheckpointUsable'
      BY <1>3, <2>2 DEF EndUnwind, StackShape, CheckpointUsable, PhaseInv, InTransaction, Top,
         NoUnwind
    <3>3. PhaseInv'
      <4>1. /\ transactions' = transactions /\ phase' = "evaluating" /\ unwind' = NoUnwind
            /\ transaction_aborted' = (unwind.reason = "statement")
            /\ UNCHANGED <<left, failed, checkpoint>> /\ phase = "unwinding"
        BY <1>3, <2>2 DEF EndUnwind
      <4>2. unwind.reason = "statement" => failed
        BY <4>1 DEF PhaseInv
      <4>3. QED
        BY <4>1, <4>2 DEF PhaseInv, NoUnwind
    <3>4. QED
      BY <3>1, <3>2, <3>3
  <2>3. QED
    BY <2>1, <2>2 DEF TypeOK
<1>4. QED
  BY <1>1, <1>2, <1>3 DEF Unwind

LEMMA StepEngineInv == EngineInv /\ [Next]_vars => EngineInv'
<1>1. ASSUME EngineInv, Next PROVE EngineInv'
  BY <1>1, MutateEngineInv, StatementEngineInv, ControlEngineInv, UnwindEngineInv DEF Next
<1>2. ASSUME EngineInv, UNCHANGED vars PROVE EngineInv'
  BY <1>2 DEF vars, EngineInv, TypeOK, StackShape, CheckpointUsable, PhaseInv, InTransaction, Top
<1>3. QED
  BY <1>1, <1>2

(* The frame stack and the statement loop keep their invariant: in every      *)
(* reachable state of the engine the stack has its root frame at the bottom   *)
(* and only there, and the checkpoint of a running statement can be restored. *)
THEOREM EngineInvariant == Spec => []EngineInv
<1>1. QED
  BY InitEngineInv, StepEngineInv, PTL DEF Spec

(* Type correctness. *)
THEOREM TypeCorrect == Spec => []TypeOK
<1>1. EngineInv => TypeOK
  BY DEF EngineInv
<1>2. QED
  BY <1>1, EngineInvariant, PTL

(* An aborted transaction keeps its root frame, and savepoints stay above it. *)
THEOREM StackShapeHolds == Spec => []StackShape
<1>1. EngineInv => StackShape
  BY DEF EngineInv
<1>2. QED
  BY <1>1, EngineInvariant, PTL

(* rollback_to_transaction_undo_checkpoint never returns an error. *)
THEOREM CheckpointAlwaysUsable == Spec => []CheckpointUsable
<1>1. EngineInv => CheckpointUsable
  BY DEF EngineInv
<1>2. QED
  BY <1>1, EngineInvariant, PTL
=============================================================================
