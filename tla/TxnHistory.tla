----------------------------- MODULE TxnHistory -----------------------------
(***************************************************************************)
(* MigrationTxn with history variables that remember what the undo logs    *)
(* must bring back, and the refinement of PgTransaction by it.             *)
(***************************************************************************)
EXTENDS MigrationTxn

VARIABLES
    base,       \* base[i]: slots and graph when frame i was opened
    stmt_base,  \* slots and graph when the running statement started
    goal        \* what the running undo loop has to arrive at, or else the state

hvars == <<slots, graph, transactions, transaction_aborted, phase, left, failed,
           held, checkpoint, unwind, base, stmt_base, goal>>

Db == [slots |-> slots, graph |-> graph]

HInit == Init /\ base = <<>> /\ stmt_base = Db /\ goal = Db

(* A frame pushed remembers the state; RELEASE forgets the released copy. *)
BaseStep ==
    base' = IF Len(transactions') > Len(transactions) THEN Append(base, Db')
            ELSE IF phase = "releasing"
            THEN [i \in 1..Len(transactions') |->
                     IF i <= unwind.depth THEN base[i] ELSE base[i + 1]]
            ELSE SubSeq(base, 1, Len(transactions'))

StmtBaseStep ==
    stmt_base' = IF phase = "idle" /\ phase' = "mutating" THEN Db ELSE stmt_base

(* Chosen when the loop starts: the copy of the statement, of the savepoint
   or of the whole transaction. *)
GoalStep ==
    goal' = IF phase' # "unwinding" THEN Db'
            ELSE IF phase = "unwinding" THEN goal
            ELSE IF unwind'.reason = "statement" THEN stmt_base
            ELSE IF unwind'.depth > 0 THEN base[unwind'.depth]
            ELSE IF InTransaction THEN base[1]
            ELSE Db

HNext == Next /\ BaseStep /\ StmtBaseStep /\ GoalStep

HSpec == HInit /\ [][HNext]_hvars
-----------------------------------------------------------------------------
(***************************************************************************)
(* Refinement mapping.  The abstract rollback is the step in which the     *)
(* undo loop starts: until the loop ends, the abstract state is already    *)
(* the copy the loop has to arrive at.                                     *)
(***************************************************************************)
Depth ==
    IF phase \in {"unwinding", "releasing"} THEN unwind.depth ELSE Len(transactions)

CatalogOf(db) == [slots |-> [s \in CatalogSlots |-> db.slots[s]], graph |-> db.graph]

DiagnosticsOf(db) == <<db.slots["evidence"], db.slots["confidence"]>>

AbstractStack ==
    [i \in 1..Depth |->
        [name |-> transactions[i].name, catalog |-> CatalogOf(base[i]),
         diagnostics |-> DiagnosticsOf(base[i])]]

Pg == INSTANCE PgTransaction WITH
    catalog <- CatalogOf(goal),
    diagnostics <- DiagnosticsOf(goal),
    stack <- AbstractStack,
    aborted <- transaction_aborted /\ unwind.reason # "rollback",
    running <- (left > 0 /\ ~failed) \/ phase = "committing",
    before <- [catalog |-> CatalogOf(stmt_base), diagnostics |-> DiagnosticsOf(stmt_base)]

(* The undo log implements PostgreSQL's transaction blocks: whatever          *)
(* snapshots, savepoints, releases, failures and chains came before, ROLLBACK,*)
(* ROLLBACK TO and the restore of a failed statement end in exactly the state *)
(* that was saved, and an aborted block changes nothing but diagnostics.      *)
ImplementsPgTransaction == Pg!Spec

(* When the undo loop ends, the state is the one its target frame or          *)
(* statement started from.                                                    *)
UndoIsExact ==
    phase = "unwinding" /\ Len(transactions) = unwind.depth
        /\ (InTransaction => Len(Top.undo_log) = Kept)
    => Db = goal
-----------------------------------------------------------------------------
(***************************************************************************)
(* The inductive invariant behind both: UndoLog says what a log restores.  *)
(***************************************************************************)
NextDb(i) == IF i < Len(transactions) THEN base[i + 1] ELSE Db

(* Each frame's log brings back the copy made when the frame was opened, and  *)
(* the entries of the running statement the copy made when it started.        *)
LogsRestore ==
    /\ Len(base) = Len(transactions)
    /\ \A i \in 1..Len(transactions) : Restores(transactions[i].undo_log, 0, NextDb(i), base[i])
    /\ checkpoint.kind = "undo" => Restores(Top.undo_log, checkpoint.len, Db, stmt_base)
    /\ checkpoint.kind = "full" =>
           stmt_base = [slots |-> checkpoint.slots, graph |-> checkpoint.graph]

(* What a mutation may write in a transaction, this statement has saved.      *)
WritesCovered ==
    /\ ~Mutating => held = {}
    /\ phase = "mutating" /\ InTransaction => Covered(Top.undo_log, checkpoint.len, held)

(* The goal is the copy that the frames still to be undone lead back to.      *)
GoalInv ==
    goal = IF phase # "unwinding" THEN Db
           ELSE IF unwind.reason = "statement" THEN stmt_base
           ELSE IF unwind.depth > 0 THEN base[unwind.depth]
           ELSE IF InTransaction THEN base[1]
           ELSE Db

HistoryTyped == base \in Seq(Copies) /\ stmt_base \in Copies

UndoInv == EngineInv /\ HistoryTyped /\ WritesCovered /\ LogsRestore /\ GoalInv
=============================================================================
