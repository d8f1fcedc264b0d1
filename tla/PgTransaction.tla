---------------------------- MODULE PgTransaction ----------------------------
(***************************************************************************)
(* What the simulated session promises: PostgreSQL's transaction blocks.   *)
(* Opening a block or a savepoint copies the whole state; ROLLBACK and     *)
(* ROLLBACK TO bring the copy back exactly, a statement that fails leaves  *)
(* the state as it was when the statement started, and nothing but the     *)
(* analyser's own diagnostics changes in an aborted block.                 *)
(***************************************************************************)
EXTENDS Integers, Sequences

CONSTANTS Root, Savepoints

VARIABLES
    catalog,      \* the simulated database and session
    diagnostics,  \* evidence and confidence
    stack,        \* open blocks: [name, catalog, diagnostics] at their opening
    aborted,      \* the block waits for a ROLLBACK
    running,      \* a statement is at work, or what COMMIT sets off
    before        \* [catalog, diagnostics] when the running statement started

vars == <<catalog, diagnostics, stack, aborted, running, before>>

Copy == [catalog |-> catalog, diagnostics |-> diagnostics]

Saved(name) == [name |-> name, catalog |-> catalog, diagnostics |-> diagnostics]

Restore(copy) == catalog' = copy.catalog /\ diagnostics' = copy.diagnostics

(* Evidence is only ever added, but for what an undo takes back. *)
MoreEvidence == diagnostics[1] \subseteq diagnostics'[1]

Init == stack = <<>> /\ ~aborted /\ ~running /\ before = Copy

StartStatement ==
    /\ ~aborted /\ ~running
    /\ running' = TRUE /\ before' = Copy
    /\ UNCHANGED <<catalog, diagnostics, stack, aborted>>

Change ==
    /\ ~aborted /\ running /\ MoreEvidence
    /\ UNCHANGED <<stack, aborted, running, before>>

Diagnose == MoreEvidence /\ UNCHANGED <<catalog, stack, aborted, running, before>>

EndStatement ==
    /\ running /\ running' = FALSE
    /\ UNCHANGED <<catalog, diagnostics, stack, aborted, before>>

FailStatement ==
    /\ ~aborted /\ running
    /\ Restore(before)
    /\ aborted' = (stack # <<>>) /\ running' = FALSE
    /\ UNCHANGED <<stack, before>>

FailControl ==
    /\ stack # <<>> /\ ~running
    /\ aborted' = TRUE
    /\ UNCHANGED <<catalog, diagnostics, stack, running, before>>

(* BEGIN, and the block that AND CHAIN opens. *)
Begin ==
    /\ ~aborted /\ stack = <<>>
    /\ stack' = <<Saved(Root)>> /\ running' = FALSE
    /\ UNCHANGED <<catalog, diagnostics, aborted, before>>

(* COMMIT closes the block before it runs the ON COMMIT actions. *)
Commit ==
    /\ ~aborted /\ ~running
    /\ stack' = <<>> /\ running' = TRUE
    /\ UNCHANGED <<catalog, diagnostics, aborted, before>>

Rollback ==
    /\ stack # <<>> /\ ~running
    /\ Restore(stack[1])
    /\ stack' = <<>> /\ aborted' = FALSE
    /\ UNCHANGED <<running, before>>

Savepoint(name) ==
    /\ ~aborted /\ ~running /\ stack # <<>>
    /\ stack' = Append(stack, Saved(name))
    /\ UNCHANGED <<catalog, diagnostics, aborted, running, before>>

Newest(p, name) ==
    /\ p \in 1..Len(stack) /\ stack[p].name = name
    /\ \A q \in (p + 1)..Len(stack) : stack[q].name # name

RollbackTo(name) ==
    \E p \in 1..Len(stack) :
        /\ ~running /\ Newest(p, name)
        /\ Restore(stack[p])
        /\ stack' = SubSeq(stack, 1, p) /\ aborted' = FALSE
        /\ UNCHANGED <<running, before>>

Release(name) ==
    \E p \in 1..Len(stack) :
        /\ ~aborted /\ ~running /\ Newest(p, name)
        /\ stack' = SubSeq(stack, 1, p - 1)
        /\ UNCHANGED <<catalog, diagnostics, aborted, running, before>>

Next ==
    \/ StartStatement \/ Change \/ Diagnose \/ EndStatement \/ FailStatement \/ FailControl
    \/ Begin \/ Commit \/ Rollback
    \/ \E name \in Savepoints : Savepoint(name) \/ RollbackTo(name) \/ Release(name)

Spec == Init /\ [][Next]_vars
=============================================================================
