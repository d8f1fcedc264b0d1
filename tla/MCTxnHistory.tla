----------------------------- MODULE MCTxnHistory -----------------------------
(* Instance of TxnHistory for TLC: values and edges are interchangeable. *)
EXTENDS TxnHistory, FiniteSets, TLC

DataSymmetry == Permutations(CatalogValues) \cup Permutations(Edges) \cup Permutations(Codes)

Elements(s) == {s[i] : i \in 1..Len(s)}

(* Bound: the second edge is for behaviours that snapshot no slot, record no
   evidence and open at most one savepoint; the second piece of evidence for
   those without edges that open at most one savepoint. *)
Focus ==
    LET log == UNION {Elements(transactions[i].undo_log) : i \in 1..Len(transactions)}
        copies == {Db, stmt_base, goal} \cup Elements(base)
                      \cup {change \in log : change.kind \in {"graph", "namespace"}}
        edges == UNION {Elements(c.graph) : c \in copies}
    IN  /\ \/ Cardinality(edges) <= 1
           \/ /\ Len(transactions) <= 2 /\ slots["evidence"] = {}
              /\ \A change \in log : change.kind \notin {"slot", "namespace"}
        /\ \/ Cardinality(slots["evidence"]) <= 1
           \/ Len(transactions) <= 2 /\ edges = {}
==============================================================================
