------------------------------- MODULE UndoLog -------------------------------
(***************************************************************************)
(* The undo log of a transaction frame (analysis/transaction.rs,           *)
(* state/snapshots.rs, state/rollback.rs).                                 *)
(*                                                                         *)
(* Every part of AnalysisState that one StateChange variant saves and      *)
(* restores as a whole is a SLOT: one relation, one role, the search path  *)
(* with its templates, the two timeouts, the confidence, the evidence log, *)
(* and so on.  The dependency graph is kept apart because it has two kinds *)
(* of undo entry: a full copy and a mere length, to which the edge list is *)
(* truncated.  A NamespaceSnapshot saves all slots of NamespaceSlots and   *)
(* the graph at once.                                                      *)
(***************************************************************************)
EXTENDS Integers, Sequences

CONSTANTS
    CatalogSlots,    \* slots that hold catalog objects and session settings
    NamespaceSlots,  \* those a NamespaceSnapshot also covers
    CatalogValues,   \* what a catalog slot can hold
    Codes,           \* evidence codes
    Exact, Tainted,  \* the two values of Confidence
    Edges            \* dependency edges

ASSUME SlotsAssumption ==
    /\ NamespaceSlots \subseteq CatalogSlots
    /\ {"evidence", "confidence", "graph_edges", "graph_tail"} \cap CatalogSlots = {}
    /\ Exact # Tainted

(***************************************************************************)
(* The evidence log is deduplicated and kept sorted: a set of records.     *)
(***************************************************************************)
Slots == CatalogSlots \cup {"evidence", "confidence"}

SlotValues == CatalogValues \cup {Exact, Tainted} \cup SUBSET Codes

ValuesOf(s) ==
    IF s = "evidence" THEN SUBSET Codes
    ELSE IF s = "confidence" THEN {Exact, Tainted}
    ELSE CatalogValues

SlotStates == {st \in [Slots -> SlotValues] : \A s \in Slots : st[s] \in ValuesOf(s)}

Graphs == Seq(Edges)

Copies == [slots : SlotStates, graph : Graphs]

(***************************************************************************)
(* The variants of StateChange.                                            *)
(***************************************************************************)
SlotSnapshot(s, v) == [kind |-> "slot", slot |-> s, previous |-> v]

NamespaceSnapshot(st, g) ==
    [kind |-> "namespace", slots |-> [s \in NamespaceSlots |-> st[s]], graph |-> g]

GraphLengthMarker(n) == [kind |-> "graph_length", len |-> n]

GraphSnapshot(g) == [kind |-> "graph", graph |-> g]

StateChanges ==
    {change \in [kind : {"slot"}, slot : Slots, previous : SlotValues] :
            change.previous \in ValuesOf(change.slot)}
        \cup [kind : {"namespace"}, slots : [NamespaceSlots -> CatalogValues], graph : Graphs]
        \cup [kind : {"graph_length"}, len : Nat]
        \cup [kind : {"graph"}, graph : Graphs]

(***************************************************************************)
(* rollback_undo_log, one popped entry: what the slots and the edge list   *)
(* are once `change` has been undone.  Vec::truncate keeps a shorter list. *)
(***************************************************************************)
Truncate(g, n) == IF n < Len(g) THEN SubSeq(g, 1, n) ELSE g

UndoneSlots(change, st) ==
    [s \in Slots |->
        IF change.kind = "slot" /\ change.slot = s THEN change.previous
        ELSE IF change.kind = "namespace" /\ s \in NamespaceSlots THEN change.slots[s]
        ELSE st[s]]

UndoneGraph(change, g) ==
    IF change.kind = "graph_length" THEN Truncate(g, change.len)
    ELSE IF change.kind \in {"graph", "namespace"} THEN change.graph
    ELSE g
-----------------------------------------------------------------------------
(***************************************************************************)
(* What undoing a whole log restores, said without the loop: the relation  *)
(* between the state before it and the state after it.                     *)
(***************************************************************************)
Covers(change, s) ==
    \/ change.kind = "slot" /\ change.slot = s
    \/ change.kind = "namespace" /\ s \in NamespaceSlots

Previous(change, s) == IF change.kind = "slot" THEN change.previous ELSE change.slots[s]

CoversGraph(change) == change.kind \in {"graph", "namespace"}

IsMarker(change) == change.kind = "graph_length"

(* Undoing the entries of log above lo takes slot s from v to b: the oldest
   entry that covers s has the last word. *)
RestoresSlot(log, lo, s, v, b) ==
    \/ v = b /\ \A j \in (lo + 1)..Len(log) : ~Covers(log[j], s)
    \/ \E j \in (lo + 1)..Len(log) :
           /\ Covers(log[j], s) /\ Previous(log[j], s) = b
           /\ \A k \in (lo + 1)..(j - 1) : ~Covers(log[k], s)

(* The markers of log[lo + 1..hi] take g to its prefix b: the oldest marker
   holds the length of b and no later one is shorter. *)
Cuts(log, lo, hi, g, b) ==
    /\ Len(b) <= Len(g) /\ \A i \in 1..Len(b) : b[i] = g[i]
    /\ \A k \in (lo + 1)..hi : IsMarker(log[k]) => log[k].len >= Len(b)
    /\ \/ Len(b) = Len(g) /\ \A k \in (lo + 1)..hi : ~IsMarker(log[k])
       \/ \E k \in (lo + 1)..hi :
              /\ IsMarker(log[k]) /\ log[k].len = Len(b)
              /\ \A i \in (lo + 1)..(k - 1) : ~IsMarker(log[i])

(* The same for the graph: the oldest full copy, cut by the older markers. *)
RestoresGraph(log, lo, g, b) ==
    \/ /\ \A j \in (lo + 1)..Len(log) : ~CoversGraph(log[j])
       /\ Cuts(log, lo, Len(log), g, b)
    \/ \E j \in (lo + 1)..Len(log) :
           /\ CoversGraph(log[j]) /\ Cuts(log, lo, j - 1, log[j].graph, b)
           /\ \A k \in (lo + 1)..(j - 1) : ~CoversGraph(log[k])

Restores(log, lo, d, b) ==
    /\ \A s \in Slots : RestoresSlot(log, lo, s, d.slots[s], b.slots[s])
    /\ RestoresGraph(log, lo, d.graph, b.graph)

(* The entries of log above lo save everything in what: slots, the tail of the
   edge list, or the edges themselves. *)
Covered(log, lo, what) ==
    LET added == (lo + 1)..Len(log)
    IN  /\ \A s \in what \cap Slots : \E j \in added : Covers(log[j], s)
        /\ "graph_edges" \in what => \E j \in added : CoversGraph(log[j])
        /\ "graph_tail" \in what => \E j \in added : CoversGraph(log[j]) \/ IsMarker(log[j])
=============================================================================
