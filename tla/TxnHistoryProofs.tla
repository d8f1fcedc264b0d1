--------------------------- MODULE TxnHistoryProofs ---------------------------
(***************************************************************************)
(* The engine with its undo logs implements PgTransaction, transaction     *)
(* blocks by full copies.  Three parts: what the relation Restores of      *)
(* UndoLog obeys under pushes, writes, pops and joins of logs; UndoInv, an *)
(* inductive invariant of HSpec, by which what the undo logs of the open   *)
(* frames lead back to is, at every step, what the frames were opened on,  *)
(* so that an undo is exact and the confidence follows the evidence; and   *)
(* the refinement, step by step.                                           *)
(***************************************************************************)
EXTENDS TxnHistory, MigrationTxnProofs

------------------------------------------------------------------------------
(* Undo logs: every log and every set of slots, values and edges.          *)

(* longer is log with one more entry at its end. *)
IsPush(log, longer, change) ==
    /\ Len(longer) = Len(log) + 1
    /\ \A i \in 1..Len(log) : longer[i] = log[i]
    /\ longer[Len(longer)] = change

(* change saves what it covers of the copy d. *)
Saves(change, d) ==
    /\ \A s \in Slots : Covers(change, s) => Previous(change, s) = d.slots[s]
    /\ CoversGraph(change) => change.graph = d.graph
    /\ IsMarker(change) => change.len = Len(d.graph)

(* A log typed and indexed. *)
LEMMA LogTyped ==
    ASSUME NEW log \in Seq(StateChanges)
    PROVE  /\ Len(log) \in Nat
           /\ \A j \in 1..Len(log) : log[j] \in StateChanges
           /\ \A j \in 1..Len(log) : IsMarker(log[j]) => log[j].len \in Nat
           /\ \A j \in 1..Len(log) : CoversGraph(log[j]) => log[j].graph \in Graphs
<1>1. Len(log) \in Nat /\ \A j \in 1..Len(log) : log[j] \in StateChanges
  OBVIOUS
<1>2. \A change \in StateChanges : IsMarker(change) => change.len \in Nat
  BY DEF StateChanges, IsMarker
<1>3. \A change \in StateChanges : CoversGraph(change) => change.graph \in Graphs
  BY DEF StateChanges, CoversGraph
<1>4. QED
  BY <1>1, <1>2, <1>3

LEMMA GraphTyped ==
    ASSUME NEW g \in Graphs
    PROVE  Len(g) \in Nat /\ g \in [1..Len(g) -> Edges]
BY DEF Graphs

(* A snapshot of the present value leaves what the log restores alone. *)
LEMMA PushSlot ==
    ASSUME NEW log \in Seq(StateChanges), NEW longer \in Seq(StateChanges), NEW change,
           IsPush(log, longer, change), NEW lo \in 0..Len(log),
           NEW s, NEW v, NEW b, RestoresSlot(log, lo, s, v, b),
           Covers(change, s) => Previous(change, s) = v
    PROVE  RestoresSlot(longer, lo, s, v, b)
<1>1. Len(log) \in Nat /\ lo \in Nat /\ Len(longer) = Len(log) + 1
  BY DEF IsPush
<1>2. \A i \in 1..Len(log) : longer[i] = log[i]
  BY DEF IsPush
<1>3. longer[Len(log) + 1] = change
  BY <1>1 DEF IsPush
<1>4. CASE v = b /\ \A j \in (lo + 1)..Len(log) : ~Covers(log[j], s)
  BY <1>1, <1>2, <1>3, <1>4 DEF RestoresSlot
<1>5. CASE \E j \in (lo + 1)..Len(log) :
               /\ Covers(log[j], s) /\ Previous(log[j], s) = b
               /\ \A k \in (lo + 1)..(j - 1) : ~Covers(log[k], s)
  BY <1>1, <1>2, <1>5 DEF RestoresSlot
<1>6. QED
  BY <1>4, <1>5 DEF RestoresSlot

(* Once a log covers a slot, what the slot holds no longer matters to it. *)
LEMMA WriteCoveredSlot ==
    ASSUME NEW log, NEW lo, NEW s, NEW v, NEW w, NEW b, RestoresSlot(log, lo, s, v, b),
           \E j \in (lo + 1)..Len(log) : Covers(log[j], s)
    PROVE  RestoresSlot(log, lo, s, w, b)
BY DEF RestoresSlot

(* Undoing the newest entry leaves the rest of the work to the rest of the log. *)
LEMMA PopSlot ==
    ASSUME NEW log \in Seq(StateChanges), NEW longer \in Seq(StateChanges), NEW change,
           IsPush(log, longer, change), NEW lo \in 0..Len(log),
           NEW s, NEW v, NEW b, RestoresSlot(longer, lo, s, v, b)
    PROVE  RestoresSlot(log, lo, s, IF Covers(change, s) THEN Previous(change, s) ELSE v, b)
<1>1. Len(log) \in Nat /\ lo \in Nat /\ Len(longer) = Len(log) + 1
  BY DEF IsPush
<1>2. \A i \in 1..Len(log) : longer[i] = log[i]
  BY DEF IsPush
<1>3. longer[Len(log) + 1] = change
  BY <1>1 DEF IsPush
<1>4. CASE v = b /\ \A j \in (lo + 1)..Len(longer) : ~Covers(longer[j], s)
  BY <1>1, <1>2, <1>3, <1>4 DEF RestoresSlot
<1>5. ASSUME NEW j \in (lo + 1)..Len(longer), Covers(longer[j], s), Previous(longer[j], s) = b,
             \A k \in (lo + 1)..(j - 1) : ~Covers(longer[k], s)
      PROVE  RestoresSlot(log, lo, s, IF Covers(change, s) THEN Previous(change, s) ELSE v, b)
  <2>1. CASE j = Len(log) + 1
    BY <1>1, <1>2, <1>3, <1>5, <2>1 DEF RestoresSlot
  <2>2. CASE j # Len(log) + 1
    <3>1. j \in (lo + 1)..Len(log) /\ j \in 1..Len(log)
      BY <1>1, <2>2
    <3>2. \A k \in (lo + 1)..(j - 1) : k \in 1..Len(log)
      BY <1>1, <3>1
    <3>3. QED
      BY <1>2, <1>5, <3>1, <3>2 DEF RestoresSlot
  <2>3. QED
    BY <2>1, <2>2
<1>6. QED
  BY <1>4, <1>5 DEF RestoresSlot

(* Two logs in a row restore what the older one restores. *)
LEMMA ConcatSlot ==
    ASSUME NEW old \in Seq(StateChanges), NEW new \in Seq(StateChanges),
           NEW s, NEW v, NEW m, NEW b,
           RestoresSlot(old, 0, s, m, b), RestoresSlot(new, 0, s, v, m)
    PROVE  RestoresSlot(old \o new, 0, s, v, b)
<1> DEFINE log == old \o new
<1>1. /\ Len(old) \in Nat /\ Len(new) \in Nat /\ Len(log) = Len(old) + Len(new)
      /\ \A i \in 1..Len(old) : log[i] = old[i]
      /\ \A i \in 1..Len(new) : log[Len(old) + i] = new[i]
  BY ConcatProperties
<1>2. \A i \in (Len(old) + 1)..Len(log) : i - Len(old) \in 1..Len(new)
                                          /\ log[i] = new[i - Len(old)]
  BY <1>1
<1> HIDE DEF log
<1>3. CASE \E j \in 1..Len(old) : Covers(old[j], s)
  <2>1. PICK j \in 1..Len(old) : Covers(old[j], s) /\ Previous(old[j], s) = b
                                 /\ \A k \in 1..(j - 1) : ~Covers(old[k], s)
    BY <1>1, <1>3 DEF RestoresSlot
  <2>2. j \in 1..Len(log) /\ log[j] = old[j] /\ \A k \in 1..(j - 1) : log[k] = old[k]
    BY <1>1
  <2>3. RestoresSlot(log, 0, s, v, b)
    BY <2>1, <2>2 DEF RestoresSlot
  <2>4. QED
    BY <2>3 DEF log
<1>4. CASE \A j \in 1..Len(old) : ~Covers(old[j], s)
  <2>1. m = b
    BY <1>1, <1>4 DEF RestoresSlot
  <2>2. CASE v = m /\ \A j \in 1..Len(new) : ~Covers(new[j], s)
    <3>1. \A j \in 1..Len(log) : ~Covers(log[j], s)
      <4> SUFFICES ASSUME NEW j \in 1..Len(log) PROVE ~Covers(log[j], s)
        OBVIOUS
      <4>1. CASE j <= Len(old)
        BY <1>1, <1>4, <4>1
      <4>2. CASE j > Len(old)
        BY <1>1, <1>2, <2>2, <4>2
      <4>3. QED
        BY <1>1, <4>1, <4>2
    <3>2. RestoresSlot(log, 0, s, v, b)
      BY <2>1, <2>2, <3>1 DEF RestoresSlot
    <3>3. QED
      BY <3>2 DEF log
  <2>3. ASSUME NEW j \in 1..Len(new), Covers(new[j], s), Previous(new[j], s) = m,
               \A k \in 1..(j - 1) : ~Covers(new[k], s)
        PROVE  RestoresSlot(log, 0, s, v, b)
    <3> DEFINE i == Len(old) + j
    <3>1. i \in 1..Len(log) /\ log[i] = new[j]
      BY <1>1
    <3>2. ASSUME NEW k \in 1..(i - 1) PROVE ~Covers(log[k], s)
      <4>1. CASE k <= Len(old)
        BY <1>1, <1>4, <4>1
      <4>2. CASE k > Len(old)
        <5>1. k \in (Len(old) + 1)..Len(log) /\ k - Len(old) \in 1..(j - 1)
          BY <1>1, <4>2
        <5>2. QED
          BY <1>2, <2>3, <5>1
      <4>3. QED
        BY <1>1, <4>1, <4>2
    <3> HIDE DEF i
    <3>3. QED
      BY <2>1, <2>3, <3>1, <3>2 DEF RestoresSlot
  <2>4. \/ v = m /\ \A j \in 1..Len(new) : ~Covers(new[j], s)
        \/ \E j \in 1..Len(new) : /\ Covers(new[j], s) /\ Previous(new[j], s) = m
                                  /\ \A k \in 1..(j - 1) : ~Covers(new[k], s)
    BY DEF RestoresSlot
  <2>5. QED
    BY <2>2, <2>3, <2>4 DEF log
<1>5. QED
  BY <1>3, <1>4
-----------------------------------------------------------------------------
(* Cuts looks at nothing but the entries between its bounds. *)
LEMMA CutsSame ==
    ASSUME NEW log, NEW other, NEW lo \in Nat, NEW hi \in Int, NEW g, NEW b,
           \A k \in (lo + 1)..hi : other[k] = log[k], Cuts(log, lo, hi, g, b)
    PROVE  Cuts(other, lo, hi, g, b)
<1>1. \A k \in (lo + 1)..hi : \A i \in (lo + 1)..(k - 1) : i \in (lo + 1)..hi
  OBVIOUS
<1>2. QED
  BY <1>1 DEF Cuts

(* A marker of the present length changes nothing, nor does any other entry. *)
LEMMA CutsPush ==
    ASSUME NEW log \in Seq(StateChanges), NEW longer \in Seq(StateChanges), NEW change,
           IsPush(log, longer, change), NEW lo \in 0..Len(log),
           NEW g \in Graphs, NEW b \in Graphs, Cuts(log, lo, Len(log), g, b),
           IsMarker(change) => change.len = Len(g)
    PROVE  Cuts(longer, lo, Len(longer), g, b)
<1>1. Len(log) \in Nat /\ lo \in Nat /\ Len(longer) = Len(log) + 1
      /\ Len(g) \in Nat /\ Len(b) \in Nat
  BY GraphTyped DEF IsPush
<1>2. \A i \in (lo + 1)..Len(log) : i \in 1..Len(log) /\ longer[i] = log[i]
  BY <1>1 DEF IsPush
<1>3. longer[Len(log) + 1] = change
  BY <1>1 DEF IsPush
<1>4. Len(b) <= Len(g) /\ \A i \in 1..Len(b) : b[i] = g[i]
  BY DEF Cuts
<1>5. ASSUME NEW k \in (lo + 1)..Len(longer), IsMarker(longer[k])
      PROVE  longer[k].len >= Len(b)
  <2>1. CASE k = Len(log) + 1
    BY <1>1, <1>3, <1>4, <1>5, <2>1
  <2>2. CASE k # Len(log) + 1
    BY <1>1, <1>2, <1>5, <2>2 DEF Cuts
  <2>3. QED
    BY <2>1, <2>2
<1>6. CASE Len(b) = Len(g) /\ \A k \in (lo + 1)..Len(log) : ~IsMarker(log[k])
  BY <1>1, <1>2, <1>3, <1>4, <1>5, <1>6 DEF Cuts
<1>7. ASSUME NEW k \in (lo + 1)..Len(log), IsMarker(log[k]), log[k].len = Len(b),
             \A i \in (lo + 1)..(k - 1) : ~IsMarker(log[i])
      PROVE  Cuts(longer, lo, Len(longer), g, b)
  <2>1. k \in (lo + 1)..Len(longer) /\ longer[k] = log[k]
        /\ \A i \in (lo + 1)..(k - 1) : longer[i] = log[i]
    BY <1>1, <1>2
  <2>2. QED
    BY <1>4, <1>5, <1>7, <2>1 DEF Cuts
<1>8. QED
  BY <1>6, <1>7 DEF Cuts

(* What Vec::truncate keeps. *)
LEMMA TruncateProperties ==
    ASSUME NEW g \in Graphs, NEW n \in Nat
    PROVE  /\ Truncate(g, n) \in Graphs
           /\ Len(Truncate(g, n)) = IF n < Len(g) THEN n ELSE Len(g)
           /\ \A i \in 1..Len(Truncate(g, n)) : Truncate(g, n)[i] = g[i]
<1>1. CASE n < Len(g)
  <2>1. Len(g) \in Nat /\ \A i \in 1..n : g[i] \in Edges
    BY <1>1, GraphTyped
  <2>2. Truncate(g, n) = SubSeq(g, 1, n)
    BY <1>1 DEF Truncate
  <2>3. /\ SubSeq(g, 1, n) \in Seq(Edges)
        /\ Len(SubSeq(g, 1, n)) = n
        /\ \A i \in 1..n : SubSeq(g, 1, n)[i] = g[i]
    BY <1>1, <2>1 DEF Graphs
  <2>4. QED
    BY <1>1, <2>2, <2>3 DEF Graphs
<1>2. CASE ~(n < Len(g))
  BY <1>2 DEF Truncate
<1>3. QED
  BY <1>1, <1>2

(* Undoing the newest entry, a marker or one that is not about the graph. *)
LEMMA CutsPop ==
    ASSUME NEW log \in Seq(StateChanges), NEW longer \in Seq(StateChanges), NEW change,
           IsPush(log, longer, change), NEW lo \in 0..Len(log),
           NEW g \in Graphs, NEW b \in Graphs, Cuts(longer, lo, Len(longer), g, b)
    PROVE  Cuts(log, lo, Len(log), IF IsMarker(change) THEN Truncate(g, change.len) ELSE g, b)
<1>1. Len(log) \in Nat /\ lo \in Nat /\ Len(longer) = Len(log) + 1
      /\ Len(g) \in Nat /\ Len(b) \in Nat
  BY GraphTyped DEF IsPush
<1>2. \A i \in (lo + 1)..Len(log) : i \in (lo + 1)..Len(longer) /\ longer[i] = log[i]
  BY <1>1 DEF IsPush
<1>3. longer[Len(log) + 1] = change /\ Len(log) + 1 \in (lo + 1)..Len(longer)
  BY <1>1 DEF IsPush
<1>4. Len(b) <= Len(g) /\ \A i \in 1..Len(b) : b[i] = g[i]
  BY DEF Cuts
<1>5. \A k \in (lo + 1)..Len(log) : IsMarker(log[k]) => log[k].len >= Len(b)
  BY <1>2 DEF Cuts
<1>6. IsMarker(change) => change.len \in Nat /\ change.len >= Len(b)
  <2>1. IsMarker(change) => change.len \in Nat
    <3>1. Len(log) + 1 \in 1..Len(longer)
      BY <1>1
    <3>2. QED
      BY <1>3, <3>1, LogTyped
  <2>2. IsMarker(change) => change.len >= Len(b)
    BY <1>3 DEF Cuts
  <2>3. QED
    BY <2>1, <2>2
<1> DEFINE h == IF IsMarker(change) THEN Truncate(g, change.len) ELSE g
<1>7. /\ h \in Graphs /\ Len(b) <= Len(h) /\ \A i \in 1..Len(b) : b[i] = h[i]
      /\ ~IsMarker(change) => Len(h) = Len(g)
      /\ IsMarker(change) /\ change.len = Len(b) => Len(h) = Len(b)
  <2>1. CASE IsMarker(change)
    <3>1. /\ h \in Graphs /\ Len(h) = IF change.len < Len(g) THEN change.len ELSE Len(g)
          /\ \A i \in 1..Len(h) : h[i] = g[i]
      BY <1>6, <2>1, TruncateProperties
    <3> HIDE DEF h
    <3>2. QED
      BY <1>1, <1>4, <1>6, <2>1, <3>1
  <2>2. CASE ~IsMarker(change)
    BY <1>4, <2>2
  <2>3. QED
    BY <2>1, <2>2
<1> HIDE DEF h
<1>8. CASE Len(b) = Len(g) /\ \A k \in (lo + 1)..Len(longer) : ~IsMarker(longer[k])
  <2>1. ~IsMarker(change) /\ \A k \in (lo + 1)..Len(log) : ~IsMarker(log[k])
    BY <1>2, <1>3, <1>8
  <2>2. Cuts(log, lo, Len(log), h, b)
    BY <1>7, <1>8, <2>1 DEF Cuts
  <2>3. QED
    BY <2>2 DEF h
<1>9. ASSUME NEW k \in (lo + 1)..Len(longer), IsMarker(longer[k]), longer[k].len = Len(b),
             \A i \in (lo + 1)..(k - 1) : ~IsMarker(longer[i])
      PROVE  Cuts(log, lo, Len(log), h, b)
  <2>1. CASE k = Len(log) + 1
    <3>1. IsMarker(change) /\ change.len = Len(b)
      BY <1>3, <1>9, <2>1
    <3>2. \A i \in (lo + 1)..Len(log) : ~IsMarker(log[i])
      BY <1>1, <1>2, <1>9, <2>1
    <3>3. QED
      BY <1>7, <3>1, <3>2 DEF Cuts
  <2>2. CASE k # Len(log) + 1
    <3>1. k \in (lo + 1)..Len(log) /\ longer[k] = log[k]
          /\ \A i \in (lo + 1)..(k - 1) : longer[i] = log[i]
      BY <1>1, <1>2, <2>2
    <3>2. QED
      BY <1>5, <1>7, <1>9, <3>1 DEF Cuts
  <2>3. QED
    BY <2>1, <2>2
<1>10. QED
  BY <1>8, <1>9 DEF Cuts, h

(* An edge added behind a marker is cut off again. *)
LEMMA CutsAppend ==
    ASSUME NEW log, NEW lo, NEW hi, NEW g \in Graphs, NEW b \in Graphs, NEW e \in Edges,
           Cuts(log, lo, hi, g, b), \E k \in (lo + 1)..hi : IsMarker(log[k])
    PROVE  Cuts(log, lo, hi, Append(g, e), b)
<1>1. Len(g) \in Nat /\ Len(b) \in Nat /\ g \in Seq(Edges)
  BY GraphTyped DEF Graphs
<1>2. Len(Append(g, e)) = Len(g) + 1 /\ \A i \in 1..Len(g) : Append(g, e)[i] = g[i]
  BY <1>1, AppendProperties
<1>3. Len(b) <= Len(g) /\ \A i \in 1..Len(b) : b[i] = g[i]
  BY DEF Cuts
<1>4. Len(b) <= Len(Append(g, e)) /\ \A i \in 1..Len(b) : b[i] = Append(g, e)[i]
  BY <1>1, <1>2, <1>3
<1>5. QED
  BY <1>4 DEF Cuts
-----------------------------------------------------------------------------
(* The same three facts for the graph as for a slot. *)
LEMMA PushGraph ==
    ASSUME NEW log \in Seq(StateChanges), NEW longer \in Seq(StateChanges), NEW change,
           IsPush(log, longer, change), NEW lo \in 0..Len(log),
           NEW g \in Graphs, NEW b \in Graphs, RestoresGraph(log, lo, g, b),
           CoversGraph(change) => change.graph = g, IsMarker(change) => change.len = Len(g)
    PROVE  RestoresGraph(longer, lo, g, b)
<1>1. Len(log) \in Nat /\ lo \in Nat /\ Len(longer) = Len(log) + 1
  BY DEF IsPush
<1>2. \A i \in (lo + 1)..Len(log) : i \in (lo + 1)..Len(longer) /\ longer[i] = log[i]
  BY <1>1 DEF IsPush
<1>3. longer[Len(log) + 1] = change /\ Len(log) + 1 \in (lo + 1)..Len(longer)
  BY <1>1 DEF IsPush
<1>4. CASE /\ \A j \in (lo + 1)..Len(log) : ~CoversGraph(log[j])
           /\ Cuts(log, lo, Len(log), g, b)
  <2>1. CASE CoversGraph(change)
    <3>1. Cuts(longer, lo, Len(log), g, b)
      BY <1>1, <1>2, <1>4, CutsSame
    <3>2. (Len(log) + 1) - 1 = Len(log)
      BY <1>1
    <3>3. \A k \in (lo + 1)..Len(log) : ~CoversGraph(longer[k])
      BY <1>2, <1>4
    <3>4. QED
      BY <1>3, <2>1, <3>1, <3>2, <3>3 DEF RestoresGraph
  <2>2. CASE ~CoversGraph(change)
    <3>1. Cuts(longer, lo, Len(longer), g, b)
      BY <1>4, CutsPush
    <3>2. \A j \in (lo + 1)..Len(longer) : ~CoversGraph(longer[j])
      BY <1>1, <1>2, <1>3, <1>4, <2>2
    <3>3. QED
      BY <3>1, <3>2 DEF RestoresGraph
  <2>3. QED
    BY <2>1, <2>2
<1>5. ASSUME NEW j \in (lo + 1)..Len(log), CoversGraph(log[j]),
             Cuts(log, lo, j - 1, log[j].graph, b),
             \A k \in (lo + 1)..(j - 1) : ~CoversGraph(log[k])
      PROVE  RestoresGraph(longer, lo, g, b)
  <2>1. j - 1 \in Int /\ \A k \in (lo + 1)..(j - 1) : longer[k] = log[k]
    BY <1>1, <1>2
  <2>2. Cuts(longer, lo, j - 1, log[j].graph, b)
    BY <1>1, <1>5, <2>1, CutsSame
  <2>3. j \in (lo + 1)..Len(longer) /\ longer[j] = log[j]
    BY <1>2
  <2>4. QED
    BY <1>5, <2>1, <2>2, <2>3 DEF RestoresGraph
<1>6. QED
  BY <1>4, <1>5 DEF RestoresGraph

LEMMA WriteCoveredGraph ==
    ASSUME NEW log, NEW lo, NEW g, NEW h, NEW b, RestoresGraph(log, lo, g, b),
           \E j \in (lo + 1)..Len(log) : CoversGraph(log[j])
    PROVE  RestoresGraph(log, lo, h, b)
BY DEF RestoresGraph

LEMMA AppendCoveredGraph ==
    ASSUME NEW log, NEW lo, NEW g \in Graphs, NEW b \in Graphs, NEW e \in Edges,
           RestoresGraph(log, lo, g, b),
           \E j \in (lo + 1)..Len(log) : CoversGraph(log[j]) \/ IsMarker(log[j])
    PROVE  RestoresGraph(log, lo, Append(g, e), b)
<1>1. CASE \E j \in (lo + 1)..Len(log) : CoversGraph(log[j])
  BY <1>1, WriteCoveredGraph
<1>2. CASE \A j \in (lo + 1)..Len(log) : ~CoversGraph(log[j])
  <2>1. Cuts(log, lo, Len(log), g, b)
    BY <1>2 DEF RestoresGraph
  <2>2. Cuts(log, lo, Len(log), Append(g, e), b)
    BY <1>2, <2>1, CutsAppend
  <2>3. QED
    BY <1>2, <2>2 DEF RestoresGraph
<1>3. QED
  BY <1>1, <1>2

LEMMA PopGraph ==
    ASSUME NEW log \in Seq(StateChanges), NEW longer \in Seq(StateChanges),
           NEW change \in StateChanges,
           IsPush(log, longer, change), NEW lo \in 0..Len(log),
           NEW g \in Graphs, NEW b \in Graphs, RestoresGraph(longer, lo, g, b)
    PROVE  RestoresGraph(log, lo, UndoneGraph(change, g), b)
<1>1. Len(log) \in Nat /\ lo \in Nat /\ Len(longer) = Len(log) + 1
  BY DEF IsPush
<1>2. \A i \in (lo + 1)..Len(log) : i \in (lo + 1)..Len(longer) /\ longer[i] = log[i]
  BY <1>1 DEF IsPush
<1>3. longer[Len(log) + 1] = change /\ Len(log) + 1 \in (lo + 1)..Len(longer)
  BY <1>1 DEF IsPush
<1>4. CASE /\ \A j \in (lo + 1)..Len(longer) : ~CoversGraph(longer[j])
           /\ Cuts(longer, lo, Len(longer), g, b)
  <2>1. ~CoversGraph(change) /\ \A j \in (lo + 1)..Len(log) : ~CoversGraph(log[j])
    BY <1>2, <1>3, <1>4
  <2>2. UndoneGraph(change, g) = IF IsMarker(change) THEN Truncate(g, change.len) ELSE g
    BY <2>1 DEF UndoneGraph, IsMarker, CoversGraph
  <2>3. Cuts(log, lo, Len(log), UndoneGraph(change, g), b)
    BY <1>4, <2>2, CutsPop
  <2>4. QED
    BY <2>1, <2>3 DEF RestoresGraph
<1>5. ASSUME NEW j \in (lo + 1)..Len(longer), CoversGraph(longer[j]),
             Cuts(longer, lo, j - 1, longer[j].graph, b),
             \A k \in (lo + 1)..(j - 1) : ~CoversGraph(longer[k])
      PROVE  RestoresGraph(log, lo, UndoneGraph(change, g), b)
  <2>1. j - 1 \in Int /\ \A k \in (lo + 1)..(j - 1) : log[k] = longer[k]
    BY <1>1, <1>2
  <2>2. Cuts(log, lo, j - 1, longer[j].graph, b)
    BY <1>1, <1>5, <2>1, CutsSame
  <2>3. CASE j = Len(log) + 1
    <3>1. UndoneGraph(change, g) = longer[j].graph
      BY <1>3, <1>5, <2>3 DEF UndoneGraph, CoversGraph
    <3>2. j - 1 = Len(log)
      BY <1>1, <2>3
    <3>3. QED
      BY <1>5, <2>1, <2>2, <3>1, <3>2 DEF RestoresGraph
  <2>4. CASE j # Len(log) + 1
    <3>1. j \in (lo + 1)..Len(log) /\ log[j] = longer[j]
      BY <1>1, <1>2, <2>4
    <3>2. QED
      BY <1>5, <2>1, <2>2, <3>1 DEF RestoresGraph
  <2>5. QED
    BY <2>3, <2>4
<1>6. QED
  BY <1>4, <1>5 DEF RestoresGraph

(* Cutting twice is cutting once, to the shorter length. *)
LEMMA CutsConcat ==
    ASSUME NEW old \in Seq(StateChanges), NEW new \in Seq(StateChanges), NEW hi \in 0..Len(new),
           NEW g \in Graphs, NEW m \in Graphs, NEW b \in Graphs,
           Cuts(old, 0, Len(old), m, b), Cuts(new, 0, hi, g, m)
    PROVE  Cuts(old \o new, 0, Len(old) + hi, g, b)
<1> DEFINE log == old \o new
           top == Len(old) + hi
<1>1. /\ Len(old) \in Nat /\ Len(new) \in Nat /\ hi \in Nat /\ top \in Nat
      /\ Len(g) \in Nat /\ Len(m) \in Nat /\ Len(b) \in Nat
  BY GraphTyped
<1>2. \A i \in 1..Len(old) : i \in 1..top /\ log[i] = old[i]
  BY <1>1, ConcatProperties
<1>3. \A i \in 1..hi : Len(old) + i \in 1..top /\ log[Len(old) + i] = new[i]
  BY <1>1, ConcatProperties
<1>4. \A i \in 1..top : i \in 1..Len(old) \/ i - Len(old) \in 1..hi
  BY <1>1
<1>5. \A i \in 1..top : i - Len(old) \in 1..hi => log[i] = new[i - Len(old)]
  BY <1>1, <1>3
<1> HIDE DEF log, top
<1>6. Len(b) <= Len(m) /\ Len(m) <= Len(g) /\ Len(b) <= Len(g)
      /\ \A i \in 1..Len(b) : b[i] = g[i]
  BY <1>1 DEF Cuts
<1>7. \A k \in 1..Len(old) : IsMarker(old[k]) => old[k].len >= Len(b)
  BY DEF Cuts
<1>8. \A k \in 1..hi : IsMarker(new[k]) => new[k].len >= Len(b)
  <2>1. \A k \in 1..hi : IsMarker(new[k]) => new[k].len >= Len(m)
    BY DEF Cuts
  <2>2. \A k \in 1..hi : IsMarker(new[k]) => new[k].len \in Nat
    BY <1>1, LogTyped
  <2>3. QED
    BY <1>1, <1>6, <2>1, <2>2
<1>9. \A k \in 1..top : IsMarker(log[k]) => log[k].len >= Len(b)
  BY <1>2, <1>4, <1>5, <1>7, <1>8
<1>10. CASE \E k \in 1..Len(old) : IsMarker(old[k])
  <2>1. PICK k \in 1..Len(old) : /\ IsMarker(old[k]) /\ old[k].len = Len(b)
                                 /\ \A i \in 1..(k - 1) : ~IsMarker(old[i])
    BY <1>10 DEF Cuts
  <2>2. k \in 1..top /\ log[k] = old[k] /\ \A i \in 1..(k - 1) : log[i] = old[i]
    BY <1>1, <1>2
  <2>3. Cuts(log, 0, top, g, b)
    BY <1>6, <1>9, <2>1, <2>2 DEF Cuts
  <2>4. QED
    BY <2>3 DEF log, top
<1>11. CASE \A k \in 1..Len(old) : ~IsMarker(old[k])
  <2>1. Len(b) = Len(m)
    BY <1>11 DEF Cuts
  <2>2. CASE Len(m) = Len(g) /\ \A k \in 1..hi : ~IsMarker(new[k])
    <3>1. \A k \in 1..top : ~IsMarker(log[k])
      BY <1>2, <1>4, <1>5, <1>11, <2>2
    <3>2. Cuts(log, 0, top, g, b)
      BY <1>6, <1>9, <2>1, <2>2, <3>1 DEF Cuts
    <3>3. QED
      BY <3>2 DEF log, top
  <2>3. ASSUME NEW k \in 1..hi, IsMarker(new[k]), new[k].len = Len(m),
               \A i \in 1..(k - 1) : ~IsMarker(new[i])
        PROVE  Cuts(log, 0, top, g, b)
    <3>1. Len(old) + k \in 1..top /\ log[Len(old) + k] = new[k]
      BY <1>3
    <3>2. ASSUME NEW i \in 1..(Len(old) + k - 1) PROVE ~IsMarker(log[i])
      <4>1. i \in 1..top
        BY <1>1, <3>1
      <4>2. CASE i \in 1..Len(old)
        BY <1>2, <1>11, <4>2
      <4>3. CASE i - Len(old) \in 1..hi
        <5>1. i - Len(old) \in 1..(k - 1)
          BY <1>1, <4>3
        <5>2. QED
          BY <1>5, <2>3, <4>1, <4>3, <5>1
      <4>4. QED
        BY <1>4, <4>1, <4>2, <4>3
    <3>3. QED
      BY <1>6, <1>9, <2>1, <2>3, <3>1, <3>2 DEF Cuts
  <2>4. \/ Len(m) = Len(g) /\ \A k \in 1..hi : ~IsMarker(new[k])
        \/ \E k \in 1..hi : /\ IsMarker(new[k]) /\ new[k].len = Len(m)
                            /\ \A i \in 1..(k - 1) : ~IsMarker(new[i])
    BY DEF Cuts
  <2>5. QED
    BY <2>2, <2>3, <2>4 DEF log, top
<1>12. QED
  BY <1>10, <1>11
LEMMA ConcatGraph ==
    ASSUME NEW old \in Seq(StateChanges), NEW new \in Seq(StateChanges),
           NEW g \in Graphs, NEW m \in Graphs, NEW b \in Graphs,
           RestoresGraph(old, 0, m, b), RestoresGraph(new, 0, g, m)
    PROVE  RestoresGraph(old \o new, 0, g, b)
<1> DEFINE log == old \o new
<1>1. /\ Len(old) \in Nat /\ Len(new) \in Nat /\ log \in Seq(StateChanges)
      /\ Len(log) = Len(old) + Len(new)
      /\ \A i \in 1..Len(old) : log[i] = old[i]
      /\ \A i \in 1..Len(new) : log[Len(old) + i] = new[i]
  BY ConcatProperties
<1>2. \A i \in 1..Len(log) :
          \/ i \in 1..Len(old) /\ log[i] = old[i]
          \/ i - Len(old) \in 1..Len(new) /\ log[i] = new[i - Len(old)]
  BY <1>1
<1>3. CASE \E j \in 1..Len(old) : CoversGraph(old[j])
  <2>1. PICK j \in 1..Len(old) : /\ CoversGraph(old[j]) /\ Cuts(old, 0, j - 1, old[j].graph, b)
                                 /\ \A k \in 1..(j - 1) : ~CoversGraph(old[k])
    BY <1>3 DEF RestoresGraph
  <2>2. j \in 1..Len(log) /\ log[j] = old[j] /\ j - 1 \in Int
        /\ \A k \in 1..(j - 1) : log[k] = old[k]
    BY <1>1
  <2> HIDE DEF log
  <2>3. Cuts(log, 0, j - 1, log[j].graph, b)
    <3>1. 0 \in Nat /\ 0 + 1 = 1
      OBVIOUS
    <3>2. QED
      BY <2>1, <2>2, <3>1, CutsSame
  <2>4. RestoresGraph(log, 0, g, b)
    BY <2>1, <2>2, <2>3 DEF RestoresGraph
  <2>5. QED
    BY <2>4 DEF log
<1>4. CASE \A j \in 1..Len(old) : ~CoversGraph(old[j])
  <2>1. Cuts(old, 0, Len(old), m, b)
    BY <1>4 DEF RestoresGraph
  <2>2. CASE /\ \A j \in 1..Len(new) : ~CoversGraph(new[j])
             /\ Cuts(new, 0, Len(new), g, m)
    <3>1. Cuts(log, 0, Len(log), g, b)
      BY <1>1, <2>1, <2>2, CutsConcat
    <3> HIDE DEF log
    <3>2. \A j \in 1..Len(log) : ~CoversGraph(log[j])
      BY <1>2, <1>4, <2>2
    <3>3. RestoresGraph(log, 0, g, b)
      BY <3>1, <3>2 DEF RestoresGraph
    <3>4. QED
      BY <3>3 DEF log
  <2>3. ASSUME NEW j \in 1..Len(new), CoversGraph(new[j]), Cuts(new, 0, j - 1, new[j].graph, m),
               \A k \in 1..(j - 1) : ~CoversGraph(new[k])
        PROVE  RestoresGraph(log, 0, g, b)
    <3>1. new[j].graph \in Graphs
      BY <2>3, LogTyped
    <3>2. j - 1 \in 0..Len(new) /\ Len(old) + (j - 1) = (Len(old) + j) - 1
      BY <1>1
    <3>3. Cuts(log, 0, (Len(old) + j) - 1, new[j].graph, b)
      BY <2>1, <2>3, <3>1, <3>2, CutsConcat
    <3>4. Len(old) + j \in 1..Len(log) /\ log[Len(old) + j] = new[j]
      BY <1>1
    <3> HIDE DEF log
    <3>5. ASSUME NEW i \in 1..((Len(old) + j) - 1) PROVE ~CoversGraph(log[i])
      <4>1. i \in 1..Len(log)
        BY <1>1
      <4>2. CASE i \in 1..Len(old) /\ log[i] = old[i]
        BY <1>4, <4>2
      <4>3. CASE i - Len(old) \in 1..Len(new) /\ log[i] = new[i - Len(old)]
        <5>1. i - Len(old) \in 1..(j - 1)
          BY <1>1, <4>3
        <5>2. QED
          BY <2>3, <4>3, <5>1
      <4>4. QED
        BY <1>2, <4>1, <4>2, <4>3
    <3>6. QED
      BY <2>3, <3>3, <3>4, <3>5 DEF RestoresGraph
  <2>4. \/ /\ \A j \in 1..Len(new) : ~CoversGraph(new[j])
           /\ Cuts(new, 0, Len(new), g, m)
        \/ \E j \in 1..Len(new) : /\ CoversGraph(new[j]) /\ Cuts(new, 0, j - 1, new[j].graph, m)
                                  /\ \A k \in 1..(j - 1) : ~CoversGraph(new[k])
    BY DEF RestoresGraph
  <2>5. QED
    BY <2>2, <2>3, <2>4
<1>5. QED
  BY <1>3, <1>4
-----------------------------------------------------------------------------
(* The parts of a copy. *)
LEMMA CopyTyped ==
    ASSUME NEW d \in Copies
    PROVE  /\ d.slots \in SlotStates /\ d.graph \in Graphs
           /\ d = [slots |-> d.slots, graph |-> d.graph]
           /\ d.slots = [s \in Slots |-> d.slots[s]]
BY DEF Copies, SlotStates

(* An undo log with nothing above lo restores the copy it starts from, and    *)
(* nothing else.                                                              *)
THEOREM EmptyRestores ==
    ASSUME NEW log \in Seq(StateChanges), NEW d \in Copies, NEW b \in Copies
    PROVE  Restores(log, Len(log), d, b) <=> d = b
<1>1. Len(log) \in Nat /\ \A j \in (Len(log) + 1)..Len(log) : FALSE
  OBVIOUS
<1>2. Len(d.graph) \in Nat /\ Len(b.graph) \in Nat
  BY CopyTyped, GraphTyped
<1>3. \A s \in Slots : RestoresSlot(log, Len(log), s, d.slots[s], b.slots[s])
                        <=> d.slots[s] = b.slots[s]
  BY <1>1 DEF RestoresSlot
<1>4. RestoresGraph(log, Len(log), d.graph, b.graph)
        <=> Len(b.graph) = Len(d.graph) /\ \A i \in 1..Len(b.graph) : b.graph[i] = d.graph[i]
  BY <1>1, <1>2 DEF RestoresGraph, Cuts
<1>5. ASSUME Restores(log, Len(log), d, b) PROVE d = b
  <2>1. d.graph = b.graph
    <3>1. d.graph \in Seq(Edges) /\ b.graph \in Seq(Edges)
      BY CopyTyped DEF Graphs
    <3>2. QED
      BY <1>4, <1>5, <3>1, SeqEqual DEF Restores
  <2>2. d.slots = b.slots
    BY <1>3, <1>5, CopyTyped DEF Restores
  <2>3. QED
    BY <2>1, <2>2, CopyTyped
<1>6. ASSUME d = b PROVE Restores(log, Len(log), d, b)
  BY <1>2, <1>3, <1>4, <1>6 DEF Restores
<1>7. QED
  BY <1>5, <1>6

(* A snapshot of the present state, pushed on a log, changes nothing in what  *)
(* the log restores.                                                          *)
THEOREM PushRestores ==
    ASSUME NEW log \in Seq(StateChanges), NEW longer \in Seq(StateChanges), NEW change,
           IsPush(log, longer, change), NEW lo \in 0..Len(log),
           NEW d \in Copies, NEW b \in Copies, Restores(log, lo, d, b), Saves(change, d)
    PROVE  Restores(longer, lo, d, b)
<1>1. \A s \in Slots : RestoresSlot(longer, lo, s, d.slots[s], b.slots[s])
  BY PushSlot DEF Restores, Saves
<1>2. RestoresGraph(longer, lo, d.graph, b.graph)
  BY PushGraph, CopyTyped DEF Restores, Saves
<1>3. QED
  BY <1>1, <1>2 DEF Restores

(* One step of rollback_undo_log: undoing the newest entry of a log leaves    *)
(* the rest of the log with the same state to restore.                        *)
THEOREM PopRestores ==
    ASSUME NEW log \in Seq(StateChanges), NEW longer \in Seq(StateChanges),
           NEW change \in StateChanges, IsPush(log, longer, change), NEW lo \in 0..Len(log),
           NEW d \in Copies, NEW b \in Copies, Restores(longer, lo, d, b)
    PROVE  Restores(log, lo, [slots |-> UndoneSlots(change, d.slots),
                              graph |-> UndoneGraph(change, d.graph)], b)
<1>1. ASSUME NEW s \in Slots
      PROVE  RestoresSlot(log, lo, s, UndoneSlots(change, d.slots)[s], b.slots[s])
  <2>1. UndoneSlots(change, d.slots)[s]
          = IF Covers(change, s) THEN Previous(change, s) ELSE d.slots[s]
    BY DEF UndoneSlots, Covers, Previous
  <2>2. RestoresSlot(longer, lo, s, d.slots[s], b.slots[s])
    BY DEF Restores
  <2>3. QED
    BY <2>1, <2>2, PopSlot
<1>2. RestoresGraph(log, lo, UndoneGraph(change, d.graph), b.graph)
  BY PopGraph, CopyTyped DEF Restores
<1>3. QED
  BY <1>1, <1>2 DEF Restores

(* RELEASE SAVEPOINT: the outer log extended by the released one restores     *)
(* what the outer frame started from.                                         *)
THEOREM ConcatRestores ==
    ASSUME NEW old \in Seq(StateChanges), NEW new \in Seq(StateChanges),
           NEW d \in Copies, NEW m \in Copies, NEW b \in Copies,
           Restores(old, 0, m, b), Restores(new, 0, d, m)
    PROVE  Restores(old \o new, 0, d, b)
<1>1. \A s \in Slots : RestoresSlot(old \o new, 0, s, d.slots[s], b.slots[s])
  <2> SUFFICES ASSUME NEW s \in Slots
               PROVE  RestoresSlot(old \o new, 0, s, d.slots[s], b.slots[s])
    OBVIOUS
  <2>1. RestoresSlot(old, 0, s, m.slots[s], b.slots[s])
        /\ RestoresSlot(new, 0, s, d.slots[s], m.slots[s])
    BY DEF Restores
  <2>2. QED
    BY <2>1, ConcatSlot
<1>2. RestoresGraph(old \o new, 0, d.graph, b.graph)
  BY ConcatGraph, CopyTyped DEF Restores
<1>3. QED
  BY <1>1, <1>2 DEF Restores

(* A write to covered slots leaves what a log restores alone. *)
LEMMA WriteRestores ==
    ASSUME NEW log, NEW lo, NEW d, NEW e, NEW b, Restores(log, lo, d, b), e.graph = d.graph,
           \A s \in Slots : e.slots[s] # d.slots[s] =>
               \E j \in (lo + 1)..Len(log) : Covers(log[j], s)
    PROVE  Restores(log, lo, e, b)
<1>1. ASSUME NEW s \in Slots PROVE RestoresSlot(log, lo, s, e.slots[s], b.slots[s])
  <2>1. RestoresSlot(log, lo, s, d.slots[s], b.slots[s])
    BY DEF Restores
  <2>2. QED
    BY <2>1, WriteCoveredSlot
<1>2. QED
  BY <1>1 DEF Restores

(* What is covered stays covered, and a pushed entry adds what it covers. *)
LEMMA PushCovered ==
    ASSUME NEW log \in Seq(StateChanges), NEW longer \in Seq(StateChanges), NEW change,
           IsPush(log, longer, change), NEW lo \in 0..Len(log), NEW what, NEW more,
           Covered(log, lo, what),
           \A s \in more \cap Slots : Covers(change, s),
           "graph_edges" \in more => CoversGraph(change),
           "graph_tail" \in more => CoversGraph(change) \/ IsMarker(change)
    PROVE  Covered(longer, lo, what \cup more)
<1>1. Len(log) \in Nat /\ lo \in Nat /\ Len(longer) = Len(log) + 1
  BY DEF IsPush
<1>2. \A i \in (lo + 1)..Len(log) : i \in (lo + 1)..Len(longer) /\ longer[i] = log[i]
  BY <1>1 DEF IsPush
<1>3. Len(longer) \in (lo + 1)..Len(longer) /\ longer[Len(longer)] = change
  BY <1>1 DEF IsPush
<1>4. ASSUME NEW s \in (what \cup more) \cap Slots
      PROVE  \E j \in (lo + 1)..Len(longer) : Covers(longer[j], s)
  BY <1>2, <1>3 DEF Covered
<1>5. "graph_edges" \in what \cup more
        => \E j \in (lo + 1)..Len(longer) : CoversGraph(longer[j])
  BY <1>2, <1>3 DEF Covered
<1>6. "graph_tail" \in what \cup more
        => \E j \in (lo + 1)..Len(longer) : CoversGraph(longer[j]) \/ IsMarker(longer[j])
  BY <1>2, <1>3 DEF Covered
<1>7. QED
  BY <1>4, <1>5, <1>6 DEF Covered

------------------------------------------------------------------------------
(* The logs of the frames lead back to what the frames were opened on.      *)

LEMMA DbTyped == EngineInv => Db \in Copies /\ Db.slots = slots /\ Db.graph = graph
BY DEF EngineInv, TypeOK, Db, Copies

(* Statements run under an undo checkpoint inside a transaction. *)
LEMMA MutatingCheckpoint ==
    ASSUME EngineInv, phase = "mutating", InTransaction
    PROVE  checkpoint.kind = "undo"
BY DEF EngineInv, TypeOK, PhaseInv, Checkpoints, InTransaction

LEMMA CheckpointLength ==
    ASSUME EngineInv, checkpoint.kind = "undo"
    PROVE  /\ InTransaction /\ Top.undo_log \in Seq(StateChanges)
           /\ checkpoint.len \in 0..Len(Top.undo_log) /\ checkpoint.len \in Nat
<1>1. InTransaction /\ Len(Top.undo_log) >= checkpoint.len
  BY DEF EngineInv, CheckpointUsable
<1>2. checkpoint.len \in Nat
  BY DEF EngineInv, TypeOK, Checkpoints
<1>3. Top.undo_log \in Seq(StateChanges) /\ Len(Top.undo_log) \in Nat
  BY <1>1, TopTyped DEF EngineInv, TypeOK
<1>4. QED
  BY <1>1, <1>2, <1>3

(* The copies of the frames, where none is opened, released or closed. *)
LEMMA BaseKept ==
    ASSUME base \in Seq(Copies), Len(base) = Len(transactions), BaseStep,
           Len(transactions') = Len(transactions), Len(transactions) \in Nat,
           phase = "releasing" => Len(transactions) = unwind.depth
    PROVE  base' = base
<1>1. CASE phase = "releasing"
  <2>1. base' = [i \in 1..Len(transactions) |-> IF i <= unwind.depth THEN base[i] ELSE base[i + 1]]
    BY <1>1 DEF BaseStep
  <2>2. base' = [i \in 1..Len(base) |-> base[i]]
    BY <1>1, <2>1
  <2>3. QED
    BY <2>2
<1>2. CASE phase # "releasing"
  <2>1. base' = SubSeq(base, 1, Len(base))
    BY <1>2 DEF BaseStep
  <2>2. QED
    BY <2>1
<1>3. QED
  BY <1>1, <1>2

(* A frame on top of the others. *)
LEMMA BasePushed ==
    ASSUME BaseStep, Len(transactions') = Len(transactions) + 1, Len(transactions) \in Nat
    PROVE  base' = Append(base, Db')
BY DEF BaseStep

(* Only the newest log and the state changed. *)
LEMMA TopChanged ==
    ASSUME LogsRestore, EngineInv, EngineInv', base' = base, stmt_base' = stmt_base,
           checkpoint' = checkpoint, Len(transactions') = Len(transactions),
           \A i \in 1..(Len(transactions) - 1) : transactions'[i] = transactions[i],
           InTransaction =>
               Restores(Top'.undo_log, 0, Db', base[Len(transactions)]),
           checkpoint.kind = "undo" => Restores(Top'.undo_log, checkpoint.len, Db', stmt_base)
    PROVE  LogsRestore'
<1> DEFINE n == Len(transactions)
<1>1. n \in Nat
  BY DEF EngineInv, TypeOK
<1>2. ASSUME NEW i \in 1..n
      PROVE  Restores(transactions'[i].undo_log, 0, NextDb(i)', base'[i])
  <2>1. CASE i = n
    <3>1. InTransaction /\ Top' = transactions'[i] /\ NextDb(i)' = Db'
      BY <1>1, <2>1 DEF InTransaction, Top, NextDb
    <3>2. QED
      BY <2>1, <3>1
  <2>2. CASE i # n
    <3>1. i \in 1..(n - 1) /\ NextDb(i)' = NextDb(i)
      BY <1>1, <2>2 DEF NextDb
    <3>2. QED
      BY <3>1 DEF LogsRestore
  <2>3. QED
    BY <2>1, <2>2
<1>3. QED
  BY <1>2 DEF LogsRestore

(* Steps that touch neither the state nor the frames. *)
LEMMA QuietLogs ==
    ASSUME LogsRestore, UNCHANGED <<slots, graph, transactions>>, base' = base,
           stmt_base' = stmt_base, checkpoint' \in {checkpoint, NoCheckpoint}
    PROVE  LogsRestore'
BY DEF LogsRestore, NextDb, Top, Db, NoCheckpoint

LEMMA GoalElsewhere ==
    ASSUME GoalStep, phase' # "unwinding"
    PROVE  GoalInv'
BY DEF GoalStep, GoalInv

LEMMA GoalStarts ==
    ASSUME GoalStep, phase # "unwinding", phase' = "unwinding", base' = base,
           stmt_base' = stmt_base, UNCHANGED <<slots, graph, transactions>>
    PROVE  GoalInv'
BY DEF GoalStep, GoalInv, InTransaction, Db

(* A step of the history variables. *)
HistoryStep == BaseStep /\ StmtBaseStep /\ GoalStep

(* Each snapshot function saves the present value of what it covers. *)
LEMMA EntriesSave ==
    ASSUME EngineInv
    PROVE  /\ \A s \in Slots : Saves(SlotSnapshot(s, slots[s]), Db)
           /\ Saves(NamespaceSnapshot(slots, graph), Db)
           /\ Saves(GraphLengthMarker(Len(graph)), Db)
           /\ Saves(GraphSnapshot(graph), Db)
<1> USE DEF Saves, Covers, CoversGraph, IsMarker, Previous, Db
<1>1. \A s \in Slots : Saves(SlotSnapshot(s, slots[s]), Db)
  BY DEF SlotSnapshot
<1>2. Saves(NamespaceSnapshot(slots, graph), Db)
  BY DEF NamespaceSnapshot
<1>3. Saves(GraphLengthMarker(Len(graph)), Db)
  BY DEF GraphLengthMarker
<1>4. Saves(GraphSnapshot(graph), Db)
  BY DEF GraphSnapshot
<1>5. QED
  BY <1>1, <1>2, <1>3, <1>4

(* Pushing one entry on the newest log. *)
LEMMA PushedIsPush ==
    ASSUME EngineInv, InTransaction, NEW entry \in StateChanges, transactions' = Pushed(<<entry>>)
    PROVE  /\ Len(transactions') = Len(transactions)
           /\ \A i \in 1..(Len(transactions) - 1) : transactions'[i] = transactions[i]
           /\ Top.undo_log \in Seq(StateChanges) /\ Top'.undo_log \in Seq(StateChanges)
           /\ IsPush(Top.undo_log, Top'.undo_log, entry)
<1>1. /\ Len(transactions) \in Nat \ {0} /\ Top.undo_log \in Seq(StateChanges)
      /\ Len(Top.undo_log) \in Nat
  BY TopTyped DEF EngineInv, TypeOK
<1>2. <<entry>> \in Seq(StateChanges)
  OBVIOUS
<1>3. /\ Len(transactions') = Len(transactions)
      /\ \A i \in 1..Len(transactions) :
             i # Len(transactions) => transactions'[i] = transactions[i]
      /\ transactions'[Len(transactions)].undo_log = Top.undo_log \o <<entry>>
  BY <1>2, PushedFacts DEF EngineInv, TypeOK
<1>4. Top'.undo_log = Top.undo_log \o <<entry>>
  BY <1>3 DEF Top
<1>5. \A i \in 1..(Len(transactions) - 1) : transactions'[i] = transactions[i]
  BY <1>1, <1>3
<1>6. /\ Top'.undo_log \in Seq(StateChanges)
      /\ Len(Top'.undo_log) = Len(Top.undo_log) + 1
      /\ \A i \in 1..Len(Top.undo_log) : Top'.undo_log[i] = Top.undo_log[i]
      /\ Top'.undo_log[Len(Top.undo_log) + 1] = entry
  BY <1>1, <1>2, <1>4, ConcatProperties
<1>7. QED
  BY <1>1, <1>3, <1>5, <1>6 DEF IsPush

LEMMA SnapshotUndoInv ==
    ASSUME UndoInv, EngineInv', HistoryStep, NEW entry \in StateChanges, NEW covers,
           Snapshot(entry, covers), Saves(entry, Db),
           \A s \in covers \cap Slots : Covers(entry, s),
           "graph_edges" \in covers => CoversGraph(entry),
           "graph_tail" \in covers => CoversGraph(entry) \/ IsMarker(entry)
    PROVE  UndoInv'
<1> USE DEF UndoInv, HistoryStep
<1>1. /\ Mutating /\ transactions' = Pushed(<<entry>>) /\ held' = held \cup covers
      /\ UNCHANGED <<slots, graph, transaction_aborted, phase, left, failed, checkpoint, unwind>>
  BY DEF Snapshot
<1>2. Len(transactions) \in Nat /\ Len(transactions') = Len(transactions)
  <2>1. <<entry>> \in Seq(StateChanges)
    OBVIOUS
  <2>2. transactions \in Seq(Frames)
    BY DEF EngineInv, TypeOK
  <2>3. Len(Pushed(<<entry>>)) = Len(transactions)
    BY <2>1, <2>2, PushedFacts
  <2>4. QED
    BY <1>1, <2>2, <2>3
<1>3. base' = base
  BY <1>1, <1>2, BaseKept DEF HistoryTyped, LogsRestore, Mutating
<1>4. stmt_base' = stmt_base /\ Db' = Db
  BY <1>1 DEF StmtBaseStep, Mutating, Db
<1>5. HistoryTyped'
  BY <1>3, <1>4 DEF HistoryTyped
<1>6. GoalInv'
  BY <1>1, GoalElsewhere DEF Mutating
<1>7. WritesCovered'
  <2>1. (~Mutating => held = {})'
    BY <1>1 DEF Mutating
  <2>2. ASSUME phase' = "mutating", InTransaction'
        PROVE  Covered(Top'.undo_log, checkpoint'.len, held')
    <3>1. phase = "mutating" /\ InTransaction
      BY <1>1, <1>2, <2>2 DEF InTransaction, EngineInv, TypeOK
    <3>2. checkpoint.len \in 0..Len(Top.undo_log)
      BY <3>1, MutatingCheckpoint, CheckpointLength
    <3>3. Covered(Top.undo_log, checkpoint.len, held)
      BY <3>1 DEF WritesCovered
    <3>4. QED
      BY <1>1, <3>1, <3>2, <3>3, PushedIsPush, PushCovered
  <2>3. QED
    BY <2>1, <2>2 DEF WritesCovered
<1>8. LogsRestore'
  <2>1. InTransaction => Restores(Top'.undo_log, 0, Db', base[Len(transactions)])
    <3> SUFFICES ASSUME InTransaction
                 PROVE  Restores(Top'.undo_log, 0, Db, base[Len(transactions)])
      BY <1>4
    <3>1. Len(transactions) \in 1..Len(transactions)
      BY <1>2 DEF InTransaction, EngineInv, TypeOK
    <3>2. Restores(Top.undo_log, 0, Db, base[Len(transactions)])
      BY <3>1 DEF LogsRestore, Top, NextDb
    <3>3. base[Len(transactions)] \in Copies /\ 0 \in 0..Len(Top.undo_log)
      BY <3>1, TopTyped DEF HistoryTyped, LogsRestore, EngineInv, TypeOK
    <3>4. QED
      BY <1>1, <3>2, <3>3, PushedIsPush, PushRestores, DbTyped
  <2>2. checkpoint.kind = "undo" => Restores(Top'.undo_log, checkpoint.len, Db', stmt_base)
    <3> SUFFICES ASSUME checkpoint.kind = "undo"
                 PROVE  Restores(Top'.undo_log, checkpoint.len, Db, stmt_base)
      BY <1>4
    <3>1. InTransaction /\ checkpoint.len \in 0..Len(Top.undo_log)
      BY CheckpointLength
    <3>2. Restores(Top.undo_log, checkpoint.len, Db, stmt_base) /\ stmt_base \in Copies
      BY DEF LogsRestore, HistoryTyped
    <3>3. QED
      BY <1>1, <3>1, <3>2, PushedIsPush, PushRestores, DbTyped
  <2>3. \A i \in 1..(Len(transactions) - 1) : transactions'[i] = transactions[i]
    BY <1>1, <1>2, PushedIsPush DEF InTransaction
  <2>4. QED
    BY <1>1, <1>2, <1>3, <1>4, <2>1, <2>2, <2>3, TopChanged
<1>9. QED
  BY <1>5, <1>6, <1>7, <1>8

(* Every snapshot a handler takes. *)
LEMMA SnapshotsUndoInv ==
    ASSUME UndoInv, EngineInv', HistoryStep,
           \/ \E s \in CatalogSlots : SnapshotSlot(s)
           \/ SnapshotNamespace \/ SnapshotGraph \/ SnapshotGraphFull
    PROVE  UndoInv'
<1>1. ASSUME NEW s \in CatalogSlots, SnapshotSlot(s) PROVE UndoInv'
  <2> DEFINE entry == SlotSnapshot(s, slots[s])
  <2>1. s \in Slots /\ entry \in StateChanges /\ Saves(entry, Db)
    BY EntriesTyped, EntriesSave DEF UndoInv, EngineInv, Slots
  <2>2. Covers(entry, s) /\ s # "graph_edges" /\ s # "graph_tail"
    BY SlotsAssumption DEF Covers, SlotSnapshot
  <2>3. Snapshot(entry, {s})
    BY <1>1 DEF SnapshotSlot
  <2> HIDE DEF entry
  <2>4. QED
    BY <2>1, <2>2, <2>3, SnapshotUndoInv
<1>2. CASE SnapshotNamespace
  <2> DEFINE entry == NamespaceSnapshot(slots, graph)
  <2>1. entry \in StateChanges /\ Saves(entry, Db)
    BY EntriesTyped, EntriesSave DEF UndoInv, EngineInv
  <2>2. /\ \A s \in NamespaceSlots : Covers(entry, s)
        /\ CoversGraph(entry)
        /\ "graph_edges" \notin Slots /\ "graph_tail" \notin Slots
    BY SlotsAssumption DEF Covers, CoversGraph, NamespaceSnapshot, Slots
  <2>3. Snapshot(entry, NamespaceSlots \cup {"graph_edges", "graph_tail"})
    BY <1>2 DEF SnapshotNamespace
  <2> HIDE DEF entry
  <2>4. QED
    BY <2>1, <2>2, <2>3, SnapshotUndoInv
<1>3. CASE SnapshotGraph
  <2> DEFINE entry == GraphLengthMarker(Len(graph))
  <2>1. entry \in StateChanges /\ Saves(entry, Db)
    BY EntriesTyped, EntriesSave DEF UndoInv, EngineInv
  <2>2. IsMarker(entry) /\ "graph_tail" \notin Slots
    BY SlotsAssumption DEF IsMarker, GraphLengthMarker, Slots
  <2>3. Snapshot(entry, {"graph_tail"})
    BY <1>3 DEF SnapshotGraph
  <2> HIDE DEF entry
  <2>4. QED
    BY <2>1, <2>2, <2>3, SnapshotUndoInv
<1>4. CASE SnapshotGraphFull
  <2> DEFINE entry == GraphSnapshot(graph)
  <2>1. entry \in StateChanges /\ Saves(entry, Db)
    BY EntriesTyped, EntriesSave DEF UndoInv, EngineInv
  <2>2. CoversGraph(entry) /\ "graph_edges" \notin Slots /\ "graph_tail" \notin Slots
    BY SlotsAssumption DEF CoversGraph, GraphSnapshot, Slots
  <2>3. Snapshot(entry, {"graph_edges", "graph_tail"})
    BY <1>4 DEF SnapshotGraphFull
  <2> HIDE DEF entry
  <2>4. QED
    BY <2>1, <2>2, <2>3, SnapshotUndoInv
<1>5. QED
  BY <1>1, <1>2, <1>3, <1>4

LEMMA CoveredBelow ==
    ASSUME NEW log \in Seq(StateChanges), NEW lo \in Nat, NEW what, Covered(log, lo, what)
    PROVE  Covered(log, 0, what)
<1>1. \A j \in (lo + 1)..Len(log) : j \in (0 + 1)..Len(log)
  OBVIOUS
<1>2. QED
  BY <1>1 DEF Covered

(* A write is harmless when the newest log restores the same as before it. *)
LEMMA WriteUndoInv ==
    ASSUME UndoInv, EngineInv', HistoryStep, Mutating,
           UNCHANGED <<transactions, transaction_aborted, phase, left, failed, held,
                       checkpoint, unwind>>,
           \A lo \in 0..Len(Top.undo_log), b \in Copies :
               /\ InTransaction /\ Covered(Top.undo_log, lo, held)
               /\ Restores(Top.undo_log, lo, Db, b)
               => Restores(Top.undo_log, lo, Db', b)
    PROVE  UndoInv'
<1> USE DEF UndoInv, HistoryStep
<1>1. Len(transactions) \in Nat /\ Len(transactions') = Len(transactions)
      /\ \A i \in 1..(Len(transactions) - 1) : transactions'[i] = transactions[i]
  BY DEF EngineInv, TypeOK
<1>2. base' = base /\ stmt_base' = stmt_base
  BY <1>1, BaseKept DEF HistoryTyped, LogsRestore, Mutating, StmtBaseStep
<1>3. HistoryTyped' /\ GoalInv'
  BY <1>2, GoalElsewhere DEF HistoryTyped, Mutating
<1>4. WritesCovered'
  BY DEF WritesCovered, Mutating, InTransaction, Top
<1>5. Top' = Top
  BY DEF Top
<1>6. CASE ~InTransaction
  <2>1. checkpoint.kind # "undo"
    BY <1>6, CheckpointLength
  <2>2. LogsRestore'
    BY <1>1, <1>2, <1>6, <2>1, TopChanged
  <2>3. QED
    BY <1>3, <1>4, <2>2
<1>7. CASE InTransaction
  <2>1. phase = "mutating"
    BY <1>7 DEF Mutating, EngineInv, PhaseInv, InTransaction
  <2>2. /\ checkpoint.kind = "undo" /\ Top.undo_log \in Seq(StateChanges)
        /\ checkpoint.len \in 0..Len(Top.undo_log) /\ checkpoint.len \in Nat
    BY <1>7, <2>1, MutatingCheckpoint, CheckpointLength
  <2>3. Covered(Top.undo_log, checkpoint.len, held)
    BY <1>7, <2>1 DEF WritesCovered
  <2>4. Covered(Top.undo_log, 0, held)
    BY <2>2, <2>3, CoveredBelow
  <2>5. Restores(Top'.undo_log, checkpoint.len, Db', stmt_base)
    BY <1>5, <1>7, <2>2, <2>3 DEF LogsRestore, HistoryTyped
  <2>6. Restores(Top'.undo_log, 0, Db', base[Len(transactions)])
    <3>1. Len(transactions) \in 1..Len(transactions) /\ 0 \in 0..Len(Top.undo_log)
      BY <1>1, <1>7, <2>2 DEF InTransaction
    <3>2. Restores(Top.undo_log, 0, Db, base[Len(transactions)])
      BY <3>1 DEF LogsRestore, Top, NextDb
    <3>3. base[Len(transactions)] \in Copies
      BY <3>1 DEF HistoryTyped, LogsRestore
    <3>4. QED
      BY <1>5, <1>7, <2>4, <3>1, <3>2, <3>3
  <2>7. LogsRestore'
    BY <1>1, <1>2, <2>5, <2>6, TopChanged
  <2>8. QED
    BY <1>3, <1>4, <2>7
<1>8. QED
  BY <1>6, <1>7

LEMMA WritesUndoInv ==
    ASSUME UndoInv, EngineInv', HistoryStep,
           \/ \E s \in CatalogSlots, v \in CatalogValues : WriteSlot(s, v)
           \/ \E e \in Edges : AddEdge(e)
           \/ \E n \in 0..Len(graph) : \E g \in [1..n -> Edges] : RewriteEdges(g)
    PROVE  UndoInv'
<1>0. EngineInv /\ slots \in SlotStates /\ graph \in Graphs
      /\ Db.slots = slots /\ Db.graph = graph /\ Db'.slots = slots' /\ Db'.graph = graph'
  BY DEF UndoInv, EngineInv, TypeOK, Db
<1>1. ASSUME NEW s \in CatalogSlots, NEW v \in CatalogValues, WriteSlot(s, v) PROVE UndoInv'
  <2>1. /\ Mutating /\ s \in held /\ slots' = [slots EXCEPT ![s] = v] /\ s \in Slots
        /\ UNCHANGED <<graph, transactions, transaction_aborted, phase, left, failed, held,
                       checkpoint, unwind>>
    BY <1>1 DEF WriteSlot, Slots
  <2>2. ASSUME NEW lo \in 0..Len(Top.undo_log), NEW b \in Copies, InTransaction,
               Covered(Top.undo_log, lo, held), Restores(Top.undo_log, lo, Db, b)
        PROVE  Restores(Top.undo_log, lo, Db', b)
    <3>1. \E j \in (lo + 1)..Len(Top.undo_log) : Covers(Top.undo_log[j], s)
      BY <2>1, <2>2 DEF Covered
    <3>2. \A t \in Slots : Db'.slots[t] # Db.slots[t] => t = s
      BY <1>0, <2>1 DEF SlotStates
    <3>3. Db'.graph = Db.graph
      BY <1>0, <2>1
    <3>4. QED
      BY <2>2, <3>1, <3>2, <3>3, WriteRestores
  <2>3. QED
    BY <2>1, <2>2, WriteUndoInv
<1>2. ASSUME NEW e \in Edges, AddEdge(e) PROVE UndoInv'
  <2>1. /\ Mutating /\ "graph_tail" \in held /\ graph' = Append(graph, e)
        /\ UNCHANGED <<slots, transactions, transaction_aborted, phase, left, failed, held,
                       checkpoint, unwind>>
    BY <1>2 DEF AddEdge
  <2>2. ASSUME NEW lo \in 0..Len(Top.undo_log), NEW b \in Copies, InTransaction,
               Covered(Top.undo_log, lo, held), Restores(Top.undo_log, lo, Db, b)
        PROVE  Restores(Top.undo_log, lo, Db', b)
    <3>1. \E j \in (lo + 1)..Len(Top.undo_log) :
              CoversGraph(Top.undo_log[j]) \/ IsMarker(Top.undo_log[j])
      BY <2>1, <2>2 DEF Covered
    <3>2. RestoresGraph(Top.undo_log, lo, graph, b.graph) /\ b.graph \in Graphs
      BY <1>0, <2>2, CopyTyped DEF Restores
    <3>3. RestoresGraph(Top.undo_log, lo, graph', b.graph)
      BY <1>0, <2>1, <3>1, <3>2, AppendCoveredGraph
    <3>4. QED
      BY <1>0, <2>1, <2>2, <3>3 DEF Restores
  <2>3. QED
    BY <2>1, <2>2, WriteUndoInv
<1>3. ASSUME NEW n \in 0..Len(graph), NEW g \in [1..n -> Edges], RewriteEdges(g) PROVE UndoInv'
  <2>1. /\ Mutating /\ "graph_edges" \in held
        /\ UNCHANGED <<slots, transactions, transaction_aborted, phase, left, failed, held,
                       checkpoint, unwind>>
    BY <1>3 DEF RewriteEdges
  <2>2. ASSUME NEW lo \in 0..Len(Top.undo_log), NEW b \in Copies, InTransaction,
               Covered(Top.undo_log, lo, held), Restores(Top.undo_log, lo, Db, b)
        PROVE  Restores(Top.undo_log, lo, Db', b)
    <3>1. \E j \in (lo + 1)..Len(Top.undo_log) : CoversGraph(Top.undo_log[j])
      BY <2>1, <2>2 DEF Covered
    <3>2. RestoresGraph(Top.undo_log, lo, graph, b.graph)
      BY <1>0, <2>2 DEF Restores
    <3>3. RestoresGraph(Top.undo_log, lo, graph', b.graph)
      BY <3>1, <3>2, WriteCoveredGraph
    <3>4. QED
      BY <1>0, <2>1, <2>2, <3>3 DEF Restores
  <2>3. QED
    BY <2>1, <2>2, WriteUndoInv
<1>4. QED
  BY <1>1, <1>2, <1>3

(* record_evidence pushes one or two entries, then writes what they cover. *)
LEMMA TaintRestores ==
    ASSUME EngineInv, InTransaction, NEW code \in Codes, Taint(code),
           NEW lo \in 0..Len(Top.undo_log)
    PROVE  /\ Len(transactions') = Len(transactions)
           /\ \A i \in 1..(Len(transactions) - 1) : transactions'[i] = transactions[i]
           /\ \A b \in Copies : Restores(Top.undo_log, lo, Db, b)
                                => Restores(Top'.undo_log, lo, Db', b)
           /\ Covered(Top.undo_log, lo, held) => Covered(Top'.undo_log, lo, held)
<1> DEFINE evidence == SlotSnapshot("evidence", slots["evidence"])
           confidence == SlotSnapshot("confidence", slots["confidence"])
           entries == IF slots["confidence"] = Tainted THEN <<evidence>>
                      ELSE <<evidence, confidence>>
           log0 == Top.undo_log
           log1 == log0 \o <<evidence>>
           log2 == log1 \o <<confidence>>
<1>1. /\ evidence \in StateChanges /\ confidence \in StateChanges
      /\ Saves(evidence, Db) /\ Saves(confidence, Db)
      /\ Covers(evidence, "evidence") /\ Covers(confidence, "confidence")
  BY EntriesTyped, EntriesSave DEF EngineInv, Slots, Covers, SlotSnapshot
<1>2. /\ slots' = [slots EXCEPT !["evidence"] = @ \cup {code}, !["confidence"] = Tainted]
      /\ transactions' = Pushed(entries) /\ graph' = graph
  BY DEF Taint
<1>3. /\ Len(transactions) \in Nat \ {0} /\ log0 \in Seq(StateChanges) /\ Len(log0) \in Nat
  BY TopTyped DEF EngineInv, TypeOK
<1>4. entries \in Seq(StateChanges)
  BY <1>1
<1>5. /\ Len(transactions') = Len(transactions)
      /\ \A i \in 1..(Len(transactions) - 1) : transactions'[i] = transactions[i]
      /\ Top'.undo_log = log0 \o entries
  <2>1. transactions \in Seq(Frames)
    BY DEF EngineInv, TypeOK
  <2> HIDE DEF entries
  <2>2. /\ Len(transactions') = Len(transactions)
        /\ \A i \in 1..Len(transactions) :
               i # Len(transactions) => transactions'[i] = transactions[i]
        /\ transactions'[Len(transactions)].undo_log = log0 \o entries
    BY <1>2, <1>4, <2>1, PushedFacts
  <2>3. QED
    BY <1>3, <2>2 DEF Top
<1>6. /\ log1 \in Seq(StateChanges) /\ IsPush(log0, log1, evidence)
      /\ log2 \in Seq(StateChanges) /\ IsPush(log1, log2, confidence)
      /\ Len(log1) = Len(log0) + 1 /\ Len(log2) = Len(log0) + 2
      /\ log1[Len(log0) + 1] = evidence
      /\ log2[Len(log0) + 1] = evidence /\ log2[Len(log0) + 2] = confidence
  <2> HIDE DEF evidence, confidence, log0
  <2>1. <<evidence>> \in Seq(StateChanges) /\ <<confidence>> \in Seq(StateChanges)
    BY <1>1
  <2>2. /\ log1 \in Seq(StateChanges) /\ Len(log1) = Len(log0) + 1
        /\ \A i \in 1..Len(log0) : log1[i] = log0[i]
        /\ log1[Len(log0) + 1] = evidence
    BY <1>3, <2>1, ConcatProperties
  <2> HIDE DEF log1
  <2>3. /\ log2 \in Seq(StateChanges) /\ Len(log2) = Len(log1) + 1
        /\ \A i \in 1..Len(log1) : log2[i] = log1[i]
        /\ log2[Len(log1) + 1] = confidence
    BY <1>3, <2>1, <2>2, ConcatProperties
  <2> HIDE DEF log2
  <2>4. QED
    BY <1>3, <2>2, <2>3 DEF IsPush
<1>7. Top'.undo_log = IF slots["confidence"] = Tainted THEN log1 ELSE log2
  <2>1. CASE slots["confidence"] = Tainted
    BY <1>5, <2>1
  <2>2. CASE slots["confidence"] # Tainted
    <3>1. log0 \o <<evidence, confidence>> = (log0 \o <<evidence>>) \o <<confidence>>
      <4> DEFINE both == log0 \o <<evidence, confidence>>
      <4> HIDE DEF evidence, confidence, log0, log1, log2
      <4>1. /\ <<evidence, confidence>> \in Seq(StateChanges)
            /\ Len(<<evidence, confidence>>) = 2
            /\ <<evidence, confidence>>[1] = evidence /\ <<evidence, confidence>>[2] = confidence
        BY <1>1
      <4>2. /\ both \in Seq(StateChanges) /\ Len(both) = Len(log0) + 2
            /\ \A i \in 1..Len(log0) : both[i] = log0[i]
            /\ both[Len(log0) + 1] = evidence /\ both[Len(log0) + 2] = confidence
        BY <1>3, <4>1, ConcatProperties
      <4>3. \A i \in 1..Len(log0) : log2[i] = log0[i]
        BY <1>3, <1>6 DEF IsPush
      <4> HIDE DEF both
      <4>4. \A i \in 1..Len(both) : both[i] = log2[i]
        BY <1>3, <1>6, <4>2, <4>3
      <4>5. both = log2
        BY <1>3, <1>6, <4>2, <4>4, SeqEqual
      <4>6. QED
        BY <4>5 DEF both, log2, log1
    <3>2. QED
      BY <1>5, <2>2, <3>1
  <2>3. QED
    BY <2>1, <2>2
<1>8. Db \in Copies /\ Db.slots = slots /\ Db.graph = graph
  BY DbTyped
<1>9. lo \in 0..Len(log1)
  BY <1>3, <1>6
<1>10. \A t \in Slots : Db'.slots[t] # Db.slots[t] =>
           t = "evidence" \/ (t = "confidence" /\ slots["confidence"] # Tainted)
  BY <1>2, <1>8 DEF Db, EngineInv, TypeOK, SlotStates
<1>11. Db'.graph = Db.graph
  BY <1>2 DEF Db
<1> HIDE DEF evidence, confidence, log0, log1, log2, entries
<1>12. ASSUME NEW b \in Copies, Restores(log0, lo, Db, b)
       PROVE  Restores(Top'.undo_log, lo, Db', b)
  <2>1. Restores(log1, lo, Db, b)
    BY <1>1, <1>3, <1>6, <1>8, <1>12, PushRestores DEF log0
  <2>2. Restores(log2, lo, Db, b)
    BY <1>1, <1>6, <1>8, <1>9, <2>1, PushRestores
  <2>3. CASE slots["confidence"] = Tainted
    <3>0. Len(log0) + 1 \in (lo + 1)..Len(log1)
      BY <1>3, <1>6 DEF log0
    <3>1. \E j \in (lo + 1)..Len(log1) : Covers(log1[j], "evidence")
      BY <1>1, <1>6, <3>0
    <3>2. Restores(log1, lo, Db', b)
      BY <1>10, <1>11, <2>1, <2>3, <3>1, WriteRestores
    <3>3. QED
      BY <1>7, <2>3, <3>2
  <2>4. CASE slots["confidence"] # Tainted
    <3>1. /\ Len(log0) + 1 \in (lo + 1)..Len(log2) /\ Len(log0) + 2 \in (lo + 1)..Len(log2)
      BY <1>3, <1>6 DEF log0
    <3>2. \E j \in (lo + 1)..Len(log2) : Covers(log2[j], "evidence")
      BY <1>1, <1>6, <3>1
    <3>3. \E j \in (lo + 1)..Len(log2) : Covers(log2[j], "confidence")
      BY <1>1, <1>6, <3>1
    <3>4. Restores(log2, lo, Db', b)
      BY <1>10, <1>11, <2>2, <3>2, <3>3, WriteRestores
    <3>5. QED
      BY <1>7, <2>4, <3>4
  <2>5. QED
    BY <2>3, <2>4
<1>13. ASSUME Covered(log0, lo, held) PROVE Covered(Top'.undo_log, lo, held)
  <2>1. Covered(log1, lo, held \cup {})
    BY <1>3, <1>6, <1>13, PushCovered DEF log0
  <2>2. Covered(log2, lo, held \cup {} \cup {})
    BY <1>6, <1>9, <2>1, PushCovered
  <2>3. held \cup {} = held /\ held \cup {} \cup {} = held
    OBVIOUS
  <2>4. QED
    BY <1>7, <2>1, <2>2, <2>3
<1>14. QED
  BY <1>5, <1>12, <1>13 DEF log0

LEMMA TaintUndoInv ==
    ASSUME UndoInv, EngineInv', HistoryStep, NEW code \in Codes, Taint(code)
    PROVE  UndoInv'
<1> USE DEF UndoInv, HistoryStep
<1>1. /\ phase \in {"mutating", "evaluating", "committing"}
      /\ UNCHANGED <<graph, transaction_aborted, phase, left, failed, held, checkpoint, unwind>>
  BY DEF Taint
<1>2. Len(transactions) \in Nat /\ transactions \in Seq(Frames)
  BY DEF EngineInv, TypeOK
<1>3. /\ Len(transactions') = Len(transactions) /\ (InTransaction' <=> InTransaction)
      /\ \A i \in 1..(Len(transactions) - 1) : transactions'[i] = transactions[i]
  <2>1. CASE InTransaction
    <3>1. 0 \in 0..Len(Top.undo_log)
      BY <1>2, <2>1, TopTyped
    <3>2. Len(transactions') = Len(transactions)
          /\ \A i \in 1..(Len(transactions) - 1) : transactions'[i] = transactions[i]
      BY <2>1, <3>1, TaintRestores
    <3>3. QED
      BY <1>2, <3>2, <2>1 DEF InTransaction, EngineInv, TypeOK
  <2>2. CASE ~InTransaction
    BY <2>2 DEF Taint, Pushed, InTransaction
  <2>3. QED
    BY <2>1, <2>2
<1>4. base' = base /\ stmt_base' = stmt_base
  BY <1>1, <1>2, <1>3, BaseKept DEF HistoryTyped, LogsRestore, StmtBaseStep
<1>5. HistoryTyped' /\ GoalInv'
  BY <1>1, <1>4, GoalElsewhere DEF HistoryTyped
<1>6. WritesCovered'
  <2>1. ASSUME phase = "mutating", InTransaction
        PROVE  Covered(Top'.undo_log, checkpoint.len, held)
    <3>1. checkpoint.len \in 0..Len(Top.undo_log)
      BY <2>1, MutatingCheckpoint, CheckpointLength
    <3>2. Covered(Top.undo_log, checkpoint.len, held)
      BY <2>1 DEF WritesCovered
    <3>3. QED
      BY <2>1, <3>1, <3>2, TaintRestores
  <2>2. QED
    BY <1>1, <1>3, <2>1 DEF WritesCovered, Mutating
<1>7. LogsRestore'
  <2>1. InTransaction => Restores(Top'.undo_log, 0, Db', base[Len(transactions)])
    <3> SUFFICES ASSUME InTransaction
                 PROVE  Restores(Top'.undo_log, 0, Db', base[Len(transactions)])
      OBVIOUS
    <3>1. Len(transactions) \in 1..Len(transactions) /\ 0 \in 0..Len(Top.undo_log)
      BY <1>2, TopTyped DEF InTransaction
    <3>2. Restores(Top.undo_log, 0, Db, base[Len(transactions)])
      BY <3>1 DEF LogsRestore, Top, NextDb
    <3>3. base[Len(transactions)] \in Copies
      BY <3>1 DEF HistoryTyped, LogsRestore
    <3>4. QED
      BY <3>1, <3>2, <3>3, TaintRestores
  <2>2. checkpoint.kind = "undo" => Restores(Top'.undo_log, checkpoint.len, Db', stmt_base)
    BY CheckpointLength, TaintRestores DEF LogsRestore, HistoryTyped
  <2>3. QED
    BY <1>1, <1>3, <1>4, <2>1, <2>2, TopChanged
<1>8. QED
  BY <1>5, <1>6, <1>7
-----------------------------------------------------------------------------
(* Steps of the statement loop and of transaction control that change neither
   the state nor the frames. *)
LEMMA QuietUndoInv ==
    ASSUME UndoInv, EngineInv', HistoryStep, UNCHANGED <<slots, graph, transactions>>,
           checkpoint' \in {checkpoint, NoCheckpoint},
           held' = {} \/ (held' = held /\ ~Mutating),
           phase = "releasing" => Len(transactions) = unwind.depth,
           ~(phase = "idle" /\ phase' = "mutating"),
           phase' = "unwinding" => phase # "unwinding"
    PROVE  UndoInv'
<1> USE DEF UndoInv, HistoryStep
<1>1. base' = base
  BY BaseKept DEF HistoryTyped, LogsRestore, EngineInv, TypeOK
<1>2. stmt_base' = stmt_base
  BY DEF StmtBaseStep
<1>3. HistoryTyped' /\ LogsRestore'
  BY <1>1, <1>2, QuietLogs DEF HistoryTyped
<1>4. held' = {}
  BY DEF WritesCovered
<1>5. WritesCovered'
  BY <1>4 DEF WritesCovered, Covered
<1>6. GoalInv'
  BY <1>1, <1>2, GoalElsewhere, GoalStarts
<1>7. QED
  BY <1>3, <1>5, <1>6

LEMMA StatementUndoInv ==
    ASSUME UndoInv, EngineInv', HistoryStep, RunStatement
    PROVE  UndoInv'
<1>1. ASSUME NEW n \in 1..MaxMutations, StartStatement(n) PROVE UndoInv'
  <2> USE DEF UndoInv, HistoryStep
  <2>1. /\ phase = "idle" /\ phase' = "mutating" /\ held' = {} /\ checkpoint' = Captured
        /\ UNCHANGED <<slots, graph, transactions>>
    BY <1>1 DEF StartStatement
  <2>2. base' = base
    BY <2>1, BaseKept DEF HistoryTyped, LogsRestore, EngineInv, TypeOK
  <2>3. stmt_base' = Db /\ Db' = Db /\ Top' = Top
    BY <2>1 DEF StmtBaseStep, Db, Top
  <2>4. HistoryTyped' /\ GoalInv'
    BY <2>1, <2>2, <2>3, DbTyped, GoalElsewhere DEF HistoryTyped
  <2>5. WritesCovered'
    BY <2>1 DEF WritesCovered, Covered, Mutating
  <2>6. checkpoint'.kind = "undo" => Restores(Top'.undo_log, checkpoint'.len, Db', stmt_base')
    <3> SUFFICES ASSUME checkpoint'.kind = "undo"
                 PROVE  Restores(Top.undo_log, checkpoint'.len, Db, Db)
      BY <2>3
    <3>1. InTransaction /\ checkpoint'.len = Len(Top.undo_log)
      BY <2>1 DEF Captured
    <3>2. Top.undo_log \in Seq(StateChanges) /\ Db \in Copies
      BY <3>1, TopTyped, DbTyped DEF EngineInv, TypeOK
    <3>3. QED
      BY <3>1, <3>2, EmptyRestores
  <2>7. checkpoint'.kind = "full" =>
            stmt_base' = [slots |-> checkpoint'.slots, graph |-> checkpoint'.graph]
    BY <2>1, <2>3 DEF Captured, Db
  <2>8. LogsRestore'
    BY <2>1, <2>2, <2>3, <2>6, <2>7 DEF LogsRestore, NextDb
  <2>9. QED
    BY <2>4, <2>5, <2>8
<1>2. CASE EndMutation
  BY <1>2, QuietUndoInv DEF EndMutation
<1>3. CASE ConflictOutside
  <2> USE DEF UndoInv, HistoryStep
  <2>1. /\ phase = "mutating" /\ ~InTransaction /\ phase' = "evaluating" /\ held' = {}
        /\ slots' = checkpoint.slots /\ graph' = checkpoint.graph
        /\ UNCHANGED <<transactions, checkpoint>>
    BY <1>3 DEF ConflictOutside
  <2>2. base' = base /\ stmt_base' = stmt_base
    BY <2>1, BaseKept DEF HistoryTyped, LogsRestore, EngineInv, TypeOK, StmtBaseStep
  <2>3. HistoryTyped' /\ GoalInv'
    BY <2>1, <2>2, GoalElsewhere DEF HistoryTyped
  <2>4. WritesCovered'
    BY <2>1 DEF WritesCovered, Mutating
  <2>5. checkpoint.kind # "undo" /\ transactions = <<>>
    BY <2>1, CheckpointLength DEF InTransaction
  <2>6. LogsRestore'
    BY <2>1, <2>2, <2>5 DEF LogsRestore
  <2>7. QED
    BY <2>3, <2>4, <2>6
<1>4. CASE ConflictInside
  BY <1>4, QuietUndoInv DEF ConflictInside
<1>5. CASE NextMutation
  BY <1>5, QuietUndoInv DEF NextMutation, Mutating
<1>6. CASE EndStatement
  BY <1>6, QuietUndoInv DEF EndStatement, Mutating
<1>7. QED
  BY <1>1, <1>2, <1>3, <1>4, <1>5, <1>6 DEF RunStatement

(* BEGIN, SAVEPOINT and the block that AND CHAIN opens. *)
LEMMA OpenUndoInv ==
    ASSUME UndoInv, EngineInv', HistoryStep, UNCHANGED <<slots, graph, checkpoint>>,
           NEW name, transactions' = Append(transactions, Frame(name)),
           checkpoint.kind = "none", held' = {},
           phase' \notin {"mutating", "unwinding"}
    PROVE  UndoInv'
<1> USE DEF UndoInv, HistoryStep
<1> DEFINE n == Len(transactions)
<1>1. n \in Nat /\ transactions \in Seq(Frames) /\ transactions' \in Seq(Frames)
      /\ Len(base) = n /\ base \in Seq(Copies)
  BY DEF EngineInv, TypeOK, HistoryTyped, LogsRestore
<1>2. /\ Len(transactions') = n + 1 /\ transactions'[n + 1] = Frame(name)
      /\ \A i \in 1..n : transactions'[i] = transactions[i]
  BY <1>1
<1>3. Db' = Db /\ Db \in Copies
  BY DbTyped DEF Db
<1>4. base' = Append(base, Db)
  BY <1>1, <1>2, <1>3, BasePushed
<1>5. /\ base' \in Seq(Copies) /\ Len(base') = n + 1 /\ base'[n + 1] = Db
      /\ \A i \in 1..n : base'[i] = base[i]
  BY <1>1, <1>3, <1>4
<1>6. stmt_base' = stmt_base
  BY DEF StmtBaseStep
<1>7. HistoryTyped' /\ GoalInv' /\ WritesCovered'
  BY <1>5, <1>6, GoalElsewhere DEF HistoryTyped, WritesCovered
<1>8. ASSUME NEW i \in 1..(n + 1)
      PROVE  Restores(transactions'[i].undo_log, 0, NextDb(i)', base'[i])
  <2>1. CASE i = n + 1
    <3>1. transactions'[i].undo_log = <<>> /\ NextDb(i)' = Db /\ base'[i] = Db
      BY <1>1, <1>2, <1>3, <1>5, <2>1 DEF Frame, NextDb
    <3>2. <<>> \in Seq(StateChanges) /\ Len(<<>>) = 0
      OBVIOUS
    <3>3. Restores(<<>>, Len(<<>>), Db, Db)
      BY <1>3, <3>2, EmptyRestores
    <3>4. QED
      BY <3>1, <3>2, <3>3
  <2>2. CASE i = n
    <3>1. i \in 1..n /\ NextDb(i)' = Db /\ NextDb(i) = Db
      BY <1>1, <1>2, <1>5, <2>2 DEF NextDb
    <3>2. QED
      BY <1>2, <1>5, <3>1 DEF LogsRestore
  <2>3. CASE i < n
    <3>1. i \in 1..n /\ i + 1 \in 1..n /\ NextDb(i)' = NextDb(i)
      BY <1>1, <1>2, <1>5, <2>3 DEF NextDb
    <3>2. QED
      BY <1>2, <1>5, <3>1 DEF LogsRestore
  <2>4. QED
    BY <1>1, <2>1, <2>2, <2>3
<1>9. LogsRestore'
  BY <1>2, <1>5, <1>8 DEF LogsRestore
<1>10. QED
  BY <1>7, <1>9

(* Between statements no catalog statement is under way. *)
LEMMA IdleFacts ==
    ASSUME UndoInv, phase \in {"idle", "committing", "releasing"}
    PROVE  /\ checkpoint.kind = "none" /\ left = 0
           /\ (phase # "committing" => held = {})
BY DEF UndoInv, EngineInv, PhaseInv, WritesCovered, Mutating

(* COMMIT closes every frame at once. *)
LEMMA CommitUndoInv ==
    ASSUME UndoInv, EngineInv', HistoryStep, NEW chain \in BOOLEAN, CommitTransaction(chain)
    PROVE  UndoInv'
<1> USE DEF UndoInv, HistoryStep
<1>1. /\ phase = "idle" /\ phase' = "committing" /\ transactions' = <<>>
      /\ UNCHANGED <<slots, graph, held, checkpoint>>
  BY DEF CommitTransaction
<1>2. checkpoint.kind = "none" /\ held = {}
  BY <1>1, IdleFacts
<1>3. base' = <<>> /\ stmt_base' = stmt_base
  <2>1. Len(transactions) \in Nat /\ Len(transactions') = 0
    BY <1>1 DEF EngineInv, TypeOK
  <2>2. base' = SubSeq(base, 1, 0)
    BY <1>1, <2>1 DEF BaseStep
  <2>3. base \in Seq(Copies)
    BY DEF HistoryTyped
  <2>4. QED
    BY <1>1, <2>2, <2>3 DEF StmtBaseStep
<1>4. HistoryTyped' /\ GoalInv' /\ WritesCovered'
  BY <1>1, <1>2, <1>3, GoalElsewhere DEF HistoryTyped, WritesCovered, Mutating
<1>5. LogsRestore'
  BY <1>1, <1>2, <1>3 DEF LogsRestore
<1>6. QED
  BY <1>4, <1>5

(* RELEASE merges two logs and forgets the copy between them. *)
LEMMA ReleaseUndoInv ==
    ASSUME UndoInv, EngineInv', HistoryStep, ReleaseFrame
    PROVE  UndoInv'
<1> USE DEF UndoInv, HistoryStep
<1> DEFINE n == Len(transactions)
           p == unwind.depth
<1>1. /\ n \in Nat /\ p \in 1..n /\ p < n /\ phase = "releasing"
      /\ transactions \in Seq(Frames) /\ Len(base) = n /\ base \in Seq(Copies)
  BY DEF ReleaseFrame, EngineInv, TypeOK, PhaseInv, HistoryTyped, LogsRestore
<1>2. transactions' = Merged(p) /\ UNCHANGED <<slots, graph, transaction_aborted, engine>>
  BY DEF ReleaseFrame
<1>3. checkpoint.kind = "none" /\ held = {}
  BY <1>1, IdleFacts
<1> DEFINE old == transactions[p].undo_log
           new == transactions[p + 1].undo_log
<1>4. transactions[p] \in Frames /\ transactions[p + 1] \in Frames
      /\ old \in Seq(StateChanges) /\ new \in Seq(StateChanges)
  <2>1. transactions[p] \in Frames /\ transactions[p + 1] \in Frames
    BY <1>1
  <2>2. QED
    BY <2>1 DEF Frames
<1>5. /\ Len(transactions') = n - 1
      /\ \A i \in 1..(n - 1) : i < p => transactions'[i].undo_log = transactions[i].undo_log
      /\ transactions'[p].undo_log = old \o new
      /\ \A i \in 1..(n - 1) : i > p => transactions'[i].undo_log = transactions[i + 1].undo_log
  <2>1. Len(transactions') = n - 1
    <3>1. n - 1 \in Nat /\ Merged(p) = [i \in 1..(n - 1) |-> Merged(p)[i]]
      BY <1>1 DEF Merged
    <3>2. transactions' \in Seq(Frames)
      BY DEF EngineInv, TypeOK
    <3>3. DOMAIN transactions' = 1..(n - 1)
      BY <1>2, <3>1
    <3>4. QED
      BY <3>1, <3>2, <3>3, LenProperties
  <2>2. [transactions[p] EXCEPT !.undo_log = @ \o new].undo_log = old \o new
    BY <1>4 DEF Frames
  <2>3. p \in 1..(n - 1)
    BY <1>1
  <2>4. transactions'[p].undo_log = old \o new
    <3> DEFINE merged == [transactions[p] EXCEPT !.undo_log = @ \o new]
    <3>1. Merged(p)[p] = merged
      BY <1>1, <2>3 DEF Merged
    <3> HIDE DEF merged
    <3>2. QED
      BY <1>2, <2>2, <3>1 DEF merged
  <2>5. ASSUME NEW i \in 1..(n - 1)
        PROVE  /\ i < p => transactions'[i] = transactions[i]
               /\ i > p => transactions'[i] = transactions[i + 1]
    BY <1>1, <1>2 DEF Merged
  <2>6. QED
    BY <2>1, <2>4, <2>5
<1>6. /\ base' = [i \in 1..(n - 1) |-> IF i <= p THEN base[i] ELSE base[i + 1]]
      /\ stmt_base' = stmt_base
  BY <1>1, <1>5 DEF BaseStep, StmtBaseStep
<1>7. /\ base' \in Seq(Copies) /\ Len(base') = n - 1
      /\ \A i \in 1..(n - 1) : i <= p => base'[i] = base[i]
      /\ \A i \in 1..(n - 1) : i > p => base'[i] = base[i + 1]
  <2>1. \A i \in 1..(n - 1) : base[i] \in Copies /\ base[i + 1] \in Copies
    BY <1>1
  <2>2. n - 1 \in Nat /\ base' \in [1..(n - 1) -> Copies]
    BY <1>1, <1>6, <2>1
  <2>3. base' \in Seq(Copies) /\ Len(base') = n - 1
    BY <2>2, IsASeq, LenProperties
  <2>4. \A i \in 1..(n - 1) : base'[i] = IF i <= p THEN base[i] ELSE base[i + 1]
    BY <1>6
  <2>5. QED
    BY <1>1, <2>3, <2>4
<1>8. Db' = Db /\ Db \in Copies
  BY <1>2, DbTyped DEF Db
<1> HIDE DEF old, new
<1>9. HistoryTyped' /\ GoalInv' /\ WritesCovered'
  BY <1>1, <1>2, <1>3, <1>6, <1>7, GoalElsewhere
  DEF HistoryTyped, WritesCovered, Mutating, engine
<1>10. \A i \in 1..n : Restores(transactions[i].undo_log, 0, NextDb(i), base[i])
  BY DEF LogsRestore
<1>11. ASSUME NEW i \in 1..(n - 1)
       PROVE  Restores(transactions'[i].undo_log, 0, NextDb(i)', base'[i])
  <2>1. CASE i < p
    <3>1. i \in 1..n /\ NextDb(i)' = NextDb(i) /\ base'[i] = base[i]
      <4>1. i + 1 \in 1..(n - 1) /\ i + 1 <= p /\ i < n - 1 /\ i < n
        BY <1>1, <2>1
      <4>2. NextDb(i)' = base'[i + 1] /\ NextDb(i) = base[i + 1]
        BY <1>5, <4>1 DEF NextDb
      <4>3. QED
        BY <1>1, <1>7, <2>1, <4>1, <4>2
    <3>2. QED
      BY <1>5, <1>10, <2>1, <3>1
  <2>2. CASE i = p
    <3>1. base'[i] = base[i] /\ NextDb(i) = base[i + 1] /\ i + 1 \in 1..n
      BY <1>1, <1>7, <2>2 DEF NextDb
    <3>2. NextDb(i)' = NextDb(i + 1)
      <4>1. CASE i < n - 1
        <5>1. i + 1 \in 1..(n - 1) /\ i + 1 > p /\ i + 1 < n
          BY <1>1, <2>2, <4>1
        <5>2. NextDb(i)' = base'[i + 1] /\ NextDb(i + 1) = base[(i + 1) + 1]
          BY <1>5, <4>1, <5>1 DEF NextDb
        <5>3. QED
          BY <1>7, <5>1, <5>2
      <4>2. CASE ~(i < n - 1)
        <5>1. ~(i + 1 < n)
          BY <1>1, <4>2
        <5>2. QED
          BY <1>5, <1>8, <4>2, <5>1 DEF NextDb
      <4>3. QED
        BY <4>1, <4>2
    <3>3. Restores(old, 0, base[i + 1], base[i])
      BY <1>1, <1>10, <2>2, <3>1 DEF old
    <3>4. Restores(new, 0, NextDb(i + 1), base[i + 1])
      BY <1>10, <2>2, <3>1 DEF new
    <3>5. NextDb(i + 1) \in Copies /\ base[i] \in Copies /\ base[i + 1] \in Copies
      BY <1>1, <1>8, <2>2, <3>1 DEF NextDb
    <3>6. Restores(old \o new, 0, NextDb(i + 1), base[i])
      BY <1>4, <3>3, <3>4, <3>5, ConcatRestores
    <3>7. QED
      BY <1>5, <2>2, <3>1, <3>2, <3>6
  <2>3. CASE i > p
    <3>1. i + 1 \in 1..n /\ base'[i] = base[i + 1]
      BY <1>1, <1>7, <2>3
    <3>2. NextDb(i)' = NextDb(i + 1)
      <4>1. CASE i < n - 1
        <5>1. i + 1 \in 1..(n - 1) /\ i + 1 > p /\ i + 1 < n
          BY <1>1, <2>3, <4>1
        <5>2. NextDb(i)' = base'[i + 1] /\ NextDb(i + 1) = base[(i + 1) + 1]
          BY <1>5, <4>1, <5>1 DEF NextDb
        <5>3. QED
          BY <1>7, <5>1, <5>2
      <4>2. CASE ~(i < n - 1)
        <5>1. ~(i + 1 < n)
          BY <1>1, <4>2
        <5>2. QED
          BY <1>5, <1>8, <4>2, <5>1 DEF NextDb
      <4>3. QED
        BY <4>1, <4>2
    <3>3. QED
      BY <1>5, <1>10, <2>3, <3>1, <3>2
  <2>4. QED
    BY <1>1, <2>1, <2>2, <2>3
<1>12. LogsRestore'
  BY <1>2, <1>3, <1>5, <1>7, <1>11 DEF LogsRestore, engine
<1>13. QED
  BY <1>9, <1>12

LEMMA ControlUndoInv ==
    ASSUME UndoInv, EngineInv', HistoryStep, ControlTransaction
    PROVE  UndoInv'
<1>1. ASSUME phase = "idle", ControlConflict PROVE UndoInv'
  BY <1>1, QuietUndoInv DEF ControlConflict, Mutating
<1>2. ASSUME phase = "idle", NEW d, NEW chain, StartUnwind(d, chain) PROVE UndoInv'
  BY <1>2, QuietUndoInv DEF StartUnwind, Mutating
<1>3. CASE BeginTransaction
  <2>1. /\ phase = "idle" /\ phase' = "evaluating"
        /\ UNCHANGED <<slots, graph, held, checkpoint>>
    BY <1>3 DEF BeginTransaction, ControlApplied
  <2>2. CASE InTransaction
    BY <1>3, <2>1, <2>2, QuietUndoInv DEF BeginTransaction, Mutating
  <2>3. CASE ~InTransaction
    <3>1. transactions' = Append(transactions, Frame(Root))
      BY <1>3, <2>3 DEF BeginTransaction, InTransaction
    <3>2. QED
      BY <2>1, <3>1, IdleFacts, OpenUndoInv
  <2>4. QED
    BY <2>2, <2>3
<1>4. CASE EndCommit
  <2>1. /\ phase = "committing" /\ phase' \in {"evaluating", "idle"} /\ held' = {}
        /\ UNCHANGED <<slots, graph, checkpoint>> /\ transactions = <<>>
        /\ transactions' = IF unwind.chain THEN <<Frame(Root)>> ELSE <<>>
    BY <1>4 DEF EndCommit, UndoInv, EngineInv, PhaseInv
  <2>2. CASE unwind.chain
    <3>1. transactions' = Append(transactions, Frame(Root))
      BY <2>1, <2>2
    <3>2. QED
      BY <2>1, <3>1, IdleFacts, OpenUndoInv
  <2>3. CASE ~unwind.chain
    BY <2>1, <2>3, QuietUndoInv
  <2>4. QED
    BY <2>2, <2>3
<1>5. CASE CommitOutsideChain \/ RollbackOutsideChain \/ SavepointOutside
  BY <1>1, <1>5 DEF CommitOutsideChain, RollbackOutsideChain, SavepointOutside
<1>6. ASSUME NEW chain \in BOOLEAN, CommitAborted(chain) \/ RollbackTransaction(chain)
      PROVE  UndoInv'
  BY <1>2, <1>6 DEF CommitAborted, RollbackTransaction
<1>7. ASSUME NEW chain \in BOOLEAN, CommitTransaction(chain) PROVE UndoInv'
  BY <1>7, CommitUndoInv
<1>8. ASSUME NEW name \in Savepoints, RollbackToSavepoint(name) PROVE UndoInv'
  BY <1>2, <1>8 DEF RollbackToSavepoint
<1>9. ASSUME NEW name \in Savepoints, RollbackToUnknown(name) \/ ReleaseUnknown(name)
      PROVE  UndoInv'
  BY <1>1, <1>9 DEF RollbackToUnknown, ReleaseUnknown
<1>10. ASSUME NEW name \in Savepoints, Savepoint(name) PROVE UndoInv'
  <2>1. /\ phase = "idle" /\ phase' = "evaluating"
        /\ transactions' = Append(transactions, Frame(name))
        /\ UNCHANGED <<slots, graph, held, checkpoint>>
    BY <1>10 DEF Savepoint, ControlApplied
  <2>2. QED
    BY <2>1, IdleFacts, OpenUndoInv
<1>11. ASSUME NEW name \in Savepoints, StartRelease(name) PROVE UndoInv'
  BY <1>11, QuietUndoInv DEF StartRelease, Mutating
<1>12. CASE ReleaseFrame
  BY <1>12, ReleaseUndoInv
<1>13. CASE EndRelease
  BY <1>13, QuietUndoInv DEF EndRelease, Mutating
<1>14. QED
  BY <1>3, <1>4, <1>5, <1>6, <1>7, <1>8, <1>9, <1>10, <1>11, <1>12, <1>13
  DEF ControlTransaction

LEMMA UndoEntryUndoInv ==
    ASSUME UndoInv, EngineInv', HistoryStep, UndoEntry
    PROVE  UndoInv'
<1> USE DEF UndoInv, HistoryStep
<1> DEFINE n == Len(transactions)
           log == Top.undo_log
           front == SubSeq(log, 1, Len(log) - 1)
           change == log[Len(log)]
           top == [transactions[n] EXCEPT !.undo_log = front]
<1>1. /\ n \in Nat \ {0} /\ Top \in Frames /\ log \in Seq(StateChanges) /\ Len(log) \in Nat
      /\ InTransaction /\ transactions \in Seq(Frames)
  BY TopTyped DEF UndoEntry, EngineInv, TypeOK
<1>2. Kept \in Nat /\ Len(log) > Kept /\ phase = "unwinding"
  BY DEF UndoEntry, Kept, EngineInv, TypeOK
<1>3. change \in StateChanges
  BY <1>1, <1>2
<1>4. front \in Seq(StateChanges) /\ IsPush(front, log, change) /\ Len(front) = Len(log) - 1
  <2>1. /\ front \in Seq(StateChanges) /\ Len(front) = Len(log) - 1
        /\ \A i \in 1..(Len(log) - 1) : front[i] = log[i]
    <3>1. Len(log) - 1 \in 0..Len(log)
      BY <1>1, <1>2
    <3>2. QED
      BY <1>1, <3>1, PrefixProperties
  <2>2. QED
    BY <1>1, <1>2, <2>1 DEF IsPush
<1>5. top.undo_log = front
  BY <1>1, <1>4, FrameExcept DEF Top
<1>6. /\ transactions' = [transactions EXCEPT ![n] = top]
      /\ slots' = UndoneSlots(change, slots) /\ graph' = UndoneGraph(change, graph)
      /\ UNCHANGED <<transaction_aborted, engine>>
  BY DEF UndoEntry, Top
<1> HIDE DEF top, front, change
<1>7. /\ Len(transactions') = n /\ Top'.undo_log = front
      /\ \A i \in 1..(n - 1) : transactions'[i] = transactions[i]
  <2>1. Len(transactions') = n /\ transactions'[n] = top
        /\ \A i \in 1..n : i # n => transactions'[i] = transactions[i]
    BY <1>1, <1>6
  <2>2. QED
    BY <1>1, <1>5, <2>1 DEF Top
<1>8. base' = base /\ stmt_base' = stmt_base /\ checkpoint' = checkpoint
  BY <1>1, <1>2, <1>6, <1>7, BaseKept
  DEF HistoryTyped, LogsRestore, StmtBaseStep, engine
<1>9. Db' = [slots |-> UndoneSlots(change, Db.slots), graph |-> UndoneGraph(change, Db.graph)]
      /\ Db \in Copies
  BY <1>6, DbTyped DEF Db
<1>10. Restores(Top'.undo_log, 0, Db', base[n])
  <2>1. n \in 1..n /\ 0 \in 0..Len(front)
    BY <1>1, <1>2, <1>4
  <2>2. Restores(log, 0, Db, base[n]) /\ base[n] \in Copies
    BY <2>1 DEF LogsRestore, HistoryTyped, Top, NextDb
  <2>3. QED
    BY <1>1, <1>3, <1>4, <1>7, <1>9, <2>1, <2>2, PopRestores
<1>11. checkpoint.kind = "undo" => Restores(Top'.undo_log, checkpoint.len, Db', stmt_base)
  <2> SUFFICES ASSUME checkpoint.kind = "undo"
               PROVE  Restores(Top'.undo_log, checkpoint.len, Db', stmt_base)
    OBVIOUS
  <2>1. Kept = checkpoint.len /\ checkpoint.len \in Nat
    <3>1. unwind.depth = checkpoint.depth /\ unwind.len = checkpoint.len
      BY <1>2 DEF EngineInv, PhaseInv, TypeOK
    <3>2. QED
      BY <3>1, CheckpointLength DEF Kept, EngineInv, CheckpointUsable
  <2>2. checkpoint.len \in 0..Len(front)
    BY <1>1, <1>2, <1>4, <2>1
  <2>3. Restores(log, checkpoint.len, Db, stmt_base) /\ stmt_base \in Copies
    BY DEF LogsRestore, HistoryTyped
  <2>4. QED
    BY <1>1, <1>3, <1>4, <1>7, <1>9, <2>2, <2>3, PopRestores
<1>12. LogsRestore'
  BY <1>7, <1>8, <1>10, <1>11, TopChanged
<1>13. HistoryTyped'
  BY <1>8 DEF HistoryTyped
<1>14. WritesCovered'
  BY <1>2, <1>6 DEF WritesCovered, Mutating, engine
<1>15. GoalInv'
  <2>1. InTransaction'
    BY <1>1, <1>7 DEF InTransaction
  <2>2. goal' = goal /\ phase' = "unwinding" /\ unwind' = unwind
    BY <1>2, <1>6 DEF GoalStep, engine
  <2>3. QED
    BY <1>1, <1>2, <1>8, <2>1, <2>2 DEF GoalInv
<1>16. QED
  BY <1>12, <1>13, <1>14, <1>15

LEMMA PopFrameUndoInv ==
    ASSUME UndoInv, EngineInv', HistoryStep, PopFrame
    PROVE  UndoInv'
<1> USE DEF UndoInv, HistoryStep
<1> DEFINE n == Len(transactions)
<1>1. /\ n \in Nat /\ unwind.depth \in Nat /\ n > unwind.depth /\ phase = "unwinding"
      /\ n \in 1..n /\ n - 1 \in 0..n
      /\ transactions \in Seq(Frames) /\ Len(base) = n /\ base \in Seq(Copies)
  BY DEF PopFrame, EngineInv, TypeOK, HistoryTyped, LogsRestore
<1>2. /\ transactions' = SubSeq(transactions, 1, n - 1) /\ Top.undo_log = <<>>
      /\ UNCHANGED <<slots, graph, transaction_aborted, engine>>
  BY DEF PopFrame
<1>3. /\ Len(transactions') = n - 1
      /\ \A i \in 1..(n - 1) : transactions'[i] = transactions[i]
  BY <1>1, <1>2, PrefixProperties
<1>4. base' = SubSeq(base, 1, n - 1) /\ stmt_base' = stmt_base
  BY <1>1, <1>3 DEF BaseStep, StmtBaseStep
<1>5. /\ base' \in Seq(Copies) /\ Len(base') = n - 1
      /\ \A i \in 1..(n - 1) : base'[i] = base[i]
  BY <1>1, <1>4, PrefixProperties
<1>6. unwind.reason = "rollback" /\ checkpoint.kind = "none"
  BY <1>1 DEF EngineInv, PhaseInv, CheckpointUsable, TypeOK
<1>7. Db = base[n] /\ Db' = Db
  <2>1. Restores(Top.undo_log, 0, Db, base[n])
    BY <1>1 DEF LogsRestore, Top, NextDb
  <2>2. <<>> \in Seq(StateChanges) /\ Len(<<>>) = 0
    OBVIOUS
  <2>3. Restores(<<>>, Len(<<>>), Db, base[n])
    BY <1>2, <2>1, <2>2
  <2>4. Db \in Copies /\ base[n] \in Copies
    BY <1>1, DbTyped
  <2>5. Db = base[n]
    BY <2>2, <2>3, <2>4, EmptyRestores
  <2>6. Db' = Db
    BY <1>2 DEF Db
  <2>7. QED
    BY <2>5, <2>6
<1>8. ASSUME NEW i \in 1..(n - 1)
      PROVE  Restores(transactions'[i].undo_log, 0, NextDb(i)', base'[i])
  <2>1. i \in 1..n /\ NextDb(i) = base[i + 1]
    BY <1>1 DEF NextDb
  <2>2. NextDb(i)' = base[i + 1]
    <3>1. CASE i < n - 1
      <4>1. i + 1 \in 1..(n - 1) /\ NextDb(i)' = base'[i + 1]
        BY <1>1, <1>3, <3>1 DEF NextDb
      <4>2. QED
        BY <1>5, <4>1
    <3>2. CASE ~(i < n - 1)
      <4>1. i + 1 = n /\ NextDb(i)' = Db'
        BY <1>1, <1>3, <3>2 DEF NextDb
      <4>2. QED
        BY <1>7, <4>1
    <3>3. QED
      BY <3>1, <3>2
  <2>3. Restores(transactions[i].undo_log, 0, NextDb(i), base[i])
    BY <2>1 DEF LogsRestore
  <2>4. QED
    BY <1>3, <1>5, <2>1, <2>2, <2>3
<1>9. LogsRestore'
  BY <1>2, <1>3, <1>5, <1>6, <1>8 DEF LogsRestore, engine
<1>10. HistoryTyped'
  BY <1>4, <1>5 DEF HistoryTyped
<1>11. WritesCovered'
  BY <1>1, <1>2 DEF WritesCovered, Mutating, engine
<1>12. GoalInv'
  <2>1. goal' = goal /\ phase' = "unwinding" /\ unwind' = unwind
    BY <1>1, <1>2 DEF GoalStep, engine
  <2>2. CASE unwind.depth > 0
    <3>1. unwind.depth \in 1..(n - 1)
      BY <1>1, <2>2
    <3>2. QED
      BY <1>1, <1>5, <1>6, <2>1, <2>2, <3>1 DEF GoalInv
  <2>3. CASE ~(unwind.depth > 0)
    <3>1. goal = base[1]
      BY <1>1, <1>6, <2>3 DEF GoalInv, InTransaction
    <3>2. CASE n = 1
      <4>1. ~InTransaction'
        BY <1>3, <3>2 DEF InTransaction, EngineInv, TypeOK
      <4>2. QED
        BY <1>6, <1>7, <2>1, <2>3, <3>1, <3>2, <4>1 DEF GoalInv
    <3>3. CASE n # 1
      <4>1. InTransaction' /\ 1 \in 1..(n - 1)
        BY <1>1, <1>3, <3>3 DEF InTransaction
      <4>2. QED
        BY <1>5, <1>6, <2>1, <2>3, <3>1, <4>1 DEF GoalInv
    <3>4. QED
      BY <3>2, <3>3
  <2>4. QED
    BY <2>2, <2>3
<1>13. QED
  BY <1>9, <1>10, <1>11, <1>12

(* The end of an undo loop, where AND CHAIN opens the next block. *)
LEMMA EndUnwindUndoInv ==
    ASSUME UndoInv, EngineInv', HistoryStep, EndUnwind
    PROVE  UndoInv'
<1>1. /\ phase = "unwinding" /\ phase' = "evaluating"
      /\ transactions' = IF unwind.chain THEN <<Frame(Root)>> ELSE transactions
      /\ UNCHANGED <<slots, graph, held, checkpoint>>
      /\ Len(transactions) = unwind.depth
  BY DEF EndUnwind
<1>2. CASE unwind.chain
  <2>1. unwind.reason = "rollback" /\ left = 0 /\ unwind.depth = 0
    BY <1>1, <1>2 DEF UndoInv, EngineInv, PhaseInv
  <2>2. transactions = <<>> /\ checkpoint.kind = "none"
    BY <1>1, <2>1 DEF UndoInv, EngineInv, PhaseInv, TypeOK
  <2>3. transactions' = Append(transactions, Frame(Root))
    BY <1>1, <1>2, <2>2
  <2>4. held' = {}
    BY <1>1 DEF UndoInv, WritesCovered, Mutating
  <2>5. QED
    BY <1>1, <2>2, <2>3, <2>4, OpenUndoInv
<1>3. CASE ~unwind.chain
  BY <1>1, <1>3, QuietUndoInv DEF Mutating
<1>4. QED
  BY <1>2, <1>3

LEMMA InitUndoInv == HInit => UndoInv
<1> SUFFICES ASSUME HInit PROVE UndoInv
  OBVIOUS
<1>1. EngineInv
  BY InitEngineInv DEF HInit
<1>2. /\ transactions = <<>> /\ base = <<>> /\ stmt_base = Db /\ goal = Db
      /\ phase = "idle" /\ held = {} /\ checkpoint.kind = "none"
  BY DEF HInit, Init, NoCheckpoint
<1>3. HistoryTyped
  BY <1>1, <1>2, DbTyped DEF HistoryTyped
<1>4. WritesCovered /\ LogsRestore /\ GoalInv
  BY <1>2 DEF WritesCovered, LogsRestore, GoalInv, Mutating
<1>5. QED
  BY <1>1, <1>3, <1>4 DEF UndoInv

LEMMA StepUndoInv == UndoInv /\ [HNext]_hvars => UndoInv'
<1>1. ASSUME UndoInv, HNext PROVE UndoInv'
  <2>1. EngineInv'
    BY <1>1, StepEngineInv DEF UndoInv, HNext
  <2>2. HistoryStep /\ Next
    BY <1>1 DEF HNext, HistoryStep
  <2>3. CASE Mutate
    BY <1>1, <2>1, <2>2, <2>3, SnapshotsUndoInv, WritesUndoInv, TaintUndoInv DEF Mutate
  <2>4. CASE Unwind
    BY <1>1, <2>1, <2>2, <2>4, UndoEntryUndoInv, PopFrameUndoInv, EndUnwindUndoInv DEF Unwind
  <2>5. QED
    BY <1>1, <2>1, <2>2, <2>3, <2>4, StatementUndoInv, ControlUndoInv DEF Next
<1>2. ASSUME UndoInv, UNCHANGED hvars PROVE UndoInv'
  <2>1. EngineInv'
    <3>1. UNCHANGED vars
      BY <1>2 DEF hvars, vars
    <3>2. QED
      BY <1>2, <3>1, StepEngineInv DEF UndoInv
  <2>2. /\ UNCHANGED <<slots, graph, transactions, phase, held, checkpoint, unwind>>
        /\ UNCHANGED <<base, stmt_base, goal>>
    BY <1>2 DEF hvars
  <2>3. QED
    BY <1>2, <2>1, <2>2 DEF UndoInv, HistoryTyped, WritesCovered, LogsRestore, GoalInv,
       Mutating, InTransaction, Top, NextDb, Db
<1>3. QED
  BY <1>1, <1>2

(* At every moment the undo log of each open frame leads back, from what the  *)
(* next frame was opened on, to what the frame itself was opened on, and the  *)
(* entries of the running statement to what the statement started from; every *)
(* write has been preceded by a snapshot in the same statement.               *)
THEOREM UndoInvariant == HSpec => []UndoInv
<1>1. QED
  BY InitUndoInv, StepUndoInv, PTL DEF HSpec

LEMMA ExactFromInv == UndoInv => UndoIsExact
<1> SUFFICES ASSUME UndoInv, phase = "unwinding", Len(transactions) = unwind.depth,
                    InTransaction => Len(Top.undo_log) = Kept
             PROVE  Db = goal
  BY DEF UndoIsExact
<1> USE DEF UndoInv
<1>1. Db \in Copies /\ Kept = unwind.len
  BY DbTyped DEF Kept
<1>2. CASE unwind.reason = "statement"
  <2>1. checkpoint.kind = "undo" /\ unwind.len = checkpoint.len /\ goal = stmt_base
    BY <1>2 DEF EngineInv, PhaseInv, GoalInv
  <2>2. InTransaction /\ Top.undo_log \in Seq(StateChanges)
    BY <2>1, CheckpointLength
  <2>3. Restores(Top.undo_log, Len(Top.undo_log), Db, stmt_base) /\ stmt_base \in Copies
    BY <1>1, <2>1, <2>2 DEF LogsRestore, HistoryTyped
  <2>4. QED
    BY <1>1, <2>1, <2>2, <2>3, EmptyRestores
<1>3. CASE unwind.reason # "statement"
  <2>1. unwind.len = 0 /\ unwind.depth \in Nat
    BY <1>3 DEF EngineInv, PhaseInv, TypeOK
  <2>2. CASE unwind.depth > 0
    <3>1. InTransaction /\ Len(transactions) \in 1..Len(transactions)
      BY <2>1, <2>2 DEF InTransaction
    <3>2. Top.undo_log \in Seq(StateChanges) /\ Len(Top.undo_log) = 0
      BY <1>1, <2>1, <3>1, TopTyped DEF EngineInv, TypeOK
    <3>3. Restores(Top.undo_log, 0, Db, base[unwind.depth]) /\ base[unwind.depth] \in Copies
      BY <3>1 DEF LogsRestore, HistoryTyped, Top, NextDb
    <3>4. goal = base[unwind.depth]
      BY <1>3, <2>2 DEF GoalInv
    <3>5. QED
      BY <1>1, <3>2, <3>3, <3>4, EmptyRestores
  <2>3. CASE ~(unwind.depth > 0)
    <3>1. ~InTransaction
      BY <2>1, <2>3 DEF InTransaction, EngineInv, TypeOK
    <3>2. QED
      BY <1>3, <2>3, <3>1 DEF GoalInv
  <2>4. QED
    BY <2>2, <2>3
<1>4. QED
  BY <1>2, <1>3

(* Every ROLLBACK, ROLLBACK TO and restore of a failed statement ends in      *)
(* exactly the state its target started from: slots, evidence, confidence     *)
(* and the edge list in its order, whatever was nested in between.            *)
THEOREM UndoExact == HSpec => []UndoIsExact
<1>1. QED
  BY UndoInvariant, ExactFromInv, PTL
-----------------------------------------------------------------------------
(* Evidence and confidence of a copy go together. *)
Agree(d) == d.slots["confidence"] = Tainted <=> d.slots["evidence"] # {}

DiagnosticsAgree ==
    /\ \A i \in 1..Len(base) : Agree(base[i])
    /\ Agree(stmt_base) /\ Agree(goal)

LEMMA ConfidenceFromAgree == UndoInv /\ DiagnosticsAgree => ConfidenceHasEvidence
BY DEF UndoInv, DiagnosticsAgree, GoalInv, Agree, Db, ConfidenceHasEvidence

(* No handler but record_evidence touches the two diagnostic slots. *)
LEMMA DiagnosticsStep ==
    ASSUME UndoInv, UndoInv', DiagnosticsAgree, Next, phase # "unwinding"
    PROVE  Agree(Db') \/ phase' = "unwinding"
<1>0. /\ Agree(Db) /\ slots \in SlotStates /\ Db'.slots = slots' /\ Db.slots = slots
      /\ "evidence" \in Slots /\ "confidence" \in Slots
      /\ "evidence" \notin CatalogSlots /\ "confidence" \notin CatalogSlots
  BY SlotsAssumption
  DEF UndoInv, GoalInv, DiagnosticsAgree, EngineInv, TypeOK, Db, Slots
<1>1. ASSUME UNCHANGED slots PROVE Agree(Db')
  BY <1>0, <1>1 DEF Agree
<1>2. CASE Mutate
  <2>1. ASSUME NEW s \in CatalogSlots, NEW v \in CatalogValues, WriteSlot(s, v)
        PROVE  Agree(Db')
    BY <1>0, <2>1 DEF WriteSlot, Agree, SlotStates
  <2>2. ASSUME NEW code \in Codes, Taint(code) PROVE Agree(Db')
    <3>1. slots' = [slots EXCEPT !["evidence"] = @ \cup {code}, !["confidence"] = Tainted]
      BY <2>2 DEF Taint
    <3>2. slots'["evidence"] = slots["evidence"] \cup {code} /\ slots'["confidence"] = Tainted
      BY <1>0, <3>1 DEF SlotStates
    <3>3. slots["evidence"] \cup {code} # {}
      OBVIOUS
    <3>4. QED
      BY <1>0, <3>2, <3>3 DEF Agree
  <2>3. QED
    BY <1>1, <1>2, <2>1, <2>2
    DEF Mutate, SnapshotSlot, SnapshotNamespace, SnapshotGraph, SnapshotGraphFull, Snapshot,
        AddEdge, RewriteEdges
<1>3. CASE RunStatement
  <2>1. CASE ConflictOutside
    <3>1. checkpoint.kind = "full"
      BY <2>1, MutatingCheckpoint
      DEF ConflictOutside, UndoInv, EngineInv, PhaseInv, CheckpointUsable, TypeOK, Checkpoints
    <3>2. Db' = stmt_base
      BY <2>1, <3>1 DEF ConflictOutside, UndoInv, LogsRestore, Db
    <3>3. QED
      BY <3>2 DEF DiagnosticsAgree
  <2>2. QED
    BY <1>1, <1>3, <2>1
    DEF RunStatement, StartStatement, EndMutation, ConflictInside, NextMutation, EndStatement
<1>4. CASE ControlTransaction
  BY <1>1, <1>4
  DEF ControlTransaction, BeginTransaction, EndCommit, CommitOutsideChain, RollbackOutsideChain,
      SavepointOutside, CommitAborted, CommitTransaction, RollbackTransaction,
      RollbackToSavepoint, Savepoint, StartRelease, RollbackToUnknown, ReleaseUnknown,
      ReleaseFrame, EndRelease, ControlConflict, ControlApplied, StartUnwind
<1>5. CASE Unwind
  BY <1>5 DEF Unwind, UndoEntry, PopFrame, EndUnwind
<1>6. QED
  BY <1>2, <1>3, <1>4, <1>5 DEF Next

(* What the steps do to the number of frames, by the phase they start in. *)
StepKind ==
    \/ /\ phase \notin {"unwinding", "releasing"}
       /\ phase' = "unwinding" => UNCHANGED <<slots, graph, transactions>>
    \/ /\ phase = "releasing" /\ phase' # "unwinding"
       /\ \/ Len(transactions') = Len(transactions) - 1
          \/ Len(transactions') = Len(transactions) /\ Len(transactions) = unwind.depth
    \/ phase = "unwinding" /\ phase' = "unwinding" /\ Len(transactions') <= Len(transactions)
    \/ EndUnwind

LEMMA StepKinds == ASSUME EngineInv, EngineInv', Next PROVE StepKind
<1>0. Len(transactions) \in Nat /\ Len(transactions') \in Nat /\ transactions \in Seq(Frames)
  BY DEF EngineInv, TypeOK
<1>1. CASE Mutate
  BY <1>1
  DEF StepKind, Mutate, SnapshotSlot, SnapshotNamespace, SnapshotGraph, SnapshotGraphFull,
      Snapshot, WriteSlot, AddEdge, RewriteEdges, Taint, Mutating
<1>2. CASE RunStatement
  BY <1>2
  DEF StepKind, RunStatement, StartStatement, EndMutation, ConflictOutside, ConflictInside,
      NextMutation, EndStatement
<1>3. CASE ControlTransaction
  <2>1. CASE ReleaseFrame
    <3> DEFINE m == Len(transactions) - 1
    <3>1. phase = "releasing" /\ phase' = phase /\ transactions' = Merged(unwind.depth)
          /\ m \in Nat
      BY <1>0, <2>1 DEF ReleaseFrame, engine, EngineInv, PhaseInv
    <3>2. DOMAIN transactions' = 1..m /\ transactions' \in Seq(Frames)
      BY <3>1 DEF Merged, EngineInv, TypeOK
    <3>3. Len(transactions') = m
      BY <3>1, <3>2, LenProperties
    <3>4. QED
      BY <3>1, <3>3 DEF StepKind
  <2>2. CASE EndRelease
    BY <2>2 DEF EndRelease, StepKind
  <2>3. QED
    BY <1>3, <2>1, <2>2
    DEF StepKind, ControlTransaction, BeginTransaction, EndCommit, CommitOutsideChain,
        RollbackOutsideChain, SavepointOutside, CommitAborted, CommitTransaction,
        RollbackTransaction, RollbackToSavepoint, Savepoint, StartRelease, RollbackToUnknown,
        ReleaseUnknown, ControlConflict, ControlApplied, StartUnwind
<1>4. CASE Unwind
  <2>1. CASE UndoEntry
    <3>1. Len(transactions') = Len(transactions)
      BY <1>0, <2>1 DEF UndoEntry
    <3>2. QED
      BY <1>0, <2>1, <3>1 DEF UndoEntry, StepKind, engine
  <2>2. CASE PopFrame
    <3>1. Len(transactions) - 1 \in 0..Len(transactions)
      BY <1>0, <2>2 DEF PopFrame, EngineInv, TypeOK
    <3>2. Len(transactions') = Len(transactions) - 1
      BY <1>0, <2>2, <3>1, PrefixProperties DEF PopFrame
    <3>3. QED
      BY <1>0, <2>2, <3>2 DEF PopFrame, StepKind, engine
  <2>3. QED
    BY <1>4, <2>1, <2>2 DEF Unwind, StepKind
<1>5. QED
  BY <1>1, <1>2, <1>3, <1>4 DEF Next

LEMMA StepDiagnosticsAgree ==
    UndoInv /\ UndoInv' /\ DiagnosticsAgree /\ [HNext]_hvars => DiagnosticsAgree'
<1>1. ASSUME UndoInv, UndoInv', DiagnosticsAgree, HNext PROVE DiagnosticsAgree'
  <2>0. /\ Next /\ BaseStep /\ StmtBaseStep /\ GoalStep /\ StepKind
        /\ Len(base) = Len(transactions) /\ Len(base') = Len(transactions')
        /\ Len(transactions) \in Nat /\ Len(transactions') \in Nat
        /\ base \in Seq(Copies) /\ base' \in Seq(Copies)
    BY <1>1, StepKinds DEF HNext, UndoInv, LogsRestore, HistoryTyped, EngineInv, TypeOK
  <2>1. ASSUME phase' # "unwinding" PROVE Agree(Db')
    <3>1. CASE phase # "unwinding"
      BY <1>1, <2>0, <2>1, <3>1, DiagnosticsStep
    <3>2. CASE phase = "unwinding"
      <4>1. EndUnwind
        BY <2>0, <2>1, <3>2 DEF StepKind
      <4>2. Db' = Db /\ Db = goal
        BY <1>1, <4>1, ExactFromInv DEF EndUnwind, UndoIsExact, Db
      <4>3. QED
        BY <1>1, <4>2 DEF DiagnosticsAgree
    <3>3. QED
      BY <3>1, <3>2
  <2>2. Agree(stmt_base')
    BY <1>1, <2>0 DEF StmtBaseStep, DiagnosticsAgree, UndoInv, GoalInv
  <2>3. ASSUME NEW i \in 1..Len(base') PROVE Agree(base'[i])
    <3>1. CASE Len(transactions') > Len(transactions)
      <4>1. base' = Append(base, Db')
        BY <2>0, <3>1 DEF BaseStep
      <4>2. CASE i \in 1..Len(base)
        BY <1>1, <2>0, <4>1, <4>2 DEF DiagnosticsAgree
      <4>3. CASE i = Len(base) + 1
        <5>1. phase' # "unwinding"
          BY <2>0, <3>1 DEF StepKind, EndUnwind
        <5>2. QED
          BY <2>0, <2>1, <4>1, <4>3, <5>1
      <4>4. QED
        BY <2>0, <3>1, <4>1, <4>2, <4>3
    <3>2. CASE ~(Len(transactions') > Len(transactions)) /\ phase = "releasing"
      <4>1. base' = [j \in 1..Len(transactions') |->
                        IF j <= unwind.depth THEN base[j] ELSE base[j + 1]]
        BY <2>0, <3>2 DEF BaseStep
      <4>2. i \in 1..Len(base) /\ (i <= unwind.depth \/ i + 1 \in 1..Len(base))
        BY <2>0, <3>2 DEF StepKind, EndUnwind
      <4>3. i \in 1..Len(transactions')
        BY <2>0
      <4>4. QED
        BY <1>1, <4>1, <4>2, <4>3 DEF DiagnosticsAgree
    <3>3. CASE ~(Len(transactions') > Len(transactions)) /\ phase # "releasing"
      <4>1. base' = SubSeq(base, 1, Len(transactions')) /\ Len(transactions') \in 0..Len(base)
        BY <2>0, <3>3 DEF BaseStep
      <4>2. i \in 1..Len(base) /\ base'[i] = base[i]
        BY <2>0, <4>1, PrefixProperties
      <4>3. QED
        BY <1>1, <4>2 DEF DiagnosticsAgree
    <3>4. QED
      BY <3>1, <3>2, <3>3
  <2>4. Agree(goal')
    <3>1. CASE phase' # "unwinding"
      BY <2>0, <2>1, <3>1 DEF GoalStep
    <3>2. CASE phase' = "unwinding" /\ phase = "unwinding"
      BY <1>1, <2>0, <3>2 DEF GoalStep, DiagnosticsAgree
    <3>3. CASE phase' = "unwinding" /\ phase # "unwinding"
      <4>1. UNCHANGED <<slots, graph, transactions>> /\ Agree(Db)
        BY <1>1, <2>0, <3>3 DEF StepKind, EndUnwind, UndoInv, GoalInv, DiagnosticsAgree
      <4>2. unwind'.depth > 0 => unwind'.depth \in 1..Len(base)
        BY <1>1, <2>0, <3>3, <4>1 DEF UndoInv, EngineInv, PhaseInv
      <4>3. InTransaction => 1 \in 1..Len(base)
        BY <1>1, <2>0 DEF InTransaction, UndoInv, EngineInv, TypeOK
      <4>4. QED
        BY <1>1, <2>0, <3>3, <4>1, <4>2, <4>3 DEF GoalStep, DiagnosticsAgree
    <3>4. QED
      BY <3>1, <3>2, <3>3
  <2>5. QED
    BY <2>2, <2>3, <2>4 DEF DiagnosticsAgree
<1>2. ASSUME DiagnosticsAgree, UNCHANGED hvars PROVE DiagnosticsAgree'
  BY <1>2 DEF hvars, DiagnosticsAgree, Agree
<1>3. QED
  BY <1>1, <1>2

LEMMA InitDiagnosticsAgree == HInit => DiagnosticsAgree
<1> SUFFICES ASSUME HInit PROVE DiagnosticsAgree
  OBVIOUS
<1>1. PICK catalog \in [CatalogSlots -> CatalogValues],
           evidence \in {{}} \cup {{code} : code \in Codes} :
         slots = [s \in Slots |->
                     IF s = "evidence" THEN evidence
                     ELSE IF s = "confidence"
                     THEN IF evidence = {} THEN Exact ELSE Tainted
                     ELSE catalog[s]]
  BY DEF HInit, Init
<1>2. /\ slots["evidence"] = evidence
      /\ slots["confidence"] = IF evidence = {} THEN Exact ELSE Tainted
  BY <1>1 DEF Slots
<1>3. Agree(Db)
  BY <1>2, SlotsAssumption DEF Agree, Db
<1>4. QED
  BY <1>3 DEF HInit, DiagnosticsAgree

(* Between undo steps the confidence is Tainted exactly when there is         *)
(* evidence for it: record_evidence saves the two in separate entries, the    *)
(* confidence only when it changes, and still no undo can part them.          *)
THEOREM ConfidenceFollowsEvidence == HSpec => []ConfidenceHasEvidence
<1>1. HSpec => [](UndoInv /\ DiagnosticsAgree)
  BY InitUndoInv, StepUndoInv, InitDiagnosticsAgree, StepDiagnosticsAgree, PTL DEF HSpec
<1>2. QED
  BY <1>1, ConfidenceFromAgree, PTL

------------------------------------------------------------------------------
(* The refinement: the initial states map to an initial state and every    *)
(* step to a step of PgTransaction, or changes nothing of it.              *)

(* What PgTransaction sees of the engine. *)
Aborted == transaction_aborted /\ unwind.reason # "rollback"

Running == (left > 0 /\ ~failed) \/ phase = "committing"

Before == [catalog |-> CatalogOf(stmt_base), diagnostics |-> DiagnosticsOf(stmt_base)]

SavedFrame(name, d) ==
    [name |-> name, catalog |-> CatalogOf(d), diagnostics |-> DiagnosticsOf(d)]

LEMMA StackIs ==
    AbstractStack = [i \in 1..Depth |-> SavedFrame(transactions[i].name, base[i])]
BY DEF AbstractStack, SavedFrame

LEMMA DepthTyped ==
    ASSUME EngineInv
    PROVE  Depth \in Nat /\ Len(transactions) \in Nat /\ Depth <= Len(transactions)
BY DEF EngineInv, TypeOK, PhaseInv, Depth

LEMMA StackTyped ==
    ASSUME EngineInv
    PROVE  /\ AbstractStack \in Seq({AbstractStack[i] : i \in 1..Depth})
           /\ Len(AbstractStack) = Depth
           /\ \A i \in 1..Depth : AbstractStack[i] = SavedFrame(transactions[i].name, base[i])
           /\ AbstractStack = <<>> <=> Depth = 0
<1>1. Depth \in Nat
  BY DepthTyped
<1>2. AbstractStack \in [1..Depth -> {AbstractStack[i] : i \in 1..Depth}]
  BY StackIs
<1>3. AbstractStack \in Seq({AbstractStack[i] : i \in 1..Depth}) /\ Len(AbstractStack) = Depth
  BY <1>1, <1>2, IsASeq, LenProperties
<1>4. \A i \in 1..Depth : AbstractStack[i] = SavedFrame(transactions[i].name, base[i])
  BY StackIs
<1>5. AbstractStack = <<>> <=> Depth = 0
  BY <1>3, EmptySeq
<1>6. QED
  BY <1>3, <1>4, <1>5

(* The stack is the same when its depth, its names and its copies are. *)
LEMMA StackSame ==
    ASSUME Depth' = Depth,
           \A i \in 1..Depth : transactions'[i].name = transactions[i].name /\ base'[i] = base[i]
    PROVE  AbstractStack' = AbstractStack
<1>1. AbstractStack' = [i \in 1..Depth' |-> SavedFrame(transactions'[i].name, base'[i])]
  BY DEF AbstractStack, SavedFrame
<1>2. QED
  BY <1>1, StackIs

(* A step that leaves all of them alone is a stuttering step. *)
LEMMA Stutters ==
    ASSUME goal' = goal, AbstractStack' = AbstractStack, Aborted' = Aborted,
           Running' = Running, stmt_base' = stmt_base
    PROVE  UNCHANGED Pg!vars
BY DEF Pg!vars, Aborted, Running, Before, CatalogOf, DiagnosticsOf

LEMMA InitRefines == HInit => Pg!Init
<1> SUFFICES ASSUME HInit PROVE Pg!Init
  OBVIOUS
<1>1. AbstractStack = <<>>
  <2>1. Depth = 0
    BY DEF HInit, Init, Depth
  <2>2. EngineInv
    BY InitEngineInv DEF HInit
  <2>3. QED
    BY <2>1, <2>2, StackTyped
<1>2. QED
  BY <1>1 DEF HInit, Init, Pg!Init, Pg!Copy, Aborted, Running

(* Handlers change neither the engine nor the shape of the stack. *)
LEMMA MutateFrame ==
    ASSUME EngineInv, Mutate
    PROVE  /\ phase \in {"mutating", "evaluating", "committing"}
           /\ UNCHANGED <<transaction_aborted, phase, left, failed, unwind>>
           /\ Len(transactions') = Len(transactions)
           /\ \A i \in 1..Len(transactions) : transactions'[i].name = transactions[i].name
<1>0. transactions \in Seq(Frames) /\ TypeOK
  BY DEF EngineInv, TypeOK
<1>1. ASSUME NEW entries \in Seq(StateChanges), transactions' = Pushed(entries)
      PROVE  /\ Len(transactions') = Len(transactions)
             /\ \A i \in 1..Len(transactions) : transactions'[i].name = transactions[i].name
  BY <1>0, <1>1, PushedFacts
<1>2. ASSUME NEW entry \in StateChanges, NEW covers, Snapshot(entry, covers)
      PROVE  /\ Len(transactions') = Len(transactions)
             /\ \A i \in 1..Len(transactions) : transactions'[i].name = transactions[i].name
  <2>1. <<entry>> \in Seq(StateChanges)
    OBVIOUS
  <2>2. QED
    BY <1>1, <1>2, <2>1 DEF Snapshot
<1>3. ASSUME NEW code \in Codes, Taint(code)
      PROVE  /\ Len(transactions') = Len(transactions)
             /\ \A i \in 1..Len(transactions) : transactions'[i].name = transactions[i].name
  <2> DEFINE evidence == SlotSnapshot("evidence", slots["evidence"])
             confidence == SlotSnapshot("confidence", slots["confidence"])
             entries == IF slots["confidence"] = Tainted THEN <<evidence>>
                        ELSE <<evidence, confidence>>
  <2>1. evidence \in StateChanges /\ confidence \in StateChanges
    BY <1>0, EntriesTyped DEF Slots
  <2>2. entries \in Seq(StateChanges)
    BY <2>1
  <2>3. transactions' = Pushed(entries)
    BY <1>3 DEF Taint
  <2> HIDE DEF entries
  <2>4. QED
    BY <1>1, <2>2, <2>3
<1>4. /\ Len(transactions') = Len(transactions)
      /\ \A i \in 1..Len(transactions) : transactions'[i].name = transactions[i].name
  <2>1. CASE \E s \in CatalogSlots : SnapshotSlot(s)
    BY <1>0, <1>2, <2>1, EntriesTyped DEF SnapshotSlot, Slots
  <2>2. CASE SnapshotNamespace \/ SnapshotGraph \/ SnapshotGraphFull
    BY <1>0, <1>2, <2>2, EntriesTyped DEF SnapshotNamespace, SnapshotGraph, SnapshotGraphFull
  <2>3. QED
    BY <1>3, <2>1, <2>2 DEF Mutate, WriteSlot, AddEdge, RewriteEdges
<1>5. /\ phase \in {"mutating", "evaluating", "committing"}
      /\ UNCHANGED <<transaction_aborted, phase, left, failed, unwind>>
  BY DEF Mutate, SnapshotSlot, SnapshotNamespace, SnapshotGraph, SnapshotGraphFull, Snapshot,
     WriteSlot, AddEdge, RewriteEdges, Taint, Mutating
<1>6. QED
  BY <1>4, <1>5

(* While a statement or a COMMIT is at work it runs and is not aborted. *)
LEMMA MutatingRuns ==
    ASSUME EngineInv, Mutating
    PROVE  ~Aborted /\ Running
BY DEF EngineInv, Mutating, PhaseInv, Aborted, Running

(* A change of the state maps to Change, evidence to Diagnose, a snapshot to
   nothing. *)
LEMMA MutateRefines ==
    ASSUME UndoInv, UndoInv', HistoryStep, Mutate
    PROVE  [Pg!Next]_Pg!vars
<1> USE DEF UndoInv, HistoryStep
<1>1. /\ phase \in {"mutating", "evaluating", "committing"}
      /\ UNCHANGED <<transaction_aborted, phase, left, failed, unwind>>
      /\ Len(transactions') = Len(transactions)
      /\ \A i \in 1..Len(transactions) : transactions'[i].name = transactions[i].name
  BY MutateFrame
<1>2. base' = base /\ stmt_base' = stmt_base /\ goal = Db /\ goal' = Db'
  BY <1>1, BaseKept
  DEF HistoryTyped, LogsRestore, EngineInv, TypeOK, StmtBaseStep, GoalStep, GoalInv
<1>3. AbstractStack' = AbstractStack
  BY <1>1, <1>2, StackSame DEF Depth
<1>4. Aborted' = Aborted /\ Running' = Running
  BY <1>1 DEF Aborted, Running
<1>5. Db.slots = slots /\ Db.graph = graph /\ Db'.slots = slots' /\ Db'.graph = graph'
      /\ slots \in SlotStates
  BY DEF Db, EngineInv, TypeOK
<1>6. ASSUME UNCHANGED <<slots, graph>> PROVE UNCHANGED Pg!vars
  BY <1>2, <1>3, <1>4, <1>6, Stutters DEF Db
<1>7. ASSUME Mutating, slots'["evidence"] = slots["evidence"] PROVE Pg!Change
  <2>1. ~Aborted /\ Running
    BY <1>7, MutatingRuns
  <2>2. DiagnosticsOf(goal)[1] = slots["evidence"] /\ DiagnosticsOf(goal')[1] = slots'["evidence"]
    BY <1>2, <1>5 DEF DiagnosticsOf
  <2>3. QED
    BY <1>2, <1>3, <1>4, <1>7, <2>1, <2>2
    DEF Pg!Change, Pg!MoreEvidence, Aborted, Running, CatalogOf, DiagnosticsOf
<1>8. ASSUME NEW s \in CatalogSlots, NEW v \in CatalogValues, WriteSlot(s, v) PROVE Pg!Change
  <2>1. slots'["evidence"] = slots["evidence"]
    BY <1>5, <1>8, SlotsAssumption DEF WriteSlot, SlotStates
  <2>2. QED
    BY <1>7, <1>8, <2>1 DEF WriteSlot
<1>9. ASSUME NEW code \in Codes, Taint(code) PROVE Pg!Diagnose
  <2>1. /\ slots' = [slots EXCEPT !["evidence"] = @ \cup {code}, !["confidence"] = Tainted]
        /\ graph' = graph
    BY <1>9 DEF Taint
  <2>2. slots["evidence"] \subseteq slots'["evidence"]
    BY <1>5, <2>1 DEF SlotStates, Slots
  <2>3. \A s \in CatalogSlots : slots'[s] = slots[s]
    BY <1>5, <2>1, SlotsAssumption DEF SlotStates, Slots
  <2>4. CatalogOf(goal') = CatalogOf(goal)
    BY <1>2, <1>5, <2>1, <2>3 DEF CatalogOf
  <2>5. DiagnosticsOf(goal)[1] \subseteq DiagnosticsOf(goal')[1]
    BY <1>2, <1>5, <2>2 DEF DiagnosticsOf
  <2>6. QED
    BY <1>2, <1>3, <1>4, <2>4, <2>5
    DEF Pg!Diagnose, Pg!MoreEvidence, Aborted, Running, CatalogOf, DiagnosticsOf
<1>10. CASE \/ \E s \in CatalogSlots : SnapshotSlot(s)
            \/ SnapshotNamespace \/ SnapshotGraph \/ SnapshotGraphFull
  BY <1>6, <1>10 DEF SnapshotSlot, SnapshotNamespace, SnapshotGraph, SnapshotGraphFull, Snapshot
<1>11. CASE \E e \in Edges : AddEdge(e)
  BY <1>7, <1>11 DEF AddEdge, Pg!Next
<1>12. CASE \E n \in 0..Len(graph) : \E g \in [1..n -> Edges] : RewriteEdges(g)
  BY <1>7, <1>12 DEF RewriteEdges, Pg!Next
<1>13. QED
  BY <1>8, <1>9, <1>10, <1>11, <1>12 DEF Mutate, Pg!Next

(* The frames as they were, and with them the stack. *)
LEMMA QuietStack ==
    ASSUME UndoInv, HistoryStep, UNCHANGED transactions, phase # "releasing"
    PROVE  /\ base' = base
           /\ Depth' = Depth => AbstractStack' = AbstractStack
<1>1. base' = base
  BY BaseKept DEF UndoInv, HistoryStep, HistoryTyped, LogsRestore, EngineInv, TypeOK
<1>2. QED
  BY <1>1, StackSame

(* The statement loop: its start, its failure and its end are those of the
   abstract statement. *)
LEMMA StatementRefines ==
    ASSUME UndoInv, UndoInv', HistoryStep, RunStatement
    PROVE  [Pg!Next]_Pg!vars
<1> USE DEF UndoInv, HistoryStep
<1>0. phase \in {"idle", "mutating", "evaluating"} /\ UNCHANGED transactions
      /\ goal = Db /\ unwind.reason = "none"
  BY DEF RunStatement, StartStatement, EndMutation, ConflictOutside, ConflictInside,
     NextMutation, EndStatement, GoalInv, EngineInv, PhaseInv
<1>1. base' = base /\ (Depth' = Depth => AbstractStack' = AbstractStack)
  BY <1>0, QuietStack
<1>2. phase' \notin {"unwinding", "releasing"} => AbstractStack' = AbstractStack
  BY <1>0, <1>1 DEF Depth
<1>3. phase' # "unwinding" => goal' = Db'
  BY DEF GoalStep
<1>4. ASSUME UNCHANGED <<slots, graph>> PROVE Db' = Db
  BY <1>4 DEF Db
<1>5. ASSUME NEW n \in 1..MaxMutations, StartStatement(n) PROVE Pg!StartStatement
  <2>1. /\ phase = "idle" /\ ~transaction_aborted /\ phase' = "mutating" /\ left' = n
        /\ failed' = FALSE /\ UNCHANGED <<slots, graph, transaction_aborted, unwind>>
    BY <1>5 DEF StartStatement
  <2>2. n > 0 /\ left = 0
    BY <2>1 DEF EngineInv, PhaseInv
  <2>3. stmt_base' = goal /\ goal' = goal
    BY <1>0, <1>3, <1>4, <2>1 DEF StmtBaseStep
  <2>4. ~Running /\ Running' = TRUE /\ ~Aborted /\ ~Aborted'
    BY <2>1, <2>2 DEF Running, Aborted
  <2>5. QED
    BY <1>2, <2>1, <2>3, <2>4
    DEF Pg!StartStatement, Pg!Copy, Running, Aborted, CatalogOf, DiagnosticsOf
<1>6. CASE EndMutation
  <2>1. /\ phase = "mutating" /\ phase' = "evaluating"
        /\ UNCHANGED <<slots, graph, transaction_aborted, left, failed, unwind>>
    BY <1>6 DEF EndMutation
  <2>2. QED
    BY <1>0, <1>2, <1>3, <1>4, <2>1, Stutters DEF StmtBaseStep, Aborted, Running
<1>7. CASE ConflictOutside
  <2>1. /\ phase = "mutating" /\ ~InTransaction /\ phase' = "evaluating" /\ failed' = TRUE
        /\ slots' = checkpoint.slots /\ graph' = checkpoint.graph
        /\ UNCHANGED <<transaction_aborted, unwind>>
    BY <1>7 DEF ConflictOutside
  <2>2. checkpoint.kind = "full"
    BY <2>1 DEF EngineInv, PhaseInv, CheckpointUsable, TypeOK, Checkpoints
  <2>3. goal' = stmt_base /\ stmt_base' = stmt_base
    BY <1>3, <2>1, <2>2 DEF LogsRestore, Db, StmtBaseStep
  <2>4. ~Aborted /\ Running /\ Running' = FALSE /\ Aborted' = FALSE
    BY <2>1, MutatingRuns DEF Mutating, Running, Aborted
  <2>5. AbstractStack = <<>> /\ AbstractStack' = AbstractStack
    <3>1. Depth = 0
      BY <2>1 DEF Depth, InTransaction
    <3>2. QED
      BY <1>2, <2>1, <3>1, StackTyped
  <2>6. Pg!FailStatement
    BY <2>3, <2>4, <2>5
    DEF Pg!FailStatement, Pg!Restore, Running, Aborted, CatalogOf, DiagnosticsOf
  <2>7. QED
    BY <2>6 DEF Pg!Next
<1>8. CASE ConflictInside
  <2>1. /\ phase = "mutating" /\ InTransaction /\ phase' = "unwinding" /\ failed' = TRUE
        /\ transaction_aborted' = TRUE /\ unwind'.reason = "statement"
        /\ unwind'.depth = checkpoint.depth
    BY <1>8 DEF ConflictInside
  <2>2. checkpoint.kind = "undo" /\ checkpoint.depth = Len(transactions)
        /\ Len(transactions) \in Nat /\ Len(transactions) # 0
    BY <2>1, MutatingCheckpoint DEF EngineInv, CheckpointUsable, TypeOK, InTransaction
  <2>3. goal' = stmt_base /\ stmt_base' = stmt_base
    BY <2>1 DEF GoalStep, StmtBaseStep
  <2>4. ~Aborted /\ Running /\ Running' = FALSE /\ Aborted' = TRUE
    BY <2>1, MutatingRuns DEF Mutating, Running, Aborted
  <2>5. AbstractStack # <<>> /\ AbstractStack' = AbstractStack
    <3>1. Depth = Len(transactions) /\ Depth' = Depth
      BY <1>0, <2>1, <2>2 DEF Depth
    <3>2. QED
      BY <1>1, <2>2, <3>1, StackTyped
  <2>6. Pg!FailStatement
    BY <2>3, <2>4, <2>5
    DEF Pg!FailStatement, Pg!Restore, Running, Aborted, CatalogOf, DiagnosticsOf
  <2>7. QED
    BY <2>6 DEF Pg!Next
<1>9. CASE NextMutation
  <2>1. /\ phase = "evaluating" /\ left > 1 /\ ~failed /\ phase' = "mutating" /\ left' = left - 1
        /\ UNCHANGED <<slots, graph, transaction_aborted, failed, unwind>> /\ left \in Nat
    BY <1>9 DEF NextMutation, EngineInv, TypeOK
  <2>2. Running' = Running
    BY <2>1 DEF Running
  <2>3. QED
    BY <1>0, <1>2, <1>3, <1>4, <2>1, <2>2, Stutters DEF StmtBaseStep, Aborted
<1>10. CASE EndStatement
  <2>1. /\ phase = "evaluating" /\ (left <= 1 \/ failed) /\ left' = 0 /\ failed' = FALSE
        /\ phase' = IF ~failed /\ left = 1 /\ ~InTransaction THEN "committing" ELSE "idle"
        /\ UNCHANGED <<slots, graph, transaction_aborted, unwind>> /\ left \in Nat
    BY <1>10 DEF EndStatement, EngineInv, TypeOK
  <2>2. goal' = goal /\ AbstractStack' = AbstractStack /\ stmt_base' = stmt_base
        /\ Aborted' = Aborted
    BY <1>0, <1>2, <1>3, <1>4, <2>1 DEF StmtBaseStep, Aborted
  <2>3. CASE Running' = Running
    BY <2>2, <2>3, Stutters
  <2>4. CASE Running' # Running
    <3>1. Running /\ Running' = FALSE
      BY <2>1, <2>4 DEF Running
    <3>2. Pg!EndStatement
      BY <2>2, <3>1 DEF Pg!EndStatement, Running, Aborted, CatalogOf, DiagnosticsOf
    <3>3. QED
      BY <3>2 DEF Pg!Next
  <2>5. QED
    BY <2>3, <2>4
<1>11. QED
  BY <1>5, <1>6, <1>7, <1>8, <1>9, <1>10 DEF RunStatement, Pg!Next

(* A frame opened is the whole state saved. *)
LEMMA OpenStack ==
    ASSUME UndoInv, UndoInv', HistoryStep, UNCHANGED <<slots, graph>>,
           NEW name, transactions' = Append(transactions, Frame(name)),
           Depth = Len(transactions), Depth' = Len(transactions')
    PROVE  /\ AbstractStack' = Append(AbstractStack, SavedFrame(name, Db))
           /\ AbstractStack = <<>> => AbstractStack' = <<SavedFrame(name, Db)>>
<1> USE DEF UndoInv, HistoryStep
<1> DEFINE n == Len(transactions)
           new == SavedFrame(name, Db)
<1>1. /\ n \in Nat /\ transactions \in Seq(Frames) /\ Len(base) = n /\ base \in Seq(Copies)
  BY DEF EngineInv, TypeOK, HistoryTyped, LogsRestore
<1>2. /\ Len(transactions') = n + 1 /\ transactions'[n + 1] = Frame(name)
      /\ \A i \in 1..n : transactions'[i] = transactions[i]
  BY <1>1
<1>3. Db' = Db
  BY DEF Db
<1>4. base' = Append(base, Db)
  BY <1>1, <1>2, <1>3, BasePushed
<1>5. base'[n + 1] = Db /\ \A i \in 1..n : base'[i] = base[i]
  BY <1>1, <1>4
<1>6. AbstractStack' = [i \in 1..(n + 1) |-> SavedFrame(transactions'[i].name, base'[i])]
  BY <1>2 DEF AbstractStack, SavedFrame
<1>7. Frame(name).name = name
  BY DEF Frame
<1>8. AbstractStack' = [i \in 1..(n + 1) |->
          IF i <= n THEN SavedFrame(transactions[i].name, base[i]) ELSE new]
  <2>1. ASSUME NEW i \in 1..(n + 1)
        PROVE  SavedFrame(transactions'[i].name, base'[i])
                 = IF i <= n THEN SavedFrame(transactions[i].name, base[i]) ELSE new
    <3>1. CASE i <= n
      BY <1>1, <1>2, <1>5, <3>1
    <3>2. CASE ~(i <= n)
      <4>1. i = n + 1
        BY <1>1, <3>2
      <4>2. QED
        BY <1>2, <1>5, <1>7, <3>2, <4>1
    <3>3. QED
      BY <3>1, <3>2
  <2>2. QED
    BY <1>6, <2>1
<1>9. /\ AbstractStack \in Seq({AbstractStack[i] : i \in 1..n}) /\ Len(AbstractStack) = n
      /\ \A i \in 1..n : AbstractStack[i] = SavedFrame(transactions[i].name, base[i])
      /\ AbstractStack = <<>> <=> n = 0
  BY StackTyped
<1> DEFINE S == {AbstractStack[i] : i \in 1..n} \cup {new}
<1> HIDE DEF new
<1>10. AbstractStack \in Seq(S) /\ new \in S
  <2>1. \A i \in 1..n : AbstractStack[i] \in S
    OBVIOUS
  <2>2. AbstractStack \in [1..n -> S]
    BY <2>1, StackIs
  <2>3. QED
    BY <1>1, <2>2, IsASeq
<1> HIDE DEF S
<1>11. /\ Append(AbstractStack, new) \in Seq(S)
       /\ Len(Append(AbstractStack, new)) = n + 1
       /\ \A i \in 1..n : Append(AbstractStack, new)[i] = AbstractStack[i]
       /\ Append(AbstractStack, new)[n + 1] = new
  BY <1>9, <1>10, AppendProperties
<1>12. AbstractStack' \in Seq(S) /\ Len(AbstractStack') = n + 1
  <2>1. \A i \in 1..n : SavedFrame(transactions[i].name, base[i]) \in S
    BY <1>9 DEF S
  <2>2. AbstractStack' \in [1..(n + 1) -> S]
    BY <1>1, <1>8, <1>10, <2>1
  <2>3. n + 1 \in Nat
    BY <1>1
  <2>4. QED
    BY <2>2, <2>3, IsASeq, LenProperties
<1>13. \A i \in 1..(n + 1) : AbstractStack'[i] = Append(AbstractStack, new)[i]
  <2> SUFFICES ASSUME NEW i \in 1..(n + 1)
               PROVE  AbstractStack'[i] = Append(AbstractStack, new)[i]
    OBVIOUS
  <2>1. CASE i <= n
    BY <1>1, <1>8, <1>9, <1>11, <2>1
  <2>2. CASE ~(i <= n)
    <3>1. i = n + 1
      BY <1>1, <2>2
    <3>2. QED
      BY <1>8, <1>11, <2>2, <3>1
  <2>3. QED
    BY <2>1, <2>2
<1>14. AbstractStack' = Append(AbstractStack, new)
  BY <1>11, <1>12, <1>13, SeqEqual
<1>15. AbstractStack = <<>> => AbstractStack' = <<new>>
  BY <1>14
<1>16. QED
  BY <1>14, <1>15 DEF new

(* An undo or a release that starts cuts the stack at its target. *)
LEMMA CutStack ==
    ASSUME EngineInv, transactions' = transactions, base' = base,
           Depth' \in 0..Depth
    PROVE  AbstractStack' = SubSeq(AbstractStack, 1, Depth')
<1> DEFINE S == {AbstractStack[i] : i \in 1..Depth}
           p == Depth'
<1>1. AbstractStack \in Seq(S) /\ Len(AbstractStack) = Depth /\ Depth \in Nat
      /\ \A i \in 1..Depth : AbstractStack[i] = SavedFrame(transactions[i].name, base[i])
  BY StackTyped, DepthTyped
<1>2. AbstractStack' = [i \in 1..p |-> SavedFrame(transactions[i].name, base[i])]
  BY DEF AbstractStack, SavedFrame
<1> HIDE DEF S, p
<1>3. p \in 0..Depth /\ p \in Nat
  BY <1>1 DEF p
<1>4. SubSeq(AbstractStack, 1, p) = [i \in 1..p |-> AbstractStack[i]]
  BY <1>1, <1>3
<1>5. [i \in 1..p |-> AbstractStack[i]]
        = [i \in 1..p |-> SavedFrame(transactions[i].name, base[i])]
  BY <1>1, <1>3
<1>6. QED
  BY <1>2, <1>4, <1>5 DEF p

(* Between statements the stack is all there is. *)
LEMMA IdleStack ==
    ASSUME UndoInv, phase = "idle"
    PROVE  /\ Depth = Len(transactions) /\ Len(transactions) \in Nat
           /\ goal = Db /\ left = 0 /\ ~Running /\ Aborted = transaction_aborted
           /\ unwind.reason = "none"
           /\ AbstractStack = <<>> <=> ~InTransaction
           /\ transaction_aborted => InTransaction
<1>1. /\ Depth = Len(transactions) /\ Len(transactions) \in Nat
      /\ goal = Db /\ left = 0 /\ unwind.reason = "none"
  BY DEF Depth, UndoInv, EngineInv, TypeOK, PhaseInv, GoalInv
<1>2. ~Running /\ Aborted = transaction_aborted
  BY <1>1 DEF Running, Aborted, UndoInv, EngineInv, TypeOK
<1>3. transactions = <<>> <=> Len(transactions) = 0
  BY EmptySeq DEF UndoInv, EngineInv, TypeOK
<1>4. AbstractStack = <<>> <=> ~InTransaction
  BY <1>1, <1>3, StackTyped DEF UndoInv, InTransaction
<1>5. transaction_aborted => InTransaction
  BY <1>1 DEF UndoInv, EngineInv, StackShape
<1>6. QED
  BY <1>1, <1>2, <1>4, <1>5

(* ROLLBACK and ROLLBACK TO are done, for PgTransaction, when the undo loop
   starts. *)
LEMMA StartUnwindStack ==
    ASSUME UndoInv, HistoryStep, phase = "idle", NEW d \in 0..Len(transactions), NEW chain,
           StartUnwind(d, chain)
    PROVE  /\ AbstractStack' = SubSeq(AbstractStack, 1, d)
           /\ goal' = IF d > 0 THEN base[d] ELSE IF InTransaction THEN base[1] ELSE Db
           /\ ~Aborted' /\ ~Running' /\ stmt_base' = stmt_base
<1> USE DEF UndoInv, HistoryStep
<1>1. /\ phase' = "unwinding" /\ failed' = FALSE /\ left' = left
      /\ unwind' = [reason |-> "rollback", depth |-> d, len |-> 0, chain |-> chain]
      /\ UNCHANGED <<slots, graph, transactions, transaction_aborted>>
  BY DEF StartUnwind
<1>2. base' = base
  BY <1>1, QuietStack
<1>3. Depth' = d
  BY <1>1 DEF Depth
<1>4. AbstractStack' = SubSeq(AbstractStack, 1, d)
  BY <1>1, <1>2, <1>3, IdleStack, CutStack
<1>5. goal' = IF d > 0 THEN base[d] ELSE IF InTransaction THEN base[1] ELSE Db
  BY <1>1 DEF GoalStep
<1>6. ~Aborted' /\ ~Running' /\ stmt_base' = stmt_base
  BY <1>1, IdleStack DEF Aborted, Running, StmtBaseStep
<1>7. QED
  BY <1>4, <1>5, <1>6

LEMMA RollbackRefines ==
    ASSUME UndoInv, HistoryStep, phase = "idle", NEW chain, StartUnwind(0, chain)
    PROVE  [Pg!Next]_Pg!vars
<1>1. /\ Depth = Len(transactions) /\ Len(transactions) \in Nat /\ goal = Db
      /\ ~Running /\ (AbstractStack = <<>> <=> ~InTransaction)
      /\ Aborted = transaction_aborted /\ (transaction_aborted => InTransaction)
  BY IdleStack
<1>2. /\ AbstractStack' = SubSeq(AbstractStack, 1, 0)
      /\ goal' = IF InTransaction THEN base[1] ELSE Db
      /\ ~Aborted' /\ ~Running' /\ stmt_base' = stmt_base
  BY <1>1, StartUnwindStack
<1>3. AbstractStack \in Seq({AbstractStack[i] : i \in 1..Depth})
      /\ \A i \in 1..Depth : AbstractStack[i] = SavedFrame(transactions[i].name, base[i])
  BY StackTyped DEF UndoInv
<1>4. AbstractStack' = <<>>
  <2>1. SubSeq(AbstractStack, 1, 0) = <<>>
    BY <1>3
  <2>2. QED
    BY <1>2, <2>1
<1>5. CASE InTransaction
  <2>1. 1 \in 1..Depth
    BY <1>1, <1>5, EmptySeq DEF InTransaction, UndoInv, EngineInv, TypeOK
  <2>2. AbstractStack[1].catalog = CatalogOf(goal')
        /\ AbstractStack[1].diagnostics = DiagnosticsOf(goal')
    <3>1. goal' = base[1] /\ AbstractStack[1] = SavedFrame(transactions[1].name, base[1])
      BY <1>2, <1>3, <1>5, <2>1
    <3>2. SavedFrame(transactions[1].name, base[1]).catalog = CatalogOf(base[1])
          /\ SavedFrame(transactions[1].name, base[1]).diagnostics = DiagnosticsOf(base[1])
      BY DEF SavedFrame
    <3>3. QED
      BY <3>1, <3>2 DEF CatalogOf, DiagnosticsOf
  <2>3. Aborted' = FALSE /\ Running' = Running
    <3>1. ~Aborted' /\ ~Running' /\ ~Running
      BY <1>1, <1>2
    <3>2. Aborted' \in BOOLEAN /\ Running' \in BOOLEAN /\ Running \in BOOLEAN
      BY DEF Aborted, Running
    <3>3. QED
      BY <3>1, <3>2
  <2>4. Pg!Rollback
    BY <1>1, <1>2, <1>4, <1>5, <2>2, <2>3
    DEF Pg!Rollback, Pg!Restore, Aborted, Running, CatalogOf, DiagnosticsOf
  <2>5. QED
    BY <2>4 DEF Pg!Next
<1>6. CASE ~InTransaction
  <2>1. Aborted' = Aborted /\ Running' = Running
    BY <1>1, <1>2, <1>6 DEF Aborted, Running
  <2>2. QED
    BY <1>1, <1>2, <1>4, <1>6, <2>1, Stutters
<1>7. QED
  BY <1>5, <1>6

(* rposition finds the frame that PgTransaction calls the newest. *)
LEMMA PositionIsNewest ==
    ASSUME UndoInv, phase = "idle", NEW name, NEW p, IsPosition(p, name)
    PROVE  Pg!Newest(p, name) /\ p \in 1..Depth
<1>1. Depth = Len(transactions) /\ Len(transactions) \in Nat
  BY IdleStack
<1>2. Len(AbstractStack) = Depth
      /\ \A i \in 1..Depth : AbstractStack[i] = SavedFrame(transactions[i].name, base[i])
  BY StackTyped DEF UndoInv
<1>3. \A i \in 1..Depth : AbstractStack[i].name = transactions[i].name
  BY <1>2 DEF SavedFrame
<1>4. p \in 1..Depth /\ transactions[p].name = name
      /\ \A q \in 1..Depth : transactions[q].name = name => q <= p
  BY <1>1 DEF IsPosition, Positions
<1>5. \A q \in (p + 1)..Depth : q \in 1..Depth /\ ~(q <= p)
  BY <1>1, <1>4
<1>6. QED
  BY <1>2, <1>3, <1>4, <1>5 DEF Pg!Newest
(* BEGIN, and the block that AND CHAIN opens after COMMIT or ROLLBACK. *)
LEMMA BeginRefines ==
    ASSUME UndoInv, UndoInv', HistoryStep,
           phase' = "evaluating", UNCHANGED <<slots, graph>>,
           transactions = <<>>, transactions' = <<Frame(Root)>>,
           goal = Db, ~Aborted, AbstractStack = <<>>, Depth = 0,
           left' = 0, transaction_aborted' = FALSE
    PROVE  Pg!Begin
<1>1. transactions' = Append(transactions, Frame(Root)) /\ Len(transactions) = 0
      /\ Depth' = Len(transactions')
  BY DEF Depth
<1>2. AbstractStack' = <<SavedFrame(Root, Db)>>
  BY <1>1, OpenStack
<1>3. goal' = goal /\ stmt_base' = stmt_base /\ Running' = FALSE /\ Aborted' = FALSE
  BY DEF HistoryStep, GoalStep, StmtBaseStep, Db, Running, Aborted
<1>4. Aborted = FALSE
  BY DEF Aborted
<1>5. QED
  BY <1>2, <1>3, <1>4
  DEF Pg!Begin, Pg!Saved, SavedFrame, Aborted, Running, CatalogOf, DiagnosticsOf

(* Merging a released log changes neither the frames below nor their copies. *)
LEMMA ReleaseRefines ==
    ASSUME UndoInv, HistoryStep, ReleaseFrame
    PROVE  UNCHANGED Pg!vars
<1> USE DEF UndoInv, HistoryStep
<1> DEFINE n == Len(transactions)
           p == unwind.depth
           merged == [transactions[p] EXCEPT !.undo_log = @ \o transactions[p + 1].undo_log]
<1>1. /\ n \in Nat /\ p \in 1..(n - 1) /\ phase = "releasing" /\ transactions \in Seq(Frames)
      /\ transactions' = Merged(p) /\ UNCHANGED <<slots, graph, transaction_aborted, engine>>
  BY DEF ReleaseFrame, EngineInv, TypeOK, PhaseInv
<1>2. merged.name = transactions[p].name
  <2>1. transactions[p] \in Frames
    BY <1>1
  <2>2. QED
    BY <2>1 DEF Frames
<1>3. Merged(p)[p] = merged
  BY <1>1 DEF Merged
<1> HIDE DEF merged
<1>4. \A i \in 1..p : transactions'[i].name = transactions[i].name
  <2> SUFFICES ASSUME NEW i \in 1..p PROVE transactions'[i].name = transactions[i].name
    OBVIOUS
  <2>1. CASE i = p
    BY <1>1, <1>2, <1>3, <2>1
  <2>2. CASE i # p
    <3>1. i < p /\ i \in 1..(n - 1)
      BY <1>1, <2>2
    <3>2. QED
      BY <1>1, <3>1 DEF Merged
  <2>3. QED
    BY <2>1, <2>2
<1>5. Len(transactions') = n - 1
  <2>1. transactions' = [i \in 1..(n - 1) |-> transactions'[i]] /\ n - 1 \in Nat
    BY <1>1 DEF Merged
  <2> DEFINE S == {transactions'[i] : i \in 1..(n - 1)}
  <2>2. transactions' \in [1..(n - 1) -> S]
    BY <2>1
  <2> HIDE DEF S
  <2>3. QED
    BY <2>1, <2>2, IsASeq, LenProperties
<1>6. \A i \in 1..p : base'[i] = base[i]
  <2>1. base' = [i \in 1..(n - 1) |-> IF i <= p THEN base[i] ELSE base[i + 1]]
    BY <1>1, <1>5 DEF BaseStep
  <2>2. QED
    BY <1>1, <2>1
<1>7. AbstractStack' = AbstractStack
  BY <1>1, <1>4, <1>6, StackSame DEF Depth, engine
<1>8. goal' = goal /\ stmt_base' = stmt_base /\ Running' = Running /\ Aborted' = Aborted
  BY <1>1 DEF GoalInv, GoalStep, StmtBaseStep, Db, Running, Aborted, engine
<1>9. QED
  BY <1>7, <1>8, Stutters

(* Transaction control. *)
LEMMA ControlRefines ==
    ASSUME UndoInv, UndoInv', HistoryStep, ControlTransaction
    PROVE  [Pg!Next]_Pg!vars
<1> USE DEF UndoInv, HistoryStep
<1>1. ASSUME phase = "idle"
      PROVE  /\ Depth = Len(transactions) /\ Len(transactions) \in Nat /\ goal = Db
             /\ left = 0 /\ Running = FALSE /\ Aborted = transaction_aborted
             /\ unwind.reason = "none"
             /\ (AbstractStack = <<>> <=> ~InTransaction)
             /\ (transaction_aborted => InTransaction)
  <2>1. Running \in BOOLEAN
    BY DEF Running
  <2>2. QED
    BY <1>1, <2>1, IdleStack
<1>2. ASSUME phase = "idle", ControlConflict PROVE [Pg!Next]_Pg!vars
  <2>1. /\ phase' = "evaluating" /\ failed' = TRUE /\ transaction_aborted' = InTransaction
        /\ UNCHANGED <<slots, graph, transactions, left, unwind>>
    BY <1>2 DEF ControlConflict
  <2>2. AbstractStack' = AbstractStack
    BY <1>1, <1>2, <2>1, QuietStack DEF Depth
  <2>3. goal' = goal /\ stmt_base' = stmt_base /\ Running' = Running
        /\ Aborted' = InTransaction
    BY <1>1, <1>2, <2>1 DEF GoalStep, StmtBaseStep, Db, Running, Aborted, InTransaction
  <2>4. CASE InTransaction
    <3>1. Pg!FailControl
      BY <1>1, <1>2, <2>2, <2>3, <2>4
      DEF Pg!FailControl, Aborted, Running, CatalogOf, DiagnosticsOf
    <3>2. QED
      BY <3>1 DEF Pg!Next
  <2>5. CASE ~InTransaction
    <3>1. Aborted' = Aborted
      BY <1>1, <1>2, <2>3, <2>5 DEF Aborted, InTransaction, EngineInv, TypeOK
    <3>2. QED
      BY <2>2, <2>3, <3>1, Stutters
  <2>6. QED
    BY <2>4, <2>5
<1>4. CASE BeginTransaction
  <2>1. /\ phase = "idle" /\ ~transaction_aborted /\ phase' = "evaluating" /\ failed' = FALSE
        /\ transactions' = IF InTransaction THEN transactions ELSE <<Frame(Root)>>
        /\ UNCHANGED <<slots, graph, transaction_aborted, left, unwind>>
    BY <1>4 DEF BeginTransaction, ControlApplied
  <2>2. CASE InTransaction
    <3>1. AbstractStack' = AbstractStack
      BY <1>1, <2>1, <2>2, QuietStack DEF Depth
    <3>2. QED
      BY <1>1, <2>1, <3>1, Stutters DEF GoalStep, StmtBaseStep, Db, Running, Aborted
  <2>3. CASE ~InTransaction
    <3>1. transactions = <<>> /\ Depth = 0 /\ AbstractStack = <<>> /\ ~Aborted
      BY <1>1, <2>1, <2>3 DEF InTransaction, Aborted
    <3>2. transactions' = <<Frame(Root)>> /\ left' = 0 /\ transaction_aborted' = FALSE
      BY <1>1, <2>1, <2>3 DEF EngineInv, TypeOK
    <3>3. Pg!Begin
      BY <1>1, <2>1, <3>1, <3>2, BeginRefines
    <3>4. QED
      BY <3>3 DEF Pg!Next
  <2>4. QED
    BY <2>2, <2>3
<1>5. CASE EndCommit
  <2>1. /\ phase = "committing" /\ transactions = <<>> /\ left = 0 /\ ~transaction_aborted
        /\ phase' \in {"evaluating", "idle"} /\ unwind' = NoUnwind
        /\ (unwind.chain => phase' = "evaluating")
        /\ transactions' = IF unwind.chain THEN <<Frame(Root)>> ELSE <<>>
        /\ UNCHANGED <<slots, graph, transaction_aborted, left, failed>>
    BY <1>5 DEF EndCommit, EngineInv, PhaseInv, NoUnwind
  <2>2. Depth = 0 /\ AbstractStack = <<>> /\ ~Aborted /\ Running = TRUE /\ goal = Db
    BY <2>1, StackTyped DEF Depth, Aborted, Running, GoalInv
  <2>3. CASE unwind.chain
    <3>1. phase' = "evaluating" /\ transactions' = <<Frame(Root)>> /\ left' = 0
          /\ transaction_aborted' = FALSE
      BY <2>1, <2>3 DEF EngineInv, TypeOK
    <3>2. Pg!Begin
      BY <2>1, <2>2, <3>1, BeginRefines
    <3>3. QED
      BY <3>2 DEF Pg!Next
  <2>4. CASE ~unwind.chain
    <3>1. AbstractStack' = AbstractStack
      BY <2>1, <2>4, QuietStack DEF Depth
    <3>2. goal' = goal /\ stmt_base' = stmt_base /\ Running' = FALSE /\ Aborted' = Aborted
      BY <2>1, <2>2 DEF GoalStep, StmtBaseStep, Db, Running, Aborted
    <3>3. Pg!EndStatement
      BY <2>2, <3>1, <3>2 DEF Pg!EndStatement, Aborted, Running, CatalogOf, DiagnosticsOf
    <3>4. QED
      BY <3>3 DEF Pg!Next
  <2>5. QED
    BY <2>3, <2>4
<1>6. CASE CommitOutsideChain \/ RollbackOutsideChain \/ SavepointOutside
  BY <1>2, <1>6 DEF CommitOutsideChain, RollbackOutsideChain, SavepointOutside
<1>7. ASSUME NEW chain \in BOOLEAN, CommitAborted(chain) \/ RollbackTransaction(chain)
      PROVE  [Pg!Next]_Pg!vars
  BY <1>7, RollbackRefines DEF CommitAborted, RollbackTransaction
<1>8. ASSUME NEW chain \in BOOLEAN, CommitTransaction(chain) PROVE Pg!Commit
  <2>1. /\ phase = "idle" /\ ~transaction_aborted /\ transactions' = <<>>
        /\ phase' = "committing" /\ failed' = FALSE
        /\ UNCHANGED <<slots, graph, transaction_aborted, left>>
    BY <1>8 DEF CommitTransaction
  <2>2. AbstractStack' = <<>>
    <3>1. Depth' = 0
      BY <2>1 DEF Depth
    <3>2. AbstractStack' = [i \in 1..0 |-> SavedFrame(transactions'[i].name, base'[i])]
      BY <3>1 DEF AbstractStack, SavedFrame
    <3>3. QED
      BY <3>2
  <2>3. goal' = goal /\ stmt_base' = stmt_base /\ Running' = TRUE /\ Aborted' = Aborted
        /\ ~Aborted
    BY <1>1, <2>1 DEF GoalStep, StmtBaseStep, Db, Running, Aborted
  <2>4. QED
    BY <1>1, <2>1, <2>2, <2>3 DEF Pg!Commit, Aborted, Running, CatalogOf, DiagnosticsOf
<1>9. ASSUME NEW name \in Savepoints, RollbackToSavepoint(name) PROVE Pg!RollbackTo(name)
  <2>1. PICK p \in 1..Len(transactions) :
            phase = "idle" /\ IsPosition(p, name) /\ StartUnwind(p, FALSE)
    BY <1>9 DEF RollbackToSavepoint
  <2>2. Pg!Newest(p, name) /\ p \in 1..Depth /\ p > 0 /\ p \in 0..Len(transactions)
    BY <1>1, <2>1, PositionIsNewest
  <2>3. /\ AbstractStack' = SubSeq(AbstractStack, 1, p) /\ goal' = base[p]
        /\ ~Aborted' /\ ~Running' /\ stmt_base' = stmt_base
    BY <2>1, <2>2, StartUnwindStack
  <2>4. AbstractStack[p].catalog = CatalogOf(goal')
        /\ AbstractStack[p].diagnostics = DiagnosticsOf(goal')
    <3>1. AbstractStack[p] = SavedFrame(transactions[p].name, base[p])
      BY <2>2, StackTyped
    <3>2. SavedFrame(transactions[p].name, base[p]).catalog = CatalogOf(base[p])
          /\ SavedFrame(transactions[p].name, base[p]).diagnostics = DiagnosticsOf(base[p])
      BY DEF SavedFrame
    <3>3. QED
      BY <2>3, <3>1, <3>2 DEF CatalogOf, DiagnosticsOf
  <2>5. Aborted' = FALSE /\ Running' = Running /\ ~Running
    <3>1. Aborted' \in BOOLEAN /\ Running' \in BOOLEAN
      BY DEF Aborted, Running
    <3>2. QED
      BY <1>1, <2>1, <2>3, <3>1
  <2>6. p \in 1..Len(AbstractStack)
    BY <2>2, StackTyped
  <2>7. QED
    BY <2>2, <2>3, <2>4, <2>5, <2>6
    DEF Pg!RollbackTo, Pg!Restore, Aborted, Running, CatalogOf, DiagnosticsOf
<1>10. ASSUME NEW name \in Savepoints, RollbackToUnknown(name) \/ ReleaseUnknown(name)
       PROVE  [Pg!Next]_Pg!vars
  BY <1>2, <1>10 DEF RollbackToUnknown, ReleaseUnknown
<1>11. ASSUME NEW name \in Savepoints, Savepoint(name) PROVE Pg!Savepoint(name)
  <2>1. /\ phase = "idle" /\ ~transaction_aborted /\ InTransaction /\ phase' = "evaluating"
        /\ transactions' = Append(transactions, Frame(name))
        /\ UNCHANGED <<slots, graph, transaction_aborted, left, unwind>>
    BY <1>11 DEF Savepoint, ControlApplied
  <2>2. AbstractStack' = Append(AbstractStack, SavedFrame(name, Db))
    BY <1>1, <2>1, OpenStack DEF Depth
  <2>3. goal' = goal /\ stmt_base' = stmt_base /\ Running' = Running /\ Aborted' = Aborted
    BY <1>1, <2>1 DEF GoalStep, StmtBaseStep, Db, Running, Aborted
  <2>4. QED
    BY <1>1, <2>1, <2>2, <2>3
    DEF Pg!Savepoint, Pg!Saved, SavedFrame, Aborted, Running, CatalogOf, DiagnosticsOf
<1>12. ASSUME NEW name \in Savepoints, StartRelease(name) PROVE Pg!Release(name)
  <2>1. PICK p \in 2..Len(transactions) :
            /\ phase = "idle" /\ ~transaction_aborted /\ IsPosition(p, name)
            /\ phase' = "releasing"
            /\ unwind' = [NoUnwind EXCEPT !.reason = "release", !.depth = p - 1]
            /\ UNCHANGED <<slots, graph, transactions, transaction_aborted, left>>
    BY <1>12 DEF StartRelease
  <2>2. Pg!Newest(p, name) /\ p \in 1..Depth
    BY <2>1, PositionIsNewest
  <2>3. Depth' = p - 1 /\ unwind'.reason = "release" /\ Depth' \in 0..Depth
    BY <1>1, <2>1, <2>2 DEF Depth, NoUnwind
  <2>4. AbstractStack' = SubSeq(AbstractStack, 1, p - 1)
    BY <2>1, <2>3, QuietStack, CutStack
  <2>5. goal' = goal /\ stmt_base' = stmt_base /\ Running' = Running /\ Aborted' = Aborted
        /\ ~Aborted /\ ~Running
    BY <1>1, <2>1, <2>3 DEF GoalStep, StmtBaseStep, Db, Running, Aborted
  <2>6. p \in 1..Len(AbstractStack)
    BY <2>2, StackTyped
  <2>7. QED
    BY <2>2, <2>4, <2>5, <2>6 DEF Pg!Release, Aborted, Running, CatalogOf, DiagnosticsOf
<1>13. CASE ReleaseFrame
  BY <1>13, ReleaseRefines
<1>14. CASE EndRelease
  <2>1. /\ phase = "releasing" /\ Len(transactions) = unwind.depth /\ phase' = "evaluating"
        /\ unwind' = NoUnwind /\ ~transaction_aborted /\ left = 0
        /\ UNCHANGED <<slots, graph, transactions, transaction_aborted, left, failed>>
    BY <1>14 DEF EndRelease, EngineInv, PhaseInv
  <2>2. base' = base
    BY <2>1, BaseKept DEF HistoryTyped, LogsRestore, EngineInv, TypeOK
  <2>3. AbstractStack' = AbstractStack
    BY <2>1, <2>2, StackSame DEF Depth
  <2>4. goal' = goal /\ stmt_base' = stmt_base /\ Running' = Running /\ Aborted' = Aborted
    BY <2>1 DEF GoalInv, GoalStep, StmtBaseStep, Db, Running, Aborted
  <2>5. QED
    BY <2>3, <2>4, Stutters
<1>15. QED
  BY <1>4, <1>5, <1>6, <1>7, <1>8, <1>9, <1>10, <1>11, <1>12, <1>13, <1>14
  DEF ControlTransaction, Pg!Next

(* The undo loop has nothing left to do for PgTransaction but to arrive. *)
LEMMA UnwindRefines ==
    ASSUME UndoInv, UndoInv', HistoryStep, Unwind
    PROVE  [Pg!Next]_Pg!vars
<1> USE DEF UndoInv, HistoryStep
<1>0. /\ phase = "unwinding" /\ unwind.depth \in 0..Len(transactions) /\ Depth = unwind.depth
      /\ Len(transactions) \in Nat /\ transactions \in Seq(Frames) /\ Len(base) = Len(transactions)
      /\ base \in Seq(Copies) /\ stmt_base' = stmt_base
  BY DEF Unwind, UndoEntry, PopFrame, EndUnwind, EngineInv, TypeOK, PhaseInv, Depth,
     LogsRestore, HistoryTyped, StmtBaseStep
<1>1. ASSUME UNCHANGED <<transaction_aborted, engine>>,
             \A i \in 1..unwind.depth :
                 transactions'[i].name = transactions[i].name /\ base'[i] = base[i]
      PROVE  UNCHANGED Pg!vars
  <2>1. AbstractStack' = AbstractStack
    BY <1>0, <1>1, StackSame DEF Depth, engine
  <2>2. goal' = goal /\ Running' = Running /\ Aborted' = Aborted
    BY <1>0, <1>1 DEF GoalStep, engine, Running, Aborted
  <2>3. QED
    BY <1>0, <2>1, <2>2, Stutters
<1>2. CASE UndoEntry
  <2> DEFINE n == Len(transactions)
             top == [transactions[n] EXCEPT !.undo_log = SubSeq(@, 1, Len(@) - 1)]
  <2>1. /\ transactions' = [transactions EXCEPT ![n] = top]
        /\ UNCHANGED <<transaction_aborted, engine>> /\ n \in 1..n
    BY <1>0, <1>2, EmptySeq DEF UndoEntry, InTransaction
  <2>2. top.name = transactions[n].name
    <3>1. transactions[n] \in Frames
      BY <1>0, <2>1
    <3>2. QED
      BY <3>1 DEF Frames
  <2> HIDE DEF top
  <2>3. Len(transactions') = n
        /\ \A i \in 1..n : transactions'[i].name = transactions[i].name
    BY <1>0, <2>1, <2>2
  <2>4. base' = base
    BY <1>0, <2>3, BaseKept
  <2>5. QED
    BY <1>0, <1>1, <2>1, <2>3, <2>4
<1>3. CASE PopFrame
  <2> DEFINE n == Len(transactions)
  <2>1. /\ n > unwind.depth /\ transactions' = SubSeq(transactions, 1, n - 1)
        /\ UNCHANGED <<transaction_aborted, engine>> /\ n - 1 \in 0..n
    BY <1>0, <1>3 DEF PopFrame
  <2>2. Len(transactions') = n - 1 /\ \A i \in 1..(n - 1) : transactions'[i] = transactions[i]
    BY <1>0, <2>1, PrefixProperties
  <2>3. base' = SubSeq(base, 1, n - 1)
    BY <1>0, <2>1, <2>2 DEF BaseStep
  <2>4. \A i \in 1..(n - 1) : base'[i] = base[i]
    BY <1>0, <2>1, <2>3, PrefixProperties
  <2>5. QED
    BY <1>0, <1>1, <2>1, <2>2, <2>4
<1>4. CASE EndUnwind
  <2>1. /\ Len(transactions) = unwind.depth /\ phase' = "evaluating" /\ unwind' = NoUnwind
        /\ transaction_aborted' = (unwind.reason = "statement")
        /\ transactions' = IF unwind.chain THEN <<Frame(Root)>> ELSE transactions
        /\ UNCHANGED <<slots, graph, left, failed>>
        /\ (InTransaction => Len(Top.undo_log) = Kept)
    BY <1>4 DEF EndUnwind
  <2>2. goal = Db
    BY <1>0, <2>1, ExactFromInv DEF UndoIsExact
  <2>3. goal' = goal
    BY <2>1, <2>2 DEF GoalStep, Db
  <2>4. \/ unwind.reason = "rollback" /\ left = 0
        \/ unwind.reason = "statement" /\ ~unwind.chain /\ transaction_aborted /\ failed
    BY <1>0 DEF EngineInv, PhaseInv
  <2>5. Aborted' = Aborted /\ Running' = Running
    BY <1>0, <2>1, <2>4 DEF Aborted, Running, NoUnwind
  <2>6. CASE ~unwind.chain
    <3>1. AbstractStack' = AbstractStack
      BY <1>0, <2>1, <2>6, QuietStack DEF Depth
    <3>2. QED
      BY <1>0, <2>3, <2>5, <3>1, Stutters
  <2>7. CASE unwind.chain
    <3>1. Len(transactions) = 0 /\ Depth = 0 /\ unwind.reason = "rollback" /\ left = 0
      BY <1>0, <2>1, <2>4, <2>7 DEF EngineInv, PhaseInv
    <3>2. transactions = <<>> /\ AbstractStack = <<>>
      BY <1>0, <3>1, EmptySeq, StackTyped
    <3>3. transactions' = <<Frame(Root)>> /\ left' = 0 /\ transaction_aborted' = FALSE
          /\ ~Aborted
      BY <2>1, <2>7, <3>1 DEF Aborted
    <3>4. Pg!Begin
      BY <2>1, <2>2, <3>1, <3>2, <3>3, BeginRefines
    <3>5. QED
      BY <3>4 DEF Pg!Next
  <2>8. QED
    BY <2>6, <2>7
<1>5. QED
  BY <1>2, <1>3, <1>4 DEF Unwind

LEMMA StepRefines == UndoInv /\ UndoInv' /\ [HNext]_hvars => [Pg!Next]_Pg!vars
<1>1. ASSUME UndoInv, UndoInv', HNext PROVE [Pg!Next]_Pg!vars
  <2>1. HistoryStep
    BY <1>1 DEF HNext, HistoryStep
  <2>2. QED
    BY <1>1, <2>1, MutateRefines, StatementRefines, ControlRefines, UnwindRefines
    DEF HNext, Next
<1>2. ASSUME UNCHANGED hvars PROVE UNCHANGED Pg!vars
  <2>1. AbstractStack' = AbstractStack
    BY <1>2, StackSame DEF hvars, Depth
  <2>2. Aborted' = Aborted /\ Running' = Running
    BY <1>2 DEF hvars, Aborted, Running
  <2>3. QED
    BY <1>2, <2>1, <2>2, Stutters DEF hvars
<1>3. QED
  BY <1>1, <1>2

(* The simulated session implements PostgreSQL's transaction blocks: every    *)
(* ROLLBACK, ROLLBACK TO and failed statement, replayed from the undo logs of *)
(* apply_transaction.rs and rollback.rs, ends where a full copy of the state  *)
(* made at the opening would, for any slots, values, edges and bounds.        *)
THEOREM ImplementsPg == HSpec => ImplementsPgTransaction
<1>1. HSpec => []UndoInv
  BY UndoInvariant
<1>2. QED
  BY <1>1, InitRefines, StepRefines, PTL DEF HSpec, ImplementsPgTransaction, Pg!Spec
==============================================================================
