-------------------------- MODULE CatalogUndoProofs --------------------------
(***************************************************************************)
(* The undo log of a transaction on the catalog, for any catalog: a handler*)
(* that saves what it is about to write, or the whole field or graph it is *)
(* in, leaves a log that leads back to where the transaction began. Here   *)
(* the log itself, what the handlers are made of, and the handlers of      *)
(* schemas, sequences, publications, subscriptions, roles and DROP TABLE.  *)
(***************************************************************************)
EXTENDS Replication, FiniteSetTheorems, WellFoundedInduction, TLAPS

------------------------------------------------------------------------------
(* What the undo log of a transaction leads back to. IsCatalog: a catalog  *)
(* has its fields, and every entry of a map is an object that is fit or a  *)
(* tombstone.                                                              *)

(* The fields of a catalog: its maps, its graph and the rest.              *)
PlainFields ==
    {"pending", "baserel", "baseidx", "bfk", "bfkdep", "baseseq", "external", "scope", "gen", "tainted",
     "pg16", "pg17", "pg18", "me", "boot", "grantors", "gcomplete", "known"}
CatalogFields == MapFields \cup PlainFields \cup {"edges"}

(* A sequence stands within its bounds, and those within its type.         *)
ParamsFit(p) ==
    /\ p.ty \in DOMAIN TypeMax /\ p.min \in Int /\ p.max \in Int
    /\ p.min < p.max /\ p.start \in p.min..p.max
    /\ TypeMin(p.ty) <= p.min /\ p.max <= TypeMax[p.ty]
Bounded(r) ==
    /\ {"par", "last", "exact"} \subseteq DOMAIN r /\ ParamsFit(r.par)
    /\ r.exact /\ r.last.o = "is" => r.last.v \in r.par.min..r.par.max

(* Privileges and grant options agree with where they came from.           *)
Sourced(a) ==
    /\ a = [grants |-> a.grants, from |-> a.from, options |-> a.options, optfrom |-> a.optfrom]
    /\ IsFiniteSet(a.from)
    /\ a.options \subseteq a.grants /\ a.optfrom \subseteq a.from
    /\ \A x \in a.from : <<x[1], x[2]>> \in a.grants
    /\ \A x \in a.optfrom : <<x[1], x[2]>> \in a.options

(* What the record of an object has to satisfy by itself.                  *)
Fit(f, r) ==
    r.st = "present" => /\ f = "sequences" => Bounded(r)
                        /\ f = "relations" => "acl" \in DOMAIN r /\ Sourced(r.acl)

(* An entry of a map: an object or a tombstone; constraints have no        *)
(* tombstones.                                                             *)
HasState(r) == "st" \in DOMAIN r /\ r.st \in {"present", "dropped"}
Entry(f, r) == IF f = "constraints" THEN r # Gone ELSE HasState(r) /\ Fit(f, r)
IsMap(f, map) ==
    /\ map = [k \in DOMAIN map |-> map[k]]
    /\ \A k \in DOMAIN map : Entry(f, map[k])

IsCatalog(c) ==
    /\ c = [f \in CatalogFields |-> c[f]]
    /\ \A f \in MapFields : IsMap(f, c[f])

IsUndo(u) ==
    /\ u = [slots |-> u.slots, whole |-> u.whole, graph |-> u.graph]
    /\ u.slots = [s \in DOMAIN u.slots |-> u.slots[s]]
    /\ \A s \in DOMAIN u.slots : s[1] \in MapFields /\ s = <<s[1], s[2]>>
    /\ u.whole = [f \in DOMAIN u.whole |-> u.whole[f]]
    /\ DOMAIN u.whole \subseteq MapFields \cup PlainFields
    /\ \A f \in DOMAIN u.whole \cap MapFields : IsMap(f, u.whole[f])
    /\ u.graph = [kind |-> u.graph.kind, base |-> u.graph.base]
    /\ u.graph.kind \in {"none", "length", "full"}

(* What an undo leaves: of a field, and at a key of a map.                 *)
At(map, k) == IF k \in DOMAIN map THEN map[k] ELSE Gone
BackField(c, u, f) == IF f \in DOMAIN u.whole THEN u.whole[f] ELSE c[f]
BackKey(c, u, f, k) ==
    IF <<f, k>> \in DOMAIN u.slots THEN u.slots[<<f, k>>] ELSE At(BackField(c, u, f), k)

(* The undo log leads from c back to b.                                    *)
Leads(c, u, b) ==
    /\ IsCatalog(c) /\ IsUndo(u) /\ IsCatalog(b)
    /\ \A f \in MapFields : \A k : BackKey(c, u, f, k) = At(b[f], k)
    /\ \A f \in PlainFields : BackField(c, u, f) = b[f]
    /\ RestoredEdges(c, u) = b.edges
    /\ u.graph.kind = "length" => u.graph.base \subseteq c.edges

(* What may be written once the log u is there.                            *)
KeySaved(u, f, k) == <<f, k>> \in DOMAIN u.slots \/ f \in DOMAIN u.whole
SafeMap(u, f, old, new) == \A k : At(new, k) # At(old, k) => KeySaved(u, f, k)
SafeEdges(u, old, new) ==
    new # old => \/ u.graph.kind = "full"
                 \/ u.graph.kind = "length" /\ old \subseteq new
Safe(c, u, d) ==
    /\ \A f \in MapFields : SafeMap(u, f, c[f], d[f])
    /\ \A f \in PlainFields : d[f] # c[f] => f \in DOMAIN u.whole
    /\ SafeEdges(u, c.edges, d.edges)

(* A log that has saved at least as much.                                  *)
Keeps(u, v) ==
    /\ \A f, k : KeySaved(u, f, k) => KeySaved(v, f, k)
    /\ DOMAIN u.whole \subseteq DOMAIN v.whole
    /\ u.graph.kind = "full" => v.graph.kind = "full"

(* The graph and the plain fields are not maps.                            *)
LEMMA FieldsApart ==
    /\ "edges" \notin MapFields /\ "edges" \notin PlainFields
    /\ \A f \in PlainFields : f \notin MapFields
    /\ "constraints" \in MapFields
BY DEF MapFields, PlainFields

(* An entry is not the absence of one.                                     *)
LEMMA EntryIsThere == ASSUME NEW f, NEW r, Entry(f, r) PROVE r # Gone
BY DEF Entry, HasState, Gone

(* Two maps with the same entries are one map.                             *)
LEMMA AtTells ==
    ASSUME NEW f, NEW m, NEW n, IsMap(f, m), IsMap(f, n), \A k : At(m, k) = At(n, k)
    PROVE  m = n
<1>1. \A k : k \in DOMAIN m <=> k \in DOMAIN n
  BY EntryIsThere DEF At, IsMap
<1>2. \A k \in DOMAIN m : m[k] = n[k]
  BY <1>1 DEF At
<1> QED
  BY <1>1, <1>2 DEF IsMap

(* An empty log leads back to where it is.                                 *)
LEMMA EmptyLeads ==
    ASSUME NEW c, IsCatalog(c)
    PROVE  Leads(c, EmptyUndo, c)
BY DEF Leads, IsUndo, EmptyUndo, BackKey, BackField, At, RestoredEdges

(* A log that leads back to b undoes to b.                                 *)
LEMMA LeadsBack ==
    ASSUME NEW c, NEW u, NEW b, Leads(c, u, b)
    PROVE  Undone(c, u) = b
<1> DEFINE field(f) == IF f \in DOMAIN u.whole THEN u.whole[f] ELSE c[f]
           saved(f) == {x[2] : x \in {y \in DOMAIN u.slots : y[1] = f}}
           keys(f, map) == {k \in DOMAIN map \cup saved(f) : k \in saved(f) => u.slots[<<f, k>>] # Gone}
           restore(f, map) == [k \in keys(f, map) |-> IF k \in saved(f) THEN u.slots[<<f, k>>] ELSE map[k]]
           back(f) == CASE f = "edges"      -> RestoredEdges(c, u)
                        [] f \in MapFields  -> restore(f, field(f))
                        [] OTHER            -> field(f)
<1>1. Undone(c, u) = [f \in DOMAIN c |-> back(f)]
  BY DEF Undone
<1>2. DOMAIN c = CatalogFields /\ b = [f \in CatalogFields |-> b[f]]
  BY DEF Leads, IsCatalog
<1>3. ASSUME NEW f \in MapFields PROVE restore(f, field(f)) = b[f]
  <2>1. \A k : k \in saved(f) <=> <<f, k>> \in DOMAIN u.slots
    <3>1. \A s \in DOMAIN u.slots : s = <<s[1], s[2]>>
      BY DEF Leads, IsUndo
    <3>2. \A k : <<f, k>>[1] = f /\ <<f, k>>[2] = k
      OBVIOUS
    <3> QED BY <3>1, <3>2
  <2>2. \A k : BackKey(c, u, f, k) = At(b[f], k)
    BY DEF Leads
  <2>3. \A k \in DOMAIN b[f] : b[f][k] # Gone
    BY EntryIsThere DEF Leads, IsCatalog, IsMap
  <2>4. b[f] = [k \in DOMAIN b[f] |-> b[f][k]]
    BY DEF Leads, IsCatalog, IsMap
  <2>5. field(f) = BackField(c, u, f)
    BY DEF BackField
  <2> DEFINE m == field(f)
             v(k) == IF k \in saved(f) THEN u.slots[<<f, k>>] ELSE m[k]
  <2>6. \A k : BackKey(c, u, f, k) = IF k \in saved(f) \/ k \in DOMAIN m THEN v(k) ELSE Gone
    BY <2>1, <2>5 DEF BackKey, At
  <2>7. ASSUME NEW k \in keys(f, m) PROVE k \in DOMAIN b[f] /\ b[f][k] = v(k)
    <3>1. v(k) # Gone
      <4>1. CASE k \in saved(f)
        BY <4>1, <2>7
      <4>2. CASE k \notin saved(f)
        <5>1. k \in DOMAIN m
          BY <4>2, <2>7
        <5>2. IsMap(f, m)
          BY DEF Leads, IsUndo, IsCatalog
        <5> QED BY <5>1, <5>2, <4>2, EntryIsThere DEF IsMap
      <4> QED BY <4>1, <4>2
    <3>2. At(b[f], k) = v(k)
      BY <2>2, <2>6, <2>7
    <3> QED BY <3>1, <3>2 DEF At
  <2>8. ASSUME NEW k \in DOMAIN b[f] PROVE k \in keys(f, m)
    BY <2>2, <2>3, <2>6, <2>8 DEF At
  <2>9. DOMAIN b[f] = keys(f, m)
    BY <2>7, <2>8
  <2>10. restore(f, m) = [k \in keys(f, m) |-> v(k)]
    OBVIOUS
  <2> HIDE DEF v, m, keys, restore
  <2>11. [k \in keys(f, m) |-> v(k)] = b[f]
    BY <2>4, <2>7, <2>9
  <2> QED BY <2>10, <2>11 DEF m
<1>4. ASSUME NEW f \in PlainFields PROVE field(f) = b[f]
  BY DEF Leads, BackField
<1>5. ASSUME NEW f \in CatalogFields PROVE back(f) = b[f]
  <2>1. CASE f = "edges" BY <2>1, FieldsApart DEF Leads
  <2>2. CASE f \in MapFields BY <2>2, <1>3, FieldsApart
  <2>3. CASE f \in PlainFields BY <2>3, <1>4, FieldsApart
  <2> QED BY <2>1, <2>2, <2>3 DEF CatalogFields
<1> QED BY <1>1, <1>2, <1>5

(* Writing what is saved changes nothing of what the log leads to.         *)
LEMMA WriteLeads ==
    ASSUME NEW c, NEW u, NEW b, NEW d, Leads(c, u, b), IsCatalog(d), Safe(c, u, d)
    PROVE  Leads(d, u, b)
<1>1. ASSUME NEW f \in MapFields, NEW k PROVE BackKey(d, u, f, k) = BackKey(c, u, f, k)
  <2>1. CASE KeySaved(u, f, k)
    BY <2>1 DEF BackKey, KeySaved, BackField
  <2>2. CASE ~KeySaved(u, f, k)
    BY <2>2 DEF BackKey, BackField, Safe, SafeMap, KeySaved
  <2> QED BY <2>1, <2>2
<1>2. ASSUME NEW f \in PlainFields PROVE BackField(d, u, f) = BackField(c, u, f)
  BY DEF Safe, BackField
<1>3. RestoredEdges(d, u) = RestoredEdges(c, u) /\ (u.graph.kind = "length" => u.graph.base \subseteq d.edges)
  BY DEF Safe, SafeEdges, RestoredEdges, Leads, IsUndo
<1> QED BY <1>1, <1>2, <1>3 DEF Leads

(* To have saved as much is reflexive and transitive.                      *)
LEMMA KeepsRefl == ASSUME NEW u PROVE Keeps(u, u)
BY DEF Keeps

LEMMA KeepsTrans ==
    ASSUME NEW u, NEW v, NEW x, Keeps(u, v), Keeps(v, x)
    PROVE  Keeps(u, x)
BY DEF Keeps

(* Snapshots of single keys.                                               *)
LEMMA SlotsLead ==
    ASSUME NEW c, NEW u, NEW b, NEW f \in MapFields, NEW ks, Leads(c, u, b)
    PROVE  LET v == SaveSlots(u, c, f, ks)
           IN  Leads(c, v, b) /\ Keeps(u, v) /\ \A k \in ks : KeySaved(v, f, k)
<1> DEFINE fresh == {<<f, k>> : k \in {x \in ks : <<f, x>> \notin DOMAIN u.slots /\ f \notin DOMAIN u.whole}}
           slots == Over(u.slots, [x \in fresh |-> SlotValue(c, x)])
           v == [slots |-> slots, whole |-> u.whole, graph |-> u.graph]
<1>0. IsCatalog(c) /\ IsUndo(u)
  BY DEF Leads
<1>1. SaveSlots(u, c, f, ks) = v
  BY <1>0 DEF SaveSlots, IsUndo
<1>2. DOMAIN slots = DOMAIN u.slots \cup fresh
  BY DEF Over
<1>3. \A s \in DOMAIN u.slots : slots[s] = u.slots[s]
  BY DEF Over
<1>4. ASSUME NEW s \in fresh PROVE /\ s = <<s[1], s[2]>> /\ s[1] = f /\ s[2] \in ks
                                   /\ s \notin DOMAIN u.slots /\ f \notin DOMAIN u.whole
                                   /\ slots[s] = At(c[f], s[2])
  <2>1. PICK k \in ks : s = <<f, k>> /\ <<f, k>> \notin DOMAIN u.slots /\ f \notin DOMAIN u.whole
    BY <1>4
  <2>2. s[1] = f /\ s[2] = k
    BY <2>1
  <2>3. slots[s] = SlotValue(c, s)
    BY <2>1, <1>2, <1>4 DEF Over
  <2> QED BY <2>1, <2>2, <2>3 DEF SlotValue, At
<1>5. IsUndo(v)
  <2>1. slots = [s \in DOMAIN slots |-> slots[s]]
    BY DEF Over
  <2>2. \A s \in DOMAIN slots : s[1] \in MapFields /\ s = <<s[1], s[2]>>
    <3> HIDE DEF fresh, slots
    <3> QED BY <1>0, <1>2, <1>4 DEF IsUndo
  <2> HIDE DEF slots, fresh
  <2> QED BY <1>0, <2>1, <2>2 DEF IsUndo
<1> HIDE DEF slots
<1>6. ASSUME NEW g \in MapFields, NEW k PROVE BackKey(c, v, g, k) = BackKey(c, u, g, k)
  <2>1. CASE <<g, k>> \in DOMAIN u.slots
    BY <2>1, <1>2, <1>3 DEF BackKey
  <2>2. CASE <<g, k>> \in fresh
    <3>1. <<g, k>>[1] = g /\ <<g, k>>[2] = k
      OBVIOUS
    <3>2. g = f /\ slots[<<g, k>>] = At(c[f], k) /\ f \notin DOMAIN u.whole /\ <<g, k>> \notin DOMAIN u.slots
      BY <2>2, <3>1, <1>4
    <3> QED BY <3>2, <2>2, <1>2 DEF BackKey, BackField
  <2>3. CASE <<g, k>> \notin DOMAIN u.slots \cup fresh
    BY <2>3, <1>2 DEF BackKey, BackField
  <2> QED BY <2>1, <2>2, <2>3
<1>7. Leads(c, v, b)
  <2>1. \A g \in PlainFields : BackField(c, v, g) = BackField(c, u, g)
    BY DEF BackField
  <2>2. RestoredEdges(c, v) = RestoredEdges(c, u)
    BY DEF RestoredEdges
  <2> QED BY <1>5, <1>6, <2>1, <2>2 DEF Leads
<1>8. \A k \in ks : KeySaved(v, f, k)
  <2> SUFFICES ASSUME NEW k \in ks PROVE KeySaved(v, f, k)
    OBVIOUS
  <2>1. CASE <<f, k>> \in DOMAIN u.slots \/ f \in DOMAIN u.whole
    BY <2>1, <1>2 DEF KeySaved
  <2>2. CASE <<f, k>> \notin DOMAIN u.slots /\ f \notin DOMAIN u.whole
    <3>1. <<f, k>> \in fresh BY <2>2
    <3> QED BY <3>1, <1>2 DEF KeySaved
  <2> QED BY <2>1, <2>2
<1>9. Keeps(u, v)
  BY <1>2 DEF Keeps, KeySaved
<1> QED BY <1>1, <1>7, <1>8, <1>9

(* Snapshots of whole fields.                                              *)
LEMMA WholeLeads ==
    ASSUME NEW c, NEW u, NEW b, NEW fs, fs \subseteq MapFields \cup PlainFields, Leads(c, u, b)
    PROVE  LET v == SaveWhole(u, c, fs)
           IN  Leads(c, v, b) /\ Keeps(u, v) /\ fs \subseteq DOMAIN v.whole
<1> DEFINE whole == Over(u.whole, [f \in fs |-> c[f]])
           v == [slots |-> u.slots, whole |-> whole, graph |-> u.graph]
<1>0. IsCatalog(c) /\ IsUndo(u)
  BY DEF Leads
<1>1. SaveWhole(u, c, fs) = v
  BY <1>0 DEF SaveWhole, IsUndo
<1>2. DOMAIN whole = DOMAIN u.whole \cup fs
  BY DEF Over
<1>3. \A f \in DOMAIN whole : whole[f] = IF f \in DOMAIN u.whole THEN u.whole[f] ELSE c[f]
  BY DEF Over
<1>4. whole = [f \in DOMAIN whole |-> whole[f]]
  BY DEF Over
<1> HIDE DEF whole
<1>5. \A f \in DOMAIN whole \cap MapFields : IsMap(f, whole[f])
  BY <1>0, <1>2, <1>3 DEF IsUndo, IsCatalog
<1>6. IsUndo(v)
  BY <1>0, <1>2, <1>4, <1>5 DEF IsUndo
<1>7. \A f : BackField(c, v, f) = BackField(c, u, f)
  BY <1>2, <1>3 DEF BackField
<1>8. Leads(c, v, b)
  <2>1. \A f, k : BackKey(c, v, f, k) = BackKey(c, u, f, k)
    BY <1>7 DEF BackKey
  <2>2. RestoredEdges(c, v) = RestoredEdges(c, u)
    BY DEF RestoredEdges
  <2> QED BY <1>6, <1>7, <2>1, <2>2 DEF Leads
<1>9. Keeps(u, v)
  BY <1>2 DEF Keeps, KeySaved
<1> QED BY <1>1, <1>2, <1>8, <1>9

(* A length marker and a full snapshot of the graph.                       *)
LEMMA GraphLeads ==
    ASSUME NEW c, NEW u, NEW b, Leads(c, u, b)
    PROVE  LET v == [u EXCEPT !.graph = snapshot_graph(u, c)]
           IN  Leads(c, v, b) /\ Keeps(u, v) /\ v.graph.kind \in {"length", "full"}
<1> DEFINE v == [slots |-> u.slots, whole |-> u.whole, graph |-> snapshot_graph(u, c)]
<1>0. IsCatalog(c) /\ IsUndo(u)
  BY DEF Leads
<1>1. [u EXCEPT !.graph = snapshot_graph(u, c)] = v
  BY <1>0 DEF IsUndo
<1>2. v.graph.kind \in {"length", "full"} /\ IsUndo(v)
  BY <1>0 DEF IsUndo, snapshot_graph
<1>3. \A f : BackField(c, v, f) = BackField(c, u, f)
  BY DEF BackField
<1>4. \A f, k : BackKey(c, v, f, k) = BackKey(c, u, f, k)
  BY <1>3 DEF BackKey
<1>5. RestoredEdges(c, v) = RestoredEdges(c, u) /\ (v.graph.kind = "length" => v.graph.base \subseteq c.edges)
  BY <1>0 DEF RestoredEdges, snapshot_graph, Leads, IsUndo
<1>6. Keeps(u, v)
  BY DEF Keeps, KeySaved, snapshot_graph
<1> QED BY <1>1, <1>2, <1>3, <1>4, <1>5, <1>6 DEF Leads

(* snapshot_graph_full: the edges are copied, unless they were.            *)
LEMMA FullGraphLeads ==
    ASSUME NEW c, NEW u, NEW b, Leads(c, u, b)
    PROVE  LET v == [u EXCEPT !.graph = snapshot_graph_full(u, c)]
           IN  Leads(c, v, b) /\ Keeps(u, v) /\ v.graph.kind = "full"
<1> DEFINE v == [slots |-> u.slots, whole |-> u.whole, graph |-> snapshot_graph_full(u, c)]
<1>0. IsCatalog(c) /\ IsUndo(u)
  BY DEF Leads
<1>1. [u EXCEPT !.graph = snapshot_graph_full(u, c)] = v
  BY <1>0 DEF IsUndo
<1>2. v.graph.kind = "full" /\ IsUndo(v)
  BY <1>0 DEF IsUndo, snapshot_graph_full
<1>3. \A f : BackField(c, v, f) = BackField(c, u, f)
  BY DEF BackField
<1>4. \A f, k : BackKey(c, v, f, k) = BackKey(c, u, f, k)
  BY <1>3 DEF BackKey
<1>5. RestoredEdges(c, v) = RestoredEdges(c, u) /\ (v.graph.kind = "length" => v.graph.base \subseteq c.edges)
  BY <1>0, <1>2 DEF RestoredEdges, snapshot_graph_full, Leads, IsUndo
<1>6. Keeps(u, v)
  BY <1>2 DEF Keeps, KeySaved
<1> QED BY <1>1, <1>2, <1>3, <1>4, <1>5, <1>6 DEF Leads

------------------------------------------------------------------------------
(* The combinators the handlers are made of: each keeps the log on track as*)
(* long as it saves before it writes.                                      *)

(* A handler on its way: its log leads from where it is back to b.         *)
OnTrack(w, b) == w = [c |-> w.c, u |-> w.u] /\ Leads(w.c, w.u, b)
Same(c, d, fs) == \A f \in CatalogFields \ fs : d[f] = c[f]

(* Snap, SnapWhole, SnapGraph, SnapGraphFull and snapshot_namespace: the   *)
(* catalog stays as it is, and more of it is saved.                        *)
LEMMA SnapOk ==
    ASSUME NEW w, NEW b, OnTrack(w, b), NEW f \in MapFields, NEW ks
    PROVE  LET x == Snap(w, f, ks)
           IN  /\ OnTrack(x, b) /\ x.c = w.c /\ Keeps(w.u, x.u)
               /\ \A k \in ks : KeySaved(x.u, f, k)
<1> DEFINE v == SaveSlots(w.u, w.c, f, ks)
<1>1. Snap(w, f, ks) = [c |-> w.c, u |-> v]
  <2> HIDE DEF v
  <2>1. [w EXCEPT !.u = v] = [c |-> w.c, u |-> v]
    BY DEF OnTrack
  <2> QED BY <2>1 DEF Snap, v
<1>2. Leads(w.c, v, b) /\ Keeps(w.u, v) /\ \A k \in ks : KeySaved(v, f, k)
  BY SlotsLead DEF OnTrack
<1> HIDE DEF v
<1> QED BY <1>1, <1>2 DEF OnTrack

LEMMA SnapWholeOk ==
    ASSUME NEW w, NEW b, OnTrack(w, b), NEW fs, fs \subseteq MapFields \cup PlainFields
    PROVE  LET x == SnapWhole(w, fs)
           IN  OnTrack(x, b) /\ x.c = w.c /\ Keeps(w.u, x.u) /\ fs \subseteq DOMAIN x.u.whole
<1> DEFINE v == SaveWhole(w.u, w.c, fs)
<1>1. SnapWhole(w, fs) = [c |-> w.c, u |-> v]
  <2> HIDE DEF v
  <2>1. [w EXCEPT !.u = v] = [c |-> w.c, u |-> v]
    BY DEF OnTrack
  <2> QED BY <2>1 DEF SnapWhole, v
<1>2. Leads(w.c, v, b) /\ Keeps(w.u, v) /\ fs \subseteq DOMAIN v.whole
  BY WholeLeads DEF OnTrack
<1> HIDE DEF v
<1> QED BY <1>1, <1>2 DEF OnTrack

LEMMA SnapGraphOk ==
    ASSUME NEW w, NEW b, OnTrack(w, b)
    PROVE  LET x == SnapGraph(w)
           IN  OnTrack(x, b) /\ x.c = w.c /\ Keeps(w.u, x.u) /\ x.u.graph.kind \in {"length", "full"}
<1> DEFINE v == [w.u EXCEPT !.graph = snapshot_graph(w.u, w.c)]
<1>1. SnapGraph(w) = [c |-> w.c, u |-> v]
  BY DEF OnTrack, SnapGraph
<1>2. Leads(w.c, v, b) /\ Keeps(w.u, v) /\ v.graph.kind \in {"length", "full"}
  BY GraphLeads DEF OnTrack
<1> HIDE DEF v
<1> QED BY <1>1, <1>2 DEF OnTrack

LEMMA SnapGraphFullOk ==
    ASSUME NEW w, NEW b, OnTrack(w, b)
    PROVE  LET x == SnapGraphFull(w)
           IN  OnTrack(x, b) /\ x.c = w.c /\ Keeps(w.u, x.u) /\ x.u.graph.kind = "full"
<1> DEFINE v == [w.u EXCEPT !.graph = snapshot_graph_full(w.u, w.c)]
<1>1. SnapGraphFull(w) = [c |-> w.c, u |-> v]
  BY DEF OnTrack, SnapGraphFull
<1>2. Leads(w.c, v, b) /\ Keeps(w.u, v) /\ v.graph.kind = "full"
  BY FullGraphLeads DEF OnTrack
<1> HIDE DEF v
<1> QED BY <1>1, <1>2 DEF OnTrack

LEMMA NamespaceOk ==
    ASSUME NEW w, NEW b, OnTrack(w, b)
    PROVE  LET x == snapshot_namespace(w)
           IN  /\ OnTrack(x, b) /\ x.c = w.c /\ Keeps(w.u, x.u)
               /\ NamespaceFields \subseteq DOMAIN x.u.whole /\ x.u.graph.kind = "full"
<1> DEFINE y == SnapWhole(w, NamespaceFields)
           x == SnapGraphFull(y)
<1>1. NamespaceFields \subseteq MapFields \cup PlainFields
  BY DEF NamespaceFields, MapFields, PlainFields
<1>2. OnTrack(y, b) /\ y.c = w.c /\ Keeps(w.u, y.u) /\ NamespaceFields \subseteq DOMAIN y.u.whole
  BY <1>1, SnapWholeOk
<1> HIDE DEF y
<1>3. OnTrack(x, b) /\ x.c = y.c /\ Keeps(y.u, x.u) /\ x.u.graph.kind = "full"
  BY <1>2, SnapGraphFullOk
<1>4. snapshot_namespace(w) = x
  BY DEF snapshot_namespace, y
<1> HIDE DEF x
<1>5. Keeps(w.u, x.u)
  BY <1>2, <1>3, KeepsTrans
<1> QED BY <1>2, <1>3, <1>4, <1>5 DEF Keeps

(* Any change of several fields at once that is safe.                      *)
LEMMA ChangeOk ==
    ASSUME NEW w, NEW b, OnTrack(w, b), NEW d, IsCatalog(d), Safe(w.c, w.u, d)
    PROVE  OnTrack([w EXCEPT !.c = d], b) /\ [w EXCEPT !.c = d] = [c |-> d, u |-> w.u]
<1>1. [w EXCEPT !.c = d] = [c |-> d, u |-> w.u]
  BY DEF OnTrack
<1>2. Leads(d, w.u, b)
  BY WriteLeads DEF OnTrack
<1> QED BY <1>1, <1>2 DEF OnTrack

(* Set writes one field: a map, a plain field or the graph.                *)
LEMMA SetShape ==
    ASSUME NEW w, NEW b, OnTrack(w, b), NEW f \in CatalogFields, NEW v
    PROVE  LET d == [w.c EXCEPT ![f] = v]
           IN  /\ Set(w, f, v) = [w EXCEPT !.c = d] /\ d = [g \in CatalogFields |-> d[g]]
               /\ d[f] = v /\ Same(w.c, d, {f})
BY DEF OnTrack, Set, Same, Leads, IsCatalog

LEMMA SetMapOk ==
    ASSUME NEW w, NEW b, OnTrack(w, b), NEW f \in MapFields, NEW m, IsMap(f, m), SafeMap(w.u, f, w.c[f], m)
    PROVE  LET x == Set(w, f, m)
           IN  OnTrack(x, b) /\ x.u = w.u /\ x.c[f] = m /\ Same(w.c, x.c, {f})
<1> DEFINE d == [w.c EXCEPT ![f] = m]
<1>0. f \in CatalogFields /\ "edges" \in CatalogFields
  BY DEF CatalogFields
<1>1. Set(w, f, m) = [w EXCEPT !.c = d] /\ d = [g \in CatalogFields |-> d[g]] /\ d[f] = m /\ Same(w.c, d, {f})
  BY <1>0, SetShape
<1> HIDE DEF d
<1>2. IsCatalog(d)
  BY <1>1 DEF IsCatalog, Same, OnTrack, Leads, CatalogFields
<1>3. Safe(w.c, w.u, d)
  BY <1>1, FieldsApart DEF Safe, SafeMap, SafeEdges, Same, CatalogFields
<1>4. OnTrack([w EXCEPT !.c = d], b) /\ [w EXCEPT !.c = d] = [c |-> d, u |-> w.u]
  BY <1>2, <1>3, ChangeOk
<1> QED BY <1>1, <1>4

LEMMA SetPlainOk ==
    ASSUME NEW w, NEW b, OnTrack(w, b), NEW f \in PlainFields, f \in DOMAIN w.u.whole, NEW v
    PROVE  LET x == Set(w, f, v)
           IN  OnTrack(x, b) /\ x.u = w.u /\ x.c[f] = v /\ Same(w.c, x.c, {f})
<1> DEFINE d == [w.c EXCEPT ![f] = v]
<1>0. f \in CatalogFields /\ "edges" \in CatalogFields
  BY DEF CatalogFields
<1>1. Set(w, f, v) = [w EXCEPT !.c = d] /\ d = [g \in CatalogFields |-> d[g]] /\ d[f] = v /\ Same(w.c, d, {f})
  BY <1>0 DEF OnTrack, Set, Same, Leads, IsCatalog
<1> HIDE DEF d
<1>2. IsCatalog(d)
  BY <1>1, FieldsApart DEF IsCatalog, Same, OnTrack, Leads, CatalogFields
<1>3. Safe(w.c, w.u, d)
  BY <1>1, FieldsApart DEF Safe, SafeMap, SafeEdges, Same, CatalogFields
<1>4. OnTrack([w EXCEPT !.c = d], b) /\ [w EXCEPT !.c = d] = [c |-> d, u |-> w.u]
  BY <1>2, <1>3, ChangeOk
<1> QED BY <1>1, <1>4

LEMMA SetEdgesOk ==
    ASSUME NEW w, NEW b, OnTrack(w, b), NEW E, SafeEdges(w.u, w.c.edges, E)
    PROVE  LET x == Set(w, "edges", E)
           IN  OnTrack(x, b) /\ x.u = w.u /\ x.c.edges = E /\ Same(w.c, x.c, {"edges"})
<1> DEFINE d == [w.c EXCEPT !["edges"] = E]
<1>0. "edges" \in CatalogFields
  BY DEF CatalogFields
<1>1. Set(w, "edges", E) = [w EXCEPT !.c = d] /\ d = [g \in CatalogFields |-> d[g]] /\ d["edges"] = E
      /\ Same(w.c, d, {"edges"})
  BY <1>0 DEF OnTrack, Set, Same, Leads, IsCatalog
<1> HIDE DEF d
<1>2. IsCatalog(d)
  BY <1>1, FieldsApart DEF IsCatalog, Same, OnTrack, Leads, CatalogFields
<1>3. Safe(w.c, w.u, d)
  BY <1>1, FieldsApart DEF Safe, SafeMap, Same, CatalogFields
<1>4. OnTrack([w EXCEPT !.c = d], b) /\ [w EXCEPT !.c = d] = [c |-> d, u |-> w.u]
  BY <1>2, <1>3, ChangeOk
<1> QED BY <1>1, <1>4

(* The combinators.                                                        *)
Stays(w, x, b, fs) == OnTrack(x, b) /\ Keeps(w.u, x.u) /\ Same(w.c, x.c, fs)

(* Taint and Bump save the field they write.                               *)
LEMMA TaintOk ==
    ASSUME NEW w, NEW b, OnTrack(w, b)
    PROVE  Stays(w, Taint(w), b, {"tainted"})
<1> DEFINE y == SnapWhole(w, {"tainted"})
<1>1. "tainted" \in PlainFields
  BY DEF PlainFields
<1>2. OnTrack(y, b) /\ y.c = w.c /\ Keeps(w.u, y.u) /\ "tainted" \in DOMAIN y.u.whole
  BY <1>1, SnapWholeOk
<1> HIDE DEF y
<1>3. ASSUME NEW v
      PROVE  LET x == Set(y, "tainted", v) IN OnTrack(x, b) /\ x.u = y.u /\ Same(y.c, x.c, {"tainted"})
  BY <1>1, <1>2, SetPlainOk
<1> QED BY <1>2, <1>3 DEF Stays, Taint, y

LEMMA TaintIfOk ==
    ASSUME NEW w, NEW b, OnTrack(w, b), NEW p
    PROVE  Stays(w, TaintIf(w, p), b, {"tainted"})
<1>1. CASE p
  BY <1>1, TaintOk DEF TaintIf
<1>2. CASE ~p
  BY <1>2, KeepsRefl DEF TaintIf, Stays, Same
<1> QED BY <1>1, <1>2

LEMMA BumpOk ==
    ASSUME NEW w, NEW b, OnTrack(w, b)
    PROVE  Stays(w, Bump(w), b, {"gen"})
<1> DEFINE y == SnapWhole(w, {"gen"})
<1>1. "gen" \in PlainFields
  BY DEF PlainFields
<1>2. OnTrack(y, b) /\ y.c = w.c /\ Keeps(w.u, y.u) /\ "gen" \in DOMAIN y.u.whole
  BY <1>1, SnapWholeOk
<1>3. Bump(w) = Set(y, "gen", w.c.gen + 1)
  BY DEF Bump
<1> HIDE DEF y
<1>4. ASSUME NEW v
      PROVE  LET x == Set(y, "gen", v) IN OnTrack(x, b) /\ x.u = y.u /\ Same(y.c, x.c, {"gen"})
  BY <1>1, <1>2, SetPlainOk
<1> QED BY <1>2, <1>3, <1>4 DEF Stays

(* Entries laid over a map.                                                *)
LEMMA OverMap ==
    ASSUME NEW f, NEW m, IsMap(f, m), NEW n, IsMap(f, n), NEW u, \A k \in DOMAIN n : KeySaved(u, f, k)
    PROVE  /\ IsMap(f, Over(n, m)) /\ SafeMap(u, f, m, Over(n, m))
           /\ DOMAIN Over(n, m) = DOMAIN n \cup DOMAIN m
           /\ \A k \in DOMAIN n : Over(n, m)[k] = n[k]
           /\ \A k \in DOMAIN m \ DOMAIN n : Over(n, m)[k] = m[k]
BY DEF IsMap, Over, SafeMap, At

(* Put and Without make maps of maps.                                      *)
LEMMA PutMap ==
    ASSUME NEW f, NEW m, IsMap(f, m), NEW k, NEW v, Entry(f, v), NEW u, KeySaved(u, f, k)
    PROVE  /\ IsMap(f, Put(m, k, v)) /\ SafeMap(u, f, m, Put(m, k, v))
           /\ DOMAIN Put(m, k, v) = DOMAIN m \cup {k} /\ Put(m, k, v)[k] = v
           /\ \A j \in DOMAIN m \ {k} : Put(m, k, v)[j] = m[j]
<1> DEFINE n == [x \in {k} |-> v]
<1>1. IsMap(f, n) /\ DOMAIN n = {k} /\ n[k] = v
  BY DEF IsMap
<1>2. Put(m, k, v) = Over(n, m)
  BY DEF Put
<1> HIDE DEF n
<1> QED BY <1>1, <1>2, OverMap

LEMMA WithoutMap ==
    ASSUME NEW f, NEW m, IsMap(f, m), NEW ks, NEW u, \A k \in ks : KeySaved(u, f, k)
    PROVE  IsMap(f, Without(m, ks)) /\ SafeMap(u, f, m, Without(m, ks))
BY DEF IsMap, Without, SafeMap, At

(* Assign, DropKeys and RemoveKeys save the keys they write.               *)
LEMMA AssignOk ==
    ASSUME NEW w, NEW b, OnTrack(w, b), NEW f \in MapFields, NEW k, NEW v, Entry(f, v)
    PROVE  LET x == Assign(w, f, k, v)
           IN  Stays(w, x, b, {f}) /\ KeySaved(x.u, f, k) /\ x.c[f] = Put(w.c[f], k, v)
<1> DEFINE y == Snap(w, f, {k})
           m == Put(w.c[f], k, v)
<1>1. OnTrack(y, b) /\ y.c = w.c /\ Keeps(w.u, y.u) /\ KeySaved(y.u, f, k)
  BY SnapOk
<1>2. IsMap(f, w.c[f])
  BY DEF OnTrack, Leads, IsCatalog
<1>3. IsMap(f, m) /\ SafeMap(y.u, f, w.c[f], m)
  BY <1>1, <1>2, PutMap
<1>4. Assign(w, f, k, v) = Set(y, f, m)
  <2> HIDE DEF y
  <2>1. Assign(w, f, k, v) = [y EXCEPT !.c[f] = Put(@, k, v)]
    BY DEF Assign, y
  <2>2. y = [c |-> y.c, u |-> y.u] /\ y.c = [g \in CatalogFields |-> y.c[g]]
    BY <1>1 DEF OnTrack, Leads, IsCatalog
  <2> QED BY <2>1, <2>2, <1>1 DEF Set
<1> HIDE DEF y, m
<1>5. LET x == Set(y, f, m) IN OnTrack(x, b) /\ x.u = y.u /\ x.c[f] = m /\ Same(y.c, x.c, {f})
  BY <1>1, <1>3, SetMapOk
<1> QED BY <1>1, <1>4, <1>5 DEF Stays, m

LEMMA DropKeysOk ==
    ASSUME NEW w, NEW b, OnTrack(w, b), NEW f \in MapFields \ {"constraints"}, NEW ks
    PROVE  LET x == DropKeys(w, f, ks)
           IN  Stays(w, x, b, {f}) /\ x.c[f] = MarkDropped(w.c[f], ks) /\ \A k \in ks : KeySaved(x.u, f, k)
<1> DEFINE y == Snap(w, f, ks)
           n == [k \in ks |-> Dropped]
           m == Over(n, w.c[f])
<1>1. OnTrack(y, b) /\ y.c = w.c /\ Keeps(w.u, y.u) /\ \A k \in ks : KeySaved(y.u, f, k)
  BY SnapOk
<1>2. IsMap(f, w.c[f]) /\ IsMap(f, n)
  BY DEF OnTrack, Leads, IsCatalog, IsMap, Entry, HasState, Fit, Dropped
<1>3. IsMap(f, m) /\ SafeMap(y.u, f, w.c[f], m)
  <2>1. DOMAIN n = ks OBVIOUS
  <2> HIDE DEF y, n
  <2> QED BY <1>1, <1>2, <2>1, OverMap
<1>4. DropKeys(w, f, ks) = Set(y, f, m)
  <2> HIDE DEF y
  <2>1. DropKeys(w, f, ks) = [y EXCEPT !.c[f] = MarkDropped(@, ks)]
    BY DEF DropKeys, y
  <2>2. y = [c |-> y.c, u |-> y.u] /\ y.c = [g \in CatalogFields |-> y.c[g]]
    BY <1>1 DEF OnTrack, Leads, IsCatalog
  <2> QED BY <2>1, <2>2, <1>1 DEF Set, MarkDropped
<1>5. m = MarkDropped(w.c[f], ks)
  BY DEF MarkDropped
<1> HIDE DEF y, m
<1>6. LET x == Set(y, f, m) IN OnTrack(x, b) /\ x.u = y.u /\ x.c[f] = m /\ Same(y.c, x.c, {f})
  BY <1>1, <1>3, SetMapOk
<1> QED BY <1>1, <1>4, <1>5, <1>6 DEF Stays

LEMMA RemoveKeysOk ==
    ASSUME NEW w, NEW b, OnTrack(w, b), NEW f \in MapFields, NEW ks
    PROVE  LET x == RemoveKeys(w, f, ks)
           IN  Stays(w, x, b, {f}) /\ x.c[f] = Without(w.c[f], ks)
<1> DEFINE y == Snap(w, f, ks)
           m == Without(w.c[f], ks)
<1>1. OnTrack(y, b) /\ y.c = w.c /\ Keeps(w.u, y.u) /\ \A k \in ks : KeySaved(y.u, f, k)
  BY SnapOk
<1>2. IsMap(f, w.c[f])
  BY DEF OnTrack, Leads, IsCatalog
<1>3. IsMap(f, m) /\ SafeMap(y.u, f, w.c[f], m)
  <2> HIDE DEF y
  <2> QED BY <1>1, <1>2, WithoutMap
<1>4. RemoveKeys(w, f, ks) = Set(y, f, m)
  <2> HIDE DEF y
  <2>1. RemoveKeys(w, f, ks) = [y EXCEPT !.c[f] = Without(@, ks)]
    BY DEF RemoveKeys, y
  <2>2. y = [c |-> y.c, u |-> y.u] /\ y.c = [g \in CatalogFields |-> y.c[g]]
    BY <1>1 DEF OnTrack, Leads, IsCatalog
  <2> QED BY <2>1, <2>2, <1>1 DEF Set
<1> HIDE DEF y, m
<1>5. LET x == Set(y, f, m) IN OnTrack(x, b) /\ x.u = y.u /\ x.c[f] = m /\ Same(y.c, x.c, {f})
  BY <1>1, <1>3, SetMapOk
<1> QED BY <1>1, <1>4, <1>5 DEF Stays, m

(* Edges that are added need the length of the graph, edges that are       *)
(* rewritten a full copy.                                                  *)
LEMMA AddEdgesOk ==
    ASSUME NEW w, NEW b, OnTrack(w, b), NEW E
    PROVE  Stays(w, AddEdges(w, E), b, {"edges"})
<1>1. CASE E = {}
  BY <1>1, KeepsRefl DEF AddEdges, Stays, Same
<1>2. CASE E # {}
  <2> DEFINE y == SnapGraph(w)
  <2>1. OnTrack(y, b) /\ y.c = w.c /\ Keeps(w.u, y.u) /\ y.u.graph.kind \in {"length", "full"}
    BY SnapGraphOk
  <2> HIDE DEF y
  <2>2. AddEdges(w, E) = Set(y, "edges", y.c.edges \cup E)
    <3>1. AddEdges(w, E) = [y EXCEPT !.c.edges = @ \cup E]
      BY <1>2 DEF AddEdges, y
    <3>2. y = [c |-> y.c, u |-> y.u] /\ y.c = [g \in CatalogFields |-> y.c[g]]
      BY <2>1 DEF OnTrack, Leads, IsCatalog
    <3> QED BY <3>1, <3>2 DEF Set
  <2>3. LET x == Set(y, "edges", y.c.edges \cup E) IN OnTrack(x, b) /\ x.u = y.u /\ Same(y.c, x.c, {"edges"})
    <3>1. SafeEdges(y.u, y.c.edges, y.c.edges \cup E)
      BY <2>1 DEF SafeEdges
    <3> QED BY <2>1, <3>1, SetEdgesOk
  <2> QED BY <2>1, <2>2, <2>3 DEF Stays
<1> QED BY <1>1, <1>2

LEMMA RewriteOk ==
    ASSUME NEW w, NEW b, OnTrack(w, b), NEW E
    PROVE  Stays(w, Rewrite(w, E), b, {"edges"}) /\ Rewrite(w, E).u.graph.kind = "full"
<1> DEFINE y == SnapGraphFull(w)
<1>1. OnTrack(y, b) /\ y.c = w.c /\ Keeps(w.u, y.u) /\ y.u.graph.kind = "full"
  BY SnapGraphFullOk
<1>2. Rewrite(w, E) = Set(y, "edges", E)
  BY DEF Rewrite
<1> HIDE DEF y
<1>3. LET x == Set(y, "edges", E) IN OnTrack(x, b) /\ x.u = y.u /\ Same(y.c, x.c, {"edges"})
  BY <1>1, SetEdgesOk DEF SafeEdges
<1> QED BY <1>1, <1>2, <1>3 DEF Stays

(* Retain(w, keep) for the edges keep keeps.                               *)
LEMMA RetainForm ==
    ASSUME NEW w, NEW b, OnTrack(w, b), NEW E
    PROVE  Rewrite(w, E) = [SnapGraphFull(w) EXCEPT !.c.edges = E]
BY DEF Rewrite, Set

LEMMA StaysTrans ==
    ASSUME NEW w, NEW x, NEW y, NEW b, NEW fs, NEW gs, Stays(w, x, b, fs), Stays(x, y, b, gs)
    PROVE  Stays(w, y, b, fs \cup gs)
BY KeepsTrans DEF Stays, Same

------------------------------------------------------------------------------
(* Handlers that leave the subscriptions alone.                            *)

(* What is left of w is on its track back to b, with its subscriptions.    *)
Good(w, x, b) == OnTrack(x, b) /\ x.c.subscriptions = w.c.subscriptions

(* From a list of the fields that change to the subscriptions.             *)
LEMMA StaysGood ==
    ASSUME NEW w, NEW x, NEW b, NEW fs, Stays(w, x, b, fs), "subscriptions" \notin fs
    PROVE  Good(w, x, b)
BY DEF Stays, Good, Same, CatalogFields, MapFields

LEMMA StaysTrack ==
    ASSUME NEW w, NEW x, NEW b, NEW fs, Stays(w, x, b, fs)
    PROVE  OnTrack(x, b)
BY DEF Stays

LEMMA StaysRefl == ASSUME NEW w, NEW b, OnTrack(w, b) PROVE Stays(w, w, b, {})
BY KeepsRefl DEF Stays, Same

LEMMA SnapStays ==
    ASSUME NEW w, NEW b, OnTrack(w, b), NEW f \in MapFields, NEW ks
    PROVE  LET x == Snap(w, f, ks)
           IN  Stays(w, x, b, {}) /\ x.c = w.c /\ \A k \in ks : KeySaved(x.u, f, k)
<1> DEFINE x == Snap(w, f, ks)
<1>1. OnTrack(x, b) /\ x.c = w.c /\ Keeps(w.u, x.u) /\ \A k \in ks : KeySaved(x.u, f, k)
  BY SnapOk
<1> HIDE DEF x
<1>2. Stays(w, x, b, {}) /\ x.c = w.c /\ \A k \in ks : KeySaved(x.u, f, k)
  BY <1>1 DEF Stays, Same
<1> QED BY <1>2 DEF x

(* A chain of checks is passed when each is.                               *)
LEMMA Chain == ASSUME NEW a, NEW v PROVE (a ?? v = "ok") <=> (a = "ok" /\ v = "ok")
BY DEF ??

(* A check that lets a statement pass has found nothing.                   *)
LEMMA RejectIsNot == ASSUME NEW p, Reject(p) = "ok" PROVE ~p
BY DEF Reject

(* A present object is an entry of its map.                                *)
LEMMA EntryOf ==
    ASSUME NEW w, NEW b, OnTrack(w, b), NEW f \in MapFields \ {"constraints"}, NEW k, Present(w.c[f], k)
    PROVE  k \in DOMAIN w.c[f] /\ HasState(w.c[f][k])
BY DEF OnTrack, Leads, IsCatalog, IsMap, Entry, Present

(* The maps of objects; the records of two of them have to be fit, too.    *)
MapsInUse == {"schemas", "types", "functions", "extensions", "publications", "subscriptions", "roles", "triggers"}
FitMaps   == {"sequences", "relations"}

(* They are maps of a catalog, and what is written there is an entry.      *)
LEMMA MapsInUseAre == \A f \in MapsInUse : f \in MapFields \ {"constraints"} /\ f # "edges"
BY DEF MapsInUse, MapFields

LEMMA FitMapsAre == \A f \in FitMaps : f \in MapFields \ {"constraints", "subscriptions"} /\ f # "edges"
BY DEF FitMaps, MapFields

LEMMA StateEntry == ASSUME NEW f \in MapsInUse, NEW r, HasState(r) PROVE Entry(f, r)
BY DEF MapsInUse, Entry, Fit

LEMMA FitEntry ==
    ASSUME NEW w, NEW b, OnTrack(w, b), NEW f \in FitMaps, NEW k, Present(w.c[f], k)
    PROVE  Entry(f, w.c[f][k]) /\ HasState(w.c[f][k])
BY FitMapsAre DEF OnTrack, Leads, IsCatalog, IsMap, Entry, Present

(* Records that are there: of a relation, and of a sequence.               *)
RelationFine(r) == HasState(r) /\ "acl" \in DOMAIN r /\ Sourced(r.acl)
SequenceFine(r) == HasState(r) /\ Bounded(r)

LEMMA FineEntries ==
    /\ \A r : RelationFine(r) => Entry("relations", r)
    /\ \A r : SequenceFine(r) => Entry("sequences", r)
BY DEF RelationFine, SequenceFine, Entry, Fit

LEMMA RelationThere ==
    ASSUME NEW w, NEW b, OnTrack(w, b), NEW k, Present(w.c["relations"], k)
    PROVE  k \in DOMAIN w.c["relations"] /\ RelationFine(w.c["relations"][k])
<1>1. "relations" \in FitMaps
  BY DEF FitMaps
<1> QED BY <1>1, FitEntry DEF RelationFine, Entry, Fit, Present

LEMMA SequenceThere ==
    ASSUME NEW w, NEW b, OnTrack(w, b), NEW k, Present(w.c["sequences"], k)
    PROVE  k \in DOMAIN w.c["sequences"] /\ SequenceFine(w.c["sequences"][k])
<1>1. "sequences" \in FitMaps
  BY DEF FitMaps
<1> QED BY <1>1, FitEntry DEF SequenceFine, Entry, Fit, Present

(* A relation stays fit when its privileges do not change, a sequence when *)
(* its parameters and its value do not.                                    *)
LEMMA SameRelation ==
    ASSUME NEW r, Entry("relations", r), NEW q, HasState(q), q.st = r.st, DOMAIN r = DOMAIN q,
           "acl" \in DOMAIN r => q.acl = r.acl
    PROVE  Entry("relations", q)
BY DEF Entry, Fit

LEMMA SameSequence ==
    ASSUME NEW r, Entry("sequences", r), NEW q, HasState(q), q.st = r.st, DOMAIN r = DOMAIN q,
           {"par", "last", "exact"} \subseteq DOMAIN r => q.par = r.par /\ q.last = r.last /\ q.exact = r.exact
    PROVE  Entry("sequences", q)
BY DEF Entry, Fit, Bounded

------------------------------------------------------------------------------
(* Steps that leave the subscriptions alone.                               *)
LEMMA GoodTrans ==
    ASSUME NEW w, NEW x, NEW y, NEW b, Good(w, x, b), Good(x, y, b)
    PROVE  Good(w, y, b)
BY DEF Good

(* Nothing done, and something done before.                                *)
LEMMA GoodRefl == ASSUME NEW w, NEW b, OnTrack(w, b) PROVE Good(w, w, b)
BY DEF Good

LEMMA GoodTrack == ASSUME NEW w, NEW x, NEW b, Good(w, x, b) PROVE OnTrack(x, b)
BY DEF Good

(* The combinators again, one field at a time.                             *)
LEMMA TaintGood ==
    ASSUME NEW w, NEW b, OnTrack(w, b)
    PROVE  Good(w, Taint(w), b) /\ Keeps(w.u, Taint(w).u)
<1>1. Stays(w, Taint(w), b, {"tainted"})
  BY TaintOk
<1> QED BY <1>1, StaysGood DEF Stays

LEMMA TaintIfGood ==
    ASSUME NEW w, NEW b, OnTrack(w, b), NEW p
    PROVE  Good(w, TaintIf(w, p), b) /\ Keeps(w.u, TaintIf(w, p).u) /\ Same(w.c, TaintIf(w, p).c, {"tainted"})
<1>1. Stays(w, TaintIf(w, p), b, {"tainted"})
  BY TaintIfOk
<1> QED BY <1>1, StaysGood DEF Stays

LEMMA BumpGood ==
    ASSUME NEW w, NEW b, OnTrack(w, b)
    PROVE  Good(w, Bump(w), b) /\ Keeps(w.u, Bump(w).u) /\ Same(w.c, Bump(w).c, {"gen"})
<1>1. Stays(w, Bump(w), b, {"gen"})
  BY BumpOk
<1> QED BY <1>1, StaysGood DEF Stays

LEMMA SnapGood ==
    ASSUME NEW w, NEW b, OnTrack(w, b), NEW f \in MapsInUse, NEW ks
    PROVE  /\ Good(w, Snap(w, f, ks), b) /\ Snap(w, f, ks).c = w.c /\ Keeps(w.u, Snap(w, f, ks).u)
           /\ \A k \in ks : KeySaved(Snap(w, f, ks).u, f, k)
<1>1. f \in MapFields
  BY MapsInUseAre
<1> QED BY <1>1, SnapOk DEF Good

(* A key of a fit map is saved like any other.                             *)
LEMMA SnapFit ==
    ASSUME NEW w, NEW b, OnTrack(w, b), NEW f \in FitMaps, NEW ks
    PROVE  /\ Good(w, Snap(w, f, ks), b) /\ Snap(w, f, ks).c = w.c /\ Keeps(w.u, Snap(w, f, ks).u)
           /\ \A k \in ks : KeySaved(Snap(w, f, ks).u, f, k)
<1>1. f \in MapFields
  BY FitMapsAre
<1> QED BY <1>1, SnapOk DEF Good

LEMMA AssignGood ==
    ASSUME NEW w, NEW b, OnTrack(w, b), NEW f \in MapsInUse \ {"subscriptions"}, NEW k, NEW v, HasState(v)
    PROVE  Good(w, Assign(w, f, k, v), b) /\ Keeps(w.u, Assign(w, f, k, v).u) /\ Same(w.c, Assign(w, f, k, v).c, {f})
<1>1. f \in MapFields /\ Entry(f, v)
  BY MapsInUseAre, StateEntry
<1>2. Stays(w, Assign(w, f, k, v), b, {f})
  BY <1>1, AssignOk
<1> QED BY <1>2, StaysGood DEF Stays

LEMMA AssignFit ==
    ASSUME NEW w, NEW b, OnTrack(w, b), NEW f \in FitMaps, NEW k, NEW v, Entry(f, v)
    PROVE  /\ Good(w, Assign(w, f, k, v), b) /\ Keeps(w.u, Assign(w, f, k, v).u)
           /\ Same(w.c, Assign(w, f, k, v).c, {f})
<1>1. f \in MapFields /\ f # "subscriptions"
  BY FitMapsAre
<1>2. Stays(w, Assign(w, f, k, v), b, {f})
  BY <1>1, AssignOk
<1> QED BY <1>1, <1>2, StaysGood DEF Stays

LEMMA FitPuts ==
    ASSUME NEW w, NEW b, OnTrack(w, b), NEW f \in FitMaps, NEW k, NEW v, Entry(f, v)
    PROVE  Assign(w, f, k, v).c[f] = Put(w.c[f], k, v)
<1>1. f \in MapFields
  BY FitMapsAre
<1> DEFINE x == Assign(w, f, k, v)
<1>2. Stays(w, x, b, {f}) /\ KeySaved(x.u, f, k) /\ x.c[f] = Put(w.c[f], k, v)
  BY <1>1, AssignOk
<1> QED BY <1>2

LEMMA AssignPuts ==
    ASSUME NEW w, NEW b, OnTrack(w, b), NEW f \in MapsInUse, NEW k, NEW v, HasState(v)
    PROVE  Assign(w, f, k, v).c[f] = Put(w.c[f], k, v)
<1>1. f \in MapFields /\ Entry(f, v)
  BY MapsInUseAre, StateEntry
<1> DEFINE x == Assign(w, f, k, v)
<1>2. Stays(w, x, b, {f}) /\ KeySaved(x.u, f, k) /\ x.c[f] = Put(w.c[f], k, v)
  BY <1>1, AssignOk
<1> QED BY <1>2

LEMMA DropKeysGood ==
    ASSUME NEW w, NEW b, OnTrack(w, b), NEW f \in MapsInUse \ {"subscriptions"}, NEW ks
    PROVE  Good(w, DropKeys(w, f, ks), b) /\ Keeps(w.u, DropKeys(w, f, ks).u) /\ Same(w.c, DropKeys(w, f, ks).c, {f})
<1>1. f \in MapFields \ {"constraints"}
  BY MapsInUseAre
<1>2. Stays(w, DropKeys(w, f, ks), b, {f})
  BY <1>1, DropKeysOk
<1> QED BY <1>2, StaysGood DEF Stays

LEMMA DropKeysFit ==
    ASSUME NEW w, NEW b, OnTrack(w, b), NEW f \in FitMaps, NEW ks
    PROVE  Good(w, DropKeys(w, f, ks), b) /\ Keeps(w.u, DropKeys(w, f, ks).u) /\ Same(w.c, DropKeys(w, f, ks).c, {f})
<1>1. f \in MapFields \ {"constraints"} /\ f # "subscriptions"
  BY FitMapsAre
<1>2. Stays(w, DropKeys(w, f, ks), b, {f})
  BY <1>1, DropKeysOk
<1> QED BY <1>1, <1>2, StaysGood DEF Stays

LEMMA AddEdgesGood ==
    ASSUME NEW w, NEW b, OnTrack(w, b), NEW E
    PROVE  Good(w, AddEdges(w, E), b) /\ Keeps(w.u, AddEdges(w, E).u)
<1>1. Stays(w, AddEdges(w, E), b, {"edges"})
  BY AddEdgesOk
<1> QED BY <1>1, StaysGood DEF Stays

LEMMA RewriteGood ==
    ASSUME NEW w, NEW b, OnTrack(w, b), NEW E
    PROVE  Good(w, Rewrite(w, E), b) /\ Keeps(w.u, Rewrite(w, E).u) /\ Rewrite(w, E).u.graph.kind = "full"
<1>1. Stays(w, Rewrite(w, E), b, {"edges"}) /\ Rewrite(w, E).u.graph.kind = "full"
  BY RewriteOk
<1> QED BY <1>1, StaysGood DEF Stays

LEMMA FullGraphGood ==
    ASSUME NEW w, NEW b, OnTrack(w, b)
    PROVE  /\ Good(w, SnapGraphFull(w), b) /\ SnapGraphFull(w).c = w.c /\ Keeps(w.u, SnapGraphFull(w).u)
           /\ SnapGraphFull(w).u.graph.kind = "full"
BY SnapGraphFullOk DEF Good

LEMMA NamespaceGood ==
    ASSUME NEW w, NEW b, OnTrack(w, b)
    PROVE  LET x == snapshot_namespace(w)
           IN  /\ Good(w, x, b) /\ x.c = w.c /\ Keeps(w.u, x.u)
               /\ NamespaceFields \subseteq DOMAIN x.u.whole /\ x.u.graph.kind = "full"
BY NamespaceOk DEF Good

(* A key that was saved stays saved.                                       *)
LEMMA KeptKey ==
    ASSUME NEW u, NEW v, Keeps(u, v), NEW f, NEW ks, \A k \in ks : KeySaved(u, f, k)
    PROVE  \A k \in ks : KeySaved(v, f, k)
BY DEF Keeps

(* Entries whose keys have been saved are laid over a map; and the edges   *)
(* change once the whole graph is saved.                                   *)
LEMMA OverEntries ==
    ASSUME NEW w, NEW b, OnTrack(w, b), NEW f \in MapFields \ {"subscriptions"},
           NEW n, n = [k \in DOMAIN n |-> n[k]], \A k \in DOMAIN n : Entry(f, n[k]) /\ KeySaved(w.u, f, k)
    PROVE  /\ Good(w, Set(w, f, Over(n, w.c[f])), b) /\ Set(w, f, Over(n, w.c[f])).u = w.u
           /\ Same(w.c, Set(w, f, Over(n, w.c[f])).c, {f})
<1> DEFINE m == Over(n, w.c[f])
<1>1. f \in MapFields /\ IsMap(f, n)
  BY DEF IsMap
<1>2. IsMap(f, w.c[f])
  BY <1>1 DEF OnTrack, Leads, IsCatalog
<1>3. IsMap(f, m) /\ SafeMap(w.u, f, w.c[f], m)
  BY <1>1, <1>2, OverMap
<1> HIDE DEF m
<1> DEFINE x == Set(w, f, m)
<1>4. OnTrack(x, b) /\ x.u = w.u /\ x.c[f] = m /\ Same(w.c, x.c, {f})
  BY <1>1, <1>3, SetMapOk
<1> HIDE DEF x
<1>5. Good(w, x, b) /\ x.u = w.u /\ Same(w.c, x.c, {f})
  BY <1>4 DEF Good, Same, CatalogFields, MapFields
<1> QED BY <1>5 DEF x, m

LEMMA OverGood ==
    ASSUME NEW w, NEW b, OnTrack(w, b), NEW f \in MapsInUse \ {"subscriptions"},
           NEW n, n = [k \in DOMAIN n |-> n[k]], \A k \in DOMAIN n : HasState(n[k]) /\ KeySaved(w.u, f, k)
    PROVE  /\ Good(w, Set(w, f, Over(n, w.c[f])), b) /\ Set(w, f, Over(n, w.c[f])).u = w.u
           /\ Same(w.c, Set(w, f, Over(n, w.c[f])).c, {f})
<1>1. f \in MapFields \ {"subscriptions"} /\ \A k \in DOMAIN n : Entry(f, n[k])
  BY MapsInUseAre, StateEntry
<1> QED BY <1>1, OverEntries

LEMMA OverFit ==
    ASSUME NEW w, NEW b, OnTrack(w, b), NEW f \in FitMaps,
           NEW n, n = [k \in DOMAIN n |-> n[k]], \A k \in DOMAIN n : Entry(f, n[k]) /\ KeySaved(w.u, f, k)
    PROVE  /\ Good(w, Set(w, f, Over(n, w.c[f])), b) /\ Set(w, f, Over(n, w.c[f])).u = w.u
           /\ Same(w.c, Set(w, f, Over(n, w.c[f])).c, {f})
<1>1. f \in MapFields \ {"subscriptions"}
  BY FitMapsAre
<1> QED BY <1>1, OverEntries

(* Edges that only grow.                                                   *)
LEMMA EdgesGood ==
    ASSUME NEW w, NEW b, OnTrack(w, b), w.u.graph.kind = "full", NEW E
    PROVE  Good(w, Set(w, "edges", E), b) /\ Set(w, "edges", E).u = w.u /\ Same(w.c, Set(w, "edges", E).c, {"edges"})
<1> DEFINE x == Set(w, "edges", E)
<1>1. SafeEdges(w.u, w.c.edges, E)
  BY DEF SafeEdges
<1>2. OnTrack(x, b) /\ x.u = w.u /\ x.c.edges = E /\ Same(w.c, x.c, {"edges"})
  BY <1>1, SetEdgesOk
<1> HIDE DEF x
<1>3. Good(w, x, b) /\ x.u = w.u /\ Same(w.c, x.c, {"edges"})
  BY <1>2 DEF Good, Same, CatalogFields, MapFields
<1> QED BY <1>3 DEF x

(* A record that changes keeps its state.                                  *)
LEMMA Still ==
    ASSUME NEW r, NEW q, HasState(r), DOMAIN q = DOMAIN r, q.st = r.st
    PROVE  HasState(q)
BY DEF HasState

(* After snapshot_namespace, everything it saved may change.               *)
LEMMA NamespaceChange ==
    ASSUME NEW x, NEW b, OnTrack(x, b), NamespaceFields \subseteq DOMAIN x.u.whole, x.u.graph.kind = "full",
           NEW d, d = [f \in CatalogFields |-> d[f]], Same(x.c, d, NamespaceFields \cup {"edges"}),
           \A f \in MapFields \cap NamespaceFields : IsMap(f, d[f])
    PROVE  Good(x, [x EXCEPT !.c = d], b) /\ [x EXCEPT !.c = d].u = x.u
<1>1. IsCatalog(d)
  <2>1. ASSUME NEW f \in MapFields, f \notin NamespaceFields PROVE IsMap(f, d[f])
    BY <2>1, FieldsApart DEF IsCatalog, Same, OnTrack, Leads, CatalogFields
  <2> QED BY <2>1 DEF IsCatalog
<1>2. Safe(x.c, x.u, d)
  <2>1. ASSUME NEW f \in MapFields PROVE SafeMap(x.u, f, x.c[f], d[f])
    <3>1. CASE f \in NamespaceFields
      BY <3>1 DEF SafeMap, KeySaved
    <3>2. CASE f \notin NamespaceFields
      BY <3>2, FieldsApart DEF SafeMap, Same, CatalogFields
    <3> QED BY <3>1, <3>2
  <2>2. \A f \in PlainFields : d[f] # x.c[f] => f \in DOMAIN x.u.whole
    BY FieldsApart DEF Same, CatalogFields
  <2> QED BY <2>1, <2>2 DEF Safe, SafeEdges
<1>3. OnTrack([x EXCEPT !.c = d], b) /\ [x EXCEPT !.c = d] = [c |-> d, u |-> x.u]
  BY <1>1, <1>2, ChangeOk
<1>4. d["subscriptions"] = x.c["subscriptions"]
  BY DEF Same, CatalogFields, MapFields, NamespaceFields
<1> QED BY <1>3, <1>4 DEF Good

------------------------------------------------------------------------------
(* Schemas and sequences: apply_create_schema, apply_alter_schema,         *)
(* apply_create_sequence, apply_alter_sequence and apply_drop_sequence.    *)

(* apply_create_schema, and ALTER SCHEMA OWNER.                            *)
LEMMA CreateSchemaGood ==
    ASSUME NEW w, NEW b, OnTrack(w, b), NEW s
    PROVE  Good(w, CreateSchemaEffect(w, s), b)
<1> DEFINE y == TaintIf(w, s.auth = <<"">> \/ RoleDoubt(w.c, SchemaOwner(w.c, s)))
           x == Bump(y)
           r == SchemaState(SchemaOwner(w.c, s), x.c.gen)
<1>1. CreateSchemaEffect(w, s) = Assign(x, "schemas", s.name, r)
  BY DEF CreateSchemaEffect
<1>2. HasState(r) /\ "schemas" \in MapsInUse \ {"subscriptions"}
  BY DEF HasState, SchemaState, MapsInUse
<1> HIDE DEF r
<1>3. Good(w, y, b)
  BY TaintIfGood
<1> HIDE DEF y
<1>4. Good(y, x, b)
  BY <1>3, BumpGood, GoodTrack
<1> HIDE DEF x
<1>5. Good(x, Assign(x, "schemas", s.name, r), b)
  BY <1>2, <1>4, AssignGood, GoodTrack
<1> QED BY <1>1, <1>3, <1>4, <1>5, GoodTrans

LEMMA SchemaOwnerGood ==
    ASSUME NEW w, NEW b, OnTrack(w, b), NEW s, Ensure(SchemaLookup(w.c, s.name)) = "ok"
    PROVE  Good(w, SchemaOwnerEffect(w, s), b)
<1> DEFINE y == TaintIf(w, RoleDoubt(w.c, s.owner))
           r == [w.c.schemas[s.name] EXCEPT !.owner = s.owner]
<1>1. SchemaOwnerEffect(w, s) = Assign(y, "schemas", s.name, r)
  BY DEF SchemaOwnerEffect
<1>2. "schemas" \in MapsInUse \ {"subscriptions"} /\ "schemas" \in MapFields \ {"constraints"}
  BY MapsInUseAre DEF MapsInUse
<1>3. Present(w.c.schemas, s.name)
  BY DEF Ensure, SchemaLookup
<1>4. HasState(r)
  BY <1>2, <1>3, EntryOf DEF HasState
<1>5. Good(w, y, b)
  BY TaintIfGood
<1> HIDE DEF y, r
<1>6. Good(y, Assign(y, "schemas", s.name, r), b)
  BY <1>2, <1>4, <1>5, AssignGood, GoodTrack
<1> QED BY <1>1, <1>5, <1>6, GoodTrans

(* What the checks of the options leave is fit.                            *)
Numeric(o) == \A f \in {"min", "max", "start"} : o[f].o = "is" => o[f].v \in Int

(* Options that are accepted give parameters that fit: the bounds lie in   *)
(* the type and the start in the bounds (init_sequence_parameters).        *)
LEMMA MergedFit ==
    ASSUME NEW cur, NEW o, Numeric(o), NEW init \in BOOLEAN, ~ParamsRefused(cur, o, init),
           ~init => ParamsFit(cur)
    PROVE  ParamsFit(MergedParams(cur, o, init))
<1> DEFINE ty  == Given(o.as, cur.ty)
           inc == Given(o.inc, IF init THEN 1 ELSE cur.inc)
           low  == o.as.o = "is" /\ ~init /\ cur.min = TypeMin(cur.ty)
           high == o.as.o = "is" /\ ~init /\ cur.max = TypeMax[cur.ty]
           min == MinFrom(cur, o, ty, inc, o.min.o = "no" \/ init, low)
           max == MaxFrom(cur, o, ty, inc, o.max.o = "no" \/ init, high)
           p   == ParamsWith(cur, o, init, ty, inc, min, max)
<1>1. MergedParams(cur, o, init) = p
  BY DEF MergedParams, ParamsOf
<1>2. ty \in DOMAIN TypeMax /\ ~Refused(o, p)
  BY <1>1 DEF ParamsRefused
<1>3. TypeMax[ty] \in Int /\ TypeMin(ty) \in Int
  BY <1>2, TypeMaxAssumption DEF TypeMin
<1>4. cur.min \in Int \/ init
  BY DEF ParamsFit
<1>5. cur.max \in Int \/ init
  BY DEF ParamsFit
<1> HIDE DEF ty, inc, low, high
<1>6. min \in Int
  BY <1>3, <1>4 DEF MinFrom, Numeric
<1>7. max \in Int
  BY <1>3, <1>5 DEF MaxFrom, Numeric
<1> HIDE DEF min, max
<1>8. p.ty = ty /\ p.min = min /\ p.max = max
  BY DEF ParamsWith
<1>9. p.start \in Int
  <2>1. cur.start \in Int \/ init
    BY DEF ParamsFit
  <2> QED BY <1>6, <1>7, <2>1 DEF ParamsWith, Given, Numeric
<1> HIDE DEF p
<1> QED BY <1>1, <1>2, <1>3, <1>6, <1>7, <1>8, <1>9 DEF ParamsFit, Refused, OffLimits

(* apply_create_sequence.                                                  *)
LEMMA CreateSequenceGood ==
    ASSUME NEW w, NEW b, OnTrack(w, b), NEW s, Numeric(s.opts), CreateSequenceVerdict(w.c, s) = "ok"
    PROVE  Good(w, CreateSequenceEffect(w, s), b)
<1> DEFINE v == Snap(w, "sequences", {s.id})
           x == Bump(v)
           p == MergedParams(DefaultParams, s.opts, TRUE)
           r == SequenceState(x.c.me, s.ownedby, IF s.ownedby = <<>> THEN "standalone" ELSE "owned", x.c.gen, p)
           y == Assign(x, "sequences", s.id, r)
           E == {OwnedEdge(s.id, s.ownedby[1], s.ownedby[2])}
<1>1. CreateSequenceEffect(w, s) = IF s.ownedby = <<>> THEN y ELSE AddEdges(y, E)
  BY DEF CreateSequenceEffect
<1>2. Entry("sequences", r) /\ "sequences" \in FitMaps
  <2>1. ~ParamsRefused(DefaultParams, s.opts, TRUE)
    BY Chain, RejectIsNot DEF CreateSequenceVerdict
  <2>2. ParamsFit(p)
    BY <2>1, MergedFit
  <2> HIDE DEF p
  <2>3. Bounded(r)
    BY <2>2 DEF Bounded, SequenceState, Val, ParamsFit
  <2> QED BY <2>3 DEF Entry, Fit, HasState, SequenceState, FitMaps
<1> HIDE DEF r, E
<1>3. Good(w, v, b)
  BY <1>2, SnapFit
<1> HIDE DEF v
<1>4. Good(v, x, b)
  BY <1>3, BumpGood, GoodTrack
<1> HIDE DEF x
<1>5. Good(x, y, b)
  BY <1>2, <1>4, AssignFit, GoodTrack
<1> HIDE DEF y
<1>6. Good(y, AddEdges(y, E), b)
  BY <1>5, AddEdgesGood, GoodTrack
<1> QED BY <1>1, <1>3, <1>4, <1>5, <1>6, GoodTrans

(* The parameters are written to a sequence that is there; so are the      *)
(* owner and the column.                                                   *)
LEMMA SequenceParamsGood ==
    ASSUME NEW w, NEW b, OnTrack(w, b), NEW s, Present(w.c.sequences, s.id), Numeric(s.opts),
           AlterSequenceParams(w.c.sequences[s.id], s.opts) = "ok"
    PROVE  LET x == SetSequenceParams(w, s, w.c.sequences[s.id], MergedParams(w.c.sequences[s.id].par, s.opts, FALSE))
           IN  Good(w, x, b) /\ Present(x.c.sequences, s.id)
<1> DEFINE seq == w.c.sequences[s.id]
           p == MergedParams(seq.par, s.opts, FALSE)
           y == TaintIf(w, s.opts.restart = Unset /\ ~seq.exact /\ sequence_bounds_narrowed(seq.par, p))
           r == IF s.opts.restart = Unset THEN [seq EXCEPT !.par = p]
                ELSE [seq EXCEPT !.par = p, !.last = Val(RestartValue(s.opts, p)), !.exact = TRUE]
           x == Assign(y, "sequences", s.id, r)
<1>1. SetSequenceParams(w, s, seq, p) = IF p = seq.par /\ s.opts.restart = Unset THEN w ELSE x
  BY DEF SetSequenceParams
<1>2. "sequences" \in FitMaps
  BY DEF FitMaps
<1>3. HasState(seq) /\ seq.st = "present" /\ Bounded(seq)
  <2>1. Entry("sequences", w.c["sequences"][s.id]) /\ seq.st = "present"
    BY <1>2, FitEntry DEF Present
  <2> QED BY <2>1 DEF Entry, Fit
<1>4. ~ParamsRefused(seq.par, s.opts, FALSE)
      /\ (s.opts.restart = Unset => ~sequence_runtime_bounds_conflict(seq, p))
  BY Chain, RejectIsNot DEF AlterSequenceParams
<1>5. ParamsFit(p)
  BY <1>3, <1>4, MergedFit DEF Bounded
<1>6. HasState(r) /\ r.st = "present" /\ Bounded(r)
  <2> HIDE DEF seq, p
  <2>1. HasState(r) /\ r.st = "present" /\ {"par", "last", "exact"} \subseteq DOMAIN r /\ r.par = p
    BY <1>3 DEF HasState, Bounded
  <2>2. CASE s.opts.restart = Unset
    <3>1. r.last = seq.last /\ r.exact = seq.exact
      BY <1>3, <2>2 DEF Bounded
    <3>2. r.exact /\ r.last.o = "is" => r.last.v \in Int
      <4> HIDE DEF r
      <4> QED BY <1>3, <3>1 DEF Bounded, ParamsFit
    <3>3. r.exact /\ r.last.o = "is" => r.last.v \in p.min..p.max
      BY <1>4, <1>5, <2>2, <3>1, <3>2 DEF sequence_runtime_bounds_conflict, ParamsFit
    <3> QED BY <1>5, <2>1, <3>3 DEF Bounded
  <2>3. CASE s.opts.restart # Unset
    <3>1. r.last = Val(RestartValue(s.opts, p))
      BY <1>3, <2>3 DEF Bounded
    <3>2. RestartValue(s.opts, p) \in p.min..p.max
      BY <1>4, <2>3 DEF ParamsRefused, Refused, p
    <3> QED BY <1>5, <2>1, <3>1, <3>2 DEF Bounded, Val
  <2> QED BY <2>1, <2>2, <2>3
<1>7. Entry("sequences", r)
  BY <1>6 DEF Entry, Fit
<1> HIDE DEF r, seq, p
<1>8. Good(w, y, b)
  BY TaintIfGood
<1> HIDE DEF y
<1>9. Good(y, x, b) /\ x.c["sequences"] = Put(y.c["sequences"], s.id, r)
  <2>1. OnTrack(y, b)
    BY <1>8, GoodTrack
  <2>2. Good(y, x, b)
    BY <1>2, <1>7, <2>1, AssignFit
  <2>3. x.c["sequences"] = Put(y.c["sequences"], s.id, r)
    BY <1>2, <1>7, <2>1, FitPuts
  <2> QED BY <2>2, <2>3
<1> HIDE DEF x
<1>10. Present(x.c.sequences, s.id)
  BY <1>6, <1>9 DEF Present, Put, Over
<1>11. Good(w, x, b)
  BY <1>8, <1>9, GoodTrans
<1>12. Good(w, w, b)
  BY GoodRefl
<1> QED BY <1>1, <1>10, <1>11, <1>12 DEF seq, p

(* ALTER SEQUENCE OWNED BY and OWNER TO.                                   *)
LEMMA SequenceOwnedByGood ==
    ASSUME NEW w, NEW b, OnTrack(w, b), NEW s, Present(w.c.sequences, s.id)
    PROVE  Good(w, SequenceOwnedBy(w, s), b)
<1> DEFINE r == [w.c.sequences[s.id] EXCEPT !.ownedby = s.ownedby,
                                            !.kind = IF s.ownedby = <<>> THEN "standalone" ELSE "owned"]
           x == Assign(w, "sequences", s.id, r)
           E == {e \in x.c.edges : ~(e.k = "owned" /\ e.d = s.id)}
           y == Rewrite(x, E)
           F == IF s.ownedby = <<>> THEN {} ELSE {OwnedEdge(s.id, s.ownedby[1], s.ownedby[2])}
<1>1. "sequences" \in FitMaps
  BY DEF FitMaps
<1>2. Entry("sequences", r)
  <2>1. Entry("sequences", w.c["sequences"][s.id]) /\ HasState(w.c["sequences"][s.id])
    BY <1>1, FitEntry
  <2> QED BY <2>1, SameSequence DEF HasState
<1>3. Good(w, x, b)
  BY <1>1, <1>2, AssignFit
<1>4. SequenceOwnedBy(w, s) = AddEdges(y, F)
  <2>1. Retain(x, LAMBDA e : ~(e.k = "owned" /\ e.d = s.id)) = y
    <3> HIDE DEF x
    <3>1. SnapGraphFull(x).c = x.c
      BY <1>3, FullGraphGood, GoodTrack
    <3> QED BY <1>3, <3>1, RetainForm, GoodTrack DEF Retain
  <2> QED BY <2>1 DEF SequenceOwnedBy
<1> HIDE DEF x, E, F
<1>5. Good(x, y, b)
  BY <1>3, RewriteGood, GoodTrack
<1> HIDE DEF y
<1>6. Good(y, AddEdges(y, F), b)
  BY <1>5, AddEdgesGood, GoodTrack
<1> QED BY <1>3, <1>4, <1>5, <1>6, GoodTrans

LEMMA SequenceOwnerGood ==
    ASSUME NEW w, NEW b, OnTrack(w, b), NEW s, Present(w.c.sequences, s.id)
    PROVE  Good(w, SequenceOwner(w, s), b)
<1> DEFINE y == TaintIf(w, RoleDoubt(w.c, s.owner))
           r == [w.c.sequences[s.id] EXCEPT !.owner = s.owner]
<1>1. SequenceOwner(w, s) = Assign(y, "sequences", s.id, r)
  BY DEF SequenceOwner
<1>2. "sequences" \in FitMaps
  BY DEF FitMaps
<1>3. Entry("sequences", r)
  <2>1. Entry("sequences", w.c["sequences"][s.id]) /\ HasState(w.c["sequences"][s.id])
    BY <1>2, FitEntry
  <2> QED BY <2>1, SameSequence DEF HasState
<1>4. Good(w, y, b)
  BY TaintIfGood
<1> HIDE DEF y, r
<1>5. Good(y, Assign(y, "sequences", s.id, r), b)
  BY <1>2, <1>3, <1>4, AssignFit, GoodTrack
<1> QED BY <1>1, <1>4, <1>5, GoodTrans

(* A key that moves leaves a map, and a map of a catalog is one.           *)
LEMMA RekeyMap ==
    ASSUME NEW f, NEW m, IsMap(f, m), NEW k \in DOMAIN m, NEW j
    PROVE  IsMap(f, Rekey(m, k, j))
BY DEF IsMap, Rekey, Put, Over, Without

LEMMA CatalogMap ==
    ASSUME NEW w, NEW b, OnTrack(w, b), NEW f \in MapFields
    PROVE  IsMap(f, w.c[f])
BY DEF OnTrack, Leads, IsCatalog

(* ALTER SEQUENCE RENAME and SET SCHEMA, and ALTER SEQUENCE as a whole.    *)
LEMMA SequenceRenamedGood ==
    ASSUME NEW w, NEW b, OnTrack(w, b), NEW s, Present(w.c.sequences, s.id)
    PROVE  Good(w, SequenceRenamed(w, s), b)
<1> DEFINE x == snapshot_namespace(w)
           m == Rekey(x.c.sequences, s.id, s.to)
           E == AddEdge(PropagateSequenceRename(x.c.edges, s.id, s.to), RenameEdge(s.id, s.to))
           B == {IF q = s.id THEN s.to ELSE q : q \in x.c.baseseq}
           d == [x.c EXCEPT !.sequences = m, !.edges = E, !.baseseq = B]
<1>1. Good(w, x, b) /\ x.c = w.c /\ NamespaceFields \subseteq DOMAIN x.u.whole /\ x.u.graph.kind = "full"
  BY NamespaceGood
<1>2. SequenceRenamed(w, s) = [x EXCEPT !.c = d]
  <2> HIDE DEF x
  <2>1. SequenceRenamed(w, s)
          = [x EXCEPT !.c.sequences = Rekey(@, s.id, s.to),
                      !.c.edges = AddEdge(PropagateSequenceRename(@, s.id, s.to), RenameEdge(s.id, s.to)),
                      !.c.baseseq = {IF q = s.id THEN s.to ELSE q : q \in @}]
    BY DEF SequenceRenamed, x
  <2>2. x = [c |-> x.c, u |-> x.u] /\ x.c = [g \in CatalogFields |-> x.c[g]]
    BY <1>1 DEF Good, OnTrack, Leads, IsCatalog
  <2>3. {"sequences", "edges", "baseseq"} \subseteq CatalogFields
    BY DEF CatalogFields, MapFields, PlainFields
  <2> QED BY <2>1, <2>2, <2>3
<1> HIDE DEF x
<1>3. IsMap("sequences", m)
  <2>1. "sequences" \in MapFields BY DEF MapFields
  <2>2. IsMap("sequences", x.c["sequences"]) BY <1>1, <2>1, CatalogMap, GoodTrack
  <2> QED BY <1>1, <2>2, RekeyMap DEF Present
<1> HIDE DEF m, E, B
<1>4. d = [g \in CatalogFields |-> d[g]]
  BY <1>1 DEF Good, OnTrack, Leads, IsCatalog
<1>5. Same(x.c, d, NamespaceFields \cup {"edges"})
  BY <1>1 DEF Same, NamespaceFields, Good, OnTrack, Leads, IsCatalog
<1>6. \A f \in MapFields \cap NamespaceFields : IsMap(f, d[f])
  <2>1. \A f \in MapFields : IsMap(f, x.c[f])
    BY <1>1, CatalogMap, GoodTrack
  <2>2. \A f \in MapFields \ {"sequences"} : d[f] = x.c[f]
    BY <1>1, FieldsApart DEF Good, OnTrack, Leads, IsCatalog, CatalogFields, MapFields, PlainFields
  <2>3. d["sequences"] = m
    BY <1>1 DEF Good, OnTrack, Leads, IsCatalog, CatalogFields, MapFields
  <2> QED BY <1>3, <2>1, <2>2, <2>3
<1> HIDE DEF d
<1>7. Good(x, [x EXCEPT !.c = d], b)
  BY <1>1, <1>4, <1>5, <1>6, NamespaceChange, GoodTrack
<1> QED BY <1>1, <1>2, <1>7, GoodTrans

LEMMA AlterSequenceGood ==
    ASSUME NEW w, NEW b, OnTrack(w, b), NEW s, Numeric(s.opts), AlterSequenceVerdict(w.c, s) = "ok"
    PROVE  Good(w, AlterSequenceEffect(w, s), b)
<1> DEFINE x == SetSequenceParams(w, s, w.c.sequences[s.id], MergedParams(w.c.sequences[s.id].par, s.opts, FALSE))
<1>1. Present(w.c.sequences, s.id)
  <2>1. AlterSequenceTarget(w.c, s, sequence_lookup(w.c, s.id)) = "ok"
    BY Chain DEF AlterSequenceVerdict
  <2>2. sequence_lookup(w.c, s.id) = "present"
    BY <2>1 DEF AlterSequenceTarget
  <2> QED BY <2>2 DEF sequence_lookup
<1>2. Good(w, x, b) /\ Present(x.c.sequences, s.id)
  <2>1. AlterSequenceParams(w.c.sequences[s.id], s.opts) = "ok"
    BY Chain DEF AlterSequenceVerdict
  <2> QED BY <1>1, <2>1, SequenceParamsGood
<1>3. AlterSequenceEffect(w, s) = SequenceAction(x, s)
  BY DEF AlterSequenceEffect
<1> HIDE DEF x
<1>4. Good(x, SequenceAction(x, s), b)
  <2>1. OnTrack(x, b)
    BY <1>2, GoodTrack
  <2> QED BY <1>2, <2>1, SequenceOwnedByGood, SequenceOwnerGood, SequenceRenamedGood, GoodRefl DEF SequenceAction
<1> QED BY <1>2, <1>3, <1>4, GoodTrans

(* apply_drop_sequence: the defaults that used the sequence go with it.    *)
LEMMA ClearDefaultsGood ==
    ASSUME NEW w, NEW b, OnTrack(w, b), NEW seqs
    PROVE  Good(w, clear_sequence_defaults_on_cascade(w, seqs), b)
<1> DEFINE uses(t, col) == \E q \in seqs : DefaultUses(w.c, q, t, col)
           hit == {t \in Live(w.c.relations) : \E col \in DOMAIN Rel(w.c, t).cols : uses(t, col)}
           cleared(t) ==
              [Rel(w.c, t) EXCEPT !.cols =
                  [col \in DOMAIN @ |-> IF uses(t, col) THEN [@[col] EXCEPT !.dflt = <<>>] ELSE @[col]]]
           x == Snap(w, "relations", hit)
           n == [t \in hit |-> cleared(t)]
<1>1. clear_sequence_defaults_on_cascade(w, seqs) = Set(x, "relations", Over(n, x.c["relations"]))
  BY DEF clear_sequence_defaults_on_cascade
<1>2. "relations" \in FitMaps
  BY DEF FitMaps
<1>3. \A t \in DOMAIN n : Entry("relations", n[t])
  <2> SUFFICES ASSUME NEW t \in hit PROVE Entry("relations", cleared(t))
    OBVIOUS
  <2>1. Present(w.c["relations"], t)
    BY DEF Present, Live
  <2>2. Entry("relations", Rel(w.c, t)) /\ HasState(Rel(w.c, t))
    BY <1>2, <2>1, FitEntry DEF Rel
  <2> HIDE DEF uses
  <2> QED BY <2>2, SameRelation DEF HasState
<1>4. n = [k \in DOMAIN n |-> n[k]] /\ DOMAIN n = hit
  OBVIOUS
<1> HIDE DEF n, hit
<1>5. Good(w, x, b) /\ \A k \in hit : KeySaved(x.u, "relations", k)
  BY <1>2, SnapFit
<1> HIDE DEF x
<1>6. Good(x, Set(x, "relations", Over(n, x.c["relations"])), b)
  BY <1>2, <1>3, <1>4, <1>5, OverFit, GoodTrack
<1> QED BY <1>1, <1>5, <1>6, GoodTrans

LEMMA DropSequenceGood ==
    ASSUME NEW w, NEW b, OnTrack(w, b), NEW s
    PROVE  Good(w, DropSequenceEffect(w, s), b)
<1> DEFINE now == DropSequenceTargets(w.c, s)
           x == IF s.cascade THEN clear_sequence_defaults_on_cascade(w, now) ELSE w
           y == DropKeys(x, "sequences", now)
           E == {e \in y.c.edges : ~(\/ e.k = "owned" /\ e.d \in now
                                     \/ e.k = "default" /\ e.r \in now)}
<1>1. Good(w, x, b)
  BY ClearDefaultsGood, GoodRefl
<1>2. Good(x, y, b)
  <2>1. "sequences" \in FitMaps
    BY DEF FitMaps
  <2> HIDE DEF x
  <2> QED BY <1>1, <2>1, DropKeysFit, GoodTrack
<1>3. DropSequenceEffect(w, s) = Rewrite(y, E)
  <2>1. DropSequenceEffect(w, s) = Retain(y, LAMBDA e : ~(\/ e.k = "owned" /\ e.d \in now
                                                          \/ e.k = "default" /\ e.r \in now))
    BY DEF DropSequenceEffect
  <2> HIDE DEF x, y, now
  <2>2. SnapGraphFull(y).c = y.c
    BY <1>2, FullGraphGood, GoodTrack
  <2> QED BY <1>2, <2>1, <2>2, RetainForm, GoodTrack DEF Retain
<1> HIDE DEF x, y, E
<1>4. Good(y, Rewrite(y, E), b)
  BY <1>2, RewriteGood, GoodTrack
<1> QED BY <1>1, <1>2, <1>3, <1>4, GoodTrans

------------------------------------------------------------------------------
(* Keys that move, and publications: create, alter, rename and drop.       *)

(* One entry written where its key is saved.                               *)
LEMMA PutGood ==
    ASSUME NEW w, NEW b, OnTrack(w, b), NEW f \in MapsInUse \ {"subscriptions"}, NEW k, KeySaved(w.u, f, k),
           NEW r, HasState(r)
    PROVE  /\ Good(w, Set(w, f, Put(w.c[f], k, r)), b) /\ Set(w, f, Put(w.c[f], k, r)).u = w.u
           /\ Same(w.c, Set(w, f, Put(w.c[f], k, r)).c, {f})
<1> DEFINE n == [x \in {k} |-> r]
<1>1. n = [j \in DOMAIN n |-> n[j]] /\ \A j \in DOMAIN n : HasState(n[j]) /\ KeySaved(w.u, f, j)
  OBVIOUS
<1>2. Put(w.c[f], k, r) = Over(n, w.c[f])
  BY DEF Put
<1> HIDE DEF n
<1> QED BY <1>1, <1>2, OverGood

LEMMA PutFit ==
    ASSUME NEW w, NEW b, OnTrack(w, b), NEW f \in FitMaps, NEW k, KeySaved(w.u, f, k), NEW r, Entry(f, r)
    PROVE  /\ Good(w, Set(w, f, Put(w.c[f], k, r)), b) /\ Set(w, f, Put(w.c[f], k, r)).u = w.u
           /\ Same(w.c, Set(w, f, Put(w.c[f], k, r)).c, {f})
<1> DEFINE n == [x \in {k} |-> r]
<1>1. n = [j \in DOMAIN n |-> n[j]] /\ \A j \in DOMAIN n : Entry(f, n[j]) /\ KeySaved(w.u, f, j)
  OBVIOUS
<1>2. Put(w.c[f], k, r) = Over(n, w.c[f])
  BY DEF Put
<1> HIDE DEF n
<1>3. /\ Good(w, Set(w, f, Over(n, w.c[f])), b) /\ Set(w, f, Over(n, w.c[f])).u = w.u
      /\ Same(w.c, Set(w, f, Over(n, w.c[f])).c, {f})
  BY <1>1, OverFit
<1> QED BY <1>2, <1>3

(* An entry that moves, both keys saved.                                   *)
LEMMA RekeySafe ==
    ASSUME NEW f, NEW m, IsMap(f, m), NEW k \in DOMAIN m, NEW j, NEW u, KeySaved(u, f, k), KeySaved(u, f, j)
    PROVE  IsMap(f, Rekey(m, k, j)) /\ SafeMap(u, f, m, Rekey(m, k, j))
<1>1. IsMap(f, Rekey(m, k, j))
  BY RekeyMap
<1>2. \A i : i # k /\ i # j => At(Rekey(m, k, j), i) = At(m, i)
  BY DEF Rekey, Put, Over, Without, At
<1> QED BY <1>1, <1>2 DEF SafeMap

LEMMA SetMapGood ==
    ASSUME NEW w, NEW b, OnTrack(w, b), NEW f \in MapsInUse \ {"subscriptions"},
           NEW m, IsMap(f, m), SafeMap(w.u, f, w.c[f], m)
    PROVE  /\ Good(w, Set(w, f, m), b) /\ Set(w, f, m).u = w.u
           /\ Same(w.c, Set(w, f, m).c, {f})
<1> DEFINE x == Set(w, f, m)
<1>1. f \in MapFields
  BY MapsInUseAre
<1>2. OnTrack(x, b) /\ x.u = w.u /\ x.c[f] = m /\ Same(w.c, x.c, {f})
  BY <1>1, SetMapOk
<1> HIDE DEF x
<1>3. Good(w, x, b)
  BY <1>2 DEF Good, Same, CatalogFields, MapFields
<1> QED BY <1>2, <1>3 DEF x

LEMMA RekeyGood ==
    ASSUME NEW w, NEW b, OnTrack(w, b), NEW f \in MapsInUse \ {"subscriptions"}, NEW k \in DOMAIN w.c[f], NEW j,
           KeySaved(w.u, f, k), KeySaved(w.u, f, j)
    PROVE  Good(w, Set(w, f, Rekey(w.c[f], k, j)), b) /\ Set(w, f, Rekey(w.c[f], k, j)).u = w.u
<1> DEFINE m == Rekey(w.c[f], k, j)
<1>1. IsMap(f, w.c[f])
  BY MapsInUseAre, CatalogMap
<1>2. IsMap(f, m) /\ SafeMap(w.u, f, w.c[f], m)
  BY <1>1, RekeySafe
<1> HIDE DEF m
<1>3. Good(w, Set(w, f, m), b) /\ Set(w, f, m).u = w.u
  BY <1>2, SetMapGood
<1> QED BY <1>3 DEF m

(* apply_create_publication.                                               *)
LEMMA CreatePublicationGood ==
    ASSUME NEW w, NEW b, OnTrack(w, b), NEW s
    PROVE  Good(w, CreatePublicationEffect(w, s), b)
<1> DEFINE objs == normalize_publication_scope(w.c, s.objs)
           v == TaintIf(w, publication_lookup(w.c, s.name) = "unknown" \/ ScopeDoubt(w.c, s.all, objs))
           x == Bump(v)
           r == [st |-> "present", owner |-> w.c.me, all |-> s.all, objs |-> Stored(objs),
                 par |-> effective_publication_params(w.c, s.opts), gen |-> x.c.gen]
           y == Assign(x, "publications", s.name, r)
           E == y.c.edges \cup PublicationEdges(s.name, Stored(objs))
<1>1. CreatePublicationEffect(w, s) = IF s.all THEN y ELSE Rewrite(y, E)
  BY DEF CreatePublicationEffect
<1>2. HasState(r) /\ "publications" \in MapsInUse \ {"subscriptions"}
  BY DEF HasState, MapsInUse
<1>3. Good(w, v, b)
  BY TaintIfGood
<1> HIDE DEF r, v
<1>4. Good(v, x, b)
  BY <1>3, BumpGood, GoodTrack
<1> HIDE DEF x
<1>5. Good(x, y, b)
  BY <1>2, <1>4, AssignGood, GoodTrack
<1> HIDE DEF y, E
<1>6. Good(y, Rewrite(y, E), b)
  BY <1>5, RewriteGood, GoodTrack
<1> QED BY <1>1, <1>3, <1>4, <1>5, <1>6, GoodTrans

(* The parts of ALTER PUBLICATION: the record is written; and the edges    *)
(* follow, or the name does.                                               *)
LEMMA PublicationPut ==
    ASSUME NEW v, NEW b, OnTrack(v, b), NEW name, KeySaved(v.u, "publications", name), NEW r, HasState(r), NEW g
    PROVE  LET x == Set(v, "publications", Put(v.c.publications, name, [r EXCEPT !.gen = g]))
           IN  Good(v, x, b) /\ x.u = v.u /\ name \in DOMAIN x.c.publications
<1> DEFINE q == [r EXCEPT !.gen = g]
           m == Put(v.c["publications"], name, q)
           x == Set(v, "publications", m)
<1>1. HasState(q)
  BY DEF HasState
<1>2. "publications" \in MapsInUse \ {"subscriptions"} /\ "publications" \in MapFields
  BY MapsInUseAre DEF MapsInUse
<1> HIDE DEF q
<1>3. IsMap("publications", v.c["publications"]) /\ Entry("publications", q)
  BY <1>1, <1>2, CatalogMap, StateEntry
<1>4. IsMap("publications", m) /\ SafeMap(v.u, "publications", v.c["publications"], m)
  BY <1>3, PutMap
<1>5. name \in DOMAIN m
  BY DEF Put, Over
<1> HIDE DEF m
<1>6. Good(v, x, b) /\ x.u = v.u
  BY <1>2, <1>4, SetMapGood
<1>7. x.c["publications"] = m
  <2>1. "publications" \in CatalogFields
    BY DEF CatalogFields, MapFields
  <2> QED BY <2>1 DEF Set, OnTrack, Leads, IsCatalog
<1> QED BY <1>5, <1>6, <1>7 DEF x, m, q
(* ALTER PUBLICATION RENAME.                                               *)
LEMMA PublicationRenamed ==
    ASSUME NEW y, NEW b, OnTrack(y, b), NEW name \in DOMAIN y.c.publications, NEW to,
           KeySaved(y.u, "publications", name)
    PROVE  LET v == SnapGraphFull(Snap(y, "publications", {to}))
           IN  Good(y, [v EXCEPT !.c.publications = Rekey(@, name, to),
                                 !.c.edges = RenamePublication(@, <<"", name>>, <<"", to>>)], b)
<1> DEFINE z == Snap(y, "publications", {to})
           v == SnapGraphFull(z)
           m == Rekey(v.c["publications"], name, to)
           t == Set(v, "publications", m)
           E == RenamePublication(v.c.edges, <<"", name>>, <<"", to>>)
<1>1. "publications" \in MapsInUse \ {"subscriptions"} /\ "publications" \in CatalogFields
  BY DEF MapsInUse, CatalogFields, MapFields
<1>2. Good(y, z, b) /\ z.c = y.c /\ Keeps(y.u, z.u) /\ KeySaved(z.u, "publications", to)
  BY <1>1, SnapGood
<1> HIDE DEF z
<1>3. Good(z, v, b) /\ v.c = z.c /\ Keeps(z.u, v.u) /\ v.u.graph.kind = "full"
  BY <1>2, FullGraphGood, GoodTrack
<1> HIDE DEF v
<1>4. KeySaved(v.u, "publications", name) /\ KeySaved(v.u, "publications", to)
  BY <1>2, <1>3 DEF Keeps
<1>5. Good(v, t, b) /\ t.u = v.u
  BY <1>1, <1>2, <1>3, <1>4, RekeyGood, GoodTrack
<1>6. [v EXCEPT !.c.publications = Rekey(@, name, to),
                !.c.edges = RenamePublication(@, <<"", name>>, <<"", to>>)] = Set(t, "edges", E)
  <2>1. v = [c |-> v.c, u |-> v.u] /\ v.c = [g \in CatalogFields |-> v.c[g]]
    BY <1>3 DEF Good, OnTrack, Leads, IsCatalog
  <2>2. "edges" \in CatalogFields
    BY DEF CatalogFields
  <2> QED BY <1>1, <2>1, <2>2 DEF Set
<1> HIDE DEF t, E
<1>7. Good(t, Set(t, "edges", E), b)
  BY <1>3, <1>5, EdgesGood, GoodTrack
<1>8. Good(y, Set(t, "edges", E), b)
  BY <1>2, <1>3, <1>5, <1>7, GoodTrans
<1> QED BY <1>6, <1>8 DEF v, z

(* An edit after the graph has been saved in full, where the edit asks for *)
(* it.                                                                     *)
LEMMA ScopedGood ==
    ASSUME NEW y, NEW b, OnTrack(y, b), NEW E, NEW all, NEW F
    PROVE  LET v == Rewrite(y, E)
           IN  Good(y, IF all THEN v ELSE Set(v, "edges", v.c.edges \cup F), b)
<1> DEFINE v == Rewrite(y, E)
           G == v.c.edges \cup F
<1>2. Good(y, v, b) /\ v.u.graph.kind = "full"
  BY RewriteGood
<1> HIDE DEF v
<1>3. Good(v, Set(v, "edges", G), b)
  <2> HIDE DEF G
  <2> QED BY <1>2, EdgesGood, GoodTrack
<1>4. Good(y, Set(v, "edges", G), b)
  BY <1>2, <1>3, GoodTrans
<1> QED BY <1>2, <1>4 DEF v

(* apply_alter_publication and apply_drop_publication.                     *)
LEMMA AlterPublicationGood ==
    ASSUME NEW w, NEW b, OnTrack(w, b), NEW s, AlterPublicationVerdict(w.c, s) = "ok"
    PROVE  Good(w, AlterPublicationEffect(w, s), b)
<1> DEFINE p == w.c.publications[s.name]
           v == Snap(w, "publications", {s.name})
           x == Bump(v)
           put(a, new) == Set(a, "publications", Put(a.c.publications, s.name, [new EXCEPT !.gen = x.c.gen]))
           named == {publication_object_key(o) : o \in ToSet(s.objs)}
           old  == SetToSeq({[kind |-> o.kind, id |-> o.id, cols |-> SetToSeq(o.cols), only |-> FALSE] : o \in p.objs})
           objs == Stored(normalize_publication_scope(w.c,
                       CASE s.action = "add" -> old \o s.objs
                         [] s.action = "set" -> s.objs
                         [] OTHER -> SelectSeq(old, LAMBDA o : publication_object_key(o) \notin named)))
           all  == s.action = "set" /\ s.all
           doubt == CASE s.action = "drop" -> publication_scope_needs_inheritance_knowledge(w.c, FALSE, s.objs)
                      [] OTHER             -> ScopeDoubt(w.c, all, s.objs)
           y1 == TaintIf(x, doubt)
           y2 == TaintIf(x, OwnerDoubt(w.c, s.owner))
           r0 == [p EXCEPT !.par = effective_publication_params(w.c, Over(s.opts, @))]
           r1 == [p EXCEPT !.objs = IF all THEN {} ELSE objs, !.all = all]
           r2 == [p EXCEPT !.owner = s.owner]
           z1 == put(y1, r1)
           scoped == LET a == Retain(z1, LAMBDA e : ~InPublication(e, s.name))
                     IN  IF all THEN a ELSE Set(a, "edges", a.c.edges \cup PublicationEdges(s.name, objs))
           z3 == put(x, p)
           a3 == SnapGraphFull(Snap(z3, "publications", {s.to}))
           moved == [a3 EXCEPT !.c.publications = Rekey(@, s.name, s.to),
                               !.c.edges = RenamePublication(@, <<"", s.name>>, <<"", s.to>>)]
<1>1. AlterPublicationEffect(w, s)
        = CASE s.action = "options" -> put(x, r0)
            [] s.action = "owner"   -> put(y2, r2)
            [] s.action = "rename"  -> moved
            [] OTHER                -> scoped
  BY DEF AlterPublicationEffect
<1>2. HasState(p)
  <2>1. Ensure(publication_lookup(w.c, s.name)) = "ok"
    BY Chain DEF AlterPublicationVerdict
  <2>2. Present(w.c["publications"], s.name)
    BY <2>1 DEF Ensure, publication_lookup, NameLookup
  <2>3. "publications" \in MapFields \ {"constraints"}
    BY DEF MapFields
  <2> QED BY <2>2, <2>3, EntryOf
<1>3. HasState(r0) /\ HasState(r1) /\ HasState(r2)
  <2> HIDE DEF p, objs, all
  <2> QED BY <1>2 DEF HasState
<1>4. Good(w, x, b) /\ KeySaved(x.u, "publications", s.name)
  <2>1. "publications" \in MapsInUse
    BY DEF MapsInUse
  <2>2. Good(w, v, b) /\ KeySaved(v.u, "publications", s.name)
    BY <2>1, SnapGood
  <2> HIDE DEF v
  <2>3. Good(v, x, b) /\ Keeps(v.u, x.u)
    BY <2>2, BumpGood, GoodTrack
  <2> HIDE DEF x
  <2> QED BY <2>2, <2>3, GoodTrans DEF Keeps
<1> HIDE DEF p, objs, all, doubt, r0, r1, r2
<1> DEFINE g == x.c.gen
<1>5. ASSUME NEW a, Good(x, a, b), Keeps(x.u, a.u), NEW r, HasState(r)
      PROVE  Good(w, put(a, r), b) /\ put(a, r).u = a.u /\ s.name \in DOMAIN put(a, r).c.publications
  <2> HIDE DEF g, x
  <2>1. KeySaved(a.u, "publications", s.name)
    BY <1>4, <1>5 DEF Keeps
  <2>2. Good(a, put(a, r), b) /\ put(a, r).u = a.u /\ s.name \in DOMAIN put(a, r).c.publications
    BY <1>5, <2>1, PublicationPut, GoodTrack
  <2> HIDE DEF put
  <2> QED BY <1>4, <1>5, <2>2, GoodTrans
<1> HIDE DEF put, x
<1>6. Good(x, x, b) /\ Keeps(x.u, x.u)
  BY <1>4, GoodRefl, GoodTrack, KeepsRefl
<1>7. Good(x, y1, b) /\ Keeps(x.u, y1.u) /\ Good(x, y2, b) /\ Keeps(x.u, y2.u)
  BY <1>4, TaintIfGood, GoodTrack
<1> HIDE DEF y1, y2
<1>8. Good(w, put(x, r0), b)
  BY <1>3, <1>5, <1>6
<1>9. Good(w, put(y2, r2), b)
  BY <1>3, <1>5, <1>7
<1>10. Good(w, scoped, b)
  <2>1. Good(w, z1, b)
    BY <1>3, <1>5, <1>7
  <2> HIDE DEF z1
  <2> DEFINE E == {e \in z1.c.edges : ~InPublication(e, s.name)}
             F == PublicationEdges(s.name, objs)
  <2>2. Retain(z1, LAMBDA e : ~InPublication(e, s.name)) = Rewrite(z1, E)
    <3>1. SnapGraphFull(z1).c = z1.c
      BY <2>1, FullGraphGood, GoodTrack
    <3> QED BY <2>1, <3>1, RetainForm, GoodTrack DEF Retain
  <2>3. scoped = LET a == Rewrite(z1, E) IN IF all THEN a ELSE Set(a, "edges", a.c.edges \cup F)
    BY <2>2
  <2> HIDE DEF scoped, E, F
  <2>4. \A Q, p1, G : Good(z1, LET a == Rewrite(z1, Q) IN IF p1 THEN a ELSE Set(a, "edges", a.c.edges \cup G), b)
    BY <2>1, ScopedGood, GoodTrack
  <2>5. Good(z1, scoped, b)
    BY <2>3, <2>4
  <2> QED BY <2>1, <2>5, GoodTrans
<1>11. Good(w, moved, b)
  <2>1. Good(w, z3, b) /\ z3.u = x.u /\ s.name \in DOMAIN z3.c.publications
    BY <1>2, <1>5, <1>6
  <2> HIDE DEF z3
  <2>2. Good(z3, moved, b)
    BY <1>4, <2>1, PublicationRenamed, GoodTrack
  <2> QED BY <2>1, <2>2, GoodTrans
<1> HIDE DEF scoped, moved
<1> QED BY <1>1, <1>8, <1>9, <1>10, <1>11

LEMMA DropPublicationGood ==
    ASSUME NEW w, NEW b, OnTrack(w, b), NEW now
    PROVE  Good(w, Retain(DropKeys(w, "publications", now), LAMBDA e : ~(e.k = "pub" /\ e.r[2] \in now)), b)
<1> DEFINE y == DropKeys(w, "publications", now)
           E == {e \in y.c.edges : ~(e.k = "pub" /\ e.r[2] \in now)}
<1>1. Good(w, y, b)
  <2>1. "publications" \in MapsInUse \ {"subscriptions"}
    BY DEF MapsInUse
  <2> QED BY <2>1, DropKeysGood
<1> HIDE DEF y
<1>2. Retain(y, LAMBDA e : ~(e.k = "pub" /\ e.r[2] \in now)) = Rewrite(y, E)
  <2>1. SnapGraphFull(y).c = y.c
    BY <1>1, FullGraphGood, GoodTrack
  <2> QED BY <1>1, <2>1, RetainForm, GoodTrack DEF Retain
<1> HIDE DEF E
<1>3. Good(y, Rewrite(y, E), b)
  BY <1>1, RewriteGood, GoodTrack
<1>4. Good(w, Rewrite(y, E), b)
  BY <1>1, <1>3, GoodTrans
<1> QED BY <1>2, <1>4 DEF y

------------------------------------------------------------------------------
(* Subscriptions: create, alter and drop keep a slot for what is enabled.  *)

(* A subscription that is enabled has a slot.                              *)
Slotted(r) == r.st = "present" => {"enabled", "slot"} \subseteq DOMAIN r /\ (r.enabled => r.slot # "")
Slots(m)   == \A k \in DOMAIN m : Slotted(m[k])

(* A step that leaves a log on track and the subscriptions in order.       *)
Fine(x, b) == OnTrack(x, b) /\ Slots(x.c.subscriptions)

(* A handler that leaves the subscriptions alone leaves them in order.     *)
LEMMA GoodFine ==
    ASSUME NEW w, NEW x, NEW b, Good(w, x, b), Slots(w.c.subscriptions)
    PROVE  Fine(x, b)
BY DEF Good, Fine

(* Subscriptions stay in order when one that has its slot is written.      *)
LEMMA SlotsPut ==
    ASSUME NEW m, Slots(m), NEW k, NEW r, Slotted(r)
    PROVE  Slots(Put(m, k, r))
BY DEF Slots, Put, Over

LEMMA SubscriptionsField == "subscriptions" \in MapFields \ {"constraints"} /\ "subscriptions" \in MapsInUse
BY DEF MapsInUse, MapFields

LEMMA SetSubscriptions ==
    ASSUME NEW w, NEW b, OnTrack(w, b), NEW m, IsMap("subscriptions", m),
           SafeMap(w.u, "subscriptions", w.c["subscriptions"], m), Slots(m)
    PROVE  Fine(Set(w, "subscriptions", m), b) /\ Set(w, "subscriptions", m).u = w.u
<1> DEFINE x == Set(w, "subscriptions", m)
<1>1. OnTrack(x, b) /\ x.u = w.u /\ x.c["subscriptions"] = m
  <2>1. OnTrack(x, b) /\ x.u = w.u
    <3>1. ASSUME NEW f \in MapFields, IsMap(f, m), SafeMap(w.u, f, w.c[f], m)
          PROVE  LET z == Set(w, f, m) IN OnTrack(z, b) /\ z.u = w.u /\ z.c[f] = m /\ Same(w.c, z.c, {f})
      BY <3>1, SetMapOk
    <3> QED BY <3>1, SubscriptionsField
  <2>2. "subscriptions" \in CatalogFields
    BY SubscriptionsField DEF CatalogFields
  <2> QED BY <2>1, <2>2 DEF Set, OnTrack, Leads, IsCatalog
<1> HIDE DEF x
<1>2. Fine(x, b) /\ x.u = w.u
  BY <1>1 DEF Fine
<1> QED BY <1>2 DEF x

(* apply_create_subscription: an enabled subscription is checked for a     *)
(* slot.                                                                   *)
LEMMA CreateSubscriptionGood ==
    ASSUME NEW w, NEW b, Fine(w, b), NEW s, CreateSubscriptionVerdict(w.c, s) = "ok"
    PROVE  Fine(CreateSubscriptionEffect(w, s), b)
<1> DEFINE v == TaintIf(w, Connects(s) \/ subscription_lookup(w.c, s.name) = "unknown")
           x == Bump(v)
           r == [st |-> "present", owner |-> w.c.me, conn |-> s.conn, pubs |-> ToSet(s.pubs), par |-> s.opts,
                 enabled |-> StartsEnabled(s), slot |-> SlotOf(s), gen |-> x.c.gen]
           y == Assign(x, "subscriptions", s.name, r)
<1>1. CreateSubscriptionEffect(w, s) = y
  BY DEF CreateSubscriptionEffect
<1>2. Reject(SlotOf(s) = "" /\ (StartsEnabled(s) \/ CreatesSlot(s))) = "ok"
  <2> DEFINE p == SlotOf(s) = "" /\ (StartsEnabled(s) \/ CreatesSlot(s))
  <2>1. CreateSubscriptionVerdict(w.c, s)
          = (Reject(subscription_lookup(w.c, s.name) = "present")
             ?? validate_subscription_options(w.c, s.opts)
             ?? Reject(~Connects(s) /\ \E o \in {"create_slot", "enabled", "copy_data"} : IsTrue(s.opts, o))
             ?? Reject(txn # "none" /\ CreatesSlot(s)) ?? Reject(p) ?? Reject(HasDuplicates(s.pubs)))
    BY DEF CreateSubscriptionVerdict
  <2> HIDE DEF p
  <2>2. Reject(p) = "ok"
    BY <2>1, Chain
  <2> QED BY <2>2 DEF p
<1>3. HasState(r) /\ Slotted(r)
  BY <1>2, RejectIsNot DEF HasState, Slotted
<1>4. Good(w, v, b)
  BY TaintIfGood DEF Fine
<1> HIDE DEF r, v
<1>5. Good(v, x, b)
  BY <1>4, BumpGood, GoodTrack
<1> HIDE DEF x
<1>6. Fine(x, b)
  BY <1>4, <1>5, GoodFine, GoodTrans DEF Fine
<1>7. OnTrack(y, b) /\ y.c["subscriptions"] = Put(x.c["subscriptions"], s.name, r)
  <2>1. Entry("subscriptions", r)
    BY <1>3, SubscriptionsField, StateEntry
  <2>2. OnTrack(x, b)
    BY <1>6 DEF Fine
  <2>3. OnTrack(y, b)
    BY <2>1, <2>2, SubscriptionsField, AssignOk DEF Stays
  <2>4. x.c = [f \in CatalogFields |-> x.c[f]] /\ x = [c |-> x.c, u |-> x.u] /\ "subscriptions" \in CatalogFields
    BY <2>2, SubscriptionsField DEF OnTrack, Leads, IsCatalog, CatalogFields
  <2> QED BY <2>3, <2>4 DEF Assign, Snap
<1> HIDE DEF y
<1>8. Slots(y.c.subscriptions)
  BY <1>3, <1>6, <1>7, SlotsPut DEF Fine
<1> QED BY <1>1, <1>7, <1>8 DEF Fine

(* apply_drop_subscription.                                                *)
LEMMA DropSubscriptionGood ==
    ASSUME NEW w, NEW b, Fine(w, b), NEW ks
    PROVE  Fine(DropKeys(Taint(w), "subscriptions", ks), b)
<1> DEFINE x == Taint(w)
           y == DropKeys(x, "subscriptions", ks)
<1>1. Fine(x, b)
  BY TaintGood, GoodFine DEF Fine
<1> HIDE DEF x
<1>2. OnTrack(y, b) /\ y.c["subscriptions"] = MarkDropped(x.c["subscriptions"], ks)
  BY <1>1, SubscriptionsField, DropKeysOk DEF Fine, Stays
<1> HIDE DEF y
<1>3. Slots(MarkDropped(x.c.subscriptions, ks))
  BY <1>1 DEF Fine, Slots, Slotted, MarkDropped, Over, Dropped
<1>4. Fine(y, b)
  BY <1>2, <1>3 DEF Fine
<1> QED BY <1>4 DEF x, y

(* What ALTER SUBSCRIPTION makes of the record.                            *)
AlteredSubscription(p, s) ==
    CASE s.action \in {"conn", "server"} -> [p EXCEPT !.conn = s.conn]
      [] s.action = "pubs"    -> [p EXCEPT !.pubs = CASE s.mode = "set" -> ToSet(s.pubs)
                                                      [] s.mode = "add" -> @ \cup ToSet(s.pubs)
                                                      [] OTHER          -> @ \ ToSet(s.pubs)]
      [] s.action = "enable"  -> [p EXCEPT !.enabled = s.enabled]
      [] s.action = "options" ->
            [p EXCEPT !.par = Over(s.opts, @),
                      !.slot = IF "slot_name" \in DOMAIN s.opts THEN SlotNamed(s.opts["slot_name"]) ELSE @]
      [] s.action = "skip"    -> [p EXCEPT !.par = Over([o \in {"skip_lsn"} |-> s.opts["lsn"]], @)]
      [] s.action = "owner"   -> [p EXCEPT !.owner = s.owner]
      [] OTHER                -> p

(* ALTER SUBSCRIPTION: enabling asks for a slot, and an enabled one refuses*)
(* to lose its slot.                                                       *)
LEMMA AlteredStays ==
    ASSUME NEW p, HasState(p), NEW s, Slotted(p), NEW g,
           s.action = "enable" => ~(s.enabled /\ p.slot = ""),
           s.action = "options" => ~(p.enabled /\ "slot_name" \in DOMAIN s.opts)
    PROVE  LET q == [AlteredSubscription(p, s) EXCEPT !.gen = g] IN HasState(q) /\ Slotted(q)
<1> DEFINE n == AlteredSubscription(p, s)
           q == [n EXCEPT !.gen = g]
<1>1. HasState(n) /\ n.st = p.st /\ DOMAIN n = DOMAIN p
  BY DEF HasState, AlteredSubscription
<1>2. p.st = "present" => (n.enabled => n.slot # "")
  <2> SUFFICES ASSUME p.st = "present" PROVE n.enabled => n.slot # ""
    OBVIOUS
  <2>0. {"enabled", "slot"} \subseteq DOMAIN p /\ (p.enabled => p.slot # "")
    BY DEF Slotted
  <2>1. CASE s.action = "enable"
    <3>1. n = [p EXCEPT !.enabled = s.enabled]
      BY <2>1 DEF AlteredSubscription
    <3>2. n.slot = p.slot /\ n.enabled = s.enabled
      BY <2>0, <3>1
    <3> HIDE DEF n
    <3> QED BY <2>1, <3>2
  <2>2. CASE s.action = "options"
    <3>1. n.enabled = p.enabled
      BY <2>0, <2>2 DEF AlteredSubscription
    <3>2. "slot_name" \notin DOMAIN s.opts => n.slot = p.slot
      BY <2>0, <2>2 DEF AlteredSubscription
    <3> HIDE DEF n
    <3> QED BY <2>0, <2>2, <3>1, <3>2
  <2>3. CASE s.action \notin {"enable", "options"}
    <3>1. n.enabled = p.enabled /\ n.slot = p.slot
      BY <2>0, <2>3 DEF AlteredSubscription
    <3> HIDE DEF n
    <3> QED BY <2>0, <3>1
  <2> QED BY <2>1, <2>2, <2>3
<1> HIDE DEF n
<1>3. HasState(q) /\ DOMAIN q = DOMAIN p /\ q.st = p.st
  BY <1>1 DEF HasState
<1>4. p.st = "present" => q.enabled = n.enabled /\ q.slot = n.slot
  BY <1>1 DEF Slotted
<1> HIDE DEF q
<1>5. Slotted(q)
  BY <1>2, <1>3, <1>4 DEF Slotted
<1> QED BY <1>3, <1>5 DEF q, n

LEMMA AlterSubscriptionGood ==
    ASSUME NEW w, NEW b, Fine(w, b), NEW s, AlterSubscriptionVerdict(w.c, s) = "ok"
    PROVE  Fine(AlterSubscriptionEffect(w, s), b)
<1> DEFINE p == w.c.subscriptions[s.name]
           v0 == Snap(w, "subscriptions", {s.name})
           x == Bump(v0)
           y == TaintIf(x, \/ s.action \in {"refresh", "server"}
                           \/ s.action = "pubs" /\ ~IsFalse(s.opts, "refresh")
                           \/ s.action = "owner" /\ OwnerDoubt(w.c, s.owner))
           q == [AlteredSubscription(p, s) EXCEPT !.gen = x.c.gen]
           m == Put(y.c.subscriptions, s.name, q)
           z == Set(y, "subscriptions", m)
           v == Snap(z, "subscriptions", {s.to})
           n == Rekey(v.c.subscriptions, s.name, s.to)
<1>1. AlterSubscriptionEffect(w, s) = IF s.action = "rename" THEN Set(v, "subscriptions", n) ELSE z
  BY DEF AlterSubscriptionEffect, AlteredSubscription
<1>2. /\ Ensure(subscription_lookup(w.c, s.name)) = "ok"
      /\ s.action = "enable" => Reject(s.enabled /\ p.slot = "") = "ok"
      /\ s.action = "options" => Reject(p.enabled /\ DOMAIN s.opts \cap {"slot_name", "failover", "two_phase"} # {}) = "ok"
  <2> DEFINE E == Ensure(subscription_lookup(w.c, s.name))
             R == IF s.action = "rename" THEN RenameTarget(subscription_lookup(w.c, s.to)) ELSE "ok"
             O == IF s.action = "owner" THEN OwnerTarget(w.c, s.owner) ELSE "ok"
             V == validate_subscription_options(w.c, s.opts)
             P == Reject(txn # "none" /\ ~IsFalse(s.opts, "refresh")) ?? Reject(HasDuplicates(s.pubs))
                  ?? CASE s.mode = "add"  -> Reject(ToSet(s.pubs) \cap p.pubs # {})
                       [] s.mode = "drop" -> Reject(~(ToSet(s.pubs) \subseteq p.pubs))
                       [] OTHER           -> "ok"
             A == Reject(p.enabled /\ DOMAIN s.opts \cap {"slot_name", "failover", "two_phase"} # {})
             B == Reject(txn # "none" /\ ("failover" \in DOMAIN s.opts \/ IsFalse(s.opts, "two_phase")))
             F == Reject(txn # "none")
             N == Reject(s.enabled /\ p.slot = "")
             K == CASE s.action = "pubs"    -> P
                    [] s.action = "refresh" -> F
                    [] s.action = "options" -> A ?? B
                    [] s.action = "enable"  -> N
                    [] OTHER                -> "ok"
  <2>1. AlterSubscriptionVerdict(w.c, s) = E ?? R ?? O ?? V ?? K
    BY DEF AlterSubscriptionVerdict
  <2> HIDE DEF E, R, O, V, P, A, B, F, N
  <2>2. s.action = "enable" => K = N
    OBVIOUS
  <2>3. s.action = "options" => K = (A ?? B)
    OBVIOUS
  <2> HIDE DEF K
  <2>4. E = "ok" /\ K = "ok"
    BY <2>1, Chain
  <2>5. s.action = "enable" => N = "ok"
    BY <2>2, <2>4
  <2>6. s.action = "options" => A = "ok"
    BY <2>3, <2>4, Chain
  <2> QED BY <2>4, <2>5, <2>6 DEF E, A, N
<1>3. HasState(p) /\ Slotted(p) /\ s.name \in DOMAIN w.c.subscriptions
  <2>1. Present(w.c["subscriptions"], s.name)
    BY <1>2 DEF Ensure, subscription_lookup, NameLookup
  <2>2. HasState(p) /\ s.name \in DOMAIN w.c.subscriptions
    BY <2>1, SubscriptionsField, EntryOf DEF Fine
  <2> QED BY <2>2 DEF Fine, Slots
<1>4. HasState(q) /\ Slotted(q)
  <2>1. s.action = "enable" => ~(s.enabled /\ p.slot = "")
    BY <1>2, RejectIsNot
  <2>2. s.action = "options" => ~(p.enabled /\ "slot_name" \in DOMAIN s.opts)
    <3>1. s.action = "options" => ~(p.enabled /\ DOMAIN s.opts \cap {"slot_name", "failover", "two_phase"} # {})
      BY <1>2, RejectIsNot
    <3> HIDE DEF p
    <3> QED BY <3>1
  <2> DEFINE g == x.c.gen
  <2> HIDE DEF p, g
  <2> QED BY <1>3, <2>1, <2>2, AlteredStays DEF g
<1>5. Good(w, v0, b) /\ KeySaved(v0.u, "subscriptions", s.name)
  BY SubscriptionsField, SnapGood DEF Fine
<1> HIDE DEF p, q, v0
<1>6. Good(v0, x, b) /\ Keeps(v0.u, x.u)
  BY <1>5, BumpGood, GoodTrack
<1> HIDE DEF x
<1>7. Good(x, y, b) /\ Keeps(x.u, y.u)
  BY <1>6, TaintIfGood, GoodTrack
<1> HIDE DEF y
<1>8. Fine(y, b) /\ KeySaved(y.u, "subscriptions", s.name)
  BY <1>5, <1>6, <1>7, GoodTrans, GoodFine DEF Fine, Keeps
<1>9. Fine(z, b) /\ z.u = y.u
  <2>1. IsMap("subscriptions", y.c["subscriptions"]) /\ Entry("subscriptions", q)
    BY <1>4, <1>8, SubscriptionsField, CatalogMap, StateEntry DEF Fine
  <2>2. IsMap("subscriptions", m) /\ SafeMap(y.u, "subscriptions", y.c["subscriptions"], m)
    BY <1>8, <2>1, PutMap
  <2>3. Slots(m)
    BY <1>4, <1>8, SlotsPut DEF Fine
  <2> HIDE DEF m
  <2> QED BY <1>8, <2>2, <2>3, SetSubscriptions DEF Fine
<1>10. s.name \in DOMAIN z.c.subscriptions
  <2>1. "subscriptions" \in CatalogFields
    BY SubscriptionsField DEF CatalogFields
  <2>2. s.name \in DOMAIN m
    BY DEF Put, Over
  <2> HIDE DEF m
  <2> QED BY <1>8, <2>1, <2>2 DEF Set, OnTrack, Leads, IsCatalog, Fine
<1> HIDE DEF z
<1>11. Fine(v, b) /\ v.c = z.c /\ Keeps(z.u, v.u) /\ KeySaved(v.u, "subscriptions", s.to)
  BY <1>9, SubscriptionsField, SnapGood, GoodFine DEF Fine
<1> HIDE DEF v
<1>12. Fine(Set(v, "subscriptions", n), b)
  <2>1. IsMap("subscriptions", v.c["subscriptions"]) /\ s.name \in DOMAIN v.c["subscriptions"]
    BY <1>10, <1>11, SubscriptionsField, CatalogMap DEF Fine
  <2>2. KeySaved(v.u, "subscriptions", s.name)
    BY <1>8, <1>9, <1>11 DEF Keeps
  <2>3. IsMap("subscriptions", n) /\ SafeMap(v.u, "subscriptions", v.c["subscriptions"], n)
    BY <1>11, <2>1, <2>2, RekeySafe
  <2>4. Slots(n)
    BY <1>11, <2>1 DEF Fine, Slots, Slotted, Rekey, Put, Over, Without, Dropped
  <2> HIDE DEF n
  <2> QED BY <1>11, <2>3, <2>4, SetSubscriptions DEF Fine
<1> HIDE DEF n
<1> QED BY <1>1, <1>9, <1>12

------------------------------------------------------------------------------
(* ALTER SCHEMA RENAME: the whole namespace is saved before it moves.      *)

(* An object of the renamed schema stays an object, and as fit as it was.  *)
LEMMA RenamedEntry ==
    ASSUME NEW f \in MapFields \ {"constraints"}, NEW r, Entry(f, r), NEW s
    PROVE  Entry(f, RenamedReferences(r, s, f))
<1> DEFINE q == RenamedReferences(r, s, f)
<1>0. HasState(r) /\ Fit(f, r)
  BY DEF Entry
<1>1. CASE r.st = "dropped"
  <2>1. HasState(q) /\ q.st = "dropped"
    BY <1>0, <1>1 DEF RenamedReferences, HasState
  <2> HIDE DEF q
  <2>2. Entry(f, q)
    BY <2>1 DEF Entry, Fit
  <2> QED BY <2>2 DEF q
<1>2. CASE r.st # "dropped" /\ f = "functions"
  BY <1>0, <1>2 DEF RenamedReferences, HasState, Entry, Fit
<1>3. CASE r.st # "dropped" /\ f = "sequences"
  <2> DEFINE o == IF r.ownedby = <<>> THEN r.ownedby
                  ELSE <<IF r.ownedby[1] = <<>> THEN r.ownedby[1] ELSE Moved(r.ownedby[1], s.old, s.new), r.ownedby[2]>>
  <2>1. q = [r EXCEPT !.ownedby = o]
    BY <1>3 DEF RenamedReferences
  <2> HIDE DEF o, q
  <2>2. HasState(q) /\ q.st = r.st /\ DOMAIN r = DOMAIN q
    BY <1>0, <2>1 DEF HasState
  <2>3. {"par", "last", "exact"} \subseteq DOMAIN r => q.par = r.par /\ q.last = r.last /\ q.exact = r.exact
    BY <2>1
  <2> QED BY <1>3, <2>2, <2>3, SameSequence DEF q
<1>4. CASE r.st # "dropped" /\ f = "triggers"
  BY <1>0, <1>4 DEF RenamedReferences, HasState, Entry, Fit
<1>5. CASE r.st # "dropped" /\ f = "types"
  BY <1>0, <1>5 DEF RenamedReferences, HasState, Entry, Fit
<1>6. CASE r.st # "dropped" /\ f \notin {"functions", "sequences", "triggers", "types"}
  BY <1>6 DEF RenamedReferences
<1> QED BY <1>1, <1>2, <1>3, <1>4, <1>5, <1>6

LEMMA MovedEntry ==
    ASSUME NEW c, NEW s, NEW f \in MapFields \ {"constraints"}, NEW last, IsMap(f, c[f])
    PROVE  \A k \in DOMAIN MovedMap(c, s, f, last) : Entry(f, MovedMap(c, s, f, last)[k])
<1> DEFINE map  == c[f]
           come == {k \in DOMAIN map : k[1] = s.old}
           wins == {k \in come : Moved(k, s.old, s.new) \notin DOMAIN map \/ <<f, k>> \in last}
           n == [k \in {Moved(x, s.old, s.new) : x \in wins} |-> map[CHOOSE x \in wins : Moved(x, s.old, s.new) = k]]
           o == Without(map, come)
<1>1. MovedMap(c, s, f, last) = Over(n, o)
  BY DEF MovedMap
<1>2. \A k \in DOMAIN map : Entry(f, map[k])
  BY DEF IsMap
<1>3. ASSUME NEW k \in DOMAIN n PROVE Entry(f, n[k])
  <2>1. \E x \in wins : Moved(x, s.old, s.new) = k
    OBVIOUS
  <2>2. (CHOOSE x \in wins : Moved(x, s.old, s.new) = k) \in DOMAIN map
    BY <2>1
  <2> QED BY <1>2, <2>2
<1>4. \A k \in DOMAIN o : Entry(f, o[k])
  BY <1>2 DEF Without
<1> HIDE DEF n, o
<1> QED BY <1>1, <1>3, <1>4 DEF Over

(* rename_schema_namespace writes only what snapshot_namespace saved.      *)
LEMMA RenameSchemaGood ==
    ASSUME NEW w, NEW b, OnTrack(w, b), NEW s, NEW last, RenameSchemaVerdict(w.c, s) = "ok"
    PROVE  Good(w, rename_schema_namespace(w, s, last), b)
<1> DEFINE x == snapshot_namespace(w)
           c == x.c
           id(k) == Moved(k, s.old, s.new)
           key(k) == <<id(k[1]), k[2]>>
           live(map, f(_)) == [k \in DOMAIN map |-> IF map[k].st = "present" THEN f(map[k]) ELSE map[k]]
           moved(f) == LET map == MovedMap(c, s, f, last)
                       IN  [k \in DOMAIN map |-> RenamedReferences(map[k], s, f)]
           pub(p) == [p EXCEPT !.objs = {RenamedObject(o, s) : o \in @}]
           alias == {k \in UNION {DOMAIN c[f] : f \in MovedMaps} : k[1] = s.old}
           pubs == live(c.publications, pub)
           exts == live(c.extensions, LAMBDA e : RenamedExtension(e, s))
           cons == [k \in {key(j) : j \in DOMAIN c.constraints} |->
                      LET map == c.constraints IN map[CHOOSE j \in DOMAIN map : key(j) = k]]
           E == FoldSet(LAMBDA k, G : AddEdge(G, RenameEdge(k, id(k))), RemapSchemaNamespace(c.edges, s.old, s.new), alias)
           sch == Put(Put(c.schemas, s.new, c.schemas[s.old]), s.old, Dropped)
           P1 == {key(k) : k \in c.pending}
           P2 == {key(k) : k \in c.bfk}
           P3 == {id(k) : k \in c.baserel}
           P4 == {id(k) : k \in c.baseidx}
           P5 == {id(k) : k \in c.bfkdep}
           P6 == {id(k) : k \in c.baseseq}
           P7 == {<<k[1], id(k[2])>> : k \in c.external}
           P8 == {IF n = s.old THEN s.new ELSE n : n \in c.scope}
           m1 == moved("relations")
           m2 == moved("types")
           m3 == moved("functions")
           m4 == moved("sequences")
           m5 == moved("triggers")
           n == [relations    |-> m1, types |-> m2, functions |-> m3, sequences |-> m4, triggers |-> m5,
                 publications |-> pubs, constraints  |-> cons, pending |-> P1, bfk |-> P2, extensions |-> exts,
                 edges |-> E, baserel |-> P3, baseidx |-> P4, bfkdep |-> P5, baseseq |-> P6, external |-> P7,
                 scope |-> P8, schemas |-> sch]
           d == Over(n, c)
<1>1. Good(w, x, b) /\ x.c = w.c /\ NamespaceFields \subseteq DOMAIN x.u.whole /\ x.u.graph.kind = "full"
  BY NamespaceGood
<1>2. rename_schema_namespace(w, s, last) = [x EXCEPT !.c = d]
  BY DEF rename_schema_namespace
<1>3. \A f \in MapFields : IsMap(f, c[f])
  BY <1>1, CatalogMap, GoodTrack
<1> HIDE DEF x
<1>4. ASSUME NEW f \in MapFields \ {"constraints"} PROVE IsMap(f, moved(f))
  <2>1. \A k \in DOMAIN MovedMap(c, s, f, last) : Entry(f, MovedMap(c, s, f, last)[k])
    BY <1>3, MovedEntry
  <2> QED BY <2>1, RenamedEntry DEF IsMap
<1>5. IsMap("publications", pubs)
  <2>1. \A k \in DOMAIN c.publications : HasState(c.publications[k])
    <3>1. IsMap("publications", c["publications"])
      BY <1>3 DEF MapFields
    <3> QED BY <3>1 DEF IsMap, Entry
  <2> QED BY <2>1 DEF IsMap, Entry, HasState, Fit
<1>6. IsMap("extensions", exts)
  <2>1. \A k \in DOMAIN c.extensions : HasState(c.extensions[k])
    <3>1. IsMap("extensions", c["extensions"])
      BY <1>3 DEF MapFields
    <3> QED BY <3>1 DEF IsMap, Entry
  <2> QED BY <2>1 DEF IsMap, Entry, HasState, Fit, RenamedExtension
<1>7. IsMap("constraints", cons)
  <2>1. \A k \in DOMAIN c.constraints : c.constraints[k] # Gone
    <3>1. IsMap("constraints", c["constraints"])
      BY <1>3 DEF MapFields
    <3> QED BY <3>1 DEF IsMap, Entry
  <2>2. ASSUME NEW k \in DOMAIN cons PROVE cons[k] # Gone
    <3>1. \E j \in DOMAIN c.constraints : key(j) = k
      BY Zenon
    <3> HIDE DEF key
    <3>2. (CHOOSE j \in DOMAIN c.constraints : key(j) = k) \in DOMAIN c.constraints
      BY <3>1
    <3>3. cons[k] = c.constraints[CHOOSE j \in DOMAIN c.constraints : key(j) = k]
      OBVIOUS
    <3> QED BY <2>1, <3>2, <3>3
  <2>3. cons = [k \in DOMAIN cons |-> cons[k]]
    <3> DEFINE K == {key(j) : j \in DOMAIN c.constraints}
    <3> HIDE DEF key, K
    <3> QED BY DEF K
  <2> HIDE DEF cons
  <2> QED BY <2>2, <2>3 DEF IsMap, Entry
<1>8. IsMap("schemas", sch)
  <2>1. IsMap("schemas", c["schemas"]) /\ "schemas" \in MapFields \ {"constraints"}
    BY <1>3 DEF MapFields
  <2>2. Ensure(SchemaLookup(w.c, s.old)) = "ok"
    BY Chain DEF RenameSchemaVerdict
  <2>3. Present(w.c.schemas, s.old)
    BY <2>2 DEF Ensure, SchemaLookup
  <2>4. HasState(c.schemas[s.old]) /\ HasState(Dropped)
    BY <1>1, <2>1, <2>3 DEF IsMap, Entry, Present, HasState, Dropped
  <2>5. \A k \in DOMAIN sch : HasState(sch[k])
    BY <2>1, <2>4 DEF Put, Over, IsMap, Entry
  <2>6. sch = [k \in DOMAIN sch |-> sch[k]]
    BY DEF Put, Over
  <2> HIDE DEF sch
  <2> QED BY <2>5, <2>6 DEF IsMap, Entry, Fit
<1>9. /\ IsMap("relations", m1) /\ IsMap("types", m2) /\ IsMap("functions", m3)
      /\ IsMap("sequences", m4) /\ IsMap("triggers", m5)
  BY <1>4 DEF MapFields
<1> HIDE DEF m1, m2, m3, m4, m5, pubs, exts, cons, sch, E, P1, P2, P3, P4, P5, P6, P7, P8
<1> DEFINE N == NamespaceFields \cup {"edges"}
<1>10. DOMAIN n = N /\ N \subseteq CatalogFields
  BY DEF NamespaceFields, CatalogFields, MapFields, PlainFields
<1>11. \A f \in MapFields \cap NamespaceFields : IsMap(f, n[f])
  BY <1>5, <1>6, <1>7, <1>8, <1>9 DEF MapFields, NamespaceFields
<1> HIDE DEF n
<1>12. c = [f \in CatalogFields |-> c[f]]
  BY <1>1 DEF Good, OnTrack, Leads, IsCatalog
<1>13. d = [f \in CatalogFields |-> d[f]] /\ DOMAIN d = CatalogFields
  BY <1>10, <1>12 DEF Over
<1>14. \A f \in CatalogFields : d[f] = IF f \in N THEN n[f] ELSE c[f]
  BY <1>10, <1>12 DEF Over
<1> HIDE DEF d
<1>15. Same(x.c, d, N)
  BY <1>14 DEF Same
<1>16. \A f \in MapFields \cap NamespaceFields : IsMap(f, d[f])
  BY <1>11, <1>14 DEF CatalogFields
<1>17. Good(x, [x EXCEPT !.c = d], b)
  BY <1>1, <1>13, <1>15, <1>16, NamespaceChange, GoodTrack
<1> QED BY <1>1, <1>2, <1>17, GoodTrans

------------------------------------------------------------------------------
(* Roles and privileges: apply_create_role, apply_alter_role,              *)
(* apply_drop_role and the grants on objects.                              *)

(* Roles and relations are maps of objects.                                *)
LEMMA RolesField == "roles" \in MapsInUse \ {"subscriptions"} /\ "roles" \in MapFields \ {"constraints"}
BY MapsInUseAre DEF MapsInUse

LEMMA RelationsField == "relations" \in FitMaps /\ "relations" \in MapFields \ {"constraints", "subscriptions"}
BY FitMapsAre DEF FitMaps

(* apply_create_role, apply_alter_role and apply_drop_role.                *)
LEMMA CreateRoleGood ==
    ASSUME NEW w, NEW b, OnTrack(w, b), NEW p, NEW name, NEW i
    PROVE  Good(w, Assign(Bump(TaintIf(w, p)), "roles", name, RoleState(i)), b)
<1> DEFINE v == TaintIf(w, p)
           x == Bump(v)
           r == RoleState(i)
<1>1. HasState(r)
  BY DEF HasState, RoleState
<1>2. Good(w, v, b)
  BY TaintIfGood
<1> HIDE DEF v, r
<1>3. Good(v, x, b)
  BY <1>2, BumpGood, GoodTrack
<1> HIDE DEF x
<1>4. Good(x, Assign(x, "roles", name, r), b)
  BY <1>1, <1>3, RolesField, AssignGood, GoodTrack
<1>5. Good(w, Assign(x, "roles", name, r), b)
  BY <1>2, <1>3, <1>4, GoodTrans
<1> QED BY <1>5 DEF v, x, r

LEMMA AlterRoleGood ==
    ASSUME NEW w, NEW b, OnTrack(w, b), NEW name, Ensure(role_lookup(w.c, name)) = "ok", NEW o
    PROVE  Good(w, Bump(Assign(w, "roles", name, [w.c.roles[name] EXCEPT !.inherits = OptionOr(o, @)])), b)
<1> DEFINE r == [w.c.roles[name] EXCEPT !.inherits = OptionOr(o, @)]
           x == Assign(w, "roles", name, r)
<1>1. Present(w.c["roles"], name)
  BY DEF Ensure, role_lookup
<1>2. HasState(r)
  <2>1. HasState(w.c["roles"][name])
    BY <1>1, RolesField, EntryOf
  <2> QED BY <2>1 DEF HasState
<1> HIDE DEF r
<1>3. Good(w, x, b)
  BY <1>2, RolesField, AssignGood
<1> HIDE DEF x
<1>4. Good(w, Bump(x), b)
  BY <1>3, BumpGood, GoodTrack, GoodTrans
<1> QED BY <1>4 DEF x, r

LEMMA DropRoleGood ==
    ASSUME NEW w, NEW b, OnTrack(w, b), NEW ks
    PROVE  Good(w, DropKeys(w, "roles", ks), b)
BY RolesField, DropKeysGood

(* A set of numbers has a least one: so a recursive function exists, and   *)
(* what its steps keep holds of its last value.                            *)
LEMMA LeastNumber ==
    ASSUME NEW T, T \subseteq Nat, T # {}
    PROVE  \E m \in T : \A k \in T : m <= k
<1>1. PICK m \in T : \A k \in T : <<k, m>> \notin OpToRel(<, Nat)
  BY WFMin, NatLessThanWellFounded, Zenon
<1>2. \A k \in T : k \in Nat /\ m \in Nat /\ ~(k < m)
  BY <1>1 DEF OpToRel
<1> QED BY <1>2

(* A GRANT, a REVOKE and a GRANT OPTION FOR keep privileges and sources in *)
(* agreement, and so does each step of a cascade.                          *)
LEMMA GrantSourced ==
    ASSUME NEW a, Sourced(a), NEW role, NEW privs, IsFiniteSet(privs), NEW g, NEW option
    PROVE  Sourced(grant_from(a, role, privs, g, option))
<1> DEFINE pairs == {<<role, p>> : p \in privs}
           src == {<<role, p, g>> : p \in privs}
           n == grant_from(a, role, privs, g, option)
<1>1. IsFiniteSet(a.from \cup src)
  <2> DEFINE f == [p \in privs |-> <<role, p, g>>]
  <2>1. f \in Surjection(privs, src)
    BY DEF Surjection
  <2>2. IsFiniteSet(src)
    <3> HIDE DEF f, src
    <3> QED BY <2>1, FS_Surjection
  <2> HIDE DEF src
  <2> QED BY <2>2, FS_Union DEF Sourced
<1>2. n = [grants |-> a.grants \cup pairs, from |-> a.from \cup src,
           options |-> IF option THEN a.options \cup pairs ELSE a.options,
           optfrom |-> IF option THEN a.optfrom \cup src ELSE a.optfrom]
  BY DEF grant_from
<1>3. \A x \in src : <<x[1], x[2]>> \in pairs
  OBVIOUS
<1> HIDE DEF pairs, src, n
<1>4. Sourced(n)
  BY <1>1, <1>2, <1>3 DEF Sourced
<1> QED BY <1>4 DEF n

LEMMA RevokeSourced ==
    ASSUME NEW a, Sourced(a), NEW roles, NEW privs, NEW g
    PROVE  Sourced(revoke_from(a, roles, privs, g))
<1> DEFINE taken == roles \X privs
           src   == {<<x[1], x[2], g>> : x \in taken}
           left  == a.from \ src
           oleft == a.optfrom \ src
           sourced(F, x) == \E y \in F : y[1] = x[1] /\ y[2] = x[2]
           lost  == {x \in taken : ~sourced(left, x)}
           gone  == {x \in taken : ~sourced(oleft, x) /\ (sourced(a.optfrom, x) \/ x \in lost)}
           n == revoke_from(a, roles, privs, g)
<1>1. n = [grants |-> a.grants \ lost, from |-> left, optfrom |-> oleft, options |-> a.options \ gone]
  BY DEF revoke_from
<1>2. IsFiniteSet(left)
  BY FS_Subset DEF Sourced
<1>3. oleft \subseteq left
  BY DEF Sourced
<1>4. \A y \in left : <<y[1], y[2]>> \in a.grants \ lost
  BY DEF Sourced
<1>5. \A y \in oleft : <<y[1], y[2]>> \in a.options \ gone
  BY DEF Sourced
<1>6. a.options \ gone \subseteq a.grants \ lost
  <2>1. \A x : sourced(oleft, x) => sourced(left, x)
    BY <1>3
  <2> HIDE DEF oleft, left
  <2> QED BY <2>1 DEF Sourced
<1> HIDE DEF left, oleft, lost, gone, n
<1>7. Sourced(n)
  BY <1>1, <1>2, <1>3, <1>4, <1>5, <1>6 DEF Sourced
<1> QED BY <1>7 DEF n

LEMMA OptionSourced ==
    ASSUME NEW a, Sourced(a), NEW role, NEW privs, NEW g
    PROVE  Sourced(revoke_grant_option_from(a, role, privs, g))
<1> DEFINE others(p) == \E x \in a.optfrom : x[1] = role /\ x[2] = p /\ x[3] # g
           gone == {<<role, p>> : p \in {q \in privs : ~others(q)}}
           left == {x \in a.optfrom : ~(x[1] = role /\ x[2] \in privs)}
           n == revoke_grant_option_from(a, role, privs, g)
<1>1. n = [grants |-> a.grants, from |-> a.from, options |-> a.options \ gone, optfrom |-> left]
  <2>1. n = [a EXCEPT !.options = a.options \ gone, !.optfrom = left]
    BY DEF revoke_grant_option_from
  <2> HIDE DEF gone, left, n
  <2>2. a = [grants |-> a.grants, from |-> a.from, options |-> a.options, optfrom |-> a.optfrom]
    BY DEF Sourced
  <2> QED BY <2>1, <2>2
<1>2. \A y \in left : <<y[1], y[2]>> \in a.options \ gone
  BY DEF Sourced
<1>3. left \subseteq a.optfrom /\ a.options \ gone \subseteq a.options
  OBVIOUS
<1> HIDE DEF gone, left, n
<1>4. Sourced(n)
  BY <1>1, <1>2, <1>3 DEF Sourced
<1> QED BY <1>4 DEF n

LEMMA StepSourced ==
    ASSUME NEW st, Sourced(st.acl), NEW t \in CascadeStep(st)
    PROVE  Sourced(t.acl)
<1> DEFINE x == Last(st.todo)
           down == IF x \in st.seen \cup st.acl.options THEN {}
                   ELSE {y[1] : y \in {z \in st.acl.from : z[3] = x[1] /\ z[2] = x[2]}}
           n == revoke_from(st.acl, down, {x[2]}, x[1])
<1>1. t = st \/ t.acl = n
  <2> DEFINE seen == st.seen \cup {x}
             rest == Front(st.todo)
             Q == {[i \in DOMAIN o |-> <<o[i], x[2]>>] : o \in SetToSeqs(down)}
  <2>1. CascadeStep(st) = IF st.todo = <<>> THEN {st} ELSE {[acl |-> n, seen |-> seen, todo |-> rest \o q] : q \in Q}
    BY DEF CascadeStep
  <2> HIDE DEF n, seen, rest, Q
  <2>2. CASE st.todo = <<>>
    BY <2>1, <2>2
  <2>3. CASE st.todo # <<>>
    <3>1. PICK q \in Q : t = [acl |-> n, seen |-> seen, todo |-> rest \o q]
      BY <2>1, <2>3
    <3> QED BY <3>1
  <2> QED BY <2>2, <2>3
<1>2. Sourced(n)
  BY RevokeSourced
<1> QED BY <1>1, <1>2

(* A cascade is so many steps, and the revokes of a statement are in turn. *)
LEMMA CascadeSourced ==
    ASSUME NEW a, Sourced(a), NEW role, NEW privs, IsFiniteSet(privs), NEW g, NEW cascade
    PROVE  \A r \in revoke_from_cascade(a, role, privs, g, cascade) : Sourced(r)
<1> DEFINE first == revoke_from(a, {role}, privs, g)
           todo == [i \in DOMAIN SetToSeq(privs) |-> <<role, SetToSeq(privs)[i]>>]
           n == Cardinality(privs) + Cardinality(a.from)
           A == {[acl |-> first, seen |-> {}, todo |-> todo]}
           F(S) == UNION {CascadeStep(st) : st \in S}
           Eqn(f, m) == f = [i \in 0..m |-> IF i = 0 THEN A ELSE F(f[i - 1])]
           run == CHOOSE f : Eqn(f, n)
<1>1. n \in Nat
  BY FS_CardinalityType DEF Sourced
<1>2. revoke_from_cascade(a, role, privs, g, cascade) = IF cascade THEN {st.acl : st \in run[n]} ELSE {first}
  BY DEF revoke_from_cascade
<1>3. Sourced(first) /\ \A st \in A : Sourced(st.acl)
  BY RevokeSourced
<1>4. ASSUME NEW S, \A st \in S : Sourced(st.acl) PROVE \A st \in F(S) : Sourced(st.acl)
  BY <1>4, StepSourced
<1> HIDE DEF first, A, n
<1>5. \E f : Eqn(f, n)
  <2> DEFINE Bad == {k \in Nat : ~\E f : Eqn(f, k)}
  <2> SUFFICES ASSUME Bad # {} PROVE FALSE
    BY <1>1
  <2>1. PICK k \in Bad : \A e \in Bad : k <= e
    <3>1. Bad \subseteq Nat
      OBVIOUS
    <3> HIDE DEF Bad
    <3> QED BY <3>1, LeastNumber
  <2>2. k # 0
    <3>1. Eqn([i \in 0..0 |-> A], 0)
      <4>1. \A i \in 0..0 : i = 0
        OBVIOUS
      <4> QED BY <4>1
    <3> HIDE DEF Eqn
    <3> QED BY <2>1, <3>1
  <2>3. k \in Nat /\ k - 1 \in Nat /\ k - 1 \notin Bad
    <3>1. k \in Nat
      BY <2>1
    <3>2. k - 1 \in Nat /\ ~(k <= k - 1)
      BY <2>2, <3>1
    <3> HIDE DEF Bad
    <3> QED BY <2>1, <3>1, <3>2
  <2>4. PICK g0 : Eqn(g0, k - 1)
    BY <2>3
  <2> DEFINE h == [i \in 0..k |-> IF i = k THEN F(g0[k - 1]) ELSE g0[i]]
  <2>5. ASSUME NEW i \in 0..k PROVE h[i] = IF i = 0 THEN A ELSE F(h[i - 1])
    <3>1. CASE i = 0
      <4>1. 0 \in 0..(k - 1) /\ i # k
        BY <2>2, <2>3, <3>1
      <4>2. g0[0] = A
        BY <2>4, <4>1
      <4> HIDE DEF F
      <4> QED BY <3>1, <4>1, <4>2
    <3>2. CASE i # 0
      <4>1. i - 1 \in 0..(k - 1) /\ i - 1 \in 0..k /\ i - 1 # k
        BY <2>3, <3>2
      <4>2. h[i - 1] = g0[i - 1]
        BY <4>1
      <4>3. CASE i = k
        <5> HIDE DEF F
        <5> QED BY <3>2, <4>2, <4>3
      <4>4. CASE i # k
        <5>1. i \in 0..(k - 1)
          BY <2>3, <4>4
        <5>2. g0[i] = F(g0[i - 1])
          BY <2>4, <3>2, <5>1
        <5> HIDE DEF F
        <5> QED BY <3>2, <4>2, <4>4, <5>2
      <4> QED BY <4>3, <4>4
    <3> QED BY <3>1, <3>2
  <2>6. Eqn(h, k)
    <3>1. h = [i \in 0..k |-> h[i]]
      OBVIOUS
    <3> HIDE DEF h, F
    <3> QED BY <2>5, <3>1
  <2> QED BY <2>1, <2>6
<1>6. ASSUME NEW f, Eqn(f, n), NEW i \in 0..n PROVE \A st \in f[i] : Sourced(st.acl)
  <2> DEFINE Bad == {k \in 0..n : ~(\A st \in f[k] : Sourced(st.acl))}
  <2> SUFFICES ASSUME Bad # {} PROVE FALSE
    BY DEF Bad
  <2>1. PICK k \in Bad : \A e \in Bad : k <= e
    <3>1. Bad \subseteq Nat
      OBVIOUS
    <3> HIDE DEF Bad
    <3> QED BY <3>1, LeastNumber
  <2>2. k \in 0..n /\ f[k] = IF k = 0 THEN A ELSE F(f[k - 1])
    <3>1. k \in 0..n
      BY <2>1
    <3> HIDE DEF F, Bad
    <3> QED BY <1>6, <3>1
  <2>3. k # 0
    BY <1>3, <2>1, <2>2
  <2>4. k - 1 \in 0..n /\ k - 1 \notin Bad
    <3>1. k - 1 \in 0..n /\ ~(k <= k - 1)
      BY <1>1, <2>2, <2>3
    <3> HIDE DEF Bad
    <3> QED BY <2>1, <3>1
  <2>5. \A st \in f[k - 1] : Sourced(st.acl)
    BY <2>4
  <2>6. (\A st \in f[k] : Sourced(st.acl))
    BY <1>4, <2>2, <2>3, <2>5
  <2> QED BY <2>1, <2>6
<1>7. Eqn(run, n)
  <2> HIDE DEF Eqn
  <2> QED BY <1>5
<1> HIDE DEF run, Eqn
<1>8. \A st \in run[n] : Sourced(st.acl)
  BY <1>1, <1>6, <1>7
<1> QED BY <1>2, <1>3, <1>8

LEMMA ChangedSourced ==
    ASSUME NEW c, NEW s, NEW a, Sourced(a), Len(s.to) \in Nat, IsFiniteSet(s.privs)
    PROVE  \A r \in ChangedAcls(c, s, a) : Sourced(r)
<1> DEFINE privs == resolve_grant_privileges(c, s)
           g == grantor_identity(c, s)
           n == Len(s.to)
           A == {a}
           one(x, r) == CASE s.do = "grant" -> {grant_from(x, r, privs, g, s.option)}
                          [] s.do = "revoke" /\ s.option -> {revoke_grant_option_from(x, r, privs, g)}
                          [] OTHER -> revoke_from_cascade(x, r, privs, g, s.cascade)
           F(i, S) == UNION {one(x, s.to[i]) : x \in S}
           Eqn(f, m) == f = [i \in 0..m |-> IF i = 0 THEN A ELSE F(i, f[i - 1])]
           after == CHOOSE f : Eqn(f, n)
<1>1. n \in Nat
  OBVIOUS
<1>2. ChangedAcls(c, s, a) = after[n]
  BY DEF ChangedAcls
<1>3. \A r \in A : Sourced(r)
  OBVIOUS
<1>4. ASSUME NEW i, NEW S, \A r \in S : Sourced(r) PROVE \A r \in F(i, S) : Sourced(r)
  <2>1. IsFiniteSet(privs)
    <3>1. IsFiniteSet({"select", "insert"} \cup (IF c.pg17 THEN {"maintain"} ELSE {}))
      <4>1. IsFiniteSet({"select", "insert"}) /\ IsFiniteSet({"maintain"}) /\ IsFiniteSet({})
        <5>1. IsFiniteSet({}) /\ \A x : IsFiniteSet({} \cup {x})
          BY FS_EmptySet, FS_AddElement
        <5>2. IsFiniteSet({} \cup {"select"} \cup {"insert"})
          BY <5>1, FS_AddElement
        <5>3. {} \cup {"select"} \cup {"insert"} = {"select", "insert"} /\ {} \cup {"maintain"} = {"maintain"}
          OBVIOUS
        <5> QED BY <5>1, <5>2, <5>3
      <4> QED BY <4>1, FS_Union
    <3> QED BY <3>1 DEF resolve_grant_privileges
  <2> HIDE DEF privs, g
  <2>2. ASSUME NEW x, Sourced(x), NEW r PROVE \A y \in one(x, r) : Sourced(y)
    <3>1. Sourced(grant_from(x, r, privs, g, s.option))
      BY <2>1, <2>2, GrantSourced
    <3>2. Sourced(revoke_grant_option_from(x, r, privs, g))
      BY <2>2, OptionSourced
    <3>3. \A y \in revoke_from_cascade(x, r, privs, g, s.cascade) : Sourced(y)
      BY <2>1, <2>2, CascadeSourced
    <3> QED BY <3>1, <3>2, <3>3
  <2> HIDE DEF one
  <2> QED BY <1>4, <2>2
<1> HIDE DEF A, n, one
<1>5. \E f : Eqn(f, n)
  <2> DEFINE Bad == {k \in Nat : ~\E f : Eqn(f, k)}
  <2> SUFFICES ASSUME Bad # {} PROVE FALSE
    BY <1>1
  <2>1. PICK k \in Bad : \A e \in Bad : k <= e
    <3>1. Bad \subseteq Nat
      OBVIOUS
    <3> HIDE DEF Bad
    <3> QED BY <3>1, LeastNumber
  <2>2. k # 0
    <3>1. Eqn([i \in 0..0 |-> A], 0)
      <4>1. \A i \in 0..0 : i = 0
        OBVIOUS
      <4> QED BY <4>1
    <3> HIDE DEF Eqn
    <3> QED BY <2>1, <3>1
  <2>3. k \in Nat /\ k - 1 \in Nat /\ k - 1 \notin Bad
    <3>1. k \in Nat
      BY <2>1
    <3>2. k - 1 \in Nat /\ ~(k <= k - 1)
      BY <2>2, <3>1
    <3> HIDE DEF Bad
    <3> QED BY <2>1, <3>1, <3>2
  <2>4. PICK g0 : Eqn(g0, k - 1)
    BY <2>3
  <2> DEFINE h == [i \in 0..k |-> IF i = k THEN F(k, g0[k - 1]) ELSE g0[i]]
  <2>5. ASSUME NEW i \in 0..k PROVE h[i] = IF i = 0 THEN A ELSE F(i, h[i - 1])
    <3>1. CASE i = 0
      <4>1. 0 \in 0..(k - 1) /\ i # k
        BY <2>2, <2>3, <3>1
      <4>2. g0[0] = A
        BY <2>4, <4>1
      <4> HIDE DEF F
      <4> QED BY <3>1, <4>1, <4>2
    <3>2. CASE i # 0
      <4>1. i - 1 \in 0..(k - 1) /\ i - 1 \in 0..k /\ i - 1 # k
        BY <2>3, <3>2
      <4>2. h[i - 1] = g0[i - 1]
        BY <4>1
      <4>3. CASE i = k
        <5> HIDE DEF F
        <5> QED BY <3>2, <4>2, <4>3
      <4>4. CASE i # k
        <5>1. i \in 0..(k - 1)
          BY <2>3, <4>4
        <5>2. g0[i] = F(i, g0[i - 1])
          BY <2>4, <3>2, <5>1
        <5> HIDE DEF F
        <5> QED BY <3>2, <4>2, <4>4, <5>2
      <4> QED BY <4>3, <4>4
    <3> QED BY <3>1, <3>2
  <2>6. Eqn(h, k)
    <3>1. h = [i \in 0..k |-> h[i]]
      OBVIOUS
    <3> HIDE DEF h, F
    <3> QED BY <2>5, <3>1
  <2> QED BY <2>1, <2>6
<1>6. ASSUME NEW f, Eqn(f, n), NEW i \in 0..n PROVE \A r \in f[i] : Sourced(r)
  <2> DEFINE Bad == {k \in 0..n : ~(\A r \in f[k] : Sourced(r))}
  <2> SUFFICES ASSUME Bad # {} PROVE FALSE
    BY DEF Bad
  <2>1. PICK k \in Bad : \A e \in Bad : k <= e
    <3>1. Bad \subseteq Nat
      OBVIOUS
    <3> HIDE DEF Bad
    <3> QED BY <3>1, LeastNumber
  <2>2. k \in 0..n /\ f[k] = IF k = 0 THEN A ELSE F(k, f[k - 1])
    <3>1. k \in 0..n
      BY <2>1
    <3> HIDE DEF F, Bad
    <3> QED BY <1>6, <3>1
  <2>3. k # 0
    BY <1>3, <2>1, <2>2
  <2>4. k - 1 \in 0..n /\ k - 1 \notin Bad
    <3>1. k - 1 \in 0..n /\ ~(k <= k - 1)
      BY <1>1, <2>2, <2>3
    <3> HIDE DEF Bad
    <3> QED BY <2>1, <3>1
  <2>5. \A r \in f[k - 1] : Sourced(r)
    BY <2>4
  <2>6. (\A r \in f[k] : Sourced(r))
    BY <1>4, <2>2, <2>3, <2>5
  <2> QED BY <2>1, <2>6
<1>7. Eqn(after, n)
  <2> HIDE DEF Eqn
  <2> QED BY <1>5
<1> HIDE DEF after, Eqn
<1>8. \A r \in after[n] : Sourced(r)
  BY <1>1, <1>6, <1>7
<1> QED BY <1>2, <1>8

(* GRANT and REVOKE of privileges on tables and schemas.                   *)
LEMMA PrivilegeGood ==
    ASSUME NEW w, NEW b, OnTrack(w, b), NEW s, NEW acls,
           \A t \in GrantedRelations(w.c, s) : Present(w.c.relations, t) /\ Sourced(acls[t])
    PROVE  Good(w, PrivilegeEffect(w, s, acls), b)
<1> DEFINE ids == GrantedRelations(w.c, s)
           p == \/ s.option \/ s.on = "schemas"
                \/ \E r \in ToSet(s.to) : r # "public" /\ role_lookup(w.c, r) = "unknown"
                \/ ~Present(w.c.roles, grantor_identity(w.c, s))
                \/ s.do = "revoke" /\ \E id \in ids : ProvenanceUnknown(w.c, s, id)
           v == TaintIf(w, p)
           x == Snap(v, "relations", ids)
           n == [t \in ids |-> [Rel(x.c, t) EXCEPT !.acl = acls[t]]]
<1>1. PrivilegeEffect(w, s, acls) = Set(x, "relations", Over(n, x.c["relations"]))
  BY DEF PrivilegeEffect
<1>2. Good(w, v, b) /\ Same(w.c, v.c, {"tainted"})
  BY TaintIfGood
<1> HIDE DEF v
<1>3. Good(v, x, b) /\ x.c = v.c /\ \A t \in ids : KeySaved(x.u, "relations", t)
  BY <1>2, RelationsField, SnapFit, GoodTrack
<1>4. \A t \in DOMAIN n : Entry("relations", n[t])
  <2> SUFFICES ASSUME NEW t \in ids PROVE Entry("relations", [Rel(x.c, t) EXCEPT !.acl = acls[t]])
    OBVIOUS
  <2>1. x.c.relations = w.c.relations
    BY <1>2, <1>3 DEF Same, CatalogFields, MapFields
  <2>2. Present(w.c["relations"], t) /\ Sourced(acls[t])
    OBVIOUS
  <2>3. Entry("relations", w.c["relations"][t]) /\ w.c["relations"][t].st = "present"
    BY <2>2, RelationsField, FitEntry DEF Present
  <2>4. Rel(x.c, t) = w.c["relations"][t]
    BY <2>1 DEF Rel
  <2> DEFINE r == w.c["relations"][t]
             q == [r EXCEPT !.acl = acls[t]]
  <2>5. HasState(r) /\ "acl" \in DOMAIN r
    BY <2>3 DEF Entry, Fit
  <2>6. HasState(q) /\ "acl" \in DOMAIN q /\ q.acl = acls[t]
    BY <2>5 DEF HasState
  <2> HIDE DEF q, r
  <2>7. Entry("relations", q)
    BY <2>2, <2>6 DEF Entry, Fit
  <2> QED BY <2>4, <2>7 DEF q, r
<1>5. n = [k \in DOMAIN n |-> n[k]] /\ DOMAIN n = ids
  OBVIOUS
<1> HIDE DEF n, x, ids
<1>6. Good(x, Set(x, "relations", Over(n, x.c["relations"])), b)
  BY <1>3, <1>4, <1>5, RelationsField, OverFit, GoodTrack
<1> QED BY <1>1, <1>2, <1>3, <1>6, GoodTrans

(* Plain fields that have been saved; and a map whose keys are saved first.*)
LEMMA PlainGood ==
    ASSUME NEW w, NEW b, OnTrack(w, b), NEW f \in PlainFields, f \in DOMAIN w.u.whole, NEW v
    PROVE  Good(w, Set(w, f, v), b) /\ Set(w, f, v).u = w.u /\ Same(w.c, Set(w, f, v).c, {f})
<1> DEFINE x == Set(w, f, v)
<1>1. OnTrack(x, b) /\ x.u = w.u /\ x.c[f] = v /\ Same(w.c, x.c, {f})
  BY SetPlainOk
<1> HIDE DEF x
<1>2. f # "subscriptions"
  BY DEF PlainFields
<1>3. Good(w, x, b)
  BY <1>1, <1>2 DEF Good, Same, CatalogFields, MapFields
<1> QED BY <1>1, <1>3 DEF x

(* Several entries of a map at once, saved first.                          *)
LEMMA SnapOverGood ==
    ASSUME NEW w, NEW b, OnTrack(w, b), NEW f \in MapsInUse \ {"subscriptions"}, NEW ks,
           NEW n, n = [k \in DOMAIN n |-> n[k]], DOMAIN n \subseteq ks, \A k \in DOMAIN n : HasState(n[k])
    PROVE  LET x == Snap(w, f, ks)
               y == Set(x, f, Over(n, x.c[f]))
           IN  Good(w, y, b) /\ Keeps(w.u, y.u) /\ Same(w.c, y.c, {f})
<1> DEFINE x == Snap(w, f, ks)
           y == Set(x, f, Over(n, x.c[f]))
<1>1. Good(w, x, b) /\ x.c = w.c /\ Keeps(w.u, x.u) /\ \A k \in ks : KeySaved(x.u, f, k)
  BY SnapGood
<1> HIDE DEF x
<1>2. Good(x, y, b) /\ y.u = x.u /\ Same(x.c, y.c, {f})
  BY <1>1, OverGood, GoodTrack
<1> HIDE DEF y
<1>3. Good(w, y, b)
  BY <1>1, <1>2, GoodTrans
<1> QED BY <1>1, <1>2, <1>3 DEF x, y

LEMMA SnapOverFit ==
    ASSUME NEW w, NEW b, OnTrack(w, b), NEW f \in FitMaps, NEW ks,
           NEW n, n = [k \in DOMAIN n |-> n[k]], DOMAIN n \subseteq ks, \A k \in DOMAIN n : Entry(f, n[k])
    PROVE  LET x == Snap(w, f, ks)
               y == Set(x, f, Over(n, x.c[f]))
           IN  Good(w, y, b) /\ Keeps(w.u, y.u) /\ Same(w.c, y.c, {f})
<1> DEFINE x == Snap(w, f, ks)
           y == Set(x, f, Over(n, x.c[f]))
<1>1. Good(w, x, b) /\ x.c = w.c /\ Keeps(w.u, x.u) /\ \A k \in ks : KeySaved(x.u, f, k)
  BY SnapFit
<1> HIDE DEF x
<1>2. Good(x, y, b) /\ y.u = x.u /\ Same(x.c, y.c, {f})
  BY <1>1, OverFit, GoodTrack
<1> HIDE DEF y
<1>3. Good(w, y, b)
  BY <1>1, <1>2, GoodTrans
<1> QED BY <1>1, <1>2, <1>3 DEF x, y

(* The records of memberships are saved as a whole.                        *)
LEMMA GrantorsGood ==
    ASSUME NEW w, NEW b, OnTrack(w, b)
    PROVE  LET x == SnapGrantors(w)
           IN  Good(w, x, b) /\ x.c = w.c /\ Keeps(w.u, x.u) /\ {"grantors", "gcomplete"} \subseteq DOMAIN x.u.whole
<1> DEFINE fs == {"grantors", "gcomplete"}
<1>1. fs \subseteq MapFields \cup PlainFields
  BY DEF PlainFields
<1> HIDE DEF fs
<1>2. LET x == SnapWhole(w, fs)
      IN  OnTrack(x, b) /\ x.c = w.c /\ Keeps(w.u, x.u) /\ fs \subseteq DOMAIN x.u.whole
  BY <1>1, SnapWholeOk
<1> QED BY <1>2 DEF SnapGrantors, Good, fs

LEMMA SetGrantors ==
    ASSUME NEW w, NEW b, OnTrack(w, b), {"grantors", "gcomplete"} \subseteq DOMAIN w.u.whole, NEW f \in {"grantors", "gcomplete"}, NEW v
    PROVE  Good(w, Set(w, f, v), b) /\ Set(w, f, v).u = w.u /\ Same(w.c, Set(w, f, v).c, {f})
<1>1. f \in PlainFields
  BY DEF PlainFields
<1> QED BY <1>1, PlainGood

(* The maps of roles that the statements lay over the roles.               *)
LEMMA RolesOver ==
    ASSUME NEW w, NEW b, OnTrack(w, b), NEW ks, NEW n, n = [k \in DOMAIN n |-> n[k]], DOMAIN n \subseteq ks,
           \A k \in DOMAIN n : HasState(n[k])
    PROVE  LET y == [Snap(w, "roles", ks) EXCEPT !.c.roles = Over(n, @)]
           IN  Good(w, y, b) /\ Keeps(w.u, y.u) /\ Same(w.c, y.c, {"roles"})
<1> DEFINE y == [Snap(w, "roles", ks) EXCEPT !.c.roles = Over(n, @)]
<1>1. ASSUME NEW f \in MapsInUse \ {"subscriptions"}
      PROVE  LET x == Snap(w, f, ks)
                 z == Set(x, f, Over(n, x.c[f]))
             IN  Good(w, z, b) /\ Keeps(w.u, z.u) /\ Same(w.c, z.c, {f})
  BY SnapOverGood
<1>2. LET x == Snap(w, "roles", ks)
          z == Set(x, "roles", Over(n, x.c["roles"]))
      IN  Good(w, z, b) /\ Keeps(w.u, z.u) /\ Same(w.c, z.c, {"roles"})
  BY <1>1, RolesField
<1>3. LET x == Snap(w, "roles", ks) IN y = Set(x, "roles", Over(n, x.c["roles"]))
  BY DEF Set
<1> HIDE DEF y
<1> QED BY <1>2, <1>3 DEF y

(* reconcile_membership_projection.                                        *)
LEMMA ReconcileGood ==
    ASSUME NEW w, NEW b, OnTrack(w, b), NEW members
    PROVE  Good(w, reconcile_membership_projection(w, members), b)
<1> DEFINE mine(m) == {x \in w.c.grantors : x.member = m}
           hit == {m \in members : Present(w.c.roles, m)}
           role(m) == [w.c.roles[m] EXCEPT
                        !.member  = {x.role : x \in mine(m)},
                        !.admin   = {x.role : x \in {y \in mine(m) : y.admin}},
                        !.inherit = {x.role : x \in {y \in mine(m) : y.inherit}},
                        !.set     = {x.role : x \in {y \in mine(m) : y.set}}]
           n == [m \in hit |-> role(m)]
           y == [Snap(w, "roles", hit) EXCEPT !.c.roles = Over(n, @)]
<1>1. reconcile_membership_projection(w, members) = IF ~w.c.gcomplete THEN w ELSE y
  BY DEF reconcile_membership_projection
<1>2. \A k \in DOMAIN n : HasState(n[k])
  <2> SUFFICES ASSUME NEW m \in hit PROVE HasState(role(m))
    OBVIOUS
  <2>1. Present(w.c["roles"], m)
    OBVIOUS
  <2>2. HasState(w.c.roles[m])
    BY <2>1, RolesField, EntryOf
  <2> HIDE DEF mine
  <2> QED BY <2>2 DEF HasState
<1>3. n = [k \in DOMAIN n |-> n[k]] /\ DOMAIN n = hit
  OBVIOUS
<1> HIDE DEF n, hit
<1>4. Good(w, y, b)
  BY <1>2, <1>3, RolesOver
<1> HIDE DEF y
<1> QED BY <1>1, <1>4, GoodRefl

------------------------------------------------------------------------------
(* Memberships: GRANT and REVOKE of roles, by grantor or without, and their*)
(* cascades.                                                               *)

(* A role that is present is an entry.                                     *)
LEMMA PresentRole ==
    ASSUME NEW w, NEW b, OnTrack(w, b), NEW m, Present(w.c.roles, m)
    PROVE  HasState(w.c.roles[m])
<1>1. Present(w.c["roles"], m)
  OBVIOUS
<1> QED BY <1>1, RolesField, EntryOf

(* The sets of the roles themselves, laid over the roles.                  *)
LEMMA LegacyGood ==
    ASSUME NEW w, NEW b, OnTrack(w, b), NEW y, Good(w, y, b), NEW s, NEW ps,
           NEW ms, \A m \in ms : Present(w.c.roles, m)
    PROVE  Good(w, [Snap(y, "roles", ms) EXCEPT
                        !.c.roles = Over([m \in ms |-> LegacyRole(w.c, w.c.roles[m], ps, s)], @)], b)
<1> DEFINE n == [m \in ms |-> LegacyRole(w.c, w.c.roles[m], ps, s)]
           z == [Snap(y, "roles", ms) EXCEPT !.c.roles = Over(n, @)]
<1>1. \A k \in DOMAIN n : HasState(n[k])
  <2> SUFFICES ASSUME NEW m \in ms PROVE HasState(LegacyRole(w.c, w.c.roles[m], ps, s))
    OBVIOUS
  <2>1. HasState(w.c.roles[m])
    BY PresentRole
  <2> QED BY <2>1 DEF HasState, LegacyRole
<1>2. n = [k \in DOMAIN n |-> n[k]] /\ DOMAIN n = ms
  OBVIOUS
<1> HIDE DEF n
<1>3. Good(y, z, b)
  BY <1>1, <1>2, RolesOver, GoodTrack
<1> HIDE DEF z
<1>4. Good(w, z, b)
  BY <1>3, GoodTrans
<1> QED BY <1>4 DEF z, n

(* apply_grant_role.                                                       *)
LEMMA GrantRoleGood ==
    ASSUME NEW w, NEW b, OnTrack(w, b), NEW s
    PROVE  Good(w, GrantRoleEffect(w, s), b)
<1> DEFINE g       == role_membership_grantor(w.c, s)
           pairs   == ToSet(s.to) \X ToSet(s.targets)
           p == s.option \/ MembershipDoubt(w.c, s)
           v == TaintIf(w, p)
           x == SnapGrantors(v)
           old == UNION {RecordsOf(w.c, k[1], k[2], g) : k \in pairs}
           recs == (w.c.grantors \ old) \cup {GrantedRecord(w.c, s, k[1], k[2], g) : k \in pairs}
           L == LegacyRecords(w.c, s, g)
           ms == {m \in ToSet(s.to) : Present(w.c.roles, m)}
           legacy(y) == [Snap(y, "roles", ms) EXCEPT
                        !.c.roles = Over([m \in ms |-> LegacyRole(w.c, w.c.roles[m], ToSet(s.targets), s)], @)]
           y1 == Set(x, "grantors", recs)
           y2 == Set(x, "grantors", L)
           y3 == Set(x, "gcomplete", FALSE)
<1>1. GrantRoleEffect(w, s) = CASE g # "" /\ w.c.gcomplete -> reconcile_membership_projection(y1, ToSet(s.to))
                                [] g # "" -> legacy(y2)
                                [] OTHER  -> legacy(y3)
  <2> HIDE DEF recs, x, L, g
  <2> QED BY DEF GrantRoleEffect, Set, recs, x, L, g
<1>2. Good(w, v, b)
  BY TaintIfGood
<1> HIDE DEF v
<1>3. Good(v, x, b) /\ {"grantors", "gcomplete"} \subseteq DOMAIN x.u.whole
  BY <1>2, GrantorsGood, GoodTrack
<1> HIDE DEF recs, x, L, g
<1>4. Good(x, y1, b) /\ Good(x, y2, b)
  BY <1>3, SetGrantors, GoodTrack
<1>5. Good(x, y3, b)
  <2>1. ASSUME NEW z PROVE Good(x, Set(x, "gcomplete", z), b)
    BY <1>3, SetGrantors, GoodTrack
  <2> QED BY <2>1
<1> HIDE DEF y1, y2, y3
<1>6. Good(w, y1, b) /\ Good(w, y2, b) /\ Good(w, y3, b)
  BY <1>2, <1>3, <1>4, <1>5, GoodTrans
<1>7. Good(w, reconcile_membership_projection(y1, ToSet(s.to)), b)
  BY <1>6, ReconcileGood, GoodTrack, GoodTrans
<1>8. \A m \in ms : Present(w.c.roles, m)
  OBVIOUS
<1> HIDE DEF ms
<1>9. Good(w, legacy(y2), b)
  BY <1>6, <1>8, LegacyGood
<1>10. Good(w, legacy(y3), b)
  BY <1>6, <1>8, LegacyGood
<1> HIDE DEF legacy
<1> QED BY <1>1, <1>7, <1>9, <1>10

(* REVOKE, from the records.                                               *)
LEMMA CascadeGrantedGood ==
    ASSUME NEW w, NEW b, OnTrack(w, b), NEW grantors
    PROVE  Good(w, cascade_memberships_granted_by(w, grantors), b)
<1> DEFINE c == w.c
           goes(S) == {x \in c.grantors : x.grantor \in S /\ ~membership_admin_from_other_record(c, x)}
           lose(S) == {x.member : x \in {y \in goes(S) : y.admin}}
           gone == goes(Reach(grantors, lose, Cardinality(c.grantors)))
           v == SnapGrantors(w)
           G == v.c.grantors \ gone
           x == Set(v, "grantors", G)
           ms == {r.member : r \in gone}
<1>1. cascade_memberships_granted_by(w, grantors)
        = IF gone = {} THEN w ELSE reconcile_membership_projection(x, ms)
  <2>1. x = [v EXCEPT !.c.grantors = @ \ gone]
    BY DEF Set
  <2> HIDE DEF x
  <2> QED BY <2>1 DEF cascade_memberships_granted_by
<1>2. Good(w, v, b) /\ {"grantors", "gcomplete"} \subseteq DOMAIN v.u.whole
  BY GrantorsGood
<1> HIDE DEF v, G, gone
<1>3. Good(v, x, b)
  BY <1>2, SetGrantors, GoodTrack
<1> HIDE DEF x, ms
<1>4. Good(x, reconcile_membership_projection(x, ms), b)
  BY <1>3, ReconcileGood, GoodTrack
<1> QED BY <1>1, <1>2, <1>3, <1>4, GoodTrans, GoodRefl

LEMMA RevokeRecordsGood ==
    ASSUME NEW w, NEW b, OnTrack(w, b), NEW s, NEW g
    PROVE  Good(w, RevokeRecords(w, s, g), b)
<1> DEFINE hit == {x \in w.c.grantors : /\ x.grantor = g /\ x.member \in ToSet(s.to) /\ x.role \in ToSet(s.targets)
                                        /\ s.admin = <<FALSE>> => x.admin}
           after(x) == IF RevokesMembership(s) THEN {}
                       ELSE {[x EXCEPT !.admin = OptionOr(s.admin, @), !.inherit = OptionOr(s.inherit, @),
                                       !.set = OptionOr(s.set, @)]}
           lost == {x.member : x \in {y \in hit : /\ y.admin /\ ~membership_admin_from_other_record(w.c, y)
                                                  /\ RevokesMembership(s) \/ s.admin = <<FALSE>>}}
           v == SnapGrantors(w)
           G == (v.c.grantors \ hit) \cup UNION {after(y) : y \in hit}
           x == Set(v, "grantors", G)
           ms == {y.member : y \in hit}
           z == reconcile_membership_projection(x, ms)
<1>1. RevokeRecords(w, s, g)
        = IF hit = {} THEN w
          ELSE IF s.cascade THEN cascade_memberships_granted_by(z, lost) ELSE z
  <2>1. x = [v EXCEPT !.c.grantors = (@ \ hit) \cup UNION {after(y) : y \in hit}]
    BY DEF Set
  <2> HIDE DEF x
  <2> QED BY <2>1 DEF RevokeRecords
<1>2. Good(w, v, b) /\ {"grantors", "gcomplete"} \subseteq DOMAIN v.u.whole
  BY GrantorsGood
<1> HIDE DEF v, G, hit, lost
<1>3. Good(v, x, b)
  BY <1>2, SetGrantors, GoodTrack
<1> HIDE DEF x, ms
<1>4. Good(x, z, b)
  BY <1>3, ReconcileGood, GoodTrack
<1> HIDE DEF z
<1>5. Good(z, cascade_memberships_granted_by(z, lost), b)
  BY <1>4, CascadeGrantedGood, GoodTrack
<1> QED BY <1>1, <1>2, <1>3, <1>4, <1>5, GoodTrans, GoodRefl

(* REVOKE, from the sets of the roles.                                     *)
LEMMA CascadeRolesGood ==
    ASSUME NEW w, NEW b, OnTrack(w, b), NEW grantors
    PROVE  Good(w, cascade_role_memberships(w, grantors), b)
<1> DEFINE c == w.c
           goes(S) == {x \in c.grantors : x.grantor \in S /\ Present(c.roles, x.member) /\ x.role \in c.roles[x.member].member}
           reached == Reach(grantors, LAMBDA S : {x.member : x \in goes(S)}, Cardinality(c.grantors))
           gone == goes(reached)
           pairs == {<<x.member, x.role>> : x \in gone}
           hit == {k[1] : k \in pairs}
           v == SnapGrantors(w)
           G == {y \in v.c.grantors : <<y.member, y.role>> \notin pairs}
           x == Set(v, "grantors", G)
           n == [m \in hit |-> WithoutMemberships(c.roles[m], {k[2] : k \in {j \in pairs : j[1] = m}})]
           y == [Snap(x, "roles", hit) EXCEPT !.c.roles = Over(n, @)]
<1>1. cascade_role_memberships(w, grantors) = IF gone = {} THEN w ELSE y
  <2>1. x = [v EXCEPT !.c.grantors = {z \in @ : <<z.member, z.role>> \notin pairs}]
    BY DEF Set
  <2> HIDE DEF x
  <2> QED BY <2>1 DEF cascade_role_memberships
<1>2. \A m \in hit : Present(w.c.roles, m)
  <2> HIDE DEF reached
  <2> QED OBVIOUS
<1>3. \A k \in DOMAIN n : HasState(n[k])
  <2> HIDE DEF hit, pairs, gone
  <2> SUFFICES ASSUME NEW m \in hit, NEW ps PROVE HasState(WithoutMemberships(c.roles[m], ps))
    OBVIOUS
  <2>1. HasState(w.c.roles[m])
    BY <1>2, PresentRole
  <2> QED BY <2>1 DEF HasState, WithoutMemberships
<1>4. n = [k \in DOMAIN n |-> n[k]] /\ DOMAIN n = hit
  OBVIOUS
<1> HIDE DEF n, hit
<1>5. Good(w, v, b) /\ {"grantors", "gcomplete"} \subseteq DOMAIN v.u.whole
  BY GrantorsGood
<1> HIDE DEF v, G, gone, pairs
<1>6. Good(v, x, b)
  BY <1>5, SetGrantors, GoodTrack
<1> HIDE DEF x
<1>7. Good(x, y, b)
  BY <1>3, <1>4, <1>6, RolesOver, GoodTrack
<1> HIDE DEF y
<1> QED BY <1>1, <1>5, <1>6, <1>7, GoodTrans, GoodRefl

(* REVOKE without a grantor, and apply_revoke_role as a whole.             *)
LEMMA RevokeLegacyGood ==
    ASSUME NEW w, NEW b, OnTrack(w, b), NEW s
    PROVE  Good(w, RevokeLegacy(w, s), b)
<1> DEFINE parents == ToSet(s.targets)
           ms == {m \in ToSet(s.to) : Present(w.c.roles, m)}
           listed(r) == r.member \in ms /\ r.role \in parents
           many == (s.cascade \/ RevokesMembership(s))
                   /\ \E r \in w.c.grantors : r.member \in ToSet(s.to) /\ r.role \in parents
           x == IF many THEN SnapGrantors(w) ELSE w
           without(role) ==
              IF RevokesMembership(s) THEN WithoutMemberships(role, parents)
              ELSE [role EXCEPT !.admin   = IF s.admin # <<>> THEN @ \ parents ELSE @,
                                !.inherit = IF s.inherit # <<>> THEN @ \ parents ELSE @,
                                !.set     = IF s.set # <<>> THEN @ \ parents ELSE @]
           n == [m \in ms |-> without(w.c.roles[m])]
           y == [Snap(x, "roles", ToSet(s.to)) EXCEPT !.c.roles = Over(n, @)]
           G == IF RevokesMembership(s) THEN {r \in y.c.grantors : ~listed(r)} ELSE y.c.grantors
           z == Set(y, "grantors", G)
<1>1. RevokeLegacy(w, s) = IF s.cascade /\ (RevokesMembership(s) \/ s.admin # <<>>)
                           THEN cascade_role_memberships(z, ToSet(s.to)) ELSE z
  <2>1. z = [Snap(x, "roles", ToSet(s.to)) EXCEPT
                !.c.roles = Over(n, @),
                !.c.grantors = IF RevokesMembership(s) THEN {r \in @ : ~listed(r)} ELSE @]
    <3> HIDE DEF n, x
    <3> QED BY DEF Set
  <2> HIDE DEF z
  <2> QED BY <2>1 DEF RevokeLegacy
<1>2. \A k \in DOMAIN n : HasState(n[k])
  <2> SUFFICES ASSUME NEW m \in ms PROVE HasState(without(w.c.roles[m]))
    OBVIOUS
  <2>1. HasState(w.c.roles[m])
    BY PresentRole
  <2> QED BY <2>1 DEF HasState, WithoutMemberships
<1>3. n = [k \in DOMAIN n |-> n[k]] /\ DOMAIN n \subseteq ToSet(s.to)
  OBVIOUS
<1> HIDE DEF n
<1>4. /\ Good(w, x, b) /\ x.c = w.c
      /\ many => {"grantors", "gcomplete"} \subseteq DOMAIN x.u.whole
  BY GrantorsGood, GoodRefl
<1>5. ~many => x = w
  OBVIOUS
<1> HIDE DEF x
<1>6. Good(x, y, b) /\ Keeps(x.u, y.u) /\ Same(x.c, y.c, {"roles"})
  BY <1>2, <1>3, <1>4, RolesOver, GoodTrack
<1>7. y.c.grantors = w.c.grantors
  BY <1>4, <1>6 DEF Same, CatalogFields, PlainFields
<1> HIDE DEF y
<1>8. Good(y, z, b)
  <2>1. CASE many
    <3>1. {"grantors", "gcomplete"} \subseteq DOMAIN y.u.whole
      BY <1>4, <1>6, <2>1 DEF Keeps
    <3> HIDE DEF G
    <3> QED BY <1>6, <3>1, SetGrantors, GoodTrack
  <2>2. CASE ~many
    <3>1. G = y.c.grantors
      BY <1>7, <2>2
    <3>2. z = y
      <4>1. y.c = [f \in CatalogFields |-> y.c[f]] /\ y = [c |-> y.c, u |-> y.u] /\ "grantors" \in CatalogFields
        BY <1>6 DEF Good, OnTrack, Leads, IsCatalog, CatalogFields, PlainFields
      <4> HIDE DEF G
      <4> QED BY <3>1, <4>1 DEF Set
    <3> QED BY <1>6, <3>2, GoodRefl, GoodTrack
  <2> QED BY <2>1, <2>2
<1> HIDE DEF z
<1>9. Good(w, z, b)
  BY <1>4, <1>6, <1>8, GoodTrans
<1>10. Good(w, cascade_role_memberships(z, ToSet(s.to)), b)
  BY <1>9, CascadeRolesGood, GoodTrack, GoodTrans
<1> QED BY <1>1, <1>9, <1>10

LEMMA RevokeRoleGood ==
    ASSUME NEW w, NEW b, OnTrack(w, b), NEW s
    PROVE  Good(w, RevokeRoleEffect(w, s), b)
<1> DEFINE g == role_membership_grantor(w.c, s)
           p == s.option \/ MembershipDoubt(w.c, s) \/ (s.cascade /\ ~w.c.gcomplete)
           x == TaintIf(w, p)
<1>1. RevokeRoleEffect(w, s) = IF g # "" /\ w.c.gcomplete THEN RevokeRecords(x, s, g) ELSE RevokeLegacy(x, s)
  BY DEF RevokeRoleEffect
<1>2. Good(w, x, b)
  BY TaintIfGood
<1> HIDE DEF x, g
<1>3. Good(w, RevokeRecords(x, s, g), b)
  BY <1>2, RevokeRecordsGood, GoodTrack, GoodTrans
<1>4. Good(w, RevokeLegacy(x, s), b)
  BY <1>2, RevokeLegacyGood, GoodTrack, GoodTrans
<1> QED BY <1>1, <1>3, <1>4

------------------------------------------------------------------------------
(* DROP TABLE: what depends on a table goes in one sweep.                  *)

(* A map changed at keys that are saved along the way.                     *)
LEMMA FieldOver ==
    ASSUME NEW w, NEW b, OnTrack(w, b), NEW f \in MapsInUse \ {"subscriptions"}, NEW ks,
           NEW n, n = [k \in DOMAIN n |-> n[k]], DOMAIN n \subseteq ks, \A k \in DOMAIN n : HasState(n[k])
    PROVE  LET y == [Snap(w, f, ks) EXCEPT !.c[f] = Over(n, @)]
           IN  Good(w, y, b) /\ Keeps(w.u, y.u) /\ Same(w.c, y.c, {f})
BY SnapOverGood DEF Set

LEMMA FieldOverFit ==
    ASSUME NEW w, NEW b, OnTrack(w, b), NEW f \in FitMaps, NEW ks,
           NEW n, n = [k \in DOMAIN n |-> n[k]], DOMAIN n \subseteq ks, \A k \in DOMAIN n : Entry(f, n[k])
    PROVE  LET y == [Snap(w, f, ks) EXCEPT !.c[f] = Over(n, @)]
           IN  Good(w, y, b) /\ Keeps(w.u, y.u) /\ Same(w.c, y.c, {f})
BY SnapOverFit DEF Set

(* A plain field that is saved unless it stays as it is.                   *)
LEMMA PlainMaybe ==
    ASSUME NEW w, NEW b, OnTrack(w, b), NEW f \in PlainFields, NEW v, v # w.c[f] => f \in DOMAIN w.u.whole
    PROVE  Good(w, Set(w, f, v), b) /\ Set(w, f, v).u = w.u /\ Same(w.c, Set(w, f, v).c, {f})
<1>1. CASE v # w.c[f]
  BY <1>1, PlainGood
<1>2. CASE v = w.c[f]
  <2>1. w = [c |-> w.c, u |-> w.u] /\ w.c = [g \in CatalogFields |-> w.c[g]] /\ f \in CatalogFields
    BY DEF OnTrack, Leads, IsCatalog, CatalogFields
  <2>2. Set(w, f, v) = w
    BY <1>2, <2>1 DEF Set
  <2> QED BY <2>2, GoodRefl DEF Same
<1> QED BY <1>1, <1>2

(* Constraints that go are saved, and have no tombstones.                  *)
LEMMA RemoveConstraints ==
    ASSUME NEW w, NEW b, OnTrack(w, b), NEW ks
    PROVE  /\ Good(w, RemoveKeys(w, "constraints", ks), b) /\ Keeps(w.u, RemoveKeys(w, "constraints", ks).u)
           /\ Same(w.c, RemoveKeys(w, "constraints", ks).c, {"constraints"})
<1>1. "constraints" \in MapFields
  BY DEF MapFields
<1> QED BY <1>1, RemoveKeysOk, StaysGood DEF Stays

(* Records of the baseline are saved as a whole; edges that go after a full*)
(* copy of the graph.                                                      *)
LEMMA ForgetGood ==
    ASSUME NEW w, NEW b, OnTrack(w, b), NEW gone
    PROVE  /\ Good(w, ForgetConstraints(w, gone), b) /\ Keeps(w.u, ForgetConstraints(w, gone).u)
           /\ Same(w.c, ForgetConstraints(w, gone).c, {"constraints", "pending", "bfk"})
<1> DEFINE hit == {f \in {"pending", "bfk"} : w.c[f] \cap gone # {}}
           ks == gone \cap DOMAIN w.c.constraints
           r == RemoveKeys(w, "constraints", ks)
           v == SnapWhole(r, hit)
           x == Set(v, "pending", v.c.pending \ gone)
           y == Set(x, "bfk", x.c.bfk \ gone)
<1>1. ForgetConstraints(w, gone) = y
  <2> HIDE DEF v
  <2> QED BY DEF ForgetConstraints, Set, v
<1>2. Good(w, r, b) /\ Keeps(w.u, r.u) /\ Same(w.c, r.c, {"constraints"})
  <2> HIDE DEF ks
  <2> QED BY RemoveConstraints DEF r
<1>3. hit \subseteq MapFields \cup PlainFields
  BY DEF PlainFields
<1>4. \A f \in {"pending", "bfk"} : f \in PlainFields /\ f \in CatalogFields /\ f # "constraints" /\ r.c[f] = w.c[f]
  <2>1. \A f \in {"pending", "bfk"} : f \in PlainFields /\ f \in CatalogFields /\ f # "constraints"
    BY DEF PlainFields, CatalogFields
  <2> QED BY <1>2, <2>1 DEF Same
<1> HIDE DEF r
<1>5. OnTrack(v, b) /\ v.c = r.c /\ Keeps(r.u, v.u) /\ hit \subseteq DOMAIN v.u.whole
  <2> HIDE DEF hit
  <2> QED BY <1>2, <1>3, SnapWholeOk, GoodTrack
<1>6. Good(r, v, b)
  BY <1>5 DEF Good
<1> HIDE DEF v
<1>7. \A f \in {"pending", "bfk"} : (v.c[f] \ gone) # v.c[f] => f \in DOMAIN v.u.whole
  BY <1>4, <1>5
<1>8. Good(v, x, b) /\ x.u = v.u /\ Same(v.c, x.c, {"pending"})
  BY <1>4, <1>5, <1>7, PlainMaybe
<1>9. x.c.bfk = v.c.bfk
  BY <1>4, <1>8 DEF Same
<1> HIDE DEF x
<1>10. Good(x, y, b) /\ y.u = x.u /\ Same(x.c, y.c, {"bfk"})
  <2>1. (x.c.bfk \ gone) # x.c.bfk => "bfk" \in DOMAIN x.u.whole
    BY <1>7, <1>8, <1>9
  <2> QED BY <1>4, <1>8, <2>1, PlainMaybe, GoodTrack
<1> HIDE DEF y
<1>11. Good(w, y, b)
  BY <1>2, <1>6, <1>8, <1>10, GoodTrans
<1>12. Keeps(w.u, y.u)
  BY <1>2, <1>5, <1>8, <1>10, KeepsTrans
<1>13. Same(w.c, y.c, {"constraints", "pending", "bfk"})
  BY <1>2, <1>5, <1>8, <1>10 DEF Same
<1> QED BY <1>1, <1>11, <1>12, <1>13

LEMMA RetainGood ==
    ASSUME NEW w, NEW b, OnTrack(w, b), NEW E
    PROVE  /\ Good(w, Rewrite(w, E), b) /\ Same(w.c, Rewrite(w, E).c, {"edges"})
           /\ [SnapGraphFull(w) EXCEPT !.c.edges = E] = Rewrite(w, E)
<1> DEFINE x == Rewrite(w, E)
<1>1. Good(w, x, b)
  BY RewriteGood
<1>2. Same(w.c, x.c, {"edges"})
  BY RewriteOk DEF Stays
<1>3. [SnapGraphFull(w) EXCEPT !.c.edges = E] = x
  BY RetainForm
<1> HIDE DEF x
<1> QED BY <1>1, <1>2, <1>3 DEF x

(* A graph saved in full stays so.                                         *)
LEMMA Keeping ==
    ASSUME NEW w, NEW b, OnTrack(w, b), NEW f \in MapsInUse \ {"subscriptions"}, NEW k, Present(w.c[f], k)
    PROVE  k \in DOMAIN w.c[f] /\ HasState(w.c[f][k])
BY EntryOf, MapsInUseAre

(* apply_drop_table: dependents, sequences, triggers, constraints and      *)
(* publications.                                                           *)
LEMMA DropTableGood ==
    ASSUME NEW w, NEW b, OnTrack(w, b), NEW s
    PROVE  Good(w, DropTableEffect(w, s), b)
<1> DEFINE c == w.c
           R(id) == ResolveRename(c.edges, id)
           doubt == \E id \in DropTableTargets(c, s) :
                       \/ id \in c.baserel /\ "dependencies" \notin c.known.families
                       \/ ScopedFamilyObject(c, id, "relations")
           owned(q, rels) == c.sequences[q].ownedby # <<>> /\ R(c.sequences[q].ownedby[1]) \in rels
           gone == DropClosure(c, s)
           rels == gone.relations
           omitted == \E id \in rels : ~Present(c.relations, id) /\ id \notin c.baserel
           seqs == {q \in Live(c.sequences) : owned(q, rels)}
           trgs == {t \in Live(c.triggers) : R(c.triggers[t].table) \in rels}
           stays(e) == /\ {R(e.d), R(e.r)} \cap rels = {} /\ R(e.d) \notin gone.indexes
                       /\ ~(e.k = "fk" /\ <<R(e.d), e.con>> \in gone.constraints)
           goes(o) == o.kind = "table" /\ R(o.id) \in rels
           pubs == {p \in Live(c.publications) : \E o \in c.publications[p].objs : goes(o)}
           p == doubt \/ omitted
           y1 == TaintIf(w, p)
           y2 == DropKeys(y1, "relations", rels)
           y3 == DropKeys(y2, "sequences", seqs)
           y4 == remove_dropped_constraints(y3, rels, gone.constraints)
           y5 == DropKeys(y4, "triggers", trgs)
           E == {e \in y5.c.edges : stays(e)}
           y6 == Rewrite(y5, E)
           without(r) == [r EXCEPT !.objs = {o \in @ : ~goes(o)}]
           n == [q \in pubs |-> without(Snap(y6, "publications", pubs).c.publications[q])]
           z6 == [SnapGraphFull(y5) EXCEPT !.c.edges = {e \in @ : stays(e)}]
           y7 == [Snap(y6, "publications", pubs) EXCEPT !.c.publications = Over(n, @)]
<1>0. DropTableEffect(w, s)
        = [Snap(z6, "publications", pubs) EXCEPT
              !.c.publications = Over([q \in pubs |-> without(@[q])], @)]
  BY DEF DropTableEffect, Retain
<1>1. /\ \A f \in {"triggers", "publications"} : f \in MapsInUse \ {"subscriptions"} /\ f \in CatalogFields
      /\ \A f \in {"relations", "sequences"} : f \in FitMaps
  BY DEF MapsInUse, FitMaps, CatalogFields, MapFields
<1>2. Good(w, y1, b) /\ Same(w.c, y1.c, {"tainted"})
  <2> HIDE DEF p
  <2> QED BY TaintIfGood
<1> HIDE DEF y1
<1>3. Good(y1, y2, b) /\ Same(y1.c, y2.c, {"relations"})
  <2> HIDE DEF rels
  <2> QED BY <1>1, <1>2, DropKeysFit, GoodTrack
<1> HIDE DEF y2
<1>4. Good(y2, y3, b) /\ Same(y2.c, y3.c, {"sequences"})
  <2> HIDE DEF seqs
  <2> QED BY <1>1, <1>3, DropKeysFit, GoodTrack
<1> HIDE DEF y3
<1>5. Good(y3, y4, b) /\ Same(y3.c, y4.c, {"constraints", "pending", "bfk"})
  <2> DEFINE g == {k \in DOMAIN y3.c.constraints \cup y3.c.pending \cup y3.c.bfk :
                      ConstraintGoes(y3.c, rels, gone.constraints, k)}
  <2>1. y4 = ForgetConstraints(y3, g)
    <3> HIDE DEF gone, rels
    <3> QED BY DEF remove_dropped_constraints
  <2> HIDE DEF g, y4
  <2> QED BY <1>4, <2>1, ForgetGood, GoodTrack
<1> HIDE DEF y4
<1>6. Good(y4, y5, b) /\ Same(y4.c, y5.c, {"triggers"})
  <2> HIDE DEF trgs
  <2> QED BY <1>1, <1>5, DropKeysGood, GoodTrack
<1> HIDE DEF y5
<1>7. Good(y5, y6, b) /\ Same(y5.c, y6.c, {"edges"}) /\ [SnapGraphFull(y5) EXCEPT !.c.edges = E] = y6
  <2> HIDE DEF E
  <2> QED BY <1>6, RetainGood, GoodTrack
<1>8. Snap(y6, "publications", pubs).c.publications = c.publications
  <2>1. "publications" \in CatalogFields
    BY <1>1
  <2> HIDE DEF y6, pubs
  <2>2. Snap(y6, "publications", pubs).c = y6.c
    BY <1>1, <1>7, SnapGood, GoodTrack
  <2> QED BY <2>1, <2>2, <1>2, <1>3, <1>4, <1>5, <1>6, <1>7 DEF Same
<1>9. [SnapGraphFull(y5) EXCEPT !.c.edges = {e \in @ : stays(e)}] = y6
  <2>1. SnapGraphFull(y5).c = y5.c
    BY <1>6, FullGraphGood, GoodTrack
  <2>2. E = {e \in SnapGraphFull(y5).c.edges : stays(e)}
    BY <2>1
  <2> HIDE DEF E, y6, gone, rels
  <2> QED BY <1>7, <2>2
<1>10. DropTableEffect(w, s) = y7
  <2> HIDE DEF y6
  <2>1. z6 = y6
    BY <1>9
  <2> HIDE DEF z6
  <2> QED BY <1>0, <2>1
<1> HIDE DEF y6
<1>11. \A k \in DOMAIN n : HasState(n[k])
  <2> SUFFICES ASSUME NEW q \in pubs, NEW objs PROVE HasState([c.publications[q] EXCEPT !.objs = objs])
    BY <1>8
  <2>1. Present(c.publications, q)
    BY DEF Live, Present
  <2>2. HasState(w.c["publications"][q])
    BY <1>1, <2>1, Keeping
  <2> QED BY <2>2 DEF HasState
<1>12. n = [k \in DOMAIN n |-> n[k]] /\ DOMAIN n \subseteq pubs
  OBVIOUS
<1> HIDE DEF n
<1>13. Good(y6, y7, b)
  <2> HIDE DEF pubs, y7
  <2>1. ASSUME NEW f, f = "publications"
        PROVE  LET y == [Snap(y6, f, pubs) EXCEPT !.c[f] = Over(n, @)] IN Good(y6, y, b)
    BY <1>1, <1>7, <1>11, <1>12, <2>1, FieldOver, GoodTrack
  <2> QED BY <2>1 DEF y7
<1> HIDE DEF y7
<1> QED BY <1>2, <1>3, <1>4, <1>5, <1>6, <1>7, <1>10, <1>13, GoodTrans
==============================================================================
