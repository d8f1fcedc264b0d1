---------------------------- MODULE CatalogProofs ----------------------------
(***************************************************************************)
(* The other handlers, and the catalog as a whole: in every scenario whose *)
(* statements are carried out in one piece a ROLLBACK restores the catalog,*)
(* an enabled subscription has a slot, a sequence stays within its bounds, *)
(* and privileges agree with their sources.                                *)
(***************************************************************************)
EXTENDS CatalogUndoProofs, Catalog

------------------------------------------------------------------------------
(* Owners, views and materialized views.                                   *)

(* Sequences and relations are maps of fit objects.                        *)
LEMMA SequencesField == "sequences" \in FitMaps /\ "sequences" \in CatalogFields
BY DEF FitMaps, CatalogFields, MapFields
LEMMA RelationsUsed == "relations" \in FitMaps /\ "relations" \in MapFields /\ "relations" \in CatalogFields
BY DEF FitMaps, CatalogFields, MapFields

(* ALTER TABLE OWNER takes the owned sequences along.                      *)
LEMMA TransferGood ==
    ASSUME NEW w, NEW b, OnTrack(w, b), NEW t, NEW owner
    PROVE  Good(w, transfer_owned_sequence_owners(w, t, owner), b)
<1> DEFINE owned == OwnedBy(w.c, t)
           v == Snap(w, "sequences", owned)
           n == [q \in owned |-> [v.c.sequences[q] EXCEPT !.owner = owner]]
           y == [v EXCEPT !.c.sequences = Over(n, @)]
<1>1. transfer_owned_sequence_owners(w, t, owner) = y
  BY DEF transfer_owned_sequence_owners
<1>2. v.c = w.c
  <2> HIDE DEF owned
  <2> QED BY SequencesField, SnapFit
<1>3. \A k \in DOMAIN n : Entry("sequences", n[k])
  <2> SUFFICES ASSUME NEW q \in owned PROVE SequenceFine([w.c["sequences"][q] EXCEPT !.owner = owner])
    BY <1>2, FineEntries
  <2>1. Present(w.c["sequences"], q)
    BY DEF OwnedBy, Live, Present
  <2>2. SequenceFine(w.c["sequences"][q])
    BY <2>1, SequenceThere
  <2> QED BY <2>2 DEF SequenceFine, HasState, Bounded
<1>4. n = [k \in DOMAIN n |-> n[k]] /\ DOMAIN n \subseteq owned
  OBVIOUS
<1> HIDE DEF n, owned
<1>5. Good(w, y, b)
  BY <1>3, <1>4, FieldOverFit, SequencesField
<1> QED BY <1>1, <1>5

LEMMA SetRelationOwnerGood ==
    ASSUME NEW w, NEW b, OnTrack(w, b), NEW id, NEW owner, Present(w.c.relations, id)
    PROVE  Good(w, SetRelationOwner(w, id, owner), b)
<1> DEFINE x == TaintIf(w, RoleDoubt(w.c, owner))
           r == [Rel(w.c, id) EXCEPT !.owner = owner]
           y == Assign(x, "relations", id, r)
           z == transfer_owned_sequence_owners(y, id, owner)
<1>1. SetRelationOwner(w, id, owner) = z
  BY DEF SetRelationOwner
<1>2. Entry("relations", r)
  <2>1. RelationFine(w.c["relations"][id])
    BY RelationThere
  <2>2. RelationFine(r)
    BY <2>1 DEF RelationFine, HasState, Rel
  <2> QED BY <2>2, FineEntries
<1>3. Good(w, x, b)
  BY TaintIfGood
<1> HIDE DEF x, r
<1>4. Good(x, y, b)
  BY <1>2, <1>3, RelationsUsed, AssignFit, GoodTrack
<1> HIDE DEF y
<1>5. Good(y, z, b)
  BY <1>4, TransferGood, GoodTrack
<1> QED BY <1>1, <1>3, <1>4, <1>5, GoodTrans

(* A lookup that is settled has found an object.                           *)
LEMMA LookupPresent ==
    ASSUME NEW c, NEW id, NEW kinds, Ensure(RelationLookup(c, id, kinds)) = "ok"
    PROVE  Present(c.relations, id)
BY DEF Ensure, RelationLookup

(* OWNER TO of any relation.                                               *)
LEMMA ChangeRelationOwnerGood ==
    ASSUME NEW w, NEW b, OnTrack(w, b), NEW s, ChangeRelationOwnerVerdict(w.c, s) = "ok"
    PROVE  Good(w, SetRelationOwner(w, s.id, s.owner), b)
<1>1. Ensure(RelationLookup(w.c, s.id, AnyRelation)) = "ok"
  BY Chain DEF ChangeRelationOwnerVerdict
<1> QED BY <1>1, LookupPresent, SetRelationOwnerGood

(* A record that is changed in other fields keeps its state.               *)
LEMMA StateKept ==
    ASSUME NEW r, HasState(r), NEW q, DOMAIN q = DOMAIN r, q.st = r.st
    PROVE  HasState(q)
BY DEF HasState

(* A new relation is an object without privileges.                         *)
LEMMA NewRelationFine == ASSUME NEW c, NEW kind, NEW cols PROVE RelationFine(NewRelation(c, kind, cols))
<1> DEFINE none == [grants |-> {}, options |-> {}, from |-> {}, optfrom |-> {}]
<1>1. Sourced(none)
  BY FS_EmptySet DEF Sourced
<1> HIDE DEF none
<1>2. /\ {"st", "acl"} \subseteq DOMAIN NewRelation(c, kind, cols)
      /\ NewRelation(c, kind, cols).acl = none /\ NewRelation(c, kind, cols).st = "present"
  BY DEF NewRelation, none
<1> QED BY <1>1, <1>2 DEF RelationFine, HasState

LEMMA GraphSet ==
    ASSUME NEW w, NEW b, OnTrack(w, b), w.u.graph.kind = "full", NEW E
    PROVE  Good(w, Set(w, "edges", E), b)
BY EdgesGood

(* apply_create_view: a replaced view gives up its edges.                  *)
LEMMA CreateViewGood ==
    ASSUME NEW w, NEW b, OnTrack(w, b), NEW s
    PROVE  Good(w, CreateViewEffect(w, s), b)
<1> DEFINE v   == Snap(w, "relations", {s.id})
           x   == Bump(v)
           old == IsView(w.c, s.id)
           base == IF old THEN Rel(x.c, s.id) ELSE NewRelation(x.c, "view", <<>>)
           rel == [base EXCEPT !.gen = x.c.gen, !.complete = s.complete, !.upd = s.upd,
                               !.cols = IF s.complete THEN name_view_columns(s) ELSE @,
                               !.opts = StoredKeys("", s.opts)]
           z   == Assign(x, "relations", s.id, rel)
           y   == Rewrite(z, {e \in z.c.edges : ~(old /\ e.d = s.id /\ e.k \in {"view", "viewfn", "viewtype"})})
           r   == Set(y, "edges", y.c.edges \cup ViewEdges(s, x.c.gen))
<1>1. Good(w, v, b) /\ v.c = w.c
  BY RelationsUsed, SnapFit
<1> HIDE DEF v
<1>2. Good(v, x, b) /\ Same(v.c, x.c, {"gen"})
  BY <1>1, BumpGood, GoodTrack
<1> HIDE DEF x
<1>3. RelationFine(base)
  <2>1. CASE old
    <3>1. Present(w.c["relations"], s.id)
      BY <2>1 DEF IsView, RelationLookup
    <3>2. RelationFine(w.c["relations"][s.id])
      BY <3>1, RelationThere
    <3>3. x.c["relations"] = w.c["relations"]
      BY RelationsUsed, <1>1, <1>2 DEF Same
    <3> QED BY <2>1, <3>2, <3>3 DEF Rel
  <2>2. CASE ~old
    BY <2>2, NewRelationFine
  <2> QED BY <2>1, <2>2
<1> HIDE DEF base, old
<1>4. Entry("relations", rel)
  <2>1. RelationFine(rel)
    BY <1>3 DEF RelationFine, HasState
  <2> QED BY <2>1, FineEntries
<1> HIDE DEF rel
<1>5. Good(x, z, b)
  BY <1>2, <1>4, RelationsUsed, AssignFit, GoodTrack
<1> HIDE DEF z
<1>6. Good(z, y, b) /\ y.u.graph.kind = "full"
  BY <1>5, RewriteGood, GoodTrack
<1>7. [SnapGraphFull(z) EXCEPT !.c.edges = {e \in @ : ~(old /\ e.d = s.id /\ e.k \in {"view", "viewfn", "viewtype"})}] = y
  <2>1. SnapGraphFull(z).c = z.c
    BY <1>5, FullGraphGood, GoodTrack
  <2> QED BY <1>5, <2>1, RetainForm, GoodTrack
<1>8. CreateViewEffect(w, s) = r
  <2> HIDE DEF y
  <2> QED BY <1>7 DEF CreateViewEffect, Retain, z, rel, base, old, x, v
<1> HIDE DEF y
<1>9. Good(y, r, b)
  BY <1>6, GraphSet, GoodTrack
<1> HIDE DEF r
<1> QED BY <1>1, <1>2, <1>5, <1>6, <1>8, <1>9, GoodTrans

(* apply_create_materialized_view and REFRESH.                             *)
LEMMA CreateMatviewGood ==
    ASSUME NEW w, NEW b, OnTrack(w, b), NEW s
    PROVE  Good(w, CreateMatviewEffect(w, s), b)
<1> DEFINE v   == Snap(w, "relations", {s.id})
           x   == Bump(v)
           base == NewRelation(x.c, "matview", IF s.complete THEN name_view_columns(s) ELSE <<>>)
           rel == [base EXCEPT !.complete = s.complete, !.opts = StoredKeys("", s.opts),
                               !.pop = IF s.nodata THEN "no" ELSE "yes"]
           z   == Assign(x, "relations", s.id, rel)
           y   == SnapGraphFull(z)
           r   == Set(y, "edges", y.c.edges \cup ViewEdges(s, x.c.gen))
<1>0. CreateMatviewEffect(w, s) = r
  BY DEF CreateMatviewEffect
<1>1. Good(w, v, b)
  BY RelationsUsed, SnapFit
<1> HIDE DEF v
<1>2. Good(v, x, b)
  BY <1>1, BumpGood, GoodTrack
<1> HIDE DEF x
<1>3. RelationFine(base)
  BY NewRelationFine
<1> HIDE DEF base
<1>4. Entry("relations", rel)
  <2>1. RelationFine(rel)
    BY <1>3 DEF RelationFine, HasState
  <2> QED BY <2>1, FineEntries
<1> HIDE DEF rel
<1>5. Good(x, z, b)
  BY <1>2, <1>4, RelationsUsed, AssignFit, GoodTrack
<1> HIDE DEF z
<1>6. Good(z, y, b) /\ y.u.graph.kind = "full"
  BY <1>5, FullGraphGood, GoodTrack
<1> HIDE DEF y
<1>7. Good(y, r, b)
  BY <1>6, GraphSet, GoodTrack
<1> HIDE DEF r
<1> QED BY <1>0, <1>1, <1>2, <1>5, <1>6, <1>7, GoodTrans

LEMMA RefreshGood ==
    ASSUME NEW w, NEW b, OnTrack(w, b), NEW id, Present(w.c.relations, id), NEW pop
    PROVE  Good(w, Assign(w, "relations", id, [Rel(w.c, id) EXCEPT !.pop = pop]), b)
<1> DEFINE r == [Rel(w.c, id) EXCEPT !.pop = pop]
<1>1. Entry("relations", r)
  <2>1. RelationFine(w.c["relations"][id])
    BY RelationThere
  <2>2. RelationFine(r)
    BY <2>1 DEF RelationFine, HasState, Rel
  <2> QED BY <2>2, FineEntries
<1> HIDE DEF r
<1>2. Good(w, Assign(w, "relations", id, r), b)
  BY <1>1, RelationsUsed, AssignFit
<1> QED BY <1>2 DEF r

(* What is dropped leaves the records and the graph.                       *)
LEMMA ForgetDroppedGood ==
    ASSUME NEW w, NEW b, OnTrack(w, b), NEW rels, NEW cons
    PROVE  /\ Good(w, remove_dropped_constraints(w, rels, cons), b)
           /\ Same(w.c, remove_dropped_constraints(w, rels, cons).c, {"constraints", "pending", "bfk"})
<1> DEFINE g == {k \in DOMAIN w.c.constraints \cup w.c.pending \cup w.c.bfk : ConstraintGoes(w.c, rels, cons, k)}
<1>1. remove_dropped_constraints(w, rels, cons) = ForgetConstraints(w, g)
  BY DEF remove_dropped_constraints
<1> HIDE DEF g
<1> QED BY <1>1, ForgetGood

LEMMA DroppedEdgesGood ==
    ASSUME NEW w, NEW b, OnTrack(w, b), NEW rels, NEW indexes
    PROVE  Good(w, remove_dropped_relation_edges(w, rels, indexes), b)
<1> DEFINE R(id) == ResolveRename(w.c.edges, id)
           E == {e \in w.c.edges : R(e.d) \notin rels \cup indexes /\ R(e.r) \notin rels}
           y == Rewrite(w, E)
<1>1. [SnapGraphFull(w) EXCEPT !.c.edges = {e \in @ : R(e.d) \notin rels \cup indexes /\ R(e.r) \notin rels}] = y
  <2>1. SnapGraphFull(w).c = w.c
    BY FullGraphGood
  <2> QED BY <2>1, RetainForm
<1>2. remove_dropped_relation_edges(w, rels, indexes) = y
  <2> HIDE DEF y
  <2> QED BY <1>1 DEF remove_dropped_relation_edges, Retain
<1> HIDE DEF E
<1>3. Good(w, y, b)
  BY RewriteGood
<1> QED BY <1>2, <1>3

(* Triggers are a map of objects.                                          *)
LEMMA TriggersField == "triggers" \in MapsInUse \ {"subscriptions"} /\ "triggers" \in CatalogFields
BY DEF MapsInUse, CatalogFields, MapFields

(* The members of a closure go with it; so DROP VIEW, and views dropped in *)
(* a cascade.                                                              *)
LEMMA ClosureMembersGood ==
    ASSUME NEW w, NEW b, OnTrack(w, b), NEW ids, NEW gone, NEW here
    PROVE  Good(w, DropClosureMembers(w, ids, gone, here), b)
<1> DEFINE trgs == {t \in Live(w.c.triggers) : ResolveRename(w.c.edges, w.c.triggers[t].table) \in here}
           doubt == \/ \E id \in ids : ScopedFamilyObject(w.c, id, "relations")
                    \/ ~(gone.relations \subseteq DOMAIN w.c.relations)
           x == TaintIf(w, doubt)
           y == DropKeys(x, "relations", here)
           z == DropKeys(y, "triggers", trgs)
           r == remove_dropped_constraints(z, gone.relations, gone.constraints)
<1>1. DropClosureMembers(w, ids, gone, here) = r
  BY DEF DropClosureMembers
<1> HIDE DEF doubt, trgs
<1>2. Good(w, x, b)
  BY TaintIfGood
<1> HIDE DEF x
<1>3. Good(x, y, b)
  BY <1>2, RelationsUsed, DropKeysFit, GoodTrack
<1> HIDE DEF y
<1>4. Good(y, z, b)
  BY <1>3, TriggersField, DropKeysGood, GoodTrack
<1> HIDE DEF z
<1>5. Good(z, r, b)
  BY <1>4, ForgetDroppedGood, GoodTrack
<1> HIDE DEF r
<1> QED BY <1>1, <1>2, <1>3, <1>4, <1>5, GoodTrans

LEMMA DropFamilyGood ==
    ASSUME NEW w, NEW b, OnTrack(w, b), NEW ids, NEW cascade
    PROVE  Good(w, apply_drop_relation_family(w, ids, cascade), b)
<1>1. ASSUME NEW gone PROVE Good(w, DropClosed(w, ids, gone), b)
  <2> DEFINE here == {id \in gone.relations : Present(w.c.relations, id)}
             x == DropClosureMembers(w, ids, gone, here)
             y == remove_dropped_relation_edges(x, gone.relations, gone.indexes)
  <2>1. DropClosed(w, ids, gone) = y
    BY DEF DropClosed
  <2> HIDE DEF here
  <2>2. Good(w, x, b)
    BY ClosureMembersGood
  <2> HIDE DEF x
  <2>3. Good(x, y, b)
    BY <2>2, DroppedEdgesGood, GoodTrack
  <2> HIDE DEF y
  <2> QED BY <2>1, <2>2, <2>3, GoodTrans
<1> QED BY <1>1 DEF apply_drop_relation_family

LEMMA CascadedViewsGood ==
    ASSUME NEW w, NEW b, OnTrack(w, b), NEW views
    PROVE  Good(w, drop_cascaded_views(w, views), b)
BY DropFamilyGood, GoodRefl DEF drop_cascaded_views

------------------------------------------------------------------------------
(* TRUNCATE, policies, triggers and maintenance.                           *)

(* TRUNCATE RESTART IDENTITY.                                              *)
LEMMA TruncateGood ==
    ASSUME NEW w, NEW b, OnTrack(w, b), NEW s
    PROVE  Good(w, TruncateEffect(w, s), b)
<1> DEFINE owned == {q \in Live(w.c.sequences) :
                        /\ w.c.sequences[q].ownedby # <<>>
                        /\ s.cascade \/ w.c.sequences[q].ownedby[1] \in ToSet(s.ids)}
           x == Snap(w, "sequences", owned)
           forget(q) == [q EXCEPT !.exact = FALSE, !.last = Unset]
           n == [q \in owned |-> forget(x.c.sequences[q])]
           y == Set(x, "sequences", Over(n, x.c.sequences))
<1>1. TruncateEffect(w, s) = Taint(y)
  BY DEF TruncateEffect
<1>2. x.c = w.c
  <2> HIDE DEF owned
  <2> QED BY SequencesField, SnapFit
<1>3. \A k \in DOMAIN n : Entry("sequences", n[k])
  <2> SUFFICES ASSUME NEW q \in owned PROVE SequenceFine(forget(w.c["sequences"][q]))
    BY <1>2, FineEntries
  <2>1. Present(w.c["sequences"], q)
    BY DEF Live, Present
  <2>2. SequenceFine(w.c["sequences"][q])
    BY <2>1, SequenceThere
  <2> QED BY <2>2 DEF SequenceFine, HasState, Bounded
<1>4. n = [k \in DOMAIN n |-> n[k]] /\ DOMAIN n \subseteq owned
  OBVIOUS
<1> HIDE DEF n, owned
<1>5. Good(w, y, b)
  BY <1>3, <1>4, SnapOverFit, SequencesField
<1> HIDE DEF y
<1>6. Good(y, Taint(y), b)
  BY <1>5, TaintGood, GoodTrack
<1> QED BY <1>1, <1>5, <1>6, GoodTrans

(* Policies, and row security of the table.                                *)
LEMMA PolicyGood ==
    ASSUME NEW w, NEW b, OnTrack(w, b), NEW s, PolicyVerdict(w.c, s) = "ok"
    PROVE  Good(w, PolicyEffect(w, s), b)
<1> DEFINE r == [Rel(w.c, s.table) EXCEPT
                    !.policies = IF s.do = "create" THEN @ \cup {s.name} ELSE @ \ {s.name}]
           x == Assign(w, "relations", s.table, r)
           y == TaintIf(x, s.do = "create" /\ ~s.exact)
<1>1. PolicyEffect(w, s) = y
  BY DEF PolicyEffect
<1>2. Entry("relations", r)
  <2>1. Ensure(RelationLookup(w.c, s.table, {"table"})) = "ok"
    BY Chain DEF PolicyVerdict
  <2>2. RelationFine(w.c["relations"][s.table])
    BY <2>1, LookupPresent, RelationThere
  <2>3. RelationFine(r)
    BY <2>2 DEF RelationFine, HasState, Rel
  <2> QED BY <2>3, FineEntries
<1> HIDE DEF r
<1>3. Good(w, x, b)
  BY <1>2, RelationsUsed, AssignFit
<1> HIDE DEF x
<1>4. ASSUME NEW p PROVE Good(x, TaintIf(x, p), b)
  BY <1>3, TaintIfGood, GoodTrack
<1> QED BY <1>1, <1>3, <1>4, GoodTrans

(* apply_create_trigger, DROP TRIGGER and RENAME.                          *)
LEMMA CreateTriggerGood ==
    ASSUME NEW w, NEW b, OnTrack(w, b), NEW s, CreateTriggerVerdict(w.c, s) = "ok"
    PROVE  Good(w, CreateTriggerEffect(w, s), b)
<1> DEFINE id == TriggerId(s.table, s.name)
           x  == Bump(w)
           t  == [st |-> "present", table |-> s.table, row |-> s.row, fn |-> s.fn,
                  parent |-> <<>>, gen |-> x.c.gen, mode |-> "origin"]
           y  == Assign(x, "triggers", id, t)
           r  == [Rel(y.c, s.table) EXCEPT !.trg = @ \cup {s.name}]
           v  == Assign(y, "relations", s.table, r)
           z  == SnapGraphFull(v)
           E  == z.c.edges \cup {[k |-> "trigger", d |-> id, r |-> s.table, trg |-> id,
                                  fn |-> s.fn, gen |-> x.c.gen]}
           q  == Set(z, "edges", E)
<1>1. CreateTriggerEffect(w, s) = q
  BY DEF CreateTriggerEffect
<1>2. Good(w, x, b) /\ Same(w.c, x.c, {"gen"})
  BY BumpGood
<1> HIDE DEF x
<1>3. HasState(t)
  BY DEF HasState
<1> HIDE DEF t, id
<1>4. Good(x, y, b) /\ Same(x.c, y.c, {"triggers"})
  BY <1>2, <1>3, TriggersField, AssignGood, GoodTrack
<1> HIDE DEF y
<1>5. Entry("relations", r)
  <2>1. Ensure(RelationLookup(w.c, s.table, {"table", "view"})) = "ok"
    BY Chain DEF CreateTriggerVerdict, TriggerTarget
  <2>2. RelationFine(w.c["relations"][s.table])
    BY <2>1, LookupPresent, RelationThere
  <2>3. y.c["relations"] = w.c["relations"]
    BY <1>2, <1>4, RelationsUsed DEF Same
  <2>4. RelationFine(r)
    BY <2>2, <2>3 DEF RelationFine, HasState, Rel
  <2> QED BY <2>4, FineEntries
<1> HIDE DEF r
<1>6. Good(y, v, b)
  BY <1>4, <1>5, RelationsUsed, AssignFit, GoodTrack
<1> HIDE DEF v
<1>7. Good(v, z, b) /\ z.u.graph.kind = "full"
  BY <1>6, FullGraphGood, GoodTrack
<1> HIDE DEF z, E
<1>8. Good(z, q, b)
  BY <1>7, GraphSet, GoodTrack
<1> HIDE DEF q
<1> QED BY <1>1, <1>2, <1>4, <1>6, <1>7, <1>8, GoodTrans

LEMMA DropTriggerGood ==
    ASSUME NEW w, NEW b, OnTrack(w, b), NEW s, DropTriggerVerdict(w.c, s) = "ok"
    PROVE  Good(w, DropTriggerEffect(w, s), b)
<1> DEFINE id == TriggerId(s.table, s.name)
           r  == [Rel(w.c, s.table) EXCEPT !.trg = @ \ {s.name}]
           v  == DropKeys(w, "triggers", {id})
           x  == Assign(v, "relations", s.table, r)
           y  == Rewrite(x, {e \in x.c.edges : ~(e.k = "trigger" /\ e.d = id)})
<1>1. Entry("relations", r)
  <2>1. Ensure(RelationLookup(w.c, s.table, {"table", "view"})) = "ok"
    BY Chain DEF DropTriggerVerdict, TriggerTarget
  <2>2. RelationFine(w.c["relations"][s.table])
    BY <2>1, LookupPresent, RelationThere
  <2>3. RelationFine(r)
    BY <2>2 DEF RelationFine, HasState, Rel
  <2> QED BY <2>3, FineEntries
<1> HIDE DEF r
<1>2. Good(w, v, b)
  BY TriggersField, DropKeysGood
<1> HIDE DEF v
<1>3. Good(v, x, b)
  BY <1>1, <1>2, RelationsUsed, AssignFit, GoodTrack
<1> HIDE DEF x
<1>4. DropTriggerEffect(w, s) = y
  <2>1. SnapGraphFull(x).c = x.c
    BY <1>3, FullGraphGood, GoodTrack
  <2>2. [SnapGraphFull(x) EXCEPT !.c.edges = {e \in @ : ~(e.k = "trigger" /\ e.d = id)}] = y
    BY <1>3, <2>1, RetainForm, GoodTrack
  <2> HIDE DEF y
  <2> QED BY <2>2 DEF DropTriggerEffect, Retain, x, v, r
<1>5. Good(x, y, b)
  BY <1>3, RewriteGood, GoodTrack
<1> HIDE DEF y
<1> QED BY <1>2, <1>3, <1>4, <1>5, GoodTrans

LEMMA PutExcept ==
    ASSUME NEW m, m = [k \in DOMAIN m |-> m[k]], NEW k \in DOMAIN m, NEW r
    PROVE  [m EXCEPT ![k] = r] = Put(m, k, r)
BY DEF Put, Over

LEMMA RelationsPut ==
    ASSUME NEW w, NEW b, OnTrack(w, b), NEW k, KeySaved(w.u, "relations", k), NEW r, Entry("relations", r)
    PROVE  LET x == Set(w, "relations", Put(w.c["relations"], k, r))
           IN  Good(w, x, b) /\ x.u = w.u /\ Same(w.c, x.c, {"relations"})
BY PutFit, RelationsUsed

LEMMA RenameTriggerGood ==
    ASSUME NEW w, NEW b, OnTrack(w, b), NEW s, RenameTriggerVerdict(w.c, s) = "ok"
    PROVE  Good(w, RenameTriggerEffect(w, s), b)
<1> DEFINE old == TriggerId(s.table, s.name)
           new == TriggerId(s.table, s.to)
           v1  == Snap(w, "triggers", {old, new})
           v2  == Snap(v1, "relations", {s.table})
           x   == SnapGraphFull(v2)
           m   == Rekey(x.c["triggers"], old, new)
           t1  == Set(x, "triggers", m)
           r   == [x.c.relations[s.table] EXCEPT !.trg = (@ \ {s.name}) \cup {s.to}]
           p   == Put(t1.c["relations"], s.table, r)
           t2  == Set(t1, "relations", p)
           E   == AddEdge(PropagateTriggerRename(x.c.edges, old, new), RenameEdge(old, new))
           t3  == Set(t2, "edges", E)
<1>1. Present(w.c["triggers"], old) /\ Present(w.c["relations"], s.table)
  <2>1. TriggerTarget(w.c, s) = "ok" /\ Ensure(trigger_lookup(w.c, old)) = "ok"
    <3> HIDE DEF old
    <3> QED BY Chain DEF RenameTriggerVerdict, old
  <2>2. Present(w.c.triggers, old)
    BY <2>1 DEF Ensure, trigger_lookup
  <2> QED BY <2>1, <2>2, LookupPresent DEF TriggerTarget
<1>2. /\ old \in DOMAIN w.c["triggers"]
      /\ s.table \in DOMAIN w.c["relations"] /\ RelationFine(w.c["relations"][s.table])
  BY <1>1, RelationThere, TriggersField, Keeping
<1>3. Good(w, v1, b) /\ v1.c = w.c /\ \A k \in {old, new} : KeySaved(v1.u, "triggers", k)
  <2> HIDE DEF old, new
  <2> QED BY TriggersField, SnapGood
<1> HIDE DEF v1
<1>4. Good(v1, v2, b) /\ v2.c = v1.c /\ Keeps(v1.u, v2.u) /\ KeySaved(v2.u, "relations", s.table)
  BY <1>3, RelationsUsed, SnapFit, GoodTrack
<1> HIDE DEF v2
<1>5. Good(v2, x, b) /\ x.c = v2.c /\ Keeps(v2.u, x.u) /\ x.u.graph.kind = "full"
  BY <1>4, FullGraphGood, GoodTrack
<1>6. KeySaved(x.u, "triggers", old) /\ KeySaved(x.u, "triggers", new) /\ KeySaved(x.u, "relations", s.table)
  <2> HIDE DEF x, old, new
  <2> QED BY <1>3, <1>4, <1>5 DEF Keeps
<1> HIDE DEF x
<1>7. x = [c |-> x.c, u |-> x.u] /\ x.c = [g \in CatalogFields |-> x.c[g]] /\ x.c = w.c
  BY <1>3, <1>4, <1>5 DEF Good, OnTrack, Leads, IsCatalog
<1> HIDE DEF old, new
<1>8. Good(x, t1, b) /\ t1.u = x.u /\ Same(x.c, t1.c, {"triggers"})
  <2>1. IsMap("triggers", m) /\ SafeMap(x.u, "triggers", x.c["triggers"], m)
    <3>1. IsMap("triggers", x.c["triggers"])
      BY <1>5, TriggersField, MapsInUseAre, CatalogMap, GoodTrack
    <3> QED BY <1>2, <1>6, <1>7, <3>1, RekeySafe
  <2> HIDE DEF m
  <2> QED BY <1>5, <2>1, TriggersField, SetMapGood, GoodTrack
<1>9. t1.c["relations"] = x.c["relations"]
  BY <1>8, RelationsUsed DEF Same
<1>10. Entry("relations", r)
  <2>1. RelationFine(r)
    BY <1>2, <1>7 DEF RelationFine, HasState
  <2> QED BY <2>1, FineEntries
<1>11. RenameTriggerEffect(w, s) = t3
  <2>1. p = [x.c["relations"] EXCEPT ![s.table] = r]
    <3>1. x.c["relations"] = [k \in DOMAIN x.c["relations"] |-> x.c["relations"][k]]
      BY <1>5, RelationsUsed, CatalogMap, GoodTrack DEF IsMap
    <3>2. s.table \in DOMAIN x.c["relations"]
      BY <1>2, <1>7
    <3> HIDE DEF r
    <3>3. [x.c["relations"] EXCEPT ![s.table] = r] = Put(x.c["relations"], s.table, r)
      BY <3>1, <3>2, PutExcept
    <3> QED BY <1>9, <3>3
  <2>2. t3 = [x EXCEPT !.c.triggers = m, !.c.relations = p, !.c.edges = E]
    <3> HIDE DEF m, p, E
    <3> QED BY <1>7, RelationsUsed, TriggersField DEF Set
  <2>3. RenameTriggerEffect(w, s)
          = [x EXCEPT !.c.triggers = Rekey(@, old, new),
                      !.c.relations[s.table].trg = (@ \ {s.name}) \cup {s.to},
                      !.c.edges = AddEdge(PropagateTriggerRename(@, old, new), RenameEdge(old, new))]
    BY DEF RenameTriggerEffect, x, v2, v1, old, new
  <2>4. @ = [x EXCEPT !.c.triggers = m, !.c.relations = [@ EXCEPT ![s.table] = r], !.c.edges = E]
    <3> QED BY <1>7, RelationsUsed, TriggersField DEF CatalogFields
  <2> HIDE DEF p, m, E, t3, r
  <2> QED BY <2>1, <2>2, <2>3, <2>4
<1> HIDE DEF t1, m, r, E
<1>12. Good(t1, t2, b) /\ t2.u = t1.u
  <2>1. KeySaved(t1.u, "relations", s.table)
    BY <1>6, <1>8
  <2>2. OnTrack(t1, b)
    BY <1>8, GoodTrack
  <2> QED BY <1>10, <2>1, <2>2, RelationsPut
<1> HIDE DEF t2
<1>13. Good(t2, t3, b)
  BY <1>5, <1>8, <1>12, GraphSet, GoodTrack
<1> HIDE DEF t3
<1> QED BY <1>3, <1>4, <1>5, <1>8, <1>11, <1>12, <1>13, GoodTrans

(* TRUNCATE and CLUSTER as a whole.                                        *)
LEMMA MaintenanceGood ==
    ASSUME NEW w, NEW b, OnTrack(w, b), NEW s
    PROVE  Good(w, MaintenanceEffect(w, s), b)
<1>1. ASSUME NEW id PROVE Good(w, mark_index_valid(w, id), b)
  <2>1. ASSUME NEW E PROVE Good(w, Rewrite(w, E), b)
    BY RewriteGood
  <2> QED BY <2>1, GoodRefl DEF mark_index_valid
<1> QED BY <1>1, TruncateGood, TaintGood, GoodRefl DEF MaintenanceEffect

------------------------------------------------------------------------------
(* Routines: create, replace, rename, move and drop.                       *)

(* Routines and types are maps of objects.                                 *)
LEMMA FunctionsField == "functions" \in MapsInUse \ {"subscriptions"} /\ "functions" \in CatalogFields
BY DEF MapsInUse, CatalogFields, MapFields
LEMMA TypesField == "types" \in MapsInUse \ {"subscriptions"} /\ "types" \in CatalogFields
BY DEF MapsInUse, CatalogFields, MapFields

(* A routine that is altered is present.                                   *)
LEMMA RoutinePresent ==
    ASSUME NEW w, NEW b, OnTrack(w, b), NEW id, NEW kinds, Ensure(RoutineLookup(w.c, id, kinds)) = "ok"
    PROVE  id \in DOMAIN w.c["functions"] /\ HasState(w.c["functions"][id])
<1>1. Present(w.c["functions"], id)
  BY DEF Ensure, RoutineLookup
<1> QED BY <1>1, FunctionsField, Keeping

(* apply_create_function: a replaced routine gives up its edges.           *)
LEMMA CreateRoutineGood ==
    ASSUME NEW w, NEW b, OnTrack(w, b), NEW s
    PROVE  Good(w, CreateRoutineEffect(w, s), b)
<1> DEFINE here  == Present(w.c.functions, s.id)
           doubt == \/ RoutineLookup(w.c, s.id, {s.kind}) = "unknown"
                    \/ here /\ s.kind # "aggregate" /\ w.c.functions[s.id].ndef > 0 /\ s.ndef > 0
                    \/ \E i \in DOMAIN s.opts : function_option_unmodeled(s.opts[i])
                    \/ s.attrs # <<>>
           v     == IF s.kind = "aggregate" THEN w ELSE Bump(w)
           x     == TaintIf(v, doubt)
           made  == Routine(s.kind, [i \in DOMAIN s.args |-> resolve_type_reference(w.c, s.args[i])],
                            IF s.form = "scalar" THEN resolve_type_reference(w.c, s.ret) ELSE <<>>,
                            IF here /\ s.kind \in {"function", "window"} THEN w.c.functions[s.id].owner ELSE <<>>)
           r     == [made EXCEPT !.res = routine_result(s.kind, s.form, s.ret, s.outs), !.set = s.set,
                                 !.in = s.in, !.ndef = s.ndef, !.opts = SetOptions(<<>>, Modelled(s.opts))]
           y     == Assign(x, "functions", s.id, r)
<1>1. CreateRoutineEffect(w, s) = y
  BY DEF CreateRoutineEffect
<1>2. HasState(made)
  BY DEF HasState, Routine
<1> HIDE DEF made, doubt
<1>3. HasState(r)
  BY <1>2 DEF HasState
<1> HIDE DEF r
<1>4. Good(w, v, b)
  BY BumpGood, GoodRefl
<1> HIDE DEF v
<1>5. Good(v, x, b)
  BY <1>4, TaintIfGood, GoodTrack
<1> HIDE DEF x
<1>6. Good(x, y, b)
  BY <1>3, <1>5, FunctionsField, AssignGood, GoodTrack
<1> HIDE DEF y
<1> QED BY <1>1, <1>4, <1>5, <1>6, GoodTrans

(* Range types follow a routine that moves.                                *)
LEMMA RemapRangeGood ==
    ASSUME NEW w, NEW b, OnTrack(w, b), NEW old, NEW new
    PROVE  Good(w, remap_range_routine_reference(w, old, new), b)
<1> DEFINE hit == {t \in Live(w.c.types) : old \in w.c.types[t].uses}
           x   == Snap(w, "types", hit)
           n   == [t \in hit |-> [w.c.types[t] EXCEPT !.uses = (@ \ {old}) \cup {new}]]
           y   == Set(x, "types", Over(n, x.c.types))
<1>1. remap_range_routine_reference(w, old, new) = y
  BY DEF remap_range_routine_reference
<1>2. \A k \in DOMAIN n : HasState(n[k])
  <2> SUFFICES ASSUME NEW t \in hit, NEW uses PROVE HasState([w.c["types"][t] EXCEPT !.uses = uses])
    OBVIOUS
  <2>1. Present(w.c["types"], t)
    BY DEF Live, Present
  <2>2. HasState(w.c["types"][t])
    BY TypesField, <2>1, Keeping
  <2> QED BY <2>2 DEF HasState
<1>3. n = [k \in DOMAIN n |-> n[k]] /\ DOMAIN n \subseteq hit
  OBVIOUS
<1> HIDE DEF n, hit
<1>4. Good(w, y, b)
  BY <1>2, <1>3, SnapOverGood, TypesField
<1> QED BY <1>1, <1>4

(* A map rekeyed at keys that are saved along the way.                     *)
LEMMA SnapRekey ==
    ASSUME NEW w, NEW b, OnTrack(w, b), NEW f \in MapsInUse \ {"subscriptions"}, NEW k \in DOMAIN w.c[f], NEW j
    PROVE  LET x == Snap(w, f, {k, j})
               y == Set(x, f, Rekey(x.c[f], k, j))
           IN  Good(w, y, b)
<1> DEFINE x == Snap(w, f, {k, j})
           m == Rekey(x.c[f], k, j)
           y == Set(x, f, m)
<1>1. Good(w, x, b) /\ x.c = w.c /\ \A i \in {k, j} : KeySaved(x.u, f, i)
  BY SnapGood
<1> HIDE DEF x
<1>2. Good(x, y, b)
  <2>1. KeySaved(x.u, f, k) /\ KeySaved(x.u, f, j) /\ k \in DOMAIN x.c[f] /\ OnTrack(x, b)
    BY <1>1, GoodTrack
  <2> QED BY <2>1, RekeyGood
<1> HIDE DEF y
<1>3. Good(w, y, b)
  BY <1>1, <1>2, GoodTrans
<1> QED BY <1>3 DEF y, m, x

(* Casts that are taken out of the graph.                                  *)
LEMMA SubPatch ==
    ASSUME NEW w, NEW b, OnTrack(w, b), w.u.graph.kind = "full", NEW E, NEW old, NEW new
    PROVE  LET z == remap_range_routine_reference(Set(w, "edges", E), old, new)
           IN  Good(w, z, b) /\ z.u.graph.kind = "full"
<1> DEFINE v == Set(w, "edges", E)
           z == remap_range_routine_reference(v, old, new)
<1>1. Good(w, v, b) /\ v.u = w.u
  BY EdgesGood
<1> HIDE DEF v
<1>2. Good(v, z, b)
  BY <1>1, RemapRangeGood, GoodTrack
<1>3. z.u.graph.kind = "full"
  BY <1>1 DEF remap_range_routine_reference, Set, Snap, SaveSlots, OnTrack, Leads, IsUndo, Good
<1> HIDE DEF z
<1> QED BY <1>1, <1>2, <1>3, GoodTrans DEF z, v

(* ALTER FUNCTION RENAME and SET SCHEMA.                                   *)
LEMMA MoveFunctionGood ==
    ASSUME NEW w, NEW b, OnTrack(w, b), NEW old \in DOMAIN w.c["functions"], NEW new
    PROVE  Good(w, move_function(w, old, new), b)
<1> DEFINE x == Snap(w, "functions", {old, new})
           t == Set(x, "functions", Rekey(x.c["functions"], old, new))
           y == SnapGraphFull(t)
           E == AddEdge(PropagateFunctionRename(y.c.edges, old, new), RenameEdge(old, new))
           z == remap_range_routine_reference(Set(y, "edges", E), old, new)
           F == PropagateViewReferenceRename(z.c.edges, WrittenName(old), WrittenName(new))
<1>1. Good(w, t, b)
  BY FunctionsField, SnapRekey
<1>2. move_function(w, old, new) \in {z, Taint(z), Set(z, "edges", F)}
  BY DEF move_function
<1> HIDE DEF t
<1>3. Good(t, y, b) /\ y.u.graph.kind = "full"
  BY <1>1, FullGraphGood, GoodTrack
<1> HIDE DEF y, E
<1>4. Good(y, z, b) /\ z.u.graph.kind = "full"
  BY <1>3, SubPatch, GoodTrack
<1> HIDE DEF z, F
<1>5. Good(z, Taint(z), b) /\ Good(z, Set(z, "edges", F), b)
  BY <1>4, TaintGood, GraphSet, GoodTrack
<1> QED BY <1>1, <1>2, <1>3, <1>4, <1>5, GoodTrans

(* ALTER FUNCTION of options and owner.                                    *)
LEMMA RoutineOptionsGood ==
    ASSUME NEW w, NEW b, OnTrack(w, b), NEW s, s.id \in DOMAIN w.c["functions"], HasState(w.c["functions"][s.id])
    PROVE  Good(w, SetRoutineOptions(w, s), b)
<1>1. ASSUME NEW taken, NEW p
      PROVE  Good(w, TaintIf(Assign(w, "functions", s.id,
                                    [w.c.functions[s.id] EXCEPT !.opts = SetOptions(@, taken)]), p), b)
  <2> DEFINE r == [w.c.functions[s.id] EXCEPT !.opts = SetOptions(@, taken)]
             x == Assign(w, "functions", s.id, r)
  <2>1. HasState(r)
    BY DEF HasState
  <2> HIDE DEF r
  <2>2. Good(w, x, b)
    BY <2>1, FunctionsField, AssignGood
  <2> HIDE DEF x
  <2>3. Good(x, TaintIf(x, p), b)
    BY <2>2, TaintIfGood, GoodTrack
  <2>4. Good(w, TaintIf(x, p), b)
    BY <2>2, <2>3, GoodTrans
  <2> QED BY <2>4 DEF x, r
<1> QED BY <1>1 DEF SetRoutineOptions

(* DROP FUNCTION without a cascade, and DROP AGGREGATE.                    *)
LEMMA DropFunctionsGood ==
    ASSUME NEW w, NEW b, OnTrack(w, b), NEW ks
    PROVE  Good(w, DropKeys(w, "functions", ks), b)
BY FunctionsField, DropKeysGood

LEMMA DropAggregateGood ==
    ASSUME NEW w, NEW b, OnTrack(w, b), NEW s
    PROVE  Good(w, DropAggregateEffect(w, s), b)
<1>1. ASSUME NEW now, NEW views, NEW stay, NEW cascade PROVE Good(w, DropAggregates(w, now, views, stay, cascade), b)
  <2> DEFINE x == DropKeys(w, "functions", now)
             y == IF cascade THEN drop_cascaded_views(x, {e.d : e \in views \ stay}) ELSE x
             z == TaintIf(y, stay # {})
  <2>1. DropAggregates(w, now, views, stay, cascade) = z
    BY DEF DropAggregates
  <2>2. Good(w, x, b)
    BY DropFunctionsGood
  <2> HIDE DEF x
  <2>3. Good(x, y, b)
    BY <2>2, CascadedViewsGood, GoodRefl, GoodTrack
  <2> HIDE DEF y
  <2>4. Good(y, z, b)
    BY <2>3, TaintIfGood, GoodTrack
  <2> HIDE DEF z
  <2> QED BY <2>1, <2>2, <2>3, <2>4, GoodTrans
<1> QED BY <1>1 DEF DropAggregateEffect

------------------------------------------------------------------------------
(* Types and domains: create, alter and rename.                            *)

(* A new type is an object, and a type that is altered is one.             *)
LEMMA NewTypeState == ASSUME NEW c, NEW kind PROVE HasState(NewType(c, kind))
BY DEF HasState, NewType

LEMMA TypePresent ==
    ASSUME NEW w, NEW b, OnTrack(w, b), NEW id, NEW kinds, Ensure(TypeLookup(w.c, id, kinds)) = "ok"
    PROVE  id \in DOMAIN w.c["types"] /\ HasState(w.c["types"][id])
<1>1. Present(w.c["types"], id)
  BY DEF Ensure, TypeLookup
<1> QED BY <1>1, TypesField, Keeping

LEMMA TypePut ==
    ASSUME NEW w, NEW b, OnTrack(w, b), NEW id, NEW r, HasState(r)
    PROVE  Good(w, Assign(w, "types", id, r), b)
BY TypesField, AssignGood

(* The constructors of a range type are routines, and are saved.           *)
LEMMA ConstructorsState ==
    ASSUME NEW c, NEW s
    PROVE  LET made == Constructors(c, s)
           IN  made = [f \in DOMAIN made |-> made[f]] /\ \A f \in DOMAIN made : HasState(made[f])
<1> DEFINE Fine1(g) == g = [f \in DOMAIN g |-> g[f]] /\ \A f \in DOMAIN g : HasState(g[f])
           made(name, args, ret) == [f \in {<<s.id[1], name, args>>} |-> Routine("function", args, ret, ret)]
<1>1. ASSUME NEW name, NEW args, NEW ret PROVE Fine1(made(name, args, ret))
  BY DEF HasState, Routine
<1>2. ASSUME NEW g, NEW h, Fine1(g), Fine1(h) PROVE Fine1(Over(g, h))
  BY <1>2 DEF Over
<1>3. Fine1(Constructors(c, s))
  <2> DEFINE mr == Companion(s)
             sub == resolve_type_reference(c, s.base)
             m1 == made(s.id[2], <<sub, sub>>, s.id)
             m2 == made(s.id[2], <<sub, sub, <<"pg_catalog", "text">>>>, s.id)
             m3 == made(mr[2], <<>>, mr)
             m4 == made(mr[2], <<s.id>>, mr)
             m5 == made(mr[2], <<ArrayOf(s.id)>>, mr)
  <2>1. Constructors(c, s) = Over(Over(m1, m2), Over(m3, Over(m4, m5)))
    BY DEF Constructors
  <2>2. Fine1(m1) /\ Fine1(m2) /\ Fine1(m3) /\ Fine1(m4) /\ Fine1(m5)
    <3> HIDE DEF Fine1, mr, sub
    <3> QED BY <1>1
  <2> HIDE DEF Fine1, m1, m2, m3, m4, m5
  <2> QED BY <1>2, <2>1, <2>2
<1> QED BY <1>3

LEMMA FunctionsOver ==
    ASSUME NEW w, NEW b, OnTrack(w, b), NEW n, n = [k \in DOMAIN n |-> n[k]], \A k \in DOMAIN n : HasState(n[k])
    PROVE  LET y == [Snap(w, "functions", DOMAIN n) EXCEPT !.c.functions = Over(n, @)]
           IN  Good(w, y, b) /\ Same(w.c, y.c, {"functions"})
BY FieldOver, FunctionsField

(* apply_create_type and apply_create_domain.                              *)
LEMMA CreateTypeGood ==
    ASSUME NEW w, NEW b, OnTrack(w, b), NEW s
    PROVE  Good(w, CreateTypeEffect(w, s), b)
<1> DEFINE c    == w.c
           base == NewType(c, s.kind)
           new  == [base EXCEPT
                       !.fields = [f \in DOMAIN s.fields |-> resolve_type_reference(c, s.fields[f])],
                       !.base = resolve_type_reference(c, s.base), !.labels = s.labels, !.elem = s.elem,
                       !.shell = s.shell, !.uses = TypeUses(c, s)]
           made == Constructors(c, s)
           u    == [Snap(w, "functions", DOMAIN made) EXCEPT !.c.functions = Over(made, @)]
           y    == Bump(u)
           new1 == [new EXCEPT !.mate = Companion(s), !.gen = y.c.gen]
           z    == Assign(y, "types", s.id, new1)
           one  == Bump(w)
           new2 == [new EXCEPT !.gen = one.c.gen]
           v    == Bump(z)
           new3 == [NewType(v.c, "multirange") EXCEPT !.mate = s.id]
           new4 == [c.types[s.id] EXCEPT !.shell = FALSE, !.elem = s.elem, !.uses = TypeUses(c, s)]
           e1   == Assign(w, "types", s.id, new4)
           e2   == Assign(v, "types", Companion(s), new3)
           e3   == Assign(one, "types", s.id, new2)
<1>1. CreateTypeEffect(w, s) = CASE CompletesShell(c, s) -> e1
                                 [] s.kind = "range" -> e2
                                 [] OTHER -> e3
  BY DEF CreateTypeEffect
<1>2. HasState(new)
  <2>1. HasState(base)
    BY NewTypeState
  <2> HIDE DEF base
  <2> QED BY <2>1 DEF HasState
<1> HIDE DEF new
<1>3. HasState(new1) /\ HasState(new2)
  BY <1>2 DEF HasState
<1> HIDE DEF new1, new2
<1>4. CompletesShell(c, s) => Good(w, e1, b)
  <2> SUFFICES ASSUME CompletesShell(c, s) PROVE Good(w, e1, b)
    OBVIOUS
  <2>1. Present(w.c["types"], s.id)
    BY DEF CompletesShell, IsType
  <2>2. HasState(w.c["types"][s.id])
    BY <2>1, TypesField, Keeping
  <2>3. HasState(new4)
    BY <2>2 DEF HasState
  <2> HIDE DEF new4
  <2> QED BY <2>3, TypePut
<1>5. Good(w, e3, b)
  <2>1. Good(w, one, b)
    BY BumpGood
  <2> HIDE DEF one
  <2>2. Good(one, e3, b)
    BY <1>3, <2>1, TypePut, GoodTrack
  <2> HIDE DEF e3
  <2> QED BY <2>1, <2>2, GoodTrans
<1>6. Good(w, e2, b)
  <2>1. made = [f \in DOMAIN made |-> made[f]] /\ \A f \in DOMAIN made : HasState(made[f])
    BY ConstructorsState
  <2> HIDE DEF made
  <2>2. Good(w, u, b)
    BY <2>1, FunctionsOver
  <2> HIDE DEF u
  <2>3. Good(u, y, b)
    BY <2>2, BumpGood, GoodTrack
  <2> HIDE DEF y
  <2>4. Good(y, z, b)
    BY <1>3, <2>3, TypePut, GoodTrack
  <2> HIDE DEF z
  <2>5. Good(z, v, b)
    BY <2>4, BumpGood, GoodTrack
  <2> HIDE DEF v
  <2>6. HasState(new3)
    BY NewTypeState DEF HasState
  <2> HIDE DEF new3
  <2>7. Good(v, e2, b)
    BY <2>5, <2>6, TypePut, GoodTrack
  <2> HIDE DEF e2
  <2> QED BY <2>2, <2>3, <2>4, <2>5, <2>7, GoodTrans
<1> HIDE DEF e1, e2, e3
<1> QED BY <1>1, <1>4, <1>5, <1>6

LEMMA CreateDomainGood ==
    ASSUME NEW w, NEW b, OnTrack(w, b), NEW s
    PROVE  Good(w, CreateDomainEffect(w, s), b)
<1> DEFINE x == Bump(w)
           d == DeclaredConstraints(w.c, s)
           base == NewType(x.c, "domain")
           r == [base EXCEPT !.base = resolve_type_reference(w.c, s.base), !.cons = d.cons,
                             !.nn = d.nn, !.dflt = s.dflt]
           y == Assign(x, "types", s.id, r)
<1>1. CreateDomainEffect(w, s) = y
  BY DEF CreateDomainEffect
<1>2. HasState(base)
  BY NewTypeState
<1> HIDE DEF base, d
<1>3. HasState(r)
  BY <1>2 DEF HasState
<1> HIDE DEF r
<1>4. Good(w, x, b)
  BY BumpGood
<1> HIDE DEF x
<1>5. Good(x, y, b)
  BY <1>3, <1>4, TypePut, GoodTrack
<1> HIDE DEF y
<1> QED BY <1>1, <1>4, <1>5, GoodTrans

(* apply_alter_domain.                                                     *)
LEMMA AlteredDomainState ==
    ASSUME NEW c, NEW s, HasState(c.types[s.id])
    PROVE  HasState(AlteredDomain(c, s))
<1> DEFINE t == c.types[s.id]
<1>1. ASSUME NEW v PROVE /\ HasState([t EXCEPT !.nn = v]) /\ HasState([t EXCEPT !.cons = v])
                         /\ HasState([t EXCEPT !.owner = v]) /\ HasState([t EXCEPT !.dflt = v])
  BY DEF HasState
<1>2. HasState([t EXCEPT !.nn.name = s.to]) /\ HasState([t EXCEPT !.cons[s.name] = TRUE])
  BY DEF HasState
<1> HIDE DEF HasState
<1> QED BY <1>1, <1>2 DEF AlteredDomain

LEMMA AlterDomainGood ==
    ASSUME NEW w, NEW b, OnTrack(w, b), NEW s, AlterDomainVerdict(w.c, s) = "ok"
    PROVE  Good(w, AlterDomainEffect(w, s), b)
<1>1. HasState(w.c["types"][s.id])
  <2>1. Ensure(TypeLookup(w.c, s.id, {"domain"})) = "ok"
    BY Chain DEF AlterDomainVerdict
  <2> QED BY <2>1, TypePresent
<1>2. HasState(AlteredDomain(w.c, s))
  BY <1>1, AlteredDomainState
<1>3. ASSUME NEW p PROVE Good(w, Assign(TaintIf(w, p), "types", s.id, AlteredDomain(w.c, s)), b)
  <2>1. Good(w, TaintIf(w, p), b)
    BY TaintIfGood
  <2> QED BY <1>2, <2>1, TypePut, GoodTrack, GoodTrans
<1> QED BY <1>3 DEF AlterDomainEffect

(* apply_alter_type: tables of the type follow its attributes.             *)
LEMMA AlteredTypeState ==
    ASSUME NEW c, NEW s, HasState(c.types[s.id])
    PROVE  HasState(AlteredType(c, s))
<1> DEFINE t == c.types[s.id]
<1>1. ASSUME NEW v PROVE /\ HasState([t EXCEPT !.owner = v]) /\ HasState([t EXCEPT !.uses = v])
                         /\ HasState([t EXCEPT !.fields = v]) /\ HasState([t EXCEPT !.labels = v])
  BY DEF HasState
<1>2. HasState([t EXCEPT !.labels[Position(t.labels, s.name)] = s.to])
  BY DEF HasState
<1> HIDE DEF HasState
<1> QED BY <1>1, <1>2 DEF AlteredType

LEMMA AlterTypeGood ==
    ASSUME NEW w, NEW b, OnTrack(w, b), NEW s, AlterTypeVerdict(w.c, s) = "ok"
    PROVE  Good(w, AlterTypeEffect(w, s), b)
<1> DEFINE typed == TypedTables(w.c, s.id)
           p == s.action = "owner" /\ RoleDoubt(w.c, s.owner)
           x == TaintIf(w, p)
           r == AlteredType(w.c, s)
           z == Assign(x, "types", s.id, r)
           y == Snap(z, "relations", typed)
           n == [t \in typed |-> [Rel(y.c, t) EXCEPT !.cols = SyncedColumns(w.c, @, s)]]
           v == Set(y, "relations", Over(n, y.c.relations))
<1>1. AlterTypeEffect(w, s) = v
  BY DEF AlterTypeEffect
<1>2. HasState(r)
  <2>1. Ensure(TypeLookup(w.c, s.id, TypeKinds)) = "ok"
    <3> DEFINE v1 == Ensure(TypeLookup(w.c, s.id, TypeKinds))
               t == w.c.types[s.id]
               there == s.name \in DOMAIN t.fields
               label == s.name \in ToSet(t.labels)
               v2 == Reject(\/ s.action \in ValueActions /\ t.kind # "enum"
                            \/ s.action \in AttributeActions /\ t.kind # "composite"
                            \/ s.action = "set" /\ t.kind # "base")
               v3 == Reject(s.action = "set" /\ (t.shell \/ s.fixed \/ ~s.storage))
               v4 == Reject(s.action \in AttributeActions /\ TypedTables(w.c, s.id) # {} /\ ~s.cascade)
               v5 == IF s.action = "owner" THEN EnsureRole(w.c, s.owner) ELSE "ok"
               v6 == CASE s.action = "add_attr"     -> Reject(there)
                       [] s.action = "drop_attr"    -> Reject(~there /\ ~s.ifexists)
                       [] s.action = "alter_attr"   -> Reject(~there)
                       [] s.action = "rename_attr"  -> Reject(s.to \in DOMAIN t.fields \/ ~there)
                       [] s.action = "add_value"    -> Skip(label) ?? Reject(s.to # "" /\ s.to \notin ToSet(t.labels))
                       [] s.action = "rename_value" -> Reject(~label \/ s.to \in ToSet(t.labels))
                       [] OTHER                     -> "ok"
    <3>1. AlterTypeVerdict(w.c, s) = v1 ?? v2 ?? v3 ?? v4 ?? v5 ?? v6
      BY DEF AlterTypeVerdict
    <3> HIDE DEF v1, v2, v3, v4, v5, v6
    <3>2. v1 = "ok"
      BY <3>1, Chain
    <3> QED BY <3>2 DEF v1
  <2> QED BY <2>1, TypePresent, AlteredTypeState
<1> HIDE DEF r, p
<1>3. Good(w, x, b) /\ Same(w.c, x.c, {"tainted"})
  BY TaintIfGood
<1> HIDE DEF x
<1>4. Good(x, z, b) /\ Same(x.c, z.c, {"types"})
  BY <1>2, <1>3, TypesField, AssignGood, GoodTrack
<1> HIDE DEF z
<1>5. y.c = z.c
  <2> HIDE DEF typed
  <2> QED BY <1>4, RelationsUsed, SnapFit, GoodTrack
<1>6. \A k \in DOMAIN n : Entry("relations", n[k])
  <2> SUFFICES ASSUME NEW t \in typed, NEW cols PROVE RelationFine([w.c["relations"][t] EXCEPT !.cols = cols])
    BY <1>3, <1>4, <1>5, RelationsUsed, FineEntries DEF Same, Rel
  <2>1. Present(w.c["relations"], t)
    BY DEF TypedTables, Live, Present
  <2>2. RelationFine(w.c["relations"][t])
    BY <2>1, RelationThere
  <2> QED BY <2>2 DEF RelationFine, HasState
<1>7. n = [k \in DOMAIN n |-> n[k]] /\ DOMAIN n \subseteq typed
  OBVIOUS
<1> HIDE DEF n, typed
<1>8. Good(z, v, b)
  BY <1>4, <1>6, <1>7, RelationsUsed, SnapOverFit, GoodTrack
<1> HIDE DEF v
<1> QED BY <1>1, <1>3, <1>4, <1>8, GoodTrans

(* A renamed type is an object.                                            *)
LEMMA RenamedTypeState ==
    ASSUME NEW t, HasState(t), NEW s
    PROVE  HasState(RenamedType(t, s))
BY DEF HasState, RenamedType

(* ALTER TYPE RENAME writes only what snapshot_namespace saved.            *)
LEMMA NamespaceMaps ==
    /\ {"types", "relations", "functions", "extensions"} \subseteq MapFields \cap NamespaceFields
    /\ {"types", "functions", "extensions"} \subseteq MapsInUse
    /\ "constraints" \notin {"types", "relations", "functions", "extensions"}
    /\ "edges" \in CatalogFields
BY DEF MapFields, NamespaceFields, MapsInUse, CatalogFields

LEMMA StatesMap ==
    ASSUME NEW f \in MapsInUse, NEW m, m = [k \in DOMAIN m |-> m[k]], \A k \in DOMAIN m : HasState(m[k])
    PROVE  IsMap(f, m)
BY StateEntry DEF IsMap

LEMMA MapStates ==
    ASSUME NEW w, NEW b, OnTrack(w, b), NEW f \in MapsInUse
    PROVE  w.c[f] = [k \in DOMAIN w.c[f] |-> w.c[f][k]] /\ \A k \in DOMAIN w.c[f] : HasState(w.c[f][k])
BY CatalogMap, MapsInUseAre DEF IsMap, Entry

LEMMA RenameTypeGood ==
    ASSUME NEW w, NEW b, OnTrack(w, b), NEW s, s.old \in DOMAIN w.c["types"]
    PROVE  Good(w, RenameTypeEffect(w, s), b)
<1> DEFINE x == snapshot_namespace(w)
           c == x.c
           ref(r) == IF r = <<>> THEN r ELSE renamed_type_id(r, s)
           types == Rekey(c.types, s.old, s.new)
           column(col) == [col EXCEPT !.ty = ref(@)]
           table(r) == IF r.st = "dropped" THEN r ELSE [r EXCEPT !.cols = [n \in DOMAIN @ |-> column(@[n])]]
           routine(f) ==
               [c.functions[f] EXCEPT !.owner = ref(@), !.ret = ref(@), !.args = [i \in DOMAIN @ |-> ref(@[i])]]
           moved == MovedRoutines(c, s)
           live  == Live(c.functions)
           new   == [g \in {RenamedRoutine(c, f, s) : f \in live} |->
                        routine(CHOOSE f \in live : RenamedRoutine(c, f, s) = g)]
           fns   == Over(new, Without(c.functions, live))
           follow(E, f) == LET g == RenamedRoutine(c, f, s)
                           IN  AddEdge(PropagateFunctionRename(E, f, g), RenameEdge(f, g))
           member(m) == IF m = <<"type", s.old>> THEN <<"type", s.new>> ELSE m
           ext(e) == IF e.st = "dropped" THEN e ELSE [e EXCEPT !.members = {member(m) : m \in @}]
           T == [t \in DOMAIN types |-> RenamedType(types[t], s)]
           R == [t \in DOMAIN c.relations |-> table(c.relations[t])]
           X == [e \in DOMAIN c.extensions |-> ext(c.extensions[e])]
           G == FoldSet(LAMBDA f, E : follow(E, f), PropagateTypeRename(c.edges, s.old, s.new), moved)
           d == [c EXCEPT !.types = T, !.relations = R, !.functions = fns, !.extensions = X, !.edges = G]
           y == [x EXCEPT !.c = d]
<1>1. RenameTypeEffect(w, s) = y
  BY DEF RenameTypeEffect
<1>2. Good(w, x, b) /\ c = w.c /\ NamespaceFields \subseteq DOMAIN x.u.whole /\ x.u.graph.kind = "full"
  BY NamespaceGood
<1>3. /\ \A f \in {"types", "functions", "extensions"} :
             c[f] = [k \in DOMAIN c[f] |-> c[f][k]] /\ \A k \in DOMAIN c[f] : HasState(c[f][k])
      /\ IsMap("relations", c["relations"])
  BY <1>2, NamespaceMaps, MapStates, RelationsUsed, CatalogMap
<1>4. \A k \in DOMAIN T : HasState(T[k])
  <2>1. IsMap("types", c["types"])
    BY <1>3, NamespaceMaps, StatesMap
  <2>2. IsMap("types", types)
    BY <1>2, <2>1, RekeyMap
  <2>3. \A k \in DOMAIN types : HasState(types[k])
    BY <2>2 DEF IsMap, Entry
  <2> HIDE DEF types
  <2> QED BY <2>3, RenamedTypeState
<1>5. \A k \in DOMAIN R : Entry("relations", R[k])
  <2> SUFFICES ASSUME NEW k \in DOMAIN c.relations PROVE Entry("relations", table(c.relations[k]))
    OBVIOUS
  <2>1. Entry("relations", c["relations"][k])
    BY <1>3 DEF IsMap
  <2>2. CASE c.relations[k].st = "dropped"
    BY <2>1, <2>2
  <2>3. CASE c.relations[k].st # "dropped"
    <3> DEFINE cols(m) == [n \in DOMAIN m |-> column(m[n])]
    <3>1. RelationFine(c["relations"][k])
      BY <2>1, <2>3 DEF RelationFine, HasState, Entry, Fit
    <3>2. table(c["relations"][k]) = [c["relations"][k] EXCEPT !.cols = cols(@)]
      BY <2>3
    <3> HIDE DEF cols, table
    <3>3. RelationFine(table(c["relations"][k]))
      BY <3>1, <3>2 DEF RelationFine, HasState
    <3> QED BY <3>3, FineEntries
  <2> QED BY <2>2, <2>3
<1>6. \A k \in DOMAIN X : HasState(X[k])
  <2> SUFFICES ASSUME NEW k \in DOMAIN c.extensions PROVE HasState(ext(c.extensions[k]))
    OBVIOUS
  <2>1. HasState(c["extensions"][k])
    BY <1>3
  <2> QED BY <2>1 DEF HasState
<1>7. \A k \in DOMAIN new : HasState(new[k])
  <2> SUFFICES ASSUME NEW f \in live PROVE HasState(routine(f))
    BY DEF new
  <2>1. HasState(c["functions"][f])
    BY <1>3 DEF Live
  <2> QED BY <2>1 DEF HasState
<1>8. fns = [k \in DOMAIN fns |-> fns[k]] /\ \A k \in DOMAIN fns : HasState(fns[k])
  <2>1. \A k \in DOMAIN c.functions : HasState(c.functions[k])
    BY <1>3
  <2> HIDE DEF new, live
  <2> QED BY <1>7, <2>1 DEF Over, Without
<1>9. T = [k \in DOMAIN T |-> T[k]] /\ R = [k \in DOMAIN R |-> R[k]] /\ X = [k \in DOMAIN X |-> X[k]]
  OBVIOUS
<1>10. OnTrack(x, b) /\ c = [f \in CatalogFields |-> c[f]]
  BY <1>2, GoodTrack DEF OnTrack, Leads, IsCatalog
<1> HIDE DEF T, R, X, fns, G, x
<1>11. /\ IsMap("types", T) /\ IsMap("relations", R) /\ IsMap("functions", fns) /\ IsMap("extensions", X)
  BY <1>4, <1>5, <1>6, <1>8, <1>9, NamespaceMaps, StatesMap DEF IsMap
<1>12. d = [f \in CatalogFields |-> d[f]] /\ Same(c, d, NamespaceFields \cup {"edges"})
       /\ \A f \in MapFields \cap NamespaceFields : IsMap(f, d[f])
  <2>1. d = [f \in CatalogFields |-> d[f]]
    BY <1>10
  <2>2. \A f \in CatalogFields \ {"types", "relations", "functions", "extensions", "edges"} : d[f] = c[f]
    BY <1>10
  <2>3. d["types"] = T /\ d["relations"] = R /\ d["functions"] = fns /\ d["extensions"] = X
    BY <1>10, NamespaceMaps DEF CatalogFields
  <2> HIDE DEF d
  <2>4. ASSUME NEW f \in MapFields \cap NamespaceFields PROVE IsMap(f, d[f])
    <3>1. CASE f \in {"types", "relations", "functions", "extensions"}
      BY <3>1, <1>11, <2>3
    <3>2. CASE f \notin {"types", "relations", "functions", "extensions"}
      <4>1. f \in CatalogFields /\ f # "edges"
        BY FieldsApart DEF CatalogFields
      <4>2. d[f] = c[f]
        BY <3>2, <4>1, <2>2
      <4>3. IsMap(f, c[f])
        BY <1>10, CatalogMap
      <4> QED BY <4>2, <4>3
    <3> QED BY <3>1, <3>2
  <2>5. Same(c, d, NamespaceFields \cup {"edges"})
    BY <2>2, NamespaceMaps DEF Same
  <2> QED BY <2>1, <2>4, <2>5
<1> HIDE DEF d
<1>13. Good(x, y, b)
  BY <1>2, <1>10, <1>12, NamespaceChange
<1> HIDE DEF y
<1> QED BY <1>1, <1>2, <1>13, GoodTrans

------------------------------------------------------------------------------
(* DROP TYPE and extensions.                                               *)

(* Extensions are a map of objects.                                        *)
LEMMA ExtensionsField == "extensions" \in MapsInUse \ {"subscriptions"} /\ "extensions" \in MapFields \ {"constraints"}
BY DEF MapsInUse, MapFields

(* DROP TYPE without a cascade.                                            *)
LEMMA DropTypeGood ==
    ASSUME NEW w, NEW b, OnTrack(w, b), NEW s, ~s.cascade
    PROVE  Good(w, DropTypeEffect(w, s), b)
<1> DEFINE now  == DropTypeTargets(w.c, s)
           with == now \cup {t \in UNION {type_dependent_ids(w.c, id) : id \in now} : Present(w.c.types, t)}
           p    == \E id \in now : ScopedFamilyObject(w.c, id, "types")
           x    == TaintIf(w, p)
           fns  == routine_cascade_victims(w.c, with)
           y    == DropKeys(x, "functions", fns)
           z    == DropKeys(y, "types", with)
<1>1. DropTypeEffect(w, s) = z
  BY DEF DropTypeEffect
<1> HIDE DEF p, with, fns
<1>2. Good(w, x, b)
  BY TaintIfGood
<1> HIDE DEF x
<1>3. Good(x, y, b)
  BY <1>2, FunctionsField, DropKeysGood, GoodTrack
<1> HIDE DEF y
<1>4. Good(y, z, b)
  BY <1>3, TypesField, DropKeysGood, GoodTrack
<1> HIDE DEF z
<1> QED BY <1>1, <1>2, <1>3, <1>4, GoodTrans

(* apply_create_extension.                                                 *)
LEMMA CreateExtensionGood ==
    ASSUME NEW w, NEW b, OnTrack(w, b), NEW s
    PROVE  Good(w, CreateExtensionEffect(w, s), b)
<1> DEFINE x == Bump(w)
           r == ExtensionState(x.c, IF s.schema = <<>> THEN "" ELSE s.schema[1], s.version)
           y == Assign(x, "extensions", s.name, r)
           z == Taint(y)
<1>1. CreateExtensionEffect(w, s) = z
  BY DEF CreateExtensionEffect
<1>2. HasState(r)
  BY DEF HasState, ExtensionState
<1> HIDE DEF r
<1>3. Good(w, x, b)
  BY BumpGood
<1> HIDE DEF x
<1>4. Good(x, y, b)
  BY <1>2, <1>3, ExtensionsField, AssignGood, GoodTrack
<1> HIDE DEF y
<1>5. Good(y, z, b)
  BY <1>4, TaintGood, GoodTrack
<1> HIDE DEF z
<1> QED BY <1>1, <1>3, <1>4, <1>5, GoodTrans

(* ALTER EXTENSION UPDATE, ADD and DROP.                                   *)
LEMMA ExtensionPut ==
    ASSUME NEW w, NEW b, OnTrack(w, b), NEW n, NEW r, HasState(r), NEW p
    PROVE  /\ Good(w, TaintIf(Assign(w, "extensions", n, r), p), b)
           /\ Good(w, Taint(Assign(w, "extensions", n, r)), b)
<1> DEFINE y == Assign(w, "extensions", n, r)
<1>1. Good(w, y, b)
  BY ExtensionsField, AssignGood
<1> HIDE DEF y
<1>2. Good(y, TaintIf(y, p), b) /\ Good(y, Taint(y), b)
  BY <1>1, TaintIfGood, TaintGood, GoodTrack
<1>3. Good(w, TaintIf(y, p), b) /\ Good(w, Taint(y), b)
  BY <1>1, <1>2, GoodTrans
<1> QED BY <1>3 DEF y

LEMMA AlterExtensionGood ==
    ASSUME NEW w, NEW b, OnTrack(w, b), NEW s, AlterExtensionVerdict(w.c, s) = "ok"
    PROVE  Good(w, AlterExtensionEffect(w, s), b)
<1> DEFINE x == w.c.extensions[s.name]
           m == resolve_extension_member(w.c, s.member)
           stored == {y \in x.members : resolve_extension_member(w.c, y) = m}
           other == m[1] = "other"
           gone == CHOOSE y \in stored : TRUE
           r1 == [x EXCEPT !.members = @ \cup {m}, !.complete = @ /\ ~other]
           r2 == [x EXCEPT !.members = @ \ {gone}]
           r3 == [x EXCEPT !.version = s.to]
           p1 == other \/ extension_member_presence(w.c, m) = "unknown"
<1>1. HasState(w.c["extensions"][s.name])
  <2> DEFINE v1 == Ensure(ExtensionLookup(w.c, s.name))
             v2 == CASE s.action = "add"    -> Reject(ExtensionMember(w.c, m[1], m[2]))
                                               ?? Reject(extension_member_presence(w.c, m) = "absent")
                     [] s.action = "remove" -> Reject(m \notin ExtensionMembers(w.c, s.name))
                     [] OTHER               -> Skip(s.to = w.c.extensions[s.name].version)
  <2>1. AlterExtensionVerdict(w.c, s) = v1 ?? v2
    BY DEF AlterExtensionVerdict
  <2> HIDE DEF v1, v2
  <2>2. v1 = "ok"
    BY <2>1, Chain
  <2>3. Present(w.c["extensions"], s.name)
    BY <2>2 DEF v1, Ensure, ExtensionLookup
  <2> QED BY <2>3, ExtensionsField, Keeping
<1>2. HasState(r1) /\ HasState(r2) /\ HasState(r3)
  <2> HIDE DEF m, gone, other
  <2> QED BY <1>1 DEF HasState
<1>3. AlterExtensionEffect(w, s) =
          CASE s.action = "add" -> TaintIf(Assign(w, "extensions", s.name, r1), p1)
            [] s.action = "remove" -> TaintIf(Assign(w, "extensions", s.name, r2), other)
            [] OTHER -> Taint(Assign(w, "extensions", s.name, r3))
  BY DEF AlterExtensionEffect
<1> HIDE DEF r1, r2, r3, p1, other
<1> QED BY <1>2, <1>3, ExtensionPut

------------------------------------------------------------------------------
(* A statement as a step of the catalog: what Settle makes of a handler.   *)

(* The statements of a family that a scenario may run.                     *)
RunIn(family, s) == IF s \in DOMAIN family THEN family[s] ELSE {}

(* Statements that are carried out one part after another, each on the     *)
(* state the part before it left: they are not covered here.               *)
NoneInParts(s) ==
    /\ RunIn(CreateTableStmts, s) = {} /\ RunIn(AlterTableStmts, s) = {} /\ RunIn(RenameRelationStmts, s) = {}
    /\ RunIn(AlterViewStmts, s) = {}
    /\ RunIn(CreateIndexStmts, s) = {} /\ RunIn(AlterIndexStmts, s) = {} /\ RunIn(DropIndexStmts, s) = {}
    /\ \A x \in RunIn(RoutineStmts, s) : x.do = "drop" /\ x.kind = "function" => ~x.cascade
    /\ \A x \in RunIn(TypeStmts, s) : x.do = "drop" => ~x.cascade
    /\ \A x \in RunIn(SchemaStmts, s) : x.do # "drop"
    /\ \A x \in RunIn(ExtensionStmts, s) : x.do # "drop" /\ (x.do = "alter" => x.action # "schema")

(* A scenario whose baseline is a catalog of well-formed maps, in which an *)
(* enabled subscription has a slot; whose GRANTs list their targets, their *)
(* roles and finitely many privileges; and whose sequence options are      *)
(* numbers.                                                                *)
Covered ==
    {s \in DOMAIN Baselines :
        /\ IsCatalog(Baselines[s]) /\ Slots(Baselines[s].subscriptions)
        /\ \A x \in RunIn(GrantStmts, s) :
              DOMAIN x.targets \subseteq Nat /\ Len(x.to) \in Nat /\ IsFiniteSet(x.privs)
        /\ \A x \in RunIn(CreateSequenceStmts, s) \cup RunIn(AlterSequenceStmts, s) : Numeric(x.opts)
        /\ NoneInParts(s)}

(* Where a rollback leads: to the backup, or nowhere outside a transaction.*)
Mark == IF txn = "none" THEN cat ELSE backup

UndoInv ==
    /\ txn \in {"none", "open", "aborted"}
    /\ IsCatalog(cat) /\ Slots(cat.subscriptions)
    /\ txn = "none" => undo = EmptyUndo
    /\ txn # "none" => Leads(cat, undo, backup) /\ Slots(backup.subscriptions)

(* The work of a statement starts on track, at the catalog.                *)
LEMMA WorkFine ==
    ASSUME UndoInv
    PROVE  Fine(Work, Mark) /\ Work.c = cat
<1>1. Leads(cat, undo, Mark)
  BY EmptyLeads DEF UndoInv, Mark
<1> QED BY <1>1 DEF Work, Fine, OnTrack, UndoInv

(* What a handler leaves on track is kept: its log in a transaction,       *)
(* nothing of it outside one.                                              *)
LEMMA FineKept ==
    ASSUME UndoInv, txn # "aborted", NEW w, Fine(w, Mark), cat' = w.c, undo' = (IF txn = "open" THEN w.u ELSE undo),
           backup' = backup, txn' \in {"none", "open", "aborted"}, txn = "none" <=> txn' = "none"
    PROVE  UndoInv'
<1>1. Leads(w.c, w.u, Mark) /\ Slots(w.c.subscriptions) /\ IsCatalog(w.c)
  BY DEF Fine, OnTrack, Leads
<1>2. CASE txn = "none"
  BY <1>1, <1>2 DEF UndoInv
<1>3. CASE txn = "open"
  BY <1>1, <1>3 DEF UndoInv, Mark
<1> QED BY <1>2, <1>3 DEF UndoInv

(* An unresolved name taints the work, and that is on track too.           *)
LEMMA TaintFine ==
    ASSUME NEW w, NEW b, Fine(w, b)
    PROVE  Fine(Taint(w), b)
BY TaintGood, GoodFine DEF Fine

(* Settle: a handler that is on track keeps the catalog so, and so do a    *)
(* conflict and an unresolved name.                                        *)
LEMMA Settled ==
    ASSUME UndoInv, NEW verdict, NEW new, verdict = "ok" => Fine(new, Mark), Settle(verdict, new)
    PROVE  UndoInv'
<1> DEFINE w == CASE verdict = "ok"         -> new
                  [] verdict = "unresolved" -> Taint(Work)
                  [] OTHER                  -> Work
<1>1. Fine(w, Mark)
  <2>1. Fine(Work, Mark)
    BY WorkFine
  <2>2. Fine(Taint(Work), Mark)
    BY <2>1, TaintFine
  <2> QED BY <2>1, <2>2
<1>2. /\ cat' = w.c /\ undo' = IF txn = "open" THEN w.u ELSE undo
      /\ txn # "aborted" /\ backup' = backup
      /\ txn' = IF verdict = "conflict" /\ txn = "open" THEN "aborted" ELSE txn
  BY DEF Settle
<1> HIDE DEF w
<1> QED BY <1>1, <1>2, FineKept DEF UndoInv

LEMMA SettledGood ==
    ASSUME UndoInv, NEW verdict, NEW new, verdict = "ok" => Good(Work, new, Mark), Settle(verdict, new)
    PROVE  UndoInv'
<1>1. verdict = "ok" => Fine(new, Mark)
  BY WorkFine, GoodFine DEF Fine
<1> QED BY <1>1, Settled

(* The tables a GRANT names have been looked up.                           *)
LEMMA TargetsPresent ==
    ASSUME NEW c, NEW s, DOMAIN s.targets \subseteq Nat, s.on = "tables", GrantTargets(c, s) = "ok"
    PROVE  \A t \in ToSet(s.targets) : Present(c.relations, t)
<1> DEFINE rs == [i \in DOMAIN s.targets |-> Ensure(RelationLookup(c, s.targets[i], AnyRelation))]
           bad == {i \in DOMAIN rs : rs[i] # "ok"}
<1>1. GrantTargets(c, s) = IF bad = {} THEN "ok" ELSE rs[Min(bad)]
  BY DEF GrantTargets, Each
<1>2. bad = {}
  <2> SUFFICES ASSUME bad # {} PROVE FALSE
    OBVIOUS
  <2>1. bad \subseteq Nat
    OBVIOUS
  <2>2. PICK m \in bad : \A k \in bad : <<k, m>> \notin OpToRel(<, Nat)
    BY <2>1, WFMin, NatLessThanWellFounded, Zenon
  <2>3. \A k \in bad : k \in Nat /\ m \in Nat /\ ~(k < m)
    BY <2>1, <2>2 DEF OpToRel
  <2>4. \A k \in bad : m <= k
    BY <2>3
  <2>5. Min(bad) \in bad
    BY <2>4 DEF Min
  <2> QED BY <1>1, <2>5
<1>3. \A i \in DOMAIN s.targets : Present(c.relations, s.targets[i])
  BY <1>2, LookupPresent
<1> QED BY <1>3 DEF ToSet

LEMMA GrantedPresent ==
    ASSUME NEW c, NEW s, DOMAIN s.targets \subseteq Nat, PrivilegeVerdict(c, s) = "ok"
    PROVE  \A t \in GrantedRelations(c, s) : Present(c.relations, t)
<1> DEFINE v1 == GrantTargets(c, s)
           v2 == Each(s.to, LAMBDA r : validate_role_fact(c, r))
           v3 == IF s.by = "" THEN "ok" ELSE validate_role_fact(c, s.by)
           v4 == Reject(~s.all /\ "maintain" \in s.privs /\ ~c.pg17)
           v5 == Reject(s.by \notin {"", c.me})
           v6 == IF s.on = "tables" THEN Reject(\E id \in ToSet(s.targets) : ~AuthorizeRelation(c, s, id)) ELSE "ok"
<1>1. PrivilegeVerdict(c, s) = (v1 ?? v2 ?? v3 ?? v4) ?? v5 ?? v6
  BY DEF PrivilegeVerdict, GrantHeader
<1> HIDE DEF v1, v2, v3, v4, v5, v6
<1>2. v1 = "ok"
  BY <1>1, Chain
<1>3. CASE s.on = "tables"
  BY <1>2, <1>3, TargetsPresent DEF v1, GrantedRelations
<1>4. CASE s.on # "tables"
  BY <1>4 DEF GrantedRelations, Live, Present
<1> QED BY <1>3, <1>4

------------------------------------------------------------------------------
(* Every action of Catalog keeps the log on track.                         *)

(* Begin starts an empty log, Commit discards it, Rollback follows it back *)
(* to the backup.                                                          *)
LEMMA TransactionSteps ==
    /\ UndoInv /\ Begin => UndoInv'
    /\ UndoInv /\ Commit => UndoInv'
    /\ UndoInv /\ Rollback => UndoInv'
<1>1. ASSUME UndoInv, Begin PROVE UndoInv'
  <2>1. Leads(cat, EmptyUndo, cat)
    BY <1>1, EmptyLeads DEF UndoInv
  <2> QED BY <1>1, <2>1 DEF UndoInv, Begin
<1>2. ASSUME UndoInv, Commit PROVE UndoInv'
  BY <1>2 DEF UndoInv, Commit
<1>3. ASSUME UndoInv, Rollback PROVE UndoInv'
  <2>1. Leads(cat, undo, backup) /\ Slots(backup.subscriptions)
    BY <1>3 DEF UndoInv, Rollback
  <2>2. cat' = backup /\ IsCatalog(backup)
    BY <1>3, <2>1, LeadsBack DEF Rollback, Leads
  <2> QED BY <1>3, <2>1, <2>2 DEF UndoInv, Rollback
<1> QED BY <1>1, <1>2, <1>3

(* Tables: owners, drops and maintenance.                                  *)
LEMMA RelationSteps ==
    /\ UndoInv /\ DropTable => UndoInv'
    /\ UndoInv /\ ChangeRelationOwner => UndoInv'
<1> SUFFICES ASSUME UndoInv PROVE (DropTable => UndoInv') /\ (ChangeRelationOwner => UndoInv')
  OBVIOUS
<1>0. OnTrack(Work, Mark) /\ Work.c = cat
  BY WorkFine DEF Fine
<1>1. ASSUME DropTable PROVE UndoInv'
  BY <1>0, <1>1, DropTableGood, SettledGood DEF DropTable
<1>2. ASSUME ChangeRelationOwner PROVE UndoInv'
  BY <1>0, <1>2, ChangeRelationOwnerGood, SettledGood DEF ChangeRelationOwner
<1> QED BY <1>1, <1>2

(* Sequences.                                                              *)
LEMMA SequenceSteps ==
    ASSUME scene \in Covered, UndoInv
    PROVE  (CreateSequence => UndoInv') /\ (AlterSequence => UndoInv') /\ (DropSequence => UndoInv')
<1>0. OnTrack(Work, Mark) /\ Work.c = cat
  BY WorkFine DEF Fine
<1>1. ASSUME CreateSequence PROVE UndoInv'
  <2>1. \A s \in Offered(CreateSequenceStmts) : Numeric(s.opts)
    BY DEF Offered, Covered, RunIn
  <2> QED BY <1>0, <1>1, <2>1, CreateSequenceGood, SettledGood DEF CreateSequence
<1>2. ASSUME AlterSequence PROVE UndoInv'
  <2>1. \A s \in Offered(AlterSequenceStmts) : Numeric(s.opts)
    BY DEF Offered, Covered, RunIn
  <2> QED BY <1>0, <1>2, <2>1, AlterSequenceGood, SettledGood DEF AlterSequence
<1>3. ASSUME DropSequence PROVE UndoInv'
  BY <1>0, <1>3, DropSequenceGood, SettledGood DEF DropSequence
<1> QED BY <1>1, <1>2, <1>3

(* Views and materialized views.                                           *)
LEMMA ViewSteps ==
    /\ UndoInv /\ CreateView => UndoInv'
    /\ UndoInv /\ CreateMaterializedView => UndoInv'
    /\ UndoInv /\ RefreshMaterializedView => UndoInv'
    /\ UndoInv /\ DropView => UndoInv'
    /\ UndoInv /\ Maintain => UndoInv'
<1> SUFFICES ASSUME UndoInv
             PROVE /\ CreateView => UndoInv'
                   /\ CreateMaterializedView => UndoInv'
                   /\ RefreshMaterializedView => UndoInv'
                   /\ DropView => UndoInv'
                   /\ Maintain => UndoInv'
  OBVIOUS
<1>0. OnTrack(Work, Mark) /\ Work.c = cat
  BY WorkFine DEF Fine
<1>1. ASSUME CreateView PROVE UndoInv'
  BY <1>0, <1>1, CreateViewGood, SettledGood DEF CreateView
<1>2. ASSUME CreateMaterializedView PROVE UndoInv'
  BY <1>0, <1>2, CreateMatviewGood, SettledGood DEF CreateMaterializedView
<1>3. ASSUME RefreshMaterializedView PROVE UndoInv'
  <2>1. PICK s \in Offered(RefreshStmts) :
          Settle(RefreshVerdict(cat, s),
                 Assign(Work, "relations", s.id, [Rel(cat, s.id) EXCEPT !.pop = IF s.nodata THEN "no" ELSE "yes"]))
    BY <1>3 DEF RefreshMaterializedView
  <2>2. RefreshVerdict(cat, s) = "ok" => Present(Work.c.relations, s.id)
    <3> DEFINE v1 == Reject(s.conc /\ txn # "none")
               v2 == Ensure(RelationLookup(cat, s.id, {"matview"}))
               v3 == IF ~s.conc THEN "ok"
                     ELSE Reject(Rel(cat, s.id).pop = "no") ?? UnresolvedHere(Rel(cat, s.id).pop = "unknown")
                          ?? Reject(s.nodata)
                          ?? (IF has_usable_unique_index(cat, s.id) THEN "ok"
                              ELSE UnresolvedHere(ScopedFamilyObject(cat, s.id, "indexes")) ?? "conflict")
    <3>1. RefreshVerdict(cat, s) = v1 ?? v2 ?? v3
      BY DEF RefreshVerdict
    <3> HIDE DEF v1, v2, v3
    <3>2. RefreshVerdict(cat, s) = "ok" => v2 = "ok"
      BY <3>1, Chain
    <3> QED BY <3>2, <1>0, LookupPresent DEF v2
  <2> DEFINE v == RefreshVerdict(cat, s)
             pop == IF s.nodata THEN "no" ELSE "yes"
             new == Assign(Work, "relations", s.id, [Rel(Work.c, s.id) EXCEPT !.pop = pop])
  <2>3. Settle(v, new)
    BY <2>1, <1>0
  <2> HIDE DEF pop
  <2>4. v = "ok" => Good(Work, new, Mark)
    BY <2>2, <1>0, RefreshGood
  <2> HIDE DEF v, new
  <2> QED BY <2>3, <2>4, SettledGood
<1>4. ASSUME DropView PROVE UndoInv'
  BY <1>0, <1>4, DropFamilyGood, SettledGood DEF DropView
<1>5. ASSUME Maintain PROVE UndoInv'
  BY <1>0, <1>5, MaintenanceGood, SettledGood DEF Maintain
<1> QED BY <1>1, <1>2, <1>3, <1>4, <1>5

(* Policies and triggers.                                                  *)
LEMMA PolicySteps ==
    /\ UndoInv /\ ChangePolicy => UndoInv'
    /\ UndoInv /\ ChangeTrigger => UndoInv'
<1> SUFFICES ASSUME UndoInv PROVE (ChangePolicy => UndoInv') /\ (ChangeTrigger => UndoInv')
  OBVIOUS
<1>0. OnTrack(Work, Mark) /\ Work.c = cat
  BY WorkFine DEF Fine
<1>1. ASSUME ChangePolicy PROVE UndoInv'
  BY <1>0, <1>1, PolicyGood, SettledGood DEF ChangePolicy
<1>2. ASSUME ChangeTrigger PROVE UndoInv'
  <2>1. PICK s \in Offered(TriggerStmts) :
          CASE s.do = "create" -> Settle(CreateTriggerVerdict(cat, s), CreateTriggerEffect(Work, s))
            [] s.do = "drop"   -> Settle(DropTriggerVerdict(cat, s), DropTriggerEffect(Work, s))
            [] OTHER           -> Settle(RenameTriggerVerdict(cat, s), RenameTriggerEffect(Work, s))
    BY <1>2 DEF ChangeTrigger
  <2>2. CASE Settle(CreateTriggerVerdict(cat, s), CreateTriggerEffect(Work, s))
    BY <1>0, <2>2, CreateTriggerGood, SettledGood
  <2>3. CASE Settle(DropTriggerVerdict(cat, s), DropTriggerEffect(Work, s))
    BY <1>0, <2>3, DropTriggerGood, SettledGood
  <2>4. CASE Settle(RenameTriggerVerdict(cat, s), RenameTriggerEffect(Work, s))
    BY <1>0, <2>4, RenameTriggerGood, SettledGood
  <2> QED BY <2>1, <2>2, <2>3, <2>4
<1> QED BY <1>1, <1>2

(* Routines; a DROP FUNCTION CASCADE does not run here.                    *)
LEMMA RoutineSteps ==
    ASSUME scene \in Covered
    PROVE  /\ UndoInv /\ CreateRoutine => UndoInv'
           /\ UndoInv /\ AlterRoutine => UndoInv'
           /\ UndoInv /\ DropRoutine => UndoInv'
<1> SUFFICES ASSUME UndoInv
             PROVE (CreateRoutine => UndoInv') /\ (AlterRoutine => UndoInv') /\ (DropRoutine => UndoInv')
  OBVIOUS
<1>0. OnTrack(Work, Mark) /\ Work.c = cat
  BY WorkFine DEF Fine
<1>1. ASSUME CreateRoutine PROVE UndoInv'
  BY <1>0, <1>1, CreateRoutineGood, SettledGood DEF CreateRoutine
<1>2. ASSUME AlterRoutine PROVE UndoInv'
  <2> PICK s \in Routines("alter") :
        LET v    == AlterRoutineVerdict(cat, s)
            cut  == s.action = "options" /\ s.kind = "procedure"
                    /\ \E i \in DOMAIN s.opts : function_option_unmodeled(s.opts[i])
        IN  IF v = "ok" /\ cut
            THEN SettleRun([v |-> "unresolved", w |-> SetRoutineOptions(Work, s)])
            ELSE Settle(v, IF s.action = "move" THEN move_function(Work, s.id, s.to)
                           ELSE SetRoutineOptions(Work, s))
    BY <1>2 DEF AlterRoutine
  <2> DEFINE v == AlterRoutineVerdict(cat, s)
             new == IF s.action = "move" THEN move_function(Work, s.id, s.to) ELSE SetRoutineOptions(Work, s)
             opt == SetRoutineOptions(Work, s)
  <2>1. v = "ok" => Good(Work, opt, Mark) /\ Good(Work, new, Mark)
    <3> SUFFICES ASSUME v = "ok" PROVE Good(Work, opt, Mark) /\ Good(Work, new, Mark)
      OBVIOUS
    <3> DEFINE v1 == Ensure(RoutineLookup(cat, s.id, DropKinds(s.kind)))
               v2 == CASE s.action = "move"    -> validate_function_move(cat, s.id, s.to)
                       [] s.action = "options" -> "ok"
                       [] OTHER                -> "unresolved"
    <3>1. v = v1 ?? v2
      BY DEF AlterRoutineVerdict
    <3> HIDE DEF v1, v2, v
    <3>2. v1 = "ok"
      BY <3>1, Chain
    <3>3. s.id \in DOMAIN Work.c["functions"] /\ HasState(Work.c["functions"][s.id])
      BY <3>2, <1>0, RoutinePresent DEF v1
    <3>4. Good(Work, opt, Mark)
      BY <3>3, <1>0, RoutineOptionsGood
    <3>5. Good(Work, move_function(Work, s.id, s.to), Mark)
      BY <3>3, <1>0, MoveFunctionGood
    <3> QED BY <3>4, <3>5
  <2>2. \/ Settle(v, new)
        \/ v = "ok" /\ SettleRun([v |-> "unresolved", w |-> opt])
    OBVIOUS
  <2> HIDE DEF v, new, opt
  <2>3. CASE Settle(v, new)
    BY <2>1, <2>3, SettledGood
  <2>4. CASE v = "ok" /\ SettleRun([v |-> "unresolved", w |-> opt])
    <3>1. Fine(opt, Mark)
      BY <2>1, <2>4, WorkFine, GoodFine DEF Fine
    <3>2. /\ cat' = opt.c /\ undo' = IF txn = "open" THEN opt.u ELSE undo
          /\ txn # "aborted" /\ backup' = backup /\ txn' = txn
      BY <2>4 DEF SettleRun
    <3> QED BY <3>1, <3>2, FineKept DEF UndoInv
  <2> QED BY <2>2, <2>3, <2>4
<1>3. ASSUME DropRoutine PROVE UndoInv'
  <2> PICK s \in Routines("drop") :
         Settle(DropRoutineVerdict(cat, s),
                CASE s.kind = "function"  -> DropFunctionEffect(Work, s)
                  [] s.kind = "aggregate" -> DropAggregateEffect(Work, s)
                  [] OTHER                -> DropKeys(Work, "functions", DropRoutineTargets(cat, s)))
    BY <1>3 DEF DropRoutine
  <2> DEFINE v == DropRoutineVerdict(cat, s)
             new == CASE s.kind = "function"  -> DropFunctionEffect(Work, s)
                      [] s.kind = "aggregate" -> DropAggregateEffect(Work, s)
                      [] OTHER                -> DropKeys(Work, "functions", DropRoutineTargets(cat, s))
  <2>1. s.kind = "function" => ~s.cascade
    BY DEF Routines, Offered, Covered, NoneInParts, RunIn
  <2>2. Good(Work, new, Mark)
    <3>1. \A ks : Good(Work, DropKeys(Work, "functions", ks), Mark)
      BY <1>0, DropFunctionsGood
    <3>2. Good(Work, DropAggregateEffect(Work, s), Mark)
      BY <1>0, DropAggregateGood
    <3> QED BY <2>1, <3>1, <3>2 DEF DropFunctionEffect
  <2>3. Settle(v, new)
    OBVIOUS
  <2> HIDE DEF v, new
  <2> QED BY <2>2, <2>3, SettledGood
<1> QED BY <1>1, <1>2, <1>3

(* Types and domains; a DROP TYPE CASCADE does not run here.               *)
LEMMA TypeSteps ==
    ASSUME scene \in Covered, UndoInv
    PROVE  /\ CreateType => UndoInv'
           /\ RenameType => UndoInv'
           /\ AlterType => UndoInv'
           /\ CreateDomain => UndoInv'
           /\ AlterDomain => UndoInv'
           /\ DropType => UndoInv'
<1>0. OnTrack(Work, Mark) /\ Work.c = cat
  BY WorkFine DEF Fine
<1>1. ASSUME CreateType PROVE UndoInv'
  BY <1>0, <1>1, CreateTypeGood, SettledGood DEF CreateType
<1>2. ASSUME RenameType PROVE UndoInv'
  <2> PICK s \in TypesTo("rename") : Settle(RenameTypeVerdict(cat, s), RenameTypeEffect(Work, s))
    BY <1>2 DEF RenameType
  <2>1. RenameTypeVerdict(cat, s) = "ok" => s.old \in DOMAIN Work.c["types"]
    <3> DEFINE look  == TypeLookup(cat, s.old, IF s.domain THEN {"domain"} ELSE TypeKinds)
               moved == MovedRoutines(cat, s)
               to    == [f \in moved |-> RenamedRoutine(cat, f, s)]
               v1 == IF s.domain THEN Ensure(look) ELSE "ok"
               v2 == IF look = "present" THEN "ok" ELSE IF Covers(cat, s.old, "types") THEN "conflict" ELSE "unresolved"
               v3 == Reject(s.old # s.new /\ NameTaken(cat, s.new))
               v4 == IF s.old[1] = s.new[1] THEN "ok" ELSE Ensure(SchemaLookup(cat, s.new[1]))
               v5 == Reject(\E f \in moved : \/ to[f] \in DOMAIN cat.functions \ moved
                                             \/ \E g \in moved : g # f /\ to[f] = to[g])
    <3>1. RenameTypeVerdict(cat, s) = v1 ?? v2 ?? v3 ?? v4 ?? v5
      BY DEF RenameTypeVerdict
    <3>2. v2 = "ok" => look = "present"
      OBVIOUS
    <3>3. look = "present" => Present(cat["types"], s.old)
      BY DEF TypeLookup
    <3> HIDE DEF v1, v2, v3, v4, v5
    <3>4. RenameTypeVerdict(cat, s) = "ok" => v2 = "ok"
      <4> HIDE DEF look, moved, to
      <4>1. v1 ?? v2 ?? v3 ?? v4 ?? v5 = "ok" => v1 ?? v2 = "ok"
        BY Chain
      <4> QED BY <3>1, <4>1, Chain
    <3> QED BY <3>2, <3>3, <3>4, <1>0 DEF Present
  <2> QED BY <1>0, <2>1, RenameTypeGood, SettledGood
<1>3. ASSUME AlterType PROVE UndoInv'
  BY <1>0, <1>3, AlterTypeGood, SettledGood DEF AlterType
<1>4. ASSUME CreateDomain PROVE UndoInv'
  BY <1>0, <1>4, CreateDomainGood, SettledGood DEF CreateDomain
<1>5. ASSUME AlterDomain PROVE UndoInv'
  BY <1>0, <1>5, AlterDomainGood, SettledGood DEF AlterDomain
<1>6. ASSUME DropType PROVE UndoInv'
  <2> PICK s \in TypesTo("drop") : Settle(DropTypeVerdict(cat, s), DropTypeEffect(Work, s))
    BY <1>6 DEF DropType
  <2>1. ~s.cascade
    BY DEF TypesTo, Offered, Covered, NoneInParts, RunIn
  <2> QED BY <1>0, <2>1, DropTypeGood, SettledGood
<1> QED BY <1>1, <1>2, <1>3, <1>4, <1>5, <1>6

(* Schemas; a DROP SCHEMA does not run here.                               *)
LEMMA SchemaSteps ==
    ASSUME UndoInv
    PROVE  /\ CreateSchema => UndoInv'
           /\ ChangeSchemaOwner => UndoInv'
           /\ RenameSchema => UndoInv'
<1>0. OnTrack(Work, Mark) /\ Work.c = cat
  BY WorkFine DEF Fine
<1>1. ASSUME CreateSchema PROVE UndoInv'
  BY <1>0, <1>1, CreateSchemaGood, SettledGood DEF CreateSchema
<1>2. ASSUME ChangeSchemaOwner PROVE UndoInv'
  <2> PICK s \in SchemasTo("owner") :
          Settle(Ensure(SchemaLookup(cat, s.name)) ?? EnsureRole(cat, s.owner), SchemaOwnerEffect(Work, s))
    BY <1>2 DEF ChangeSchemaOwner
  <2>1. Ensure(SchemaLookup(cat, s.name)) ?? EnsureRole(cat, s.owner) = "ok"
          => Ensure(SchemaLookup(Work.c, s.name)) = "ok"
    BY <1>0, Chain
  <2> QED BY <1>0, <2>1, SchemaOwnerGood, SettledGood
<1>3. ASSUME RenameSchema PROVE UndoInv'
  <2> PICK s \in SchemasTo("rename") : \E last : Settle(RenameSchemaVerdict(cat, s), rename_schema_namespace(Work, s, last))
    BY <1>3 DEF RenameSchema
  <2> PICK last : Settle(RenameSchemaVerdict(cat, s), rename_schema_namespace(Work, s, last))
    OBVIOUS
  <2> QED BY <1>0, RenameSchemaGood, SettledGood
<1> QED BY <1>1, <1>2, <1>3

(* Roles, privileges and memberships.                                      *)
LEMMA RoleSteps ==
    ASSUME scene \in Covered, UndoInv
    PROVE  /\ CreateRole => UndoInv'
           /\ AlterRole => UndoInv'
           /\ DropRole => UndoInv'
           /\ ChangePrivileges => UndoInv'
           /\ GrantRole => UndoInv'
           /\ RevokeRole => UndoInv'
<1>0. OnTrack(Work, Mark) /\ Work.c = cat
  BY WorkFine DEF Fine
<1>1. ASSUME CreateRole PROVE UndoInv'
  BY <1>0, <1>1, CreateRoleGood, SettledGood DEF CreateRole
<1>2. ASSUME AlterRole PROVE UndoInv'
  <2> PICK s \in RolesTo("alter") :
        Settle(Doubt(s.name = "") ?? Ensure(role_lookup(cat, s.name)),
               Bump(Assign(Work, "roles", s.name, [cat.roles[s.name] EXCEPT !.inherits = OptionOr(s.inherits, @)])))
    BY <1>2 DEF AlterRole
  <2> DEFINE v1 == Doubt(s.name = "")
             v2 == Ensure(role_lookup(cat, s.name))
             o == s.inherits
             new == Bump(Assign(Work, "roles", s.name, [Work.c.roles[s.name] EXCEPT !.inherits = OptionOr(o, @)]))
  <2>1. Settle(v1 ?? v2, new)
    BY <1>0
  <2>2. v2 = "ok" => Good(Work, new, Mark)
    BY <1>0, AlterRoleGood
  <2> HIDE DEF v1, v2, new
  <2>3. v1 ?? v2 = "ok" => v2 = "ok"
    BY Chain
  <2> QED BY <2>1, <2>2, <2>3, SettledGood
<1>3. ASSUME DropRole PROVE UndoInv'
  BY <1>0, <1>3, DropRoleGood, SettledGood DEF DropRole
<1>4. ASSUME ChangePrivileges PROVE UndoInv'
  <2> PICK s \in Grants("grant", {"tables", "schemas"}) \cup Grants("revoke", {"tables", "schemas"}) :
        \E acls : /\ Settle(PrivilegeVerdict(cat, s), PrivilegeEffect(Work, s, acls))
                  /\ PrivilegeVerdict(cat, s) = "ok" =>
                        \A t \in GrantedRelations(cat, s) : acls[t] \in ChangedAcls(cat, s, Rel(cat, t).acl)
    BY <1>4 DEF ChangePrivileges
  <2> PICK acls : /\ Settle(PrivilegeVerdict(cat, s), PrivilegeEffect(Work, s, acls))
                  /\ PrivilegeVerdict(cat, s) = "ok" =>
                        \A t \in GrantedRelations(cat, s) : acls[t] \in ChangedAcls(cat, s, Rel(cat, t).acl)
    OBVIOUS
  <2>1. DOMAIN s.targets \subseteq Nat /\ Len(s.to) \in Nat /\ IsFiniteSet(s.privs)
    BY DEF Grants, Offered, Covered, RunIn
  <2>2. PrivilegeVerdict(cat, s) = "ok" => Good(Work, PrivilegeEffect(Work, s, acls), Mark)
    <3> SUFFICES ASSUME PrivilegeVerdict(cat, s) = "ok" PROVE Good(Work, PrivilegeEffect(Work, s, acls), Mark)
      OBVIOUS
    <3>1. \A t \in GrantedRelations(cat, s) : Present(cat.relations, t)
      BY <2>1, GrantedPresent
    <3>2. ASSUME NEW t \in GrantedRelations(cat, s) PROVE Sourced(acls[t])
      <4>1. Sourced(Rel(cat, t).acl)
        BY <1>0, <3>1, RelationThere DEF RelationFine, Rel
      <4> QED BY <2>1, <4>1, ChangedSourced
    <3> QED BY <1>0, <3>1, <3>2, PrivilegeGood
  <2> QED BY <2>2, SettledGood
<1>5. ASSUME GrantRole PROVE UndoInv'
  BY <1>0, <1>5, GrantRoleGood, SettledGood DEF GrantRole
<1>6. ASSUME RevokeRole PROVE UndoInv'
  BY <1>0, <1>6, RevokeRoleGood, SettledGood DEF RevokeRole
<1> QED BY <1>1, <1>2, <1>3, <1>4, <1>5, <1>6

(* Extensions.                                                             *)
LEMMA ExtensionSteps ==
    ASSUME scene \in Covered, UndoInv
    PROVE  (CreateExtension => UndoInv') /\ (AlterExtension => UndoInv')
<1>0. OnTrack(Work, Mark) /\ Work.c = cat
  BY WorkFine DEF Fine
<1>1. ASSUME CreateExtension PROVE UndoInv'
  BY <1>0, <1>1, CreateExtensionGood, SettledGood DEF CreateExtension
<1>2. ASSUME AlterExtension PROVE UndoInv'
  <2>1. \A s \in ExtensionsTo("alter") : s.action # "schema"
    BY DEF ExtensionsTo, Offered, Covered, NoneInParts, RunIn
  <2>2. PICK s \in ExtensionsTo("alter") : Settle(AlterExtensionVerdict(cat, s), AlterExtensionEffect(Work, s))
    BY <1>2, <2>1 DEF AlterExtension
  <2> QED BY <1>0, <2>2, AlterExtensionGood, SettledGood
<1> QED BY <1>1, <1>2

(* Publications and subscriptions.                                         *)
LEMMA ReplicationSteps ==
    ASSUME UndoInv
    PROVE  /\ CreatePublication => UndoInv'
           /\ AlterPublication => UndoInv'
           /\ DropPublication => UndoInv'
           /\ CreateSubscription => UndoInv'
           /\ AlterSubscription => UndoInv'
           /\ DropSubscription => UndoInv'
<1>0. OnTrack(Work, Mark) /\ Work.c = cat /\ Fine(Work, Mark)
  BY WorkFine DEF Fine
<1>1. ASSUME CreatePublication PROVE UndoInv'
  BY <1>0, <1>1, CreatePublicationGood, SettledGood DEF CreatePublication
<1>2. ASSUME AlterPublication PROVE UndoInv'
  BY <1>0, <1>2, AlterPublicationGood, SettledGood DEF AlterPublication
<1>3. ASSUME DropPublication PROVE UndoInv'
  <2>1. PICK s \in PublicationsTo("drop") :
          LET now == {n \in ToSet(s.names) : Present(cat.publications, n)}
          IN  Settle(EnsureDropTargets(s.names, s.ifexists, LAMBDA n : publication_lookup(cat, n)) ?? Skip(now = {}),
                     Retain(DropKeys(Work, "publications", now), LAMBDA e : ~(e.k = "pub" /\ e.r[2] \in now)))
    BY <1>3 DEF DropPublication
  <2> DEFINE now == {n \in ToSet(s.names) : Present(cat.publications, n)}
             v == EnsureDropTargets(s.names, s.ifexists, LAMBDA n : publication_lookup(cat, n)) ?? Skip(now = {})
             new == Retain(DropKeys(Work, "publications", now), LAMBDA e : ~(e.k = "pub" /\ e.r[2] \in now))
  <2>2. Settle(v, new)
    BY <2>1
  <2> HIDE DEF now, v
  <2>3. Good(Work, new, Mark)
    BY <1>0, DropPublicationGood DEF Retain
  <2> HIDE DEF new
  <2> QED BY <2>2, <2>3, SettledGood
<1>4. ASSUME CreateSubscription PROVE UndoInv'
  BY <1>0, <1>4, CreateSubscriptionGood, Settled DEF CreateSubscription
<1>5. ASSUME AlterSubscription PROVE UndoInv'
  BY <1>0, <1>5, AlterSubscriptionGood, Settled DEF AlterSubscription
<1>6. ASSUME DropSubscription PROVE UndoInv'
  <2>1. PICK s, v : Settle(v, DropKeys(Taint(Work), "subscriptions", {s.name}))
    BY <1>6 DEF DropSubscription
  <2> QED BY <1>0, <2>1, DropSubscriptionGood, Settled
<1> QED BY <1>1, <1>2, <1>3, <1>4, <1>5, <1>6

(* The families that are carried out in parts have no statement to run.    *)
LEMMA NotRun ==
    ASSUME scene \in Covered
    PROVE  /\ ~CreateTable /\ ~AlterTable /\ ~RenameRelation /\ ~AlterViewFamily
           /\ ~CreateIndex /\ ~AlterIndex /\ ~DropIndex /\ ~DropSchema /\ ~DropExtension
BY DEF Covered, NoneInParts, RunIn, Offered, CreateTable, AlterTable, RenameRelation, AlterViewFamily, CreateIndex,
       AlterIndex, DropIndex, DropSchema, DropExtension, SchemasTo, ExtensionsTo

------------------------------------------------------------------------------
(* The catalog under Spec.                                                 *)

(* A behaviour stays in its scenario.                                      *)
LEMMA SettleStays ==
    /\ \A v, new : Settle(v, new) => scene' = scene
    /\ \A run : SettleRun(run) => scene' = scene
    /\ \A run : SettleCopy(run) => scene' = scene
<1>1. \A v, new : Settle(v, new) => scene' = scene
  BY DEF Settle
<1>2. \A run : SettleRun(run) => scene' = scene
  BY <1>1 DEF SettleRun
<1>3. \A run : SettleCopy(run) => scene' = scene
  BY <1>2 DEF SettleCopy
<1> QED BY <1>1, <1>2, <1>3

LEMMA SceneStays == ASSUME Next PROVE scene' = scene
<1>1. CASE Begin \/ Commit \/ Rollback
  BY <1>1 DEF Begin, Commit, Rollback
<1>2. CASE CreateTable
  <2>1. PICK s : CreateResolved(resolve_create_table(cat, s))
    BY <1>2 DEF CreateTable
  <2> HIDE DEF resolve_create_table
  <2> QED BY <2>1, SettleStays DEF CreateResolved
<1>3. CASE DropTable \/ RenameRelation \/ ChangeRelationOwner \/ AlterTable
  BY <1>3, SettleStays DEF DropTable, RenameRelation, ChangeRelationOwner, AlterTable
<1>4. CASE CreateSequence \/ AlterSequence \/ DropSequence
  BY <1>4, SettleStays DEF CreateSequence, AlterSequence, DropSequence
<1>5. CASE CreateView \/ CreateMaterializedView \/ RefreshMaterializedView \/ AlterViewFamily \/ DropView
  BY <1>5, SettleStays DEF CreateView, CreateMaterializedView, RefreshMaterializedView, AlterViewFamily, DropView
<1>6. CASE CreateIndex \/ AlterIndex \/ DropIndex \/ Maintain
  BY <1>6, SettleStays DEF CreateIndex, AlterIndex, DropIndex, Maintain
<1>7. CASE ChangePolicy \/ ChangeTrigger
  BY <1>7, SettleStays DEF ChangePolicy, ChangeTrigger
<1>8. CASE CreateRoutine \/ AlterRoutine \/ DropRoutine
  BY <1>8, SettleStays DEF CreateRoutine, AlterRoutine, DropRoutine
<1>9. CASE CreateType \/ RenameType \/ AlterType \/ CreateDomain \/ AlterDomain \/ DropType
  BY <1>9, SettleStays DEF CreateType, RenameType, AlterType, CreateDomain, AlterDomain, DropType
<1>10. CASE CreateSchema \/ ChangeSchemaOwner \/ RenameSchema \/ DropSchema
  BY <1>10, SettleStays DEF CreateSchema, ChangeSchemaOwner, RenameSchema, DropSchema
<1>11. CASE CreateRole \/ AlterRole \/ DropRole \/ ChangePrivileges \/ GrantRole \/ RevokeRole
  BY <1>11, SettleStays DEF CreateRole, AlterRole, DropRole, ChangePrivileges, GrantRole, RevokeRole
<1>12. CASE CreateExtension \/ AlterExtension \/ DropExtension
  BY <1>12, SettleStays DEF CreateExtension, AlterExtension, DropExtension
<1>13. CASE CreatePublication \/ AlterPublication \/ DropPublication
  BY <1>13, SettleStays DEF CreatePublication, AlterPublication, DropPublication
<1>14. CASE CreateSubscription \/ AlterSubscription \/ DropSubscription
  BY <1>14, SettleStays DEF CreateSubscription, AlterSubscription, DropSubscription
<1> QED BY <1>1, <1>2, <1>3, <1>4, <1>5, <1>6, <1>7, <1>8, <1>9, <1>10, <1>11, <1>12, <1>13, <1>14 DEF Next

(* Every step of a covered scenario keeps the invariant.                   *)
LEMMA UndoStep ==
    ASSUME scene \in Covered, UndoInv, [Next]_catvars
    PROVE  UndoInv'
<1>1. CASE UNCHANGED catvars
  BY <1>1 DEF UndoInv, catvars
<1>2. CASE Next
  BY <1>2, TransactionSteps, RelationSteps, SequenceSteps, ViewSteps, PolicySteps, RoutineSteps, TypeSteps, SchemaSteps,
     RoleSteps, ExtensionSteps, ReplicationSteps, NotRun DEF Next
<1> QED BY <1>1, <1>2

(* The invariant holds throughout the covered scenarios.                   *)
LEMMA UndoInvHolds == Spec => [](scene \in Covered => UndoInv)
<1>1. Init => (scene \in Covered => UndoInv)
  BY DEF Init, CatInit, Covered, UndoInv
<1>2. (scene \in Covered => UndoInv) /\ [Next]_catvars => (scene \in Covered => UndoInv)'
  <2> SUFFICES ASSUME scene \in Covered => UndoInv, [Next]_catvars, scene' \in Covered PROVE UndoInv'
    BY DEF Covered
  <2>1. scene' = scene
    BY SceneStays DEF catvars
  <2> QED BY <2>1, UndoStep
<1> QED BY <1>1, <1>2, PTL DEF Spec

(* A ROLLBACK, at any point of a transaction of any covered scenario,      *)
(* leaves the very catalog that BEGIN found: every map, record and edge    *)
(* (AnalysisState::rollback_transaction).                                  *)
THEOREM RollbacksAreExact == Spec => [](scene \in Covered => UndoRestores)
<1>1. (scene \in Covered => UndoInv) => (scene \in Covered => UndoRestores)
  BY LeadsBack DEF UndoInv, UndoRestores
<1> QED BY <1>1, UndoInvHolds, PTL

(* In any covered scenario an enabled subscription has a slot to replicate *)
(* from, whatever is created, altered, skipped or rolled back              *)
(* (apply_create_subscription, apply_alter_subscription).                  *)
THEOREM EnabledOnesHaveSlots == Spec => [](scene \in Covered => EnabledHasSlot)
<1>1. (scene \in Covered => UndoInv) => (scene \in Covered => EnabledHasSlot)
  BY DEF UndoInv, EnabledHasSlot, Slots, Slotted, Live
<1> QED BY <1>1, UndoInvHolds, PTL

(* In any covered scenario a sequence stands and starts within its bounds, *)
(* and those lie within its type, whatever options it is created or altered*)
(* with, renamed, truncated or rolled back (apply_create_sequence,         *)
(* apply_alter_sequence).                                                  *)
THEOREM SequencesStayInBounds == Spec => [](scene \in Covered => SequencesInBounds)
<1>1. ASSUME UndoInv PROVE SequencesInBounds
  <2>1. "sequences" \in MapFields /\ "sequences" # "constraints"
    BY DEF MapFields
  <2>2. \A q \in Live(cat.sequences) : Bounded(cat["sequences"][q])
    BY <1>1, <2>1 DEF UndoInv, IsCatalog, IsMap, Entry, Fit, Live
  <2> QED BY <2>2 DEF SequencesInBounds, Bounded, ParamsFit
<1> QED BY <1>1, UndoInvHolds, PTL

(* In any covered scenario a grant option is held with its privilege, and  *)
(* every recorded source is of one that is held, through every GRANT,      *)
(* REVOKE and cascade and whatever is rolled back (the privilege matrix of *)
(* model/relation.rs).                                                     *)
THEOREM SourcesFollowGrants == Spec => [](scene \in Covered => ProvenanceFollowsGrants)
<1>1. ASSUME UndoInv PROVE ProvenanceFollowsGrants
  <2>1. "relations" \in MapFields /\ "relations" # "constraints"
    BY DEF MapFields
  <2>2. \A t \in Live(cat.relations) : Sourced(cat["relations"][t].acl)
    BY <1>1, <2>1 DEF UndoInv, IsCatalog, IsMap, Entry, Fit, Live
  <2> QED BY <2>2 DEF ProvenanceFollowsGrants, Sourced, Rel
<1> QED BY <1>1, UndoInvHolds, PTL
==============================================================================
