--------------------------- MODULE TableLifecycle ---------------------------
(***************************************************************************)
(* DROP TABLE, the rename and the move of a relation or an index, and the  *)
(* owner of a relation (state/apply_relation/drop.rs and rename.rs).       *)
(***************************************************************************)
EXTENDS Tables

CONSTANTS DropTableStmts, RenameRelationStmts, RelationOwnerStmts

------------------------------------------------------------------------------
(* DROP TABLE: ids ifexists cascade co, co the objects that an extension   *)
(* drops in the same statement.                                            *)

DropTableTargets(c, s) == {id \in ToSet(s.ids) : Present(c.relations, id)}
DropTableRoots(c, s) ==
    {ResolveRename(c.edges, id) : id \in DropTableTargets(c, s)}

DropClosure(c, s) ==
    IF s.cascade THEN cascade_for_relations(c, DropTableTargets(c, s))
    ELSE [relations |-> DropTableRoots(c, s), indexes |-> {}, constraints |-> {}]

(* What RESTRICT refuses: a view, a foreign key or a child of a dropped    *)
(* table that stays.                                                       *)
DropDependents(c, s) ==
    LET on(roots) == {e \in Kind(c.edges, {"view", "fk", "inherit", "part", "pending"}) :
                        /\ EdgeIsCurrent(c, e)
                        /\ ResolveRename(c.edges, e.r) \in roots
                        /\ ResolveRename(c.edges, e.d) \notin roots \cup s.co}
    IN  on(DropTableRoots(c, s))

DropTableVerdict(c, s) ==
    LET touchesBaseline(gone) == \/ (gone.relations \ DropTableRoots(c, s)) \cap c.baserel # {}
                                 \/ gone.constraints \cap c.bfk # {}
    IN  Skip(s.ids = <<>>)
        ?? Reject(\E id \in ToSet(s.ids) : ExtensionMember(c, "relation", id))
        ?? EnsureDropTargets(s.ids, s.ifexists, LAMBDA id : RelationLookup(c, id, {"table"}))
        ?? Skip(DropTableTargets(c, s) = {})
        ?? (IF s.cascade
            THEN Doubt("dependencies" \notin c.known.families /\ touchesBaseline(DropClosure(c, s)))
            ELSE Reject(DropDependents(c, s) # {}))

OwnedBy(c, t) == {q \in Live(c.sequences) :
                     c.sequences[q].ownedby # <<>> /\ c.sequences[q].ownedby[1] = t}

(* The relations, then what they carry: sequences, constraints, triggers,  *)
(* every edge that touches them and their places in publications.          *)
DropTableEffect(w, s) ==
    LET c == w.c
        R(id) == ResolveRename(c.edges, id)
        doubt == \E id \in DropTableTargets(c, s) :
                    \/ id \in c.baserel /\ "dependencies" \notin c.known.families
                    \/ ScopedFamilyObject(c, id, "relations")
        owned(q, rels) == c.sequences[q].ownedby # <<>> /\ R(c.sequences[q].ownedby[1]) \in rels
        drop(gone, rels) ==
            LET omitted == \E id \in rels : ~Present(c.relations, id) /\ id \notin c.baserel
                relations(x) == DropKeys(TaintIf(x, doubt \/ omitted), "relations", rels)
                sequences(x) == DropKeys(x, "sequences", {q \in Live(c.sequences) : owned(q, rels)})
                triggers(x) == DropKeys(x, "triggers", {t \in Live(c.triggers) : R(c.triggers[t].table) \in rels})
                stays(e) == /\ {R(e.d), R(e.r)} \cap rels = {} /\ R(e.d) \notin gone.indexes
                            /\ ~(e.k = "fk" /\ <<R(e.d), e.con>> \in gone.constraints)
                goes(o) == o.kind = "table" /\ R(o.id) \in rels
                pubs == {p \in Live(c.publications) : \E o \in c.publications[p].objs : goes(o)}
                without(p) == [p EXCEPT !.objs = {o \in @ : ~goes(o)}]
                unpublish(x) == [Snap(x, "publications", pubs) EXCEPT
                                   !.c.publications = Over([p \in pubs |-> without(@[p])], @)]
            IN  unpublish(Retain(triggers(remove_dropped_constraints(sequences(relations(w)), rels, gone.constraints)),
                                 stays))
        closed(gone) == drop(gone, gone.relations)
    IN  closed(DropClosure(c, s))

DropTable ==
    \E s \in Offered(DropTableStmts) : Settle(DropTableVerdict(cat, s), DropTableEffect(Work, s))

ReleaseColumn(w, k, col) ==
    Retain(RemoveKeys(w, "constraints", {k}),
           LAMBDA e : ~(/\ e.k = "con" /\ ~e.pk /\ e.con = k[2] /\ e.cols = {col}
                        /\ ResolveRename(w.c.edges, e.d) = k[1]))

(* drop_not_null_constraint: the constraint that guards the column is the  *)
(* first edge of one column that is not a primary key.                     *)
drop_not_null_constraint(w, table, col) ==
    LET first(ks) == IF ks = {} THEN w ELSE ReleaseColumn(w, CHOOSE x \in ks : TRUE, col)
    IN  first(not_null_constraint_for_column(w.c, table, col))

------------------------------------------------------------------------------
(* Renames: old and new identity; SET SCHEMA changes the first component.  *)

relation_or_index_present(c, id) == Present(c.relations, id) \/ IndexIsPresent(c, id)

(* SET SCHEMA takes the owned sequences and the indexes of the table along. *)
InSchema(id, to) == [id EXCEPT ![1] = to[1]]
SequenceMoves(c, s) == IF s.old[1] = s.new[1] THEN {} ELSE OwnedBy(c, s.old)
IndexMoves(c, s) == IF s.old[1] = s.new[1] THEN {} ELSE {e.d : e \in IndexesOn(c, s.old)}

RenameRelationVerdict(c, s) ==
    LET clash == /\ IndexIsPresent(c, s.old) /\ s.old[2] # s.new[2]
                 /\ \E k \in DOMAIN c.constraints :
                       /\ c.constraints[k].index = s.old /\ c.constraints[k].kind \in BackingKinds
                       /\ k[2] # s.new[2] /\ <<k[1], s.new[2]>> \in DOMAIN c.constraints
        covered == Covers(c, s.old, "relations") \/ Covers(c, s.old, "indexes")
    IN  Reject(clash)
        ?? (IF relation_or_index_present(c, s.old) THEN "ok"
            ELSE IF covered THEN "conflict" ELSE "unresolved")
        ?? Reject(s.old # s.new /\ NameTaken(c, s.new))
        ?? (IF s.old[1] = s.new[1] \/ Present(c.schemas, s.new[1]) THEN "ok"
            ELSE IF SchemaAbsent(c, s.new[1]) THEN "conflict" ELSE "unresolved")
        ?? Reject(\E id \in SequenceMoves(c, s) \cup IndexMoves(c, s) :
                     NameTaken(c, InSchema(id, s.new)))

(* A mutant: the constraint takes the new name and keeps the old index.    *)
rename_index_names_only(w, old, new) ==
    LET backed == {k \in DOMAIN w.c.constraints : w.c.constraints[k].index = old}
        moved(k) == IF w.c.constraints[k].kind \in BackingKinds THEN <<k[1], new[2]>> ELSE k
        cons == [x \in {moved(k) : k \in backed} |-> w.c.constraints[CHOOSE k \in backed : moved(k) = x]]
    IN  [w EXCEPT !.c.constraints = Over(cons, Without(@, backed)),
                  !.c.edges = FoldSet(LAMBDA k, E : RenameConstraint(E, k[1], k[2], moved(k)[2]), @, backed)]

(* rename_index_catalog_references: constraints the index backs, whose     *)
(* name follows it, and the relations that name it.                        *)
rename_index_catalog_references(w, old, new) ==
    LET backed == {k \in DOMAIN w.c.constraints : w.c.constraints[k].index = old}
        moved(k) == IF w.c.constraints[k].kind \in BackingKinds THEN <<k[1], new[2]>> ELSE k
        kept == Without(w.c.constraints, backed)
        new_(k) == [w.c.constraints[k] EXCEPT !.index = new]
        cons == Over([x \in {moved(k) : k \in backed} |-> new_(CHOOSE k \in backed : moved(k) = x)], kept)
        edges == FoldSet(LAMBDA k, E : RenameConstraint(E, k[1], k[2], moved(k)[2]),
                         w.c.edges, backed)
        names(t) == t[1] = old[1] /\ w.c.relations[t].st = "present" /\ old[2] # new[2]
        follow(r) == [r EXCEPT !.cluster = IF @ = <<old[2]>> THEN <<new[2]>> ELSE @,
                               !.replica = IF @ = <<"index", old[2]>> THEN <<"index", new[2]>> ELSE @]
    IN  [w EXCEPT !.c.constraints = cons, !.c.edges = edges,
                  !.c.relations = [t \in DOMAIN @ |-> IF names(t) THEN follow(@[t]) ELSE @[t]]]

MoveSequence(w, old, new) ==
    [w EXCEPT !.c.sequences = Rekey(@, old, new),
              !.c.edges = AddEdge(PropagateSequenceRename(@, old, new), RenameEdge(old, new)),
              !.c.baseseq = {IF q = old THEN new ELSE q : q \in @}]

MoveIndex(w, old, new) ==
    LET refs(x) == rename_index_catalog_references(x, old, new)
    IN  [refs([w EXCEPT !.c.edges = PropagateIndexRename(@, old, new)]) EXCEPT
            !.c.edges = AddEdge(@, RenameEdge(old, new)),
            !.c.baseidx = {IF i = old THEN new ELSE i : i \in @}]

(* A mutant: a trigger moves to the renamed table and its edge does not.   *)
MoveTriggerOnly(w, old, table) ==
    LET new == CloneId(old, table)
    IN  [w EXCEPT !.c.triggers = Put(Without(@, {old}), new, [@[old] EXCEPT !.table = table])]

MoveTrigger(w, old, table) ==
    LET new == CloneId(old, table)
    IN  [w EXCEPT !.c.triggers = Put(Without(@, {old}), new, [@[old] EXCEPT !.table = table]),
                  !.c.edges = AddEdge(PropagateTriggerRename(@, old, new), RenameEdge(old, new))]

(* Every record that names the relation follows it.                        *)
RenamedKey(s, k) == IF k[1] = s.old THEN <<s.new, k[2]>> ELSE k
RenamedId(s, id) == IF id = s.old THEN s.new ELSE id

(* The relation itself, and what its sequences say of their owner.         *)
RenameKey(w, s) ==
    LET owned == OwnedBy(w.c, s.old)
    IN  Set(IF Present(w.c.relations, s.old) THEN Set(w, "relations", Rekey(w.c.relations, s.old, s.new)) ELSE w,
            "sequences", Over([q \in owned |-> [w.c.sequences[q] EXCEPT !.ownedby[1] = s.new]], w.c.sequences))

(* What moves to the other schema with it.                                 *)
RenameMembers(w, c, s) ==
    LET sequences(x) == FoldSet(LAMBDA q, y : MoveSequence(y, q, InSchema(q, s.new)), x, SequenceMoves(c, s))
        indexes(x) == FoldSet(LAMBDA i, y : MoveIndex(y, i, InSchema(i, s.new)), x, IndexMoves(c, s))
    IN  FoldSet(LAMBDA t, y : MoveTrigger(y, t, s.new), indexes(sequences(w)),
                {t \in Live(c.triggers) : c.triggers[t].table = s.old})

RenameReferences(w, s) ==
    LET c == w.c
        cons == c.constraints
        object(o) == IF o.kind = "table" THEN [o EXCEPT !.id = RenamedId(s, @)] ELSE o
        publication(p) == IF p.st = "present" THEN [p EXCEPT !.objs = {object(o) : o \in @}] ELSE p
    IN  [w EXCEPT !.c = Over(
           [constraints  |-> [k \in {RenamedKey(s, x) : x \in DOMAIN cons} |->
                                cons[CHOOSE x \in DOMAIN cons : RenamedKey(s, x) = k]],
            publications |-> [p \in DOMAIN c.publications |-> publication(c.publications[p])],
            pending      |-> {RenamedKey(s, k) : k \in c.pending},
            edges        |-> AddEdge(c.edges, RenameEdge(s.old, s.new))],
           c)]

RenameRecords(w, s) ==
    [w EXCEPT !.c = Over(
       [edges   |-> PropagateRelationRename(w.c.edges, s.old, s.new),
        baserel |-> {RenamedId(s, id) : id \in w.c.baserel},
        bfkdep  |-> {RenamedId(s, id) : id \in w.c.bfkdep},
        bfk     |-> {RenamedKey(s, k) : k \in w.c.bfk}],
       w.c)]

RenameRelationEffect(w, s) ==
    LET x == RenameReferences(RenameMembers(RenameKey(snapshot_namespace(w), s), w.c, s), s)
    IN  IF Present(w.c.relations, s.old) THEN RenameRecords(x, s) ELSE MoveIndex(x, s.old, s.new)

RenameRelation ==
    \E s \in Offered(RenameRelationStmts) :
        Settle(RenameRelationVerdict(cat, s), RenameRelationEffect(Work, s))

------------------------------------------------------------------------------
(* Owners.                                                                  *)

(* A mutant: the owned sequences keep the owner they had.                  *)
transfer_no_owners(w, t, owner) == w

transfer_owned_sequence_owners(w, t, owner) ==
    LET owned == OwnedBy(w.c, t)
    IN  [Snap(w, "sequences", owned) EXCEPT
            !.c.sequences = Over([q \in owned |-> [@[q] EXCEPT !.owner = owner]], @)]

SetRelationOwner(w, id, owner) ==
    transfer_owned_sequence_owners(
        Assign(TaintIf(w, RoleDoubt(w.c, owner)), "relations", id,
               [Rel(w.c, id) EXCEPT !.owner = owner]), id, owner)

AnyRelation == {"table", "foreign", "view", "matview"}

ChangeRelationOwnerVerdict(c, s) ==
    EnsureRole(c, s.owner) ?? Ensure(RelationLookup(c, s.id, AnyRelation))

ChangeRelationOwner ==
    \E s \in Offered(RelationOwnerStmts) :
        Settle(ChangeRelationOwnerVerdict(cat, s), SetRelationOwner(Work, s.id, s.owner))
=============================================================================
