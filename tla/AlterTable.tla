----------------------------- MODULE AlterTable -----------------------------
(***************************************************************************)
(* What ALTER TABLE does once its checks have passed                       *)
(* (state/apply_relation/alter_table/finish.rs and the column helper of    *)
(* model/relation.rs).  A statement is a sequence of actions.              *)
(***************************************************************************)
EXTENDS AlterTableChecks

CONSTANT AlterTableStmts   \* each a sequence of actions

SetColumn(w, id, n, col) ==
    Assign(w, "relations", id, [Rel(w.c, id) EXCEPT !.cols[n] = col])
SetField(w, id, rel) == Assign(w, "relations", id, rel)

------------------------------------------------------------------------------
(* Columns.                                                                 *)

(* The sequence of a new column belongs to the owner of the table.         *)
AddColumnSequence(w, a, id) ==
    LET par == IF a.col.how = "serial" THEN default_column_sequence_parameters(a.col.ty[2])
               ELSE identity_sequence_parameters(a.col.ty[2], a.col.opts)
        x   == Bump(Snap(w, "sequences", {id}))
        seq == SequenceState(Rel(w.c, a.id).owner, <<a.id, a.col.name>>, a.col.how, x.c.gen, par)
    IN  AddEdges(Assign(x, "sequences", id, seq), {OwnedEdge(id, a.id, a.col.name)})

AddColumnEffect(w, a) ==
    LET id   == ImplicitSequence(w.c, a)
        seq  == MakesSequence(a)
        col  == Column(resolve_type_reference(w.c, a.col.ty), ~(a.col.notnull \/ seq), IF seq THEN id ELSE a.col.dflt,
                       IF a.col.how \in {"generated", "identity"} THEN a.col.how ELSE "plain",
                       IF a.col.how = "generated" THEN a.col.expr ELSE {})
        rel  == Rel(w.c, a.id)
        x    == SetField(w, a.id, [rel EXCEPT !.cols = Put(@, a.col.name, col)])
        from == IF a.col.how = "generated" THEN a.col.expr \ {"?"} ELSE {}
        y    == AddEdges(x, {[k |-> "genfrom", d |-> a.id, r |-> a.id, col |-> a.col.name, on |-> o] :
                               o \in from})
        z    == IF a.col.notnull THEN register_not_null_constraint(y, a.id, a.col.name) ELSE y
    IN  IF seq THEN AddColumnSequence(z, a, id) ELSE z

WithoutColumns(rel, cols) ==
    [rel EXCEPT !.cols = Without(@, cols), !.opts = {o \in @ : o[1] \notin cols}]

(* The edges that go with dropped columns of t and what they carried.      *)
DropColumnEdges(w, t, cols, indexes) ==
    Retain(w, LAMBDA e : /\ ~(e.k \in {"genfrom", "default"} /\ e.col \in cols /\ ResolveRename(w.c.edges, e.d) = t)
                         /\ ~(e.k = "index" /\ e.d \in indexes))

DropColumnConstraints(w, cons) ==
    IF cons = {} THEN w
    ELSE Retain(remove_dropped_constraints(w, {}, cons),
                LAMBDA e : e.k \in {"fk", "con", "condep"} => <<ResolveRename(w.c.edges, e.d), e.con>> \notin cons)

DropOwnedSequences(w, owned) ==
    Retain(DropKeys(w, "sequences", owned), LAMBDA e : ~(e.k = "owned" /\ e.d \in owned))

DropScanned(w, a, t, scan) ==
    LET cols  == scan.gens \cup {a.name}
        doubt == t \in w.c.baserel /\ ("dependencies" \notin w.c.known.families
                                       \/ ScopedFamilyObject(w.c, t, "relations"))
        table == SetField(TaintIf(w, doubt \/ scan.unknown), a.id,
                          [WithoutColumns(Rel(w.c, a.id), cols) EXCEPT !.stats = Without(@, scan.stats)])
    IN  DropColumnEdges(drop_cascaded_views(DropColumnConstraints(table, scan.cons), scan.views),
                        t, cols, scan.indexes)

DropColumnEffect(w, a) ==
    DropOwnedSequences(
        drop_not_null_constraint(
            DropScanned(w, a, ResolveRename(w.c.edges, a.id), DropColumnScan(w.c, a.id, a.name, a.cascade)),
            a.id, a.name),
        {q \in Live(w.c.sequences) : w.c.sequences[q].ownedby = <<a.id, a.name>>})

(* apply_column_action Rename: the column, and every place of the relation *)
(* that names it.                                                          *)
RenamedColumn(rel, from, to) ==
    LET map(n) == IF n = from THEN to ELSE n
        cols == [n \in {map(x) : x \in DOMAIN rel.cols} |-> rel.cols[CHOOSE x \in DOMAIN rel.cols : map(x) = n]]
    IN  IF from \notin DOMAIN rel.cols \/ to \in DOMAIN rel.cols THEN rel
        ELSE [rel EXCEPT
                !.cols  = [n \in DOMAIN cols |-> [cols[n] EXCEPT !.expr = RenameIn(@, from, to)]],
                !.pkeys = [i \in DOMAIN @ |-> map(@[i])],
                !.opts  = {<<map(o[1]), o[2]>> : o \in @},
                !.stats = [s \in DOMAIN @ |-> RenameIn(@[s], from, to)]]

RenameOwnedColumns(w, seqs, from, to) ==
    LET x == SnapGraphFull(Snap(w, "sequences", seqs))
    IN  [x EXCEPT !.c.sequences = Over([q \in seqs |-> [@[q] EXCEPT !.ownedby[2] = to]], @),
                  !.c.edges = FoldSet(LAMBDA q, E : RenameOwnedSequenceColumn(E, q, from, to), @, seqs)]

OwnedOn(c, t, col) ==
    {q \in {e.d : e \in {f \in Kind(c.edges, {"owned"}) : f.col = col /\ f.r = t}} : Present(c.sequences, q)}

RenameColumnEdges(w, t, from, to) ==
    [SnapGraphFull(w) EXCEPT !.c.edges = RenameIndexColumn(RenameColumnDependencies(@, t, from, to), t, from, to)]

RenameTableColumn(w, t, from, to) ==
    IF Present(w.c.relations, t) THEN SetField(w, t, RenamedColumn(Rel(w.c, t), from, to)) ELSE w

rename_relation_column_metadata(w, t, from, to) ==
    LET owned(x) == RenameOwnedColumns(x, OwnedOn(x.c, t, from), from, to)
    IN  owned(RenameColumnEdges(RenameTableColumn(w, t, from, to), t, from, to))

(* Column lists of publications.                                           *)
RenamePublishedColumn(w, a) ==
    LET lists(o) == o.kind = "table" /\ o.id = a.id /\ a.name \in o.cols
        follow(o) == IF lists(o) THEN [o EXCEPT !.cols = RenameIn(@, a.name, a.to)] ELSE o
        pubs == {p \in Live(w.c.publications) : \E o \in w.c.publications[p].objs : lists(o)}
    IN  [Snap(w, "publications", pubs) EXCEPT
            !.c.publications = Over([p \in pubs |-> [@[p] EXCEPT !.objs = {follow(o) : o \in @}]], @)]

RenameColumnTree(w, a) ==
    FoldSet(LAMBDA t, x : rename_relation_column_metadata(x, t, a.name, a.to),
            rename_relation_column_metadata(w, a.id, a.name, a.to), RenamedTree(w.c, a))

(* The tree, then the column lists of publications, then what the name     *)
(* before a rename of the table still stands for.                          *)
RenameColumnEffect(w, a) ==
    RenameOwnedColumns(
        [SnapGraphFull(RenamePublishedColumn(RenameColumnTree(w, a), a)) EXCEPT
            !.c.edges = RenameIndexColumn(@, ResolveRename(@, a.id), a.name, a.to)],
        {q \in Live(w.c.sequences) : w.c.sequences[q].ownedby = <<a.id, a.name>>}, a.name, a.to)

(* A new default is tied to the one sequence it names; any other default   *)
(* leaves the evidence incomplete.                                         *)
SetDefaultEffect(w, a) ==
    LET tie(x) == CASE a.dflt = <<>> -> x
                    [] Present(x.c.sequences, a.dflt) ->
                          [x EXCEPT !.c.edges = @ \cup {[k |-> "default", d |-> a.id, r |-> a.dflt, col |-> a.name]}]
                    [] OTHER -> Taint(x)
    IN  tie(Retain(SetColumn(w, a.id, a.name, [Rel(w.c, a.id).cols[a.name] EXCEPT !.dflt = a.dflt]),
                   LAMBDA e : ~(e.k = "default" /\ e.d = a.id /\ e.col = a.name)))

GeneratedEdges(w, a, from) ==
    [Retain(w, LAMBDA e : ~(e.k = "genfrom" /\ e.d = a.id /\ e.r = a.id /\ e.col = a.name)) EXCEPT
        !.c.edges = @ \cup {[k |-> "genfrom", d |-> a.id, r |-> a.id, col |-> a.name, on |-> o] : o \in from}]

ColumnEffect(w, a) ==
    LET rel == Rel(w.c, a.id)
        col == rel.cols[a.name]
        options == {<<a.name, o.name>> : o \in ToSet(a.opts)}
    IN  CASE a.do = "add_column"    -> AddColumnEffect(w, a)
          [] a.do = "drop_column"   -> DropColumnEffect(w, a)
          [] a.do = "rename_column" -> RenameColumnEffect(w, a)
          [] a.do = "set_not_null"  ->
                register_not_null_constraint(SetColumn(w, a.id, a.name, [col EXCEPT !.null = FALSE]),
                                             a.id, a.name)
          [] a.do = "drop_not_null" ->
                drop_not_null_constraint(SetColumn(w, a.id, a.name, [col EXCEPT !.null = TRUE]),
                                         a.id, a.name)
          [] a.do = "set_type"    -> SetColumn(w, a.id, a.name, [col EXCEPT !.ty = resolve_type_reference(w.c, a.ty)])
          [] a.do = "set_default" -> SetDefaultEffect(w, a)
          [] a.do = "set_expr"    ->
                GeneratedEdges(SetColumn(w, a.id, a.name, [col EXCEPT !.expr = a.expr]), a, a.expr)
          [] a.do = "drop_expr"   ->
                GeneratedEdges(SetColumn(w, a.id, a.name, [col EXCEPT !.how = "plain", !.expr = {}]), a, {})
          [] a.do = "set_col_opts"   -> SetField(w, a.id, [rel EXCEPT !.opts = @ \cup options])
          [] a.do = "reset_col_opts" -> SetField(w, a.id, [rel EXCEPT !.opts = @ \ options])
          [] OTHER -> w

------------------------------------------------------------------------------
(* Constraints.                                                             *)

PendingIf(w, k, p) == IF p THEN [SnapWhole(w, {"pending"}) EXCEPT !.c.pending = @ \cup {k}] ELSE w
ForgetPending(w, k) ==
    IF k \in w.c.pending THEN [SnapWhole(w, {"pending"}) EXCEPT !.c.pending = @ \ {k}] ELSE w

AddNamedForeignKey(w, a, name, keys, doubt) ==
    [AddForeignKey(PendingIf(TaintIf(w, doubt), <<a.id, name>>, a.notvalid),
                   a.id, name, ToSet(a.fk.from), a.fk.table, ReferencedColumns(keys, a.fk), Rel(w.c, a.id).gen)
     EXCEPT !.c.constraints[<<a.id, name>>].valid = ~a.notvalid]

AddForeignKeyOn(w, a, keys) ==
    AddNamedForeignKey(w, a, AddedName(w.c, a), keys, ~keys.known \/ TypesUnknown(AddedKeyTypes(w.c, a)))

AddForeignKeyEffect(w, a) == AddForeignKeyOn(w, a, unique_keys_for_relation(w.c, a.fk.table))

AddCheckEffect(w, a) ==
    LET name == AddedName(w.c, a)
        k    == <<a.id, name>>
        x    == PendingIf(Assign(w, "constraints", k, [Con("check", a.con.def, <<>>) EXCEPT !.valid = ~a.notvalid]),
                          k, a.notvalid)
    IN  IF ColumnsKnown(Rel(w.c, a.id)) /\ a.con.known
        THEN AddEdges(x, {ConDepEdge(a.id, name, ToSet(a.con.cols))}) ELSE Taint(x)

(* Only an exclusion whose columns are known gets its index.               *)
AddExcludeEffect(w, a) ==
    LET name == AddedName(w.c, a)
        id   == <<a.id[1], name>>
        cols == ToSet(a.con.cols)
        x    == Assign(w, "constraints", <<a.id, name>>, Con("exclusion", <<>>, id))
    IN  IF ColumnsKnown(Rel(w.c, a.id)) /\ a.con.known
        THEN Rewrite(x, x.c.edges \cup {IndexEdge(id, a.id, cols, FALSE, "placeholder", TRUE),
                                        ConDepEdge(a.id, name, cols)})
        ELSE Taint(x)

adopt_index_for_constraint(w, index, name) ==
    LET adopted == <<index[1], name>>
    IN  IF adopted = index THEN w
        ELSE Rewrite(w, {IF e.k = "index" /\ e.d = index THEN [e EXCEPT !.d = adopted] ELSE e : e \in w.c.edges})

GuardColumn(w, id, n) ==
    register_not_null_constraint(SetColumn(w, id, n, [Rel(w.c, id).cols[n] EXCEPT !.null = FALSE]), id, n)

KeyEdges(w, a, name, cols) ==
    IF cols = {} \/ ~ColumnsKnown(Rel(w.c, a.id)) THEN Taint(w)
    ELSE FoldSet(LAMBDA n, x : GuardColumn(x, a.id, n), AddEdges(w, {ConEdge(a.id, name, cols, a.do = "add_pk")}),
                 IF a.do = "add_pk" THEN cols ELSE {})

KeyIndex(w, a, name) ==
    IF a.using # <<>> THEN adopt_index_for_constraint(w, a.using, name)
    ELSE AddEdges(w, {IndexEdge(<<a.id[1], name>>, a.id, ToSet(a.con.cols), TRUE, "btree", TRUE)})

AddNamedKey(w, a, name) ==
    KeyEdges(Assign(KeyIndex(w, a, name), "constraints", <<a.id, name>>,
                    Con(IF a.do = "add_pk" THEN "pk" ELSE "unique", <<>>, <<a.id[1], name>>)),
             a, name, ToSet(a.con.cols))

AddKeyEffect(w, a) == AddNamedKey(w, a, AddedName(w.c, a))

DropBackingIndex(w, a, con) ==
    IF con.kind \notin BackingKinds \/ con.index = <<>> THEN w
    ELSE Retain(SetField(w, a.id, clear_index_settings(Rel(w.c, a.id), con.index[2])),
                LAMBDA e : ~(e.k = "index" /\ e.d = con.index))

ReleaseGuarded(w, a, con) ==
    LET guarded == UNION {e.cols : e \in {f \in Kind(w.c.edges, {"con"}) :
                       /\ ResolveRename(w.c.edges, f.d) = a.id
                       /\ f.con = a.name /\ ~f.pk /\ Cardinality(f.cols) = 1}} \cap DOMAIN Rel(w.c, a.id).cols
        col == CHOOSE n \in guarded : TRUE
    IN  IF con.kind # "notnull" \/ guarded = {} THEN w
        ELSE SetColumn(w, a.id, col, [Rel(w.c, a.id).cols[col] EXCEPT !.null = TRUE])

ForgetBaseKey(w, k) == IF k \in w.c.bfk THEN [SnapWhole(w, {"bfk"}) EXCEPT !.c.bfk = @ \ {k}] ELSE w

DropConstraintRecord(w, a, con) ==
    ForgetBaseKey(
        ForgetPending(ReleaseGuarded(DropBackingIndex(RemoveKeys(w, "constraints", {<<a.id, a.name>>}), a, con), a, con),
                      <<a.id, a.name>>),
        <<a.id, a.name>>)

(* The index goes with its constraint, and a NOT NULL constraint releases  *)
(* the column it guards.                                                   *)
DropConstraintEffect(w, a) ==
    Retain(DropConstraintRecord(w, a, w.c.constraints[<<a.id, a.name>>]),
           LAMBDA e : ~(/\ e.k \in {"fk", "con", "condep"} /\ e.con = a.name
                        /\ ResolveRename(w.c.edges, e.d) = a.id))

RenameConstraintEffect(w, a) ==
    LET old == <<a.id, a.name>>
        new == <<a.id, a.to>>
        con == w.c.constraints[old]
        hit == {f \in {"pending", "bfk"} : old \in w.c[f]}
        x   == SnapGraphFull(SnapWhole(Snap(w, "constraints", {old, new}), hit))
        move(S) == {IF k = old THEN new ELSE k : k \in S}
    IN  IF con.kind \in BackingKinds /\ con.index # <<>>
        THEN RenameRelationEffect(w, [old |-> con.index, new |-> <<con.index[1], a.to>>])
        ELSE [x EXCEPT !.c.constraints = Rekey(@, old, new),
                       !.c.pending = move(@), !.c.bfk = move(@),
                       !.c.edges = RenameConstraint(@, a.id, a.name, a.to)]

ConstraintEffect(w, a) ==
    LET k == <<a.id, a.name>>
    IN  CASE a.do = "add_fk"      -> AddForeignKeyEffect(w, a)
          [] a.do = "add_check"   -> AddCheckEffect(w, a)
          [] a.do = "add_exclude" -> AddExcludeEffect(w, a)
          [] a.do \in {"add_unique", "add_pk"} -> AddKeyEffect(w, a)
          [] a.do = "drop_con"    -> DropConstraintEffect(w, a)
          [] a.do = "rename_con"  -> RenameConstraintEffect(w, a)
          [] a.do = "validate"    ->
                ForgetPending(Assign(w, "constraints", k, [w.c.constraints[k] EXCEPT !.valid = TRUE]), k)
          [] OTHER -> Taint(w)

------------------------------------------------------------------------------
(* Partitions and inheritance.                                              *)

Provenance(rel, n, local) ==
    [rel EXCEPT !.cols = [x \in DOMAIN @ |-> [@[x] EXCEPT !.parents = n, !.local = local]]]

AttachChild(w, a) ==
    SetField(w, a.child, [Provenance(Rel(w.c, a.child), 1, FALSE) EXCEPT !.bound = a.bound])

AttachPredicate(w, a) ==
    [w EXCEPT !.c.relations[a.child].pcheck = PartitionPredicate(w.c, a.id, a.child)]

AttachEdge(w, a, compatible) ==
    AddEdges(TaintIf(w, compatible = "unresolved"), {ChildEdge("part", a.child, a.id)})

AttachEffect(w, a) ==
    clone_row_triggers_to_partition(
        ensure_partition_indexes_and_constraints(
            refresh_default_partition_constraints(
                AttachPredicate(
                    AttachChild(
                        invalidate_descendant_partition_predicates(
                            AttachEdge(w, a, partition_attachment_is_compatible(w.c, a.id, a.child)), a.child),
                        a),
                    a),
                a.id),
            a.id, a.child),
        a.id, a.child)

DetachEdge(w, a) ==
    Retain(detach_index_partitions_of_table(w, a.child),
           LAMBDA e : ~(e.k = (IF a.mode = "finalize" THEN "pending" ELSE "part") /\ e.d = a.child /\ e.r = a.id))

RetainCheck(w, a, check) ==
    CASE a.mode # "conc" \/ check = <<"none">> -> w
      [] check = <<>> -> Taint(w)
      [] OTHER -> register_retained_partition_check(w, a.child, check, partition_key_columns(w.c, a.id))

RetainBound(w, a) == RetainCheck(w, a, retained_check_for_detached_partition(w.c, a.id, a.child))

DetachChild(w, a) ==
    SetField(w, a.child, [Provenance(Rel(w.c, a.child), 0, TRUE) EXCEPT !.bound = <<>>, !.pcheck = <<>>])

(* A concurrent detach leaves a CHECK that repeats the bound.              *)
DetachEffect(w, a) ==
    remove_partition_trigger_clones(
        DetachChild(invalidate_descendant_partition_predicates(RetainBound(DetachEdge(w, a), a), a.child), a),
        a.id, a.child)

InheritEffect(w, a) ==
    LET adding == a.do = "inherit"
        names == DOMAIN Rel(w.c, a.parent).cols
        rel   == Rel(w.c, a.id)
        count(n) == rel.cols[n].parents + (IF adding THEN 1 ELSE -1)
        bad   == {n \in names : n \notin DOMAIN rel.cols \/ rel.cols[n].parents = Unprovenanced
                                \/ count(n) < 0}
        col(n) == IF n \in bad THEN [rel.cols[n] EXCEPT !.parents = Unprovenanced]
                  ELSE [rel.cols[n] EXCEPT !.parents = count(n), !.local = @ \/ count(n) = 0]
        x == IF adding THEN AddEdges(w, {ChildEdge("inherit", a.id, a.parent)})
             ELSE Retain(w, LAMBDA e : ~(e.k = "inherit" /\ e.d = a.id /\ e.r = a.parent))
    IN  TaintIf(SetField(x, a.id,
                         [rel EXCEPT !.cols = [n \in DOMAIN @ |-> IF n \in names THEN col(n) ELSE @[n]]]),
                bad # {})

------------------------------------------------------------------------------
(* Settings.                                                                *)

SetTriggerModes(w, a) ==
    LET hit == NamedTriggers(w.c, a)
        x   == Snap(w, "triggers", hit)
    IN  Set(x, "triggers", Over([t \in hit |-> [x.c.triggers[t] EXCEPT !.mode = a.mode]], x.c.triggers))

SettingEffect(w, a) ==
    LET rel == Rel(w.c, a.id)
    IN  CASE a.do = "trigger" -> SetTriggerModes(w, a)
          [] a.do = "owner"   -> SetRelationOwner(w, a.id, a.owner)
          [] a.do = "rule"    ->
                SetField(w, a.id, [rel EXCEPT !.rules = {r \in @ : r[1] # a.name} \cup {<<a.name, a.mode>>}])
          [] a.do = "cluster" ->
                SetField(w, a.id, [rel EXCEPT !.cluster = IF a.index = <<>> THEN <<>> ELSE <<a.index[2]>>])
          [] a.do = "replica" ->
                SetField(w, a.id, [rel EXCEPT !.replica = IF a.index = <<>> THEN a.value
                                                          ELSE <<"index", a.index[2]>>])
          [] a.do = "of"          -> SetField(w, a.id, [rel EXCEPT !.oftype = a.type])
          [] a.do = "persistence" -> SetField(w, a.id, [rel EXCEPT !.pers = a.value])
          [] a.do = "rls"         -> SetField(w, a.id, [rel EXCEPT !.rls = a.value])
          [] a.do = "set_opts"    -> SetField(w, a.id, store_relation_options(rel, a.opts))
          [] a.do = "reset_opts"  -> SetField(w, a.id, ResetOptions(rel, a.opts))
          [] a.do \in {"column_inheritance", "reshape"} -> Taint(w)
          [] OTHER -> w

AlterTableEffect(w, a) ==
    CASE a.do \in ColumnActions \cup {"add_column"} -> ColumnEffect(w, a)
      [] a.do \in {"add_fk", "add_check", "add_exclude", "add_unique", "add_pk", "drop_con",
                   "rename_con", "validate", "alter_con"} -> ConstraintEffect(w, a)
      [] a.do = "attach" -> AttachEffect(w, a)
      [] a.do = "detach" -> DetachEffect(w, a)
      [] a.do \in {"inherit", "no_inherit"} -> InheritEffect(w, a)
      [] OTHER -> SettingEffect(w, a)

AlterTable ==
    \E s \in Offered(AlterTableStmts) :
        SettleRun(RunActions(Work, s, AlterTableVerdict, AlterTableEffect))
=============================================================================
