-------------------------- MODULE AlterTableChecks --------------------------
(***************************************************************************)
(* The checks of ALTER TABLE (state/apply_relation/alter_table/mod.rs).    *)
(* An action is a record with id (the table), only, do and, as do needs:   *)
(*   add_column col ifnot          drop_column name ifexists cascade       *)
(*   rename_column name to         set_not_null, drop_not_null name        *)
(*   set_type name ty              set_default name dflt                   *)
(*   compression name pglz         column_storage name                     *)
(*   set_col_opts, reset_col_opts name opts                                *)
(*   set_expr name expr            drop_expr name ifexists                 *)
(*   add_fk fk notvalid            add_check, add_exclude con notvalid     *)
(*   add_unique, add_pk con using  drop_con name ifexists                  *)
(*   validate name                 rename_con name to                      *)
(*   alter_con name                attach child strategy bound             *)
(*   detach child mode             inherit, no_inherit parent              *)
(*   cluster index                 replica index value                     *)
(*   of type                       trigger name mode                       *)
(*   rule name mode                owner owner                             *)
(*   set_opts, reset_opts opts     persistence value                       *)
(*   rls value                     storage (access method, tablespace)     *)
(*   column_inheritance, reshape (opaque to the code)                      *)
(* A name that is not written is "", an identity that is not is <<>>.      *)
(***************************************************************************)
EXTENDS Triggers

(* The provenance of an inherited column that the catalog does not give.   *)
Unprovenanced == -1

(* alter_table_action_permits: the kinds of relation each action is for.   *)
Permitted(a) ==
    LET tables == {"table", "partitioned"}
        like   == tables \cup {"foreign"}
    IN  CASE a.do \in {"rename_column", "owner"} -> like \cup {"view", "matview"}
          [] a.do \in {"add_unique", "add_pk"} -> IF a.using = <<>> THEN like ELSE tables
          [] a.do = "set_default" -> like \cup {"view"}
          [] a.do \in {"set_col_opts", "reset_col_opts", "column_storage"} -> like \cup {"matview"}
          [] a.do \in {"set_opts", "reset_opts"} -> tables \cup {"view", "matview"}
          [] a.do \in {"compression", "storage", "cluster", "replica"} -> tables \cup {"matview"}
          [] a.do = "persistence" -> {"table"}
          [] a.do \in {"alter_con", "rls", "rule", "of", "reshape"} -> tables
          [] a.do \in {"attach", "detach"} -> {"partitioned"}
          [] OTHER -> like

ColumnsKnown(rel) == DOMAIN rel.cols # {} \/ rel.counted

(* A column rename follows the inheritance tree; a descendant must have    *)
(* the column from parents inside the tree only.                           *)
RenamedTree(c, a) == IF a.only THEN {} ELSE inherited_descendants(c, a.id)
OpaqueGenerated(rel) ==
    \E n \in DOMAIN rel.cols : rel.cols[n].how = "generated" /\ "?" \in rel.cols[n].expr

RecursiveRenameVerdict(c, a) ==
    LET tree == RenamedTree(c, a)
        edges == Kind(c.edges, {"inherit", "part"})
        inside(d) == Cardinality({e \in edges : e.d = d /\ e.r \in tree \cup {a.id}})
        descendant(d) ==
            Doubt(~Present(c.relations, d)) ?? Reject(a.to \in DOMAIN Rel(c, d).cols)
            ?? Doubt(OpaqueGenerated(Rel(c, d)))
            ?? Doubt(a.name \notin DOMAIN Rel(c, d).cols
                     \/ Rel(c, d).cols[a.name].parents = Unprovenanced)
            ?? Reject(Rel(c, d).cols[a.name].parents > inside(d))
        hasChild == \E e \in Kind(c.edges, {"inherit", "part", "pending"}) :
                       ResolveRename(c.edges, e.r) = ResolveRename(c.edges, a.id)
    IN  All(tree, descendant) ?? Reject(a.only /\ hasChild)

(* Columns: the one an action names exists, a new one does not.            *)
ColumnActions ==
    {"drop_column", "rename_column", "set_not_null", "drop_not_null", "set_type", "set_default",
     "compression", "column_storage", "set_col_opts", "reset_col_opts", "set_expr", "drop_expr"}

ColumnVerdict(c, a) ==
    LET rel == Rel(c, a.id)
        has(n) == n \in DOMAIN rel.cols
        generated == rel.cols[a.name].how = "generated"
        missing == ~has(a.name)
    IN  CASE a.do = "add_column" -> IF has(a.col.name) THEN Skip(a.ifnot) ?? "conflict" ELSE "ok"
          [] a.do \notin ColumnActions -> "ok"
          [] ~ColumnsKnown(rel) -> "unresolved"
          [] a.do = "drop_column" /\ missing -> Skip(a.ifexists) ?? "conflict"
          [] missing -> "conflict"
          [] a.do = "rename_column" -> Reject(has(a.to)) ?? Doubt(OpaqueGenerated(rel))
          [] a.do = "compression" -> UnresolvedHere(~a.pglz)
          [] a.do = "set_expr" ->
                Reject(~generated) ?? UnresolvedHere("?" \in a.expr)
                ?? Reject(\E r \in a.expr : r = a.name \/ ~has(r))
          [] a.do = "drop_expr" -> IF generated THEN "ok" ELSE Skip(a.ifexists) ?? "conflict"
          [] OTHER -> "ok"

------------------------------------------------------------------------------
(* Constraints.                                                             *)

(* The name a constraint gets: the written one, that of the index it takes *)
(* over, or a generated one.                                               *)
AddedName(c, a) ==
    LET name == IF a.do = "add_fk" THEN a.fk.name ELSE a.con.name
    IN  CASE name # "" -> name
          [] a.do \in {"add_unique", "add_pk"} /\ a.using # <<>> -> a.using[2]
          [] a.do \in {"add_fk", "add_check"} -> FreshConstraintName(c, a.id, {})
          [] OTHER -> FreshRelationName(c, a.id[1], {})

AddKeyVerdict(c, a) ==
    LET rel == Rel(c, a.id)
        cols == a.con.cols
        name == AddedName(c, a)
    IN  (IF a.using # <<>> THEN "ok"
         ELSE Reject(cols = <<>>) ?? Reject(HasDuplicates(cols))
              ?? Reject(ColumnsKnown(rel) /\ ~(ToSet(cols) \subseteq DOMAIN rel.cols)))
        ?? Reject(a.do = "add_pk" /\ ConstraintsOf(c, a.id, {"pk"}) # {})
        ?? Reject(<<a.id, name>> \in DOMAIN c.constraints)
        ?? Reject(a.using = <<>> /\ NamespaceObject(c, <<a.id[1], name>>))

(* A constraint takes over a plain, usable, unique btree index of its      *)
(* table, under the constraint's name.                                     *)
UsingIndexVerdict(c, a) ==
    LET edges   == index_edge(c, a.using)
        e       == CHOOSE x \in edges : TRUE
        adopted == <<a.using[1], IF a.con.name = "" THEN a.using[2] ELSE a.con.name>>
    IN  Reject(edges = {}) ?? Reject(e.r # a.id) ?? Doubt(e.shape \in Unestablished)
        ?? Reject(~e.valid \/ ~e.unique \/ e.shape # "btree")
        ?? Reject(adopted # a.using /\ NamespaceObject(c, adopted))

ConstraintVerdict(c, a) ==
    LET there(n) == <<a.id, n>> \in DOMAIN c.constraints
        con == c.constraints[<<a.id, a.name>>]
    IN  CASE a.do = "drop_con" ->
                Reject(ExtensionMember(c, "constraint", <<a.id[1], a.id[2], a.name>>))
                ?? (CASE there(a.name) -> "ok"
                      [] Covers(c, a.id, "relations") -> Skip(a.ifexists) ?? "conflict"
                      [] OTHER -> "unresolved")
          [] a.do = "validate" -> Reject(~there(a.name))
          [] a.do = "rename_con" ->
                Reject(~there(a.name)) ?? Reject(there(a.to))
                ?? (IF con.kind \in BackingKinds /\ con.index # <<>>
                    THEN RenameRelationVerdict(c, [old |-> con.index, new |-> <<con.index[1], a.to>>])
                    ELSE "ok")
          [] a.do = "alter_con" -> Reject(a.name # "" /\ ~there(a.name))
          [] a.do \in {"add_fk", "add_check"} -> Reject(there(AddedName(c, a)))
          [] a.do = "add_exclude" ->
                Reject(there(AddedName(c, a))) ?? Reject(NameTaken(c, <<a.id[1], AddedName(c, a)>>))
          [] a.do \in {"add_unique", "add_pk"} ->
                AddKeyVerdict(c, a) ?? (IF a.using = <<>> THEN "ok" ELSE UsingIndexVerdict(c, a))
          [] OTHER -> "ok"

(* The types of the columns of a foreign key, <<>> for an unknown column.  *)
TypesOf(rel, names) ==
    [n \in names \cup DOMAIN rel.cols |-> IF n \in DOMAIN rel.cols THEN rel.cols[n].ty ELSE <<>>]
AddedKeyTypes(c, a) ==
    LET cols == ReferencedColumns(unique_keys_for_relation(c, a.fk.table), a.fk)
    IN  TypePairs(a.fk, cols, TypesOf(Rel(c, a.id), ToSet(a.fk.from)),
                  TypesOf(Rel(c, a.fk.table), cols))

AddForeignKeyVerdict(c, a) ==
    LET rel   == Rel(c, a.id)
        blind == a.id \in c.baserel /\ DOMAIN rel.cols = {}
    IN  ForeignKeyShape(a.fk, IF blind THEN ToSet(a.fk.from) ELSE DOMAIN rel.cols)
        ?? Ensure(RelationLookup(c, a.fk.table, {"table"}))
        ?? ForeignKeyTarget(c, unique_keys_for_relation(c, a.fk.table), a.fk,
                            DOMAIN Rel(c, a.fk.table).cols)
        ?? Doubt(TypesDiffer(AddedKeyTypes(c, a)))

------------------------------------------------------------------------------
(* Partitions and inheritance.                                              *)

AttachVerdict(c, a) ==
    Ensure(RelationLookup(c, a.child, TableLike))
    ?? Reject(Rel(c, a.id).part = "none")
    ?? Reject(a.strategy # "" /\ a.strategy # Rel(c, a.id).part)
    ?? Reject(CheckPartitionCycle(c.edges, a.id, a.child))
    ?? Reject(\E e \in Kind(c.edges, {"part", "pending"}) : e.d = a.child)
    ?? Reject(partition_attachment_is_compatible(c, a.id, a.child) = "conflict")

DetachVerdict(c, a) ==
    LET below == {e \in Kind(c.edges, {"part", "pending"}) : e.r = a.id}
        default(e) == Present(c.relations, e.d) /\ Rel(c, e.d).bound = <<"default">>
        kind == IF a.mode = "finalize" THEN "pending" ELSE "part"
    IN  Reject(a.mode = "conc" /\ \E e \in below : e.k = "pending" \/ default(e))
        ?? Ensure(RelationLookup(c, a.child, TableLike))
        ?? Reject(~\E e \in below : e.k = kind /\ e.d = a.child)

InheritTableVerdict(c, a) ==
    LET edge == \E e \in Kind(c.edges, {"inherit"}) : e.d = a.id /\ e.r = a.parent
        P == Rel(c, a.parent).cols
        C == Rel(c, a.id).cols
        expression(x) == IF x.how = "generated" THEN x.expr ELSE {}
        column(n) ==
            /\ n \in DOMAIN C /\ P[n].ty = C[n].ty /\ P[n].ty # <<>>
            /\ C[n].null => P[n].null
            /\ (P[n].how = "generated") = (C[n].how = "generated")
            /\ expression(P[n]) = expression(C[n])
        check(k) ==
            LET mine == <<a.id, k[2]>>
            IN  /\ mine \in ConstraintsOf(c, a.id, {"check"})
                /\ c.constraints[mine].def = c.constraints[k].def
                /\ c.constraints[k].def # <<>>
    IN  Ensure(RelationLookup(c, a.parent, TableLike))
        ?? (IF a.do = "no_inherit" THEN Reject(~edge)
            ELSE Reject(edge) ?? Reject(CheckInheritanceCycle(c.edges, a.parent, a.id))
                 ?? Reject(\E n \in DOMAIN P : ~column(n))
                 ?? Reject(\E k \in ChecksOf(c, a.parent) : ~check(k)))

------------------------------------------------------------------------------
(* Settings that name another object.                                       *)

ReplicaVerdict(c, a) ==
    LET edges == {e \in index_edge(c, a.index) : e.r = a.id}
        e == CHOOSE x \in edges : TRUE
        cols == Rel(c, a.id).cols
    IN  IF a.index = <<>> THEN "ok"
        ELSE Reject(edges = {}) ?? Doubt(e.shape \in Unestablished \/ ~e.known)
             ?? Reject(\/ ~e.valid \/ ~e.unique
                       \/ \E n \in e.cols : n \notin DOMAIN cols \/ cols[n].null)

OfTypeVerdict(c, a) ==
    LET rel == Rel(c, a.id)
        layout == [n \in DOMAIN rel.cols |-> rel.cols[n].ty]
    IN  IF a.type = <<>> THEN Reject(rel.oftype = <<>>)
        ELSE Reject(rel.oftype # <<>>)
             ?? Reject(~Present(c.types, a.type) \/ c.types[a.type].kind # "composite")
             ?? Reject(layout # c.types[a.type].fields)

NamedTriggers(c, a) ==
    {t \in Live(c.triggers) : c.triggers[t].table = a.id /\ a.name \in {"", t[3]}}

SettingVerdict(c, a) ==
    CASE a.do = "cluster" ->
            Reject(a.index # <<>> /\ ~\E e \in index_edge(c, a.index) : e.r = a.id)
      [] a.do = "replica" -> ReplicaVerdict(c, a)
      [] a.do = "of"      -> OfTypeVerdict(c, a)
      [] a.do = "trigger" -> Reject(NamedTriggers(c, a) = {} /\ a.name # "")
      [] a.do = "rule"    -> UnresolvedHere(a.name = "")
                             ?? Reject(~\E r \in Rel(c, a.id).rules : r[1] = a.name)
      [] a.do = "owner"   -> EnsureRole(c, a.owner)
      [] a.do = "set_opts"       -> validate_set_options(c, a.id, a.opts)
      [] a.do = "reset_opts"     -> validate_reset_options(c, a.id, a.opts)
      [] a.do = "set_col_opts"   -> validate_column_options(a.opts)
      [] a.do = "reset_col_opts" -> reset_reloption_names(a.opts)
      [] a.do = "set_type"       -> check_declared_type(c, a.ty)
      [] OTHER -> "ok"

------------------------------------------------------------------------------
(* ADD COLUMN of a serial or identity column makes a sequence.              *)
ImplicitSequence(c, a) ==
    IF a.col.seq # <<>> THEN a.col.seq ELSE <<a.id[1], FreshRelationName(c, a.id[1], {})>>
MakesSequence(a) == a.do = "add_column" /\ a.col.how \in {"serial", "identity"}

AddSequenceVerdict(c, a) ==
    IF ~MakesSequence(a) THEN "ok"
    ELSE Reject(NameTaken(c, ImplicitSequence(c, a)))
         ?? Reject(a.col.how = "identity" /\ IdentityRefused(a.col.ty[2], a.col.opts))

(* The current edges between the objects as they are named now.            *)
ResolvedEdges(c) ==
    {[e EXCEPT !.d = ResolveRename(c.edges, @), !.r = ResolveRename(c.edges, @)] :
        e \in {f \in c.edges : EdgeIsCurrent(c, f)}}

(* The generated columns of t over a column, E the resolved edges.         *)
GeneratedClosure(E, t, col) ==
    LET over(e, S) == e.d = t /\ e.r = t /\ e.on \in S
        first == {e.col : e \in {f \in Kind(E, {"genfrom"}) : t \in {f.d, f.r} /\ f.on = col}}
    IN  Reach(first \ {col},
              LAMBDA S : {e.col : e \in {f \in Kind(E, {"genfrom"}) : over(f, S)}} \ {col}, Cardinality(E))

(* What DROP COLUMN takes along, and what keeps it from going without      *)
(* CASCADE: generated columns over it, constraints, indexes, statistics    *)
(* and views; unknown when a dependent cannot be classified.               *)
ColumnDependents(c, table, t, col, cascade, E, over) ==
    LET gens  == IF cascade THEN over ELSE {}
        hit   == gens \cup {col}
        notnull(e) == <<e.d, e.con>> \in ConstraintsOf(c, e.d, {"notnull"})
        fks   == {e \in Kind(E, {"fk"}) : t \in {e.d, e.r}}
        mine(e) == IF e.d = t THEN e.cols ELSE e.rcols
        cons  == {e \in Kind(E, {"con", "condep"}) : e.d = t}
        goes(e) == IF e.k = "fk" THEN \/ col \in mine(e) \/ (e.d = t /\ e.cols \cap gens # {})
                                      \/ (e.r = t /\ e.rcols \cap gens # {})
                   ELSE (col \in e.cols /\ ~(e.k = "con" /\ notnull(e))) \/ e.cols \cap gens # {}
        gone  == {e \in fks \cup cons : goes(e)}
        on(k) == {e \in Kind(E, {k}) : e.r = t}
        stats == Rel(c, table).stats
        hitStats == {s \in DOMAIN stats : col \in stats[s]}
        represented(k) ==
            \E e \in Kind(c.edges, {"fk", "con", "condep"}) :
                e.con = k[2] /\ (e.d = t \/ (e.k = "fk" /\ e.r = t))
    IN  [known |-> gone # {} \/ hitStats # {} \/ over # {} \/ \E e \in on("view") : e.col = col,
         unknown |-> \/ \E e \in fks : mine(e) = {}
                     \/ \E e \in cons : e.k = "con" /\ e.cols = {} /\ ~notnull(e)
                     \/ \E e \in on("index") : ~e.known
                     \/ \E e \in on("view") : e.col = ""
                     \/ \E k \in DOMAIN c.constraints : ResolveRename(c.edges, k[1]) = t /\ ~represented(k),
         cons  |-> {<<e.d, e.con>> : e \in gone},
         indexes |-> {e.d : e \in {x \in on("index") : x.known /\ x.cols \cap hit # {}}},
         stats |-> IF cascade THEN hitStats ELSE {},
         gens  |-> gens,
         views |-> {e.d : e \in {x \in on("view") : cascade /\ x.col \in hit}}]

ScanResolved(c, table, t, col, cascade, E) ==
    ColumnDependents(c, table, t, col, cascade, E, GeneratedClosure(E, t, col))

DropColumnScan(c, table, col, cascade) ==
    ScanResolved(c, table, ResolveRename(c.edges, table), col, cascade, ResolvedEdges(c))

DropColumnVerdict(c, a) ==
    Reject(~a.cascade /\ DropColumnScan(c, a.id, a.name, FALSE).known)

------------------------------------------------------------------------------
(* All checks, in the order of the code.                                    *)
AlterTableVerdict(c, a) ==
    (IF a.do = "rename_column" THEN RecursiveRenameVerdict(c, a) ELSE "ok")
    ?? Reject(a.do = "detach" /\ a.mode = "conc" /\ txn # "none")
    ?? Ensure(RelationLookup(c, a.id, AnyRelation))
    ?? Reject(alter_table_reloption_target(Rel(c, a.id)) \notin Permitted(a))
    ?? ColumnVerdict(c, a)
    ?? ConstraintVerdict(c, a)
    ?? (CASE a.do = "attach" -> AttachVerdict(c, a)
          [] a.do = "detach" -> DetachVerdict(c, a)
          [] a.do \in {"inherit", "no_inherit"} -> InheritTableVerdict(c, a)
          [] OTHER -> "ok")
    ?? SettingVerdict(c, a)
    ?? (IF a.do = "add_fk" THEN AddForeignKeyVerdict(c, a) ELSE "ok")
    ?? AddSequenceVerdict(c, a)
    ?? (IF a.do = "drop_column" THEN DropColumnVerdict(c, a) ELSE "ok")
=============================================================================
