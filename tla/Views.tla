------------------------------- MODULE Views -------------------------------
(***************************************************************************)
(* Views, materialized views and the storage options of relations          *)
(* (state/apply_view_index.rs).  An option is [ns, name, on, good, known,  *)
(* value]: its namespace, the targets whose option table has it, whether   *)
(* its value is in the domain, whether any table has the name, and whether *)
(* a value was written.  The tables themselves (model/reloption.rs) are    *)
(* data.  The order of a view's columns is left out.                       *)
(***************************************************************************)
EXTENDS TableLifecycle

CONSTANTS
    CreateViewStmts,   \* id replace deps cols list complete upd opts routines types badagg
    CreateMatviewStmts,\* id ifnot deps cols list complete nodata opts routines types
    RefreshStmts,      \* id conc nodata
    AlterViewStmts,    \* id kind ifexists actions
    DropViewStmts      \* kind ids ifexists cascade co

------------------------------------------------------------------------------
(* Storage options.                                                         *)

Written(opts, ns) == SelectSeq(opts, LAMBDA o : o.ns = ns)

(* validate_option_set: one array of options, as PostgreSQL parses it.     *)
validate_option_set(opts, target) ==
    LET one(i) ==
            Reject(\E j \in 1..(i - 1) : opts[j].name = opts[i].name)
            ?? Reject(target \notin opts[i].on /\ opts[i].known)
            ?? Reject(target \in opts[i].on /\ ~opts[i].good)
    IN  Each([i \in DOMAIN opts |-> i], one)

(* toast is "ignored", "validated" or "unknown"; the faults of a set that  *)
(* may not be parsed at all are uncertain.                                 *)
validate_reloptions(opts, target, toast) ==
    Reject(\E i \in DOMAIN opts : opts[i].ns \notin {"", "toast"})
    ?? (IF target = "partitioned" THEN Reject(Written(opts, "") # <<>>)
        ELSE validate_option_set(Written(opts, ""), target))
    ?? (IF toast = "validated" THEN validate_option_set(Written(opts, "toast"), "toast") ELSE "ok")

alter_table_reloption_target(rel) ==
    IF rel.kind = "table" /\ rel.part # "none" THEN "partitioned" ELSE rel.kind
relation_toast_options(target) == IF target \in {"view", "partitioned"} THEN "ignored" ELSE "unknown"

has_check_option(opts) == \E i \in DOMAIN opts : opts[i].ns = "" /\ opts[i].name = "check_option"
validate_check_option(opts, upd) == Reject(has_check_option(opts) /\ upd = "no")

(* ALTER TABLE, VIEW or MATERIALIZED VIEW ... SET (...) and RESET (...);   *)
(* a foreign table has neither.                                            *)
validate_set_options(c, id, opts) ==
    LET target == alter_table_reloption_target(Rel(c, id))
    IN  Reject(target = "foreign")
        ?? validate_reloptions(opts, target, relation_toast_options(target))
        ?? (IF target = "view" THEN validate_check_option(opts, Rel(c, id).upd) ELSE "ok")

reset_reloption_names(opts) == Reject(\E i \in DOMAIN opts : opts[i].value)
validate_reset_options(c, id, opts) ==
    Reject(Rel(c, id).kind = "foreign") ?? reset_reloption_names(opts)

validate_column_options(opts) ==
    Reject(\E i \in DOMAIN opts : opts[i].ns # "") ?? validate_option_set(opts, "column")

validate_index_set_options(c, id, opts) ==
    Reject(\E i \in DOMAIN opts : opts[i].ns \notin {"", "toast"})
    ?? (IF \E e \in index_edge(c, id) : e.shape = "btree"
        THEN validate_reloptions(opts, "btree", "ignored") ELSE "ok")

(* A toast option configures another relation.                             *)
StoredKeys(col, opts) == {<<col, o.name>> : o \in ToSet(Written(opts, ""))}
store_relation_options(rel, opts) == [rel EXCEPT !.opts = @ \cup StoredKeys("", opts)]
ResetOptions(rel, opts) ==
    [rel EXCEPT !.opts = @ \ {<<"", o.name>> : o \in ToSet(opts)}]

------------------------------------------------------------------------------
(* CREATE VIEW and CREATE MATERIALIZED VIEW.                                *)

validate_view_dependencies(c, s) ==
    All(s.deps \ {s.id}, LAMBDA id : Ensure(RelationLookup(c, id, AnyRelation)))

(* An explicit list names a prefix of the projection.                      *)
TooManyNames(s) == s.complete /\ Len(s.list) > Len(s.cols)
name_view_columns(s) ==
    LET name(i) == IF i <= Len(s.list) THEN s.list[i] ELSE s.cols[i].name
    IN  [n \in {name(i) : i \in DOMAIN s.cols} |->
            Column(s.cols[CHOOSE i \in DOMAIN s.cols : name(i) = n].ty, TRUE, <<>>, "plain", {})]

(* CREATE OR REPLACE may only append columns.                              *)
check_replaced_view_columns(old, new) ==
    LET column(n) ==
            Doubt(<<>> \in {old[n].ty, new[n].ty} /\ old[n].ty # new[n].ty)
            ?? Reject(old[n].ty # new[n].ty)
    IN  Doubt(DOMAIN old = {}) ?? Reject(~(DOMAIN old \subseteq DOMAIN new)) ?? All(DOMAIN old, column)

IsView(c, id) == RelationLookup(c, id, {"view"}) = "present"

CreateViewVerdict(c, s) ==
    Reject(s.badagg) ?? EnsureSchema(c, s.id[1])
    ?? Reject(NameTaken(c, s.id) /\ ~(s.replace /\ IsView(c, s.id)))
    ?? validate_view_dependencies(c, s)
    ?? validate_check_option(s.opts, s.upd)
    ?? Reject(TooManyNames(s))
    ?? validate_reloptions(s.opts, "view", "ignored")
    ?? (IF s.complete /\ IsView(c, s.id)
        THEN check_replaced_view_columns(Rel(c, s.id).cols, name_view_columns(s)) ELSE "ok")

ViewEdges(s, gen) ==
    {[k |-> "view", d |-> s.id, r |-> id, gen |-> gen, col |-> ""] : id \in s.deps}
    \cup {[k |-> "viewfn", d |-> s.id, r |-> f.r, written |-> f.written] : f \in s.routines}
    \cup {[k |-> "viewtype", d |-> s.id, r |-> t] : t \in s.types}

(* A replaced view keeps its owner and metadata; its generation, columns,  *)
(* options and dependencies are new.                                       *)
CreateViewEffect(w, s) ==
    LET x   == Bump(Snap(w, "relations", {s.id}))
        old == IsView(w.c, s.id)
        base == IF old THEN Rel(x.c, s.id) ELSE NewRelation(x.c, "view", <<>>)
        rel == [base EXCEPT !.gen = x.c.gen, !.complete = s.complete, !.upd = s.upd,
                            !.cols = IF s.complete THEN name_view_columns(s) ELSE @,
                            !.opts = StoredKeys("", s.opts)]
        y   == Retain(Assign(x, "relations", s.id, rel),
                      LAMBDA e : ~(old /\ e.d = s.id /\ e.k \in {"view", "viewfn", "viewtype"}))
    IN  Set(y, "edges", y.c.edges \cup ViewEdges(s, x.c.gen))

CreateView ==
    \E s \in Offered(CreateViewStmts) : Settle(CreateViewVerdict(cat, s), CreateViewEffect(Work, s))

CreateMatviewVerdict(c, s) ==
    CreateTarget(c, s.id, s.ifnot) ?? validate_view_dependencies(c, s)
    ?? validate_reloptions(s.opts, "matview", "validated") ?? Reject(TooManyNames(s))

CreateMatviewEffect(w, s) ==
    LET x   == Bump(Snap(w, "relations", {s.id}))
        rel == [NewRelation(x.c, "matview", IF s.complete THEN name_view_columns(s) ELSE <<>>)
                  EXCEPT !.complete = s.complete, !.opts = StoredKeys("", s.opts),
                         !.pop = IF s.nodata THEN "no" ELSE "yes"]
        y   == SnapGraphFull(Assign(x, "relations", s.id, rel))
    IN  Set(y, "edges", y.c.edges \cup ViewEdges(s, x.c.gen))

CreateMaterializedView ==
    \E s \in Offered(CreateMatviewStmts) : Settle(CreateMatviewVerdict(cat, s), CreateMatviewEffect(Work, s))

------------------------------------------------------------------------------
(* REFRESH MATERIALIZED VIEW; the concurrent form wants a populated view,  *)
(* a unique index over plain columns, and no surrounding transaction.      *)

has_usable_unique_index(c, id) ==
    \E e \in IndexesOn(c, id) : e.unique /\ e.valid /\ e.known /\ e.shape = "btree"

UnresolvedHere(p) == IF p THEN "unresolved_statement" ELSE "ok"

RefreshVerdict(c, s) ==
    Reject(s.conc /\ txn # "none") ?? Ensure(RelationLookup(c, s.id, {"matview"}))
    ?? (IF ~s.conc THEN "ok"
        ELSE Reject(Rel(c, s.id).pop = "no") ?? UnresolvedHere(Rel(c, s.id).pop = "unknown")
             ?? Reject(s.nodata)
             ?? (IF has_usable_unique_index(c, s.id) THEN "ok"
                 ELSE UnresolvedHere(ScopedFamilyObject(c, s.id, "indexes")) ?? "conflict"))

RefreshMaterializedView ==
    \E s \in Offered(RefreshStmts) :
        Settle(RefreshVerdict(cat, s),
               Assign(Work, "relations", s.id,
                      [Rel(cat, s.id) EXCEPT !.pop = IF s.nodata THEN "no" ELSE "yes"]))

------------------------------------------------------------------------------
(* ALTER VIEW and ALTER MATERIALIZED VIEW: do is "rename" (to), "owner"    *)
(* (owner), "default" (col dflt), "set" or "reset" (opts), or "other" for  *)
(* an action that is opaque to the code.                                   *)

ViewActionVerdict(c, a) ==
    CASE a.do = "rename"  -> RenameRelationVerdict(c, [old |-> a.id, new |-> a.to])
      [] a.do = "owner"   -> ChangeRelationOwnerVerdict(c, a)
      [] a.do = "default" -> Skip(~Present(c.relations, a.id))
                             ?? Reject(a.col \notin DOMAIN Rel(c, a.id).cols)
      [] a.do = "set"     -> Skip(~Present(c.relations, a.id)) ?? validate_set_options(c, a.id, a.opts)
      [] a.do = "reset"   -> reset_reloption_names(a.opts) ?? Skip(~Present(c.relations, a.id))
      [] OTHER            -> "ok"

ViewActionEffect(w, a) ==
    CASE a.do = "rename"  -> RenameRelationEffect(w, [old |-> a.id, new |-> a.to])
      [] a.do = "owner"   -> SetRelationOwner(w, a.id, a.owner)
      [] a.do = "default" -> Assign(w, "relations", a.id, [Rel(w.c, a.id) EXCEPT !.cols[a.col].dflt = a.dflt])
      [] a.do = "set"     -> Assign(w, "relations", a.id, store_relation_options(Rel(w.c, a.id), a.opts))
      [] a.do = "reset"   -> Assign(w, "relations", a.id, ResetOptions(Rel(w.c, a.id), a.opts))
      [] OTHER            -> Taint(w)

AlterViewFamily ==
    \E s \in Offered(AlterViewStmts) :
        LET look == EnsureOrSkip(RelationLookup(cat, s.id, {s.kind}), s.ifexists)
        IN  IF look = "ok"
            THEN SettleRun(RunActions(Work, s.actions, ViewActionVerdict, ViewActionEffect))
            ELSE Settle(look, Work)

------------------------------------------------------------------------------
(* DROP VIEW and DROP MATERIALIZED VIEW.                                    *)

has_external_view_dependents(c, roots, co) ==
    \E e \in Kind(c.edges, {"view"}) :
        /\ EdgeIsCurrent(c, e)
        /\ ResolveRename(c.edges, e.r) \in roots
        /\ ResolveRename(c.edges, e.d) \notin roots \cup co

(* A mutant: edges to what is dropped stay where the dependent end does.   *)
remove_dropped_relation_edges_from(w, rels, indexes) ==
    LET R(id) == ResolveRename(w.c.edges, id)
    IN  Retain(w, LAMBDA e : R(e.d) \notin rels \cup indexes)

remove_dropped_relation_edges(w, rels, indexes) ==
    LET R(id) == ResolveRename(w.c.edges, id)
    IN  Retain(w, LAMBDA e : R(e.d) \notin rels \cup indexes /\ R(e.r) \notin rels)

DropClosureMembers(w, ids, gone, here) ==
    LET trgs == {t \in Live(w.c.triggers) : ResolveRename(w.c.edges, w.c.triggers[t].table) \in here}
        doubt == \/ \E id \in ids : ScopedFamilyObject(w.c, id, "relations")
                 \/ ~(gone.relations \subseteq DOMAIN w.c.relations)
    IN  remove_dropped_constraints(
            DropKeys(DropKeys(TaintIf(w, doubt), "relations", here), "triggers", trgs),
            gone.relations, gone.constraints)

DropClosed(w, ids, gone) ==
    remove_dropped_relation_edges(
        DropClosureMembers(w, ids, gone, {id \in gone.relations : Present(w.c.relations, id)}),
        gone.relations, gone.indexes)

(* apply_drop_relation_family: only what is modelled is marked dropped;    *)
(* the edges of everything in the closure go.                              *)
apply_drop_relation_family(w, ids, cascade) ==
    DropClosed(w, ids, IF cascade THEN cascade_for_relations(w.c, ids)
                       ELSE [relations |-> ids, indexes |-> {}, constraints |-> {}])

drop_cascaded_views(w, views) ==
    IF views = {} THEN w ELSE apply_drop_relation_family(w, views, TRUE)

DropViewTargets(c, s) == {id \in ToSet(s.ids) : RelationLookup(c, id, {s.kind}) = "present"}

DropViewVerdict(c, s) ==
    LET now == DropViewTargets(c, s)
    IN  Reject(\E id \in ToSet(s.ids) : ExtensionMember(c, "relation", id))
        ?? EnsureDropTargets(s.ids, s.ifexists, LAMBDA id : RelationLookup(c, id, {s.kind}))
        ?? Skip(now = {})
        ?? Reject(~s.cascade /\ has_external_view_dependents(c, now, s.co))

DropView ==
    \E s \in Offered(DropViewStmts) :
        Settle(DropViewVerdict(cat, s),
               apply_drop_relation_family(Work, DropViewTargets(cat, s), s.cascade))
=============================================================================
