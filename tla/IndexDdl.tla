------------------------------ MODULE IndexDdl ------------------------------
(***************************************************************************)
(* CREATE, ALTER and DROP INDEX (state/apply_view_index.rs and             *)
(* apply_misc.rs) and the maintenance statements of apply_misc.rs.         *)
(***************************************************************************)
EXTENDS Views

CONSTANTS
    CreateIndexStmts,  \* id table ifnot conc only cols unique method opclass known
    AlterIndexStmts,   \* id ifexists actions
    DropIndexStmts,    \* ids ifexists cascade conc
    MaintenanceStmts   \* do ids conc cascade restart other

PartitionedTable(c, id) == Present(c.relations, id) /\ Rel(c, id).part # "none"

(* The shape of a new index: its method, and the operator class of its key *)
(* where that is not the default.                                          *)
resolved_statement_index_keys(c, s) ==
    LET first == s.cols[1]
        cols  == Rel(c, s.table).cols
        class == statement_key_opclass(c, IF first \in DOMAIN cols THEN cols[first].ty ELSE <<>>,
                                       s.opclass)
    IN  CASE class[1] = "unresolved" -> "opaque"
          [] class[1] = "default"    -> s.method
          [] OTHER                   -> s.method \o "." \o class[2]

CreateIndexVerdict(c, s) ==
    Reject(s.conc /\ txn # "none")
    ?? CreateTarget(c, s.id, s.ifnot)
    ?? Ensure(RelationLookup(c, s.table, {"table", "matview"}))
    ?? Reject(Rel(c, s.table).complete /\ ~(ToSet(s.cols) \subseteq DOMAIN Rel(c, s.table).cols))
    ?? Reject(s.conc /\ PartitionedTable(c, s.table))

CoverPartitions(w, s, edge, parts) ==
    FoldSet(LAMBDA p, x : ensure_partition_index_child(x, s.id, p, edge, "creation").w, w, parts)

FollowChildren(w, id) == Rewrite(w, SetValid(w.c.edges, {id}, index_is_fully_attached(w.c, id)))

CreateIndexOn(w, s, edge, parts) ==
    IF s.only \/ parts = {} THEN AddEdges(w, {edge})
    ELSE FollowChildren(CoverPartitions(AddEdges(w, {edge}), s, edge, parts), s.id)

(* ON ONLY leaves the index of a table with partitions invalid; otherwise  *)
(* every partition gets a child, and the parent is valid when all are.     *)
CreateIndexEffect(w, s) ==
    LET parts == PartitionsOf(w.c.edges, s.table)
    IN  CreateIndexOn(w, s, [IndexEdge(s.id, s.table, ToSet(s.cols), s.unique, resolved_statement_index_keys(w.c, s),
                                       s.known) EXCEPT !.valid = ~(s.only /\ parts # {})], parts)

CreateIndex ==
    \E s \in Offered(CreateIndexStmts) : Settle(CreateIndexVerdict(cat, s), CreateIndexEffect(Work, s))

------------------------------------------------------------------------------
(* DROP INDEX.                                                              *)

index_lookup(c, id) ==
    CASE IndexIsPresent(c, id)       -> "present"
      [] Covers(c, id, "indexes")    -> "absent"
      [] OTHER                       -> "unknown"

DropIndexTargets(c, s) == {id \in ToSet(s.ids) : IndexIsPresent(c, id)}

(* An index of a constraint goes with the constraint, an attached one with *)
(* its parent.                                                             *)
DropIndexVerdict(c, s) ==
    LET R(id) == ResolveRename(c.edges, id)
        now   == DropIndexTargets(c, s)
        edge(id)  == CHOOSE e \in index_edge(c, id) : TRUE
        keys(id)  == {k \in DOMAIN c.constraints : R(k[1]) = R(edge(id).r)}
        loose(id) == id \in c.baseidx /\ \E k \in keys(id) :
                        c.constraints[k].kind \in BackingKinds /\ c.constraints[k].index = <<>>
        backs(id) == \E k \in keys(id) : c.constraints[k].index = R(id)
        one(id) == Reject(s.conc /\ PartitionedTable(c, R(edge(id).r)))
                   ?? Doubt(loose(id)) ?? Reject(backs(id)) ?? Doubt(edge(id).shape = "placeholder")
        held(id) == \E p \in index_parent_of(c, id) : \A i \in now : R(i) # R(p)
        target(id) == LET look == index_lookup(c, id)
                      IN  IF s.ifexists /\ look = "absent" THEN "ok" ELSE Ensure(look)
    IN  Reject(s.conc /\ txn # "none") ?? Reject(s.conc /\ s.cascade)
        ?? Reject(\E id \in ToSet(s.ids) : ExtensionMember(c, "index", id))
        ?? Each(s.ids, target)
        ?? Skip(now = {})
        ?? Doubt(\E id \in now : ScopedFamilyObject(c, id, "indexes"))
        ?? Each(SelectSeq(s.ids, LAMBDA id : id \in now), one)
        ?? Reject(\E id \in now : held(id))

(* A mutant: the replica identity goes on naming the index.                *)
clear_index_settings_cluster(rel, name) == [rel EXCEPT !.cluster = IF @ = <<name>> THEN <<>> ELSE @]

(* clear_index_settings: a relation that clustered on the index forgets    *)
(* it; one that used it as replica identity keeps the setting without it.  *)
clear_index_settings(rel, name) ==
    [rel EXCEPT !.cluster = IF @ = <<name>> THEN <<>> ELSE @,
                !.replica = IF @ = <<"index", name>> THEN <<"index">> ELSE @]

ForgetIndexes(w, edges) ==
    LET one(e, x) ==
            IF Present(x.c.relations, e.r)
            THEN Assign(x, "relations", e.r, clear_index_settings(Rel(x.c, e.r), e.d[2])) ELSE x
    IN  FoldSet(one, w, edges)

ForgottenIndexes(w, now) ==
    LET below(S) == UNION {index_partitions_of(w.c, i) : i \in S}
    IN  {ResolveRename(w.c.edges, i) : i \in Reach(now, below, Cardinality(Kind(w.c.edges, {"idxpart"})))}

ForgetIndexTree(w, gone) ==
    LET R(id) == ResolveRename(w.c.edges, id)
    IN  Retain(ForgetIndexes(w, {e \in Kind(w.c.edges, {"index"}) : R(e.d) \in gone}),
               LAMBDA e : CASE e.k = "index"   -> R(e.d) \notin gone
                            [] e.k = "idxpart" -> R(e.d) \notin gone /\ R(e.r) \notin gone
                            [] OTHER           -> TRUE)

DropIndexEffect(w, s) == ForgetIndexTree(w, ForgottenIndexes(w, DropIndexTargets(w.c, s)))

DropIndex ==
    \E s \in Offered(DropIndexStmts) : Settle(DropIndexVerdict(cat, s), DropIndexEffect(Work, s))

------------------------------------------------------------------------------
(* ALTER INDEX: do is "rename" (to), "attach" (child), "set" or "reset"    *)
(* (opts), "stats" (target), or "other" (tablespace, extension             *)
(* dependencies).                                                          *)

SetStatisticsMin == -1
SetStatisticsMax == 10000

(* A target above the maximum is clamped, not refused.                     *)
apply_alter_index_set_statistics(c, id, target) ==
    Reject(target < SetStatisticsMin)
    ?? Reject(/\ target <= SetStatisticsMax
              /\ \E e \in index_edge(c, id) : e.known /\ e.shape \notin Unestablished)

IndexActionVerdict(c, a) ==
    CASE a.do = "rename" -> RenameRelationVerdict(c, [old |-> a.id, new |-> a.to])
      [] a.do = "attach" -> Ensure(index_lookup(c, a.child)) ?? index_attach_refusal(c, a.id, a.child)
      [] a.do = "set"    -> validate_index_set_options(c, a.id, a.opts)
      [] a.do = "reset"  -> reset_reloption_names(a.opts)
      [] a.do = "stats"  -> apply_alter_index_set_statistics(c, a.id, a.target)
      [] OTHER           -> "ok"

IndexActionEffect(w, a) ==
    CASE a.do = "rename" -> RenameRelationEffect(w, [old |-> a.id, new |-> a.to])
      [] a.do = "attach" ->
            validate_partitioned_index(AddEdges(w, {IndexPartEdge(a.child, a.id)}), a.id)
      [] OTHER           -> w

AlterIndex ==
    \E s \in Offered(AlterIndexStmts) :
        CASE index_lookup(cat, s.id) = "present" ->
                SettleRun(RunActions(Work, s.actions, IndexActionVerdict, IndexActionEffect))
          [] s.ifexists -> Settle("ok", Work)
          [] OTHER      -> Settle(Ensure(index_lookup(cat, s.id)), Work)

------------------------------------------------------------------------------
(* LOCK TABLE, TRUNCATE, REINDEX and the database statements.  do is       *)
(* "lock", "truncate", "reindex_table", "reindex_index", "reindex_schema"  *)
(* (or DATABASE), "reindex_system", "vacuum" or "database"; other says     *)
(* that REINDEX names a database that is not the target of the analysis.   *)

MaintenanceVerdict(c, s) ==
    CASE s.do = "lock"     -> Each(s.ids, LAMBDA id : Ensure(RelationLookup(c, id, {"table"})))
      [] s.do = "truncate" -> Each(s.ids, LAMBDA id : Ensure(RelationLookup(c, id, TableLike)))
      [] s.do \in {"reindex_schema", "reindex_system"} ->
            Reject(txn # "none") ?? Reject(s.conc /\ s.do = "reindex_system") ?? Reject(s.other)
      [] s.do = "reindex_table" ->
            Reject(s.conc /\ s.ids[1][1] = "pg_catalog")
            ?? Ensure(RelationLookup(c, s.ids[1], {"table", "matview"}))
            ?? Reject(PartitionedTable(c, s.ids[1]) /\ txn # "none")
      [] s.do = "reindex_index" ->
            Reject(s.conc /\ s.ids[1][1] = "pg_catalog")
            ?? Reject(index_lookup(c, s.ids[1]) = "absent")
      [] OTHER -> "ok"

(* RESTART IDENTITY forgets where the owned sequences stand.               *)
TruncateEffect(w, s) ==
    LET owned == {q \in Live(w.c.sequences) :
                     /\ w.c.sequences[q].ownedby # <<>>
                     /\ s.cascade \/ w.c.sequences[q].ownedby[1] \in ToSet(s.ids)}
        x == Snap(w, "sequences", owned)
        forget(q) == [q EXCEPT !.exact = FALSE, !.last = Unset]
    IN  Taint(Set(x, "sequences", Over([q \in owned |-> forget(x.c.sequences[q])], x.c.sequences)))

MaintenanceEffect(w, s) ==
    CASE s.do = "truncate" /\ s.restart -> TruncateEffect(w, s)
      [] s.do = "reindex_index" ->
            IF IndexIsPresent(w.c, s.ids[1]) THEN mark_index_valid(w, s.ids[1]) ELSE Taint(w)
      [] s.do = "database" -> Taint(w)
      [] OTHER -> w

Maintain ==
    \E s \in Offered(MaintenanceStmts) : Settle(MaintenanceVerdict(cat, s), MaintenanceEffect(Work, s))
=============================================================================
