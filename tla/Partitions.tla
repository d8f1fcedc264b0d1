----------------------------- MODULE Partitions -----------------------------
(***************************************************************************)
(* What the relation handlers share about partitions                       *)
(* (state/apply_relation/partition.rs): the predicates of partitions, the  *)
(* compatibility of a table with a partitioned parent, the clones of row   *)
(* triggers, and the indexes and key constraints a partition receives.     *)
(*                                                                         *)
(* A bound is <<>>, <<"default">> or <<strategy, b>>; a predicate is <<>>  *)
(* (unknown), <<"is", {b}>> (the rows of one bound) or <<"not", bs>> (the  *)
(* rows of no bound).  The text of the predicates is left out; the         *)
(* comparison it encodes is PartitionBounds'.                              *)
(***************************************************************************)
EXTENDS IndexTopology

Rel(c, id) == c.relations[id]
Children(c, id) == {e.d : e \in {f \in Kind(c.edges, {"part"}) : f.r = id}}
ConstraintsOf(c, t, kinds) ==
    {k \in DOMAIN c.constraints : k[1] = t /\ c.constraints[k].kind \in kinds}

(* The columns a constraint of t covers, as far as an edge records them.   *)
ConstraintColumns(c, t, name, kinds) ==
    {e.cols : e \in {f \in Kind(c.edges, kinds) : f.d = t /\ f.r = t /\ f.con = name}}

ConEdge(t, name, cols, pk) ==
    [k |-> "con", d |-> t, r |-> t, con |-> name, cols |-> cols, pk |-> pk]
ConDepEdge(t, name, cols) ==
    [k |-> "condep", d |-> t, r |-> t, con |-> name, cols |-> cols]
ChildEdge(kind, child, parent) == [k |-> kind, d |-> child, r |-> parent]

(* inherited_descendants: everything below root; a partition whose         *)
(* concurrent detach is pending is no longer below it.                     *)
inherited_descendants(c, root) ==
    LET E == Kind(c.edges, {"inherit", "part"})
        down(S) == {e.d : e \in {f \in E : f.r \in S}}
    IN  Reach({root}, down, Cardinality(E)) \ {root}

invalidate_descendant_partition_predicates(w, root) ==
    LET below == {d \in inherited_descendants(w.c, root) : Present(w.c.relations, d)}
        x     == Snap(w, "relations", below)
    IN  Set(x, "relations", Over([d \in below |-> [Rel(x.c, d) EXCEPT !.pcheck = <<>>]], x.c.relations))

(* Key columns that are plain identifiers; <<>> when they are expressions. *)
partition_key_columns(c, parent) ==
    IF Present(c.relations, parent) THEN Rel(c, parent).pkeys ELSE <<>>

(* A predicate can be written down for RANGE and single-column LIST keys   *)
(* of builtin types, and a bound of the parent's strategy.                 *)
synthesize_partition_check(strategy, bound, keys, rel) ==
    LET plain(col) == col \in DOMAIN rel.cols /\ rel.cols[col].ty # <<>>
                      /\ rel.cols[col].ty[1] = "pg_catalog"
    IN  IF /\ keys # <<>> /\ \A i \in DOMAIN keys : plain(keys[i])
           /\ Len(bound) = 2 /\ bound[1] = strategy
           /\ strategy = "range" \/ (strategy = "list" /\ Len(keys) = 1)
        THEN <<"is", {bound}>> ELSE <<>>

(* The DEFAULT partition holds what no sibling with a known predicate does. *)
synthesize_default_partition_constraint(c, parent) ==
    LET keys == partition_key_columns(c, parent)
        strategy == IF Present(c.relations, parent) THEN Rel(c, parent).part ELSE "none"
        bounds == {Rel(c, d).bound : d \in {x \in Children(c, parent) :
                      /\ Present(c.relations, x)
                      /\ synthesize_partition_check(strategy, Rel(c, x).bound, keys, Rel(c, x)) # <<>>}}
    IN  IF strategy = "none" \/ keys = <<>> \/ bounds = {} THEN <<>> ELSE <<"not", bounds>>

(* The predicate a new or newly attached partition caches.                 *)
PartitionPredicate(c, parent, child) ==
    LET rel == Rel(c, child)
    IN  CASE rel.bound = <<>> -> <<>>
          [] rel.bound = <<"default">> -> synthesize_default_partition_constraint(c, parent)
          [] OTHER -> synthesize_partition_check(Rel(c, parent).part, rel.bound,
                                                 partition_key_columns(c, parent), rel)

(* The predicate of the DEFAULT sibling changes with every attachment; the *)
(* code writes it without a snapshot of the relation.                      *)
refresh_default_partition_constraints(w, parent) ==
    LET defaults == {d \in Children(w.c, parent) :
                        Present(w.c.relations, d) /\ Rel(w.c, d).bound = <<"default">>}
        p == synthesize_default_partition_constraint(w.c, parent)
    IN  Set(w, "relations", Over([d \in defaults |-> [Rel(w.c, d) EXCEPT !.pcheck = p]], w.c.relations))

(* The CHECK a detached partition keeps: "none" for hash partitions, the   *)
(* cached predicate when there is one, else what the bound says if the     *)
(* parent is not a partition itself; <<>> when it cannot be resolved.      *)
retained_check_for_detached_partition(c, parent, child) ==
    LET rel == Rel(c, child)
        strategy == IF Present(c.relations, parent) THEN Rel(c, parent).part ELSE "none"
        nested == \E e \in Kind(c.edges, {"part", "pending"}) : e.d = parent
    IN  CASE ~Present(c.relations, child) \/ strategy = "none" -> <<>>
          [] strategy = "hash"  -> <<"none">>
          [] rel.pcheck # <<>>  -> rel.pcheck
          [] rel.bound = <<>> \/ nested -> <<>>
          [] OTHER -> synthesize_partition_check(strategy, rel.bound,
                                                 partition_key_columns(c, parent), rel)

(* The predicate names the key columns; they must all be on the child.     *)
register_retained_partition_check(w, child, def, keys) ==
    LET cols == {keys[i] : i \in DOMAIN keys}
        name == FreshConstraintName(w.c, child, {})
        con  == [kind |-> "check", valid |-> TRUE, def |-> def, index |-> <<>>]
    IN  IF cols \subseteq DOMAIN Rel(w.c, child).cols
        THEN AddEdges(Assign(w, "constraints", <<child, name>>, con),
                      {ConDepEdge(child, name, cols)})
        ELSE Taint(w)

(* Row triggers of the parent, which every partition gets a clone of.      *)
partition_row_trigger_plans(c, parent) ==
    {t \in Live(c.triggers) : c.triggers[t].table = parent /\ c.triggers[t].row}

CloneId(t, child) == <<child[1], child[2], t[3]>>
TriggerClash(c, parent, child) ==
    \E t \in partition_row_trigger_plans(c, parent) : Present(c.triggers, CloneId(t, child))

(* partition_attachment_is_compatible: the child has exactly the parent's  *)
(* columns, with the same types and at least the parent's NOT NULLs, its   *)
(* CHECKs, and no differing key under the name of a parent's key.          *)
partition_attachment_is_compatible(c, parent, child) ==
    LET P == Rel(c, parent).cols
        C == Rel(c, child).cols
        column(n) ==
            Doubt(<<>> \in {P[n].ty, C[n].ty}) ?? Reject(P[n].ty # C[n].ty)
            ?? Reject(~P[n].null /\ C[n].null)
            ?? Reject((P[n].how = "generated") # (C[n].how = "generated"))
        check(k) ==
            LET mine == <<child, k[2]>>
            IN  Reject(mine \notin ConstraintsOf(c, child, {"check"}))
                ?? Doubt(<<>> \in {c.constraints[k].def, c.constraints[mine].def})
                ?? Reject(c.constraints[k].def # c.constraints[mine].def)
        key(k) ==
            LET mine == <<child, k[2]>>
                pc == ConstraintColumns(c, parent, k[2], {"con"})
                cc == ConstraintColumns(c, child, k[2], {"con"})
            IN  IF mine \notin DOMAIN c.constraints THEN "ok"
                ELSE Reject(c.constraints[mine].kind # c.constraints[k].kind)
                     ?? Doubt({} \in {pc, cc}) ?? Reject(pc # cc)
    IN  Doubt(~Present(c.relations, parent) \/ ~Present(c.relations, child))
        ?? Reject(DOMAIN P # DOMAIN C)
        ?? All(DOMAIN P, column)
        ?? All(ConstraintsOf(c, parent, {"check"}), check)
        ?? All(ConstraintsOf(c, parent, KeyKinds), key)
        ?? Reject(TriggerClash(c, parent, child))

CloneTrigger(w, t, tr) ==
    [SnapGraphFull(Snap(Assign(w, "triggers", CloneId(t, tr.table), tr), "relations", {tr.table})) EXCEPT
        !.c.relations[tr.table].trg = @ \cup {t[3]},
        !.c.edges = @ \cup {[k |-> "trigger", d |-> CloneId(t, tr.table), r |-> tr.table,
                             trg |-> CloneId(t, tr.table), fn |-> tr.fn, gen |-> tr.gen]}]

CloneTriggerTo(w, t, child) ==
    CloneTrigger(w, t, [w.c.triggers[t] EXCEPT !.table = child, !.parent = t, !.gen = w.c.gen])

(* One clone per row trigger, each with a generation of its own.           *)
clone_row_triggers_to_partition(w, parent, child) ==
    FoldSet(LAMBDA t, x : CloneTriggerTo(Bump(x), t, child), w, partition_row_trigger_plans(w.c, parent))

remove_partition_trigger_clones(w, parent, child) ==
    LET gone == {t \in Live(w.c.triggers) :
                    /\ w.c.triggers[t].table = child
                    /\ Present(w.c.triggers, w.c.triggers[t].parent)
                    /\ w.c.triggers[w.c.triggers[t].parent].table = parent}
        x == DropKeys(Snap(w, "relations", {child}), "triggers", gone)
    IN  IF gone = {} THEN w
        ELSE Retain([x EXCEPT !.c.relations[child].trg = @ \ {t[3] : t \in gone}],
                    LAMBDA e : e.d \notin gone)

ClonedKey(w, child, con, name, cols) ==
    IF cols = {} THEN Taint(Assign(w, "constraints", <<child, name>>, con))
    ELSE AddEdges(Assign(w, "constraints", <<child, name>>, con),
                  {ConEdge(child, name, CHOOSE s \in cols : TRUE, con.kind = "pk")})

CloneKeys(r, parent, child, ks) ==
    IF ks = {} \/ constraint_backing(r.w.c, r.id) # "none" THEN r.w
    ELSE LET k == CHOOSE y \in ks : TRUE
         IN  ClonedKey(r.w, child, [kind |-> r.w.c.constraints[k].kind, valid |-> TRUE, def |-> <<>>, index |-> r.id],
                       FreshConstraintName(r.w.c, child, {}), ConstraintColumns(r.w.c, parent, k[2], {"con"}))

CloneKeysOf(r, parent, child, index) ==
    CloneKeys(r, parent, child,
              {k \in ConstraintsOf(r.w.c, parent, KeyKinds) : r.w.c.constraints[k].index = index})

(* Every index of the parent gets an attached child, and every key of the  *)
(* parent a clone, unless the reused index backs a constraint already.     *)
ensure_partition_indexes_and_constraints(w, parent, child) ==
    FoldSet(LAMBDA pe, x : CloneKeysOf(ensure_partition_index_child(x, pe.d, child, pe, "attach"),
                                       parent, child, pe.d),
            w, IndexesOn(w.c, parent))
=============================================================================
