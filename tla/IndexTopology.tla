--------------------------- MODULE IndexTopology ---------------------------
(***************************************************************************)
(* Index-to-index partition topology (state/index_topology.rs): which      *)
(* index of a partition is attached to which index of its parent, when an  *)
(* attachment is refused, and when a partitioned index becomes valid.      *)
(* The definition of an index is its key columns, its uniqueness and a     *)
(* shape (access method, operator classes, predicate).  "opaque" is a      *)
(* shape that the statement or the catalog does not establish, and         *)
(* "placeholder" that of an index known only through its constraint.       *)
(***************************************************************************)
EXTENDS CatalogState

KeyKinds     == {"pk", "unique"}
BackingKinds == {"pk", "unique", "exclusion"}
Unestablished == {"opaque", "placeholder"}

IndexEdge(id, table, cols, unique, shape, known) ==
    [k |-> "index", d |-> id, r |-> table, cols |-> cols, valid |-> TRUE,
     unique |-> unique, shape |-> shape, known |-> known]
IndexPartEdge(child, parent) == [k |-> "idxpart", d |-> child, r |-> parent]

IndexesOn(c, table)  == {e \in Kind(c.edges, {"index"}) : e.r = table}
index_edge(c, id)    == {e \in Kind(c.edges, {"index"}) : e.d = id}
index_parent_of(c, id) == {e.r : e \in {f \in Kind(c.edges, {"idxpart"}) : f.d = id}}
index_partitions_of(c, id) ==
    {e.d : e \in {f \in Kind(c.edges, {"idxpart"}) :
                    ResolveRename(c.edges, f.r) = ResolveRename(c.edges, id)}}

(* The families of the operator classes PostgreSQL would choose: a domain  *)
(* stands for its base type, another user type for a pseudo-type, and a    *)
(* dropped type leaves the default unestablished.                          *)
default_family_for_column(c, ty) ==
    LET n == Cardinality(DOMAIN c.types)
        base[i \in 0..n] ==
            LET t == IF i = 0 THEN ty ELSE base[i - 1]
            IN  IF Present(c.types, t) /\ c.types[t].kind = "domain" THEN c.types[t].base ELSE t
        t == base[n]
    IN  CASE Tombstone(c.types, t)                             -> "none"
          [] Present(c.types, t) /\ c.types[t].kind = "base"   -> "none"
          [] Present(c.types, t)                               -> "any" \o c.types[t].kind
          [] OTHER                                             -> t[2]

(* A written class that lands in the default family is the default.        *)
statement_key_opclass(c, ty, written) ==
    CASE written = ""        -> <<"default", default_family_for_column(c, ty)>>
      [] written = "unknown" -> <<"unresolved", "">>
      [] written = default_family_for_column(c, ty) -> <<"default", written>>
      [] OTHER               -> <<"explicit", written>>

(* attach_equivalence: an unestablished shape settles nothing.             *)
attach_equivalence(a, b) ==
    CASE {a.shape, b.shape} \cap Unestablished # {} -> "unknown"
      [] a.unique = b.unique /\ a.cols = b.cols /\ a.shape = b.shape -> "identical"
      [] OTHER -> "different"

(* The kind of constraint an index backs, "none" when it backs none.       *)
constraint_backing(c, id) ==
    LET ks == {k \in DOMAIN c.constraints : c.constraints[k].index = id
                                            /\ c.constraints[k].kind \in BackingKinds}
    IN  IF ks = {} THEN "none" ELSE c.constraints[CHOOSE k \in ks : TRUE].kind

partition_key_nullability(c, child) ==
    LET e == CHOOSE x \in index_edge(c, child) : TRUE
    IN  CASE ~Present(c.relations, e.r)                    -> "unresolved"
          [] ~(e.cols \subseteq DOMAIN c.relations[e.r].cols) -> "unresolved"
          [] \E x \in e.cols : c.relations[e.r].cols[x].null  -> "conflict"
          [] OTHER                                            -> "ok"

IndexTables(c, i) == {ResolveRename(c.edges, e.r) : e \in index_edge(c, i)}

(* Another partition of the parent index on the same table.                *)
HasTwin(c, parent, child) ==
    \E i \in index_partitions_of(c, parent) :
        /\ ResolveRename(c.edges, i) # ResolveRename(c.edges, child)
        /\ IndexTables(c, i) \cap IndexTables(c, child) # {}

AttachShape(same, pk, ck) ==
    Reject(same = "different") ?? Doubt(same = "unknown")
    ?? Doubt(pk = "exclusion" /\ ck = "exclusion")
    ?? Reject(pk # ck /\ "exclusion" \in {pk, ck})
    ?? Reject(pk # "none" /\ ck = "none")

(* The checks of ALTER INDEX ... ATTACH PARTITION, in PostgreSQL's order.  *)
index_attach_refusal(c, parent, child) ==
    IF \E p \in index_parent_of(c, child) : ResolveRename(c.edges, p) = ResolveRename(c.edges, parent) THEN "ok"
    ELSE Reject(HasTwin(c, parent, child)) ?? Reject(index_parent_of(c, child) # {})
         ?? Reject(\A pt \in IndexTables(c, parent) : IndexTables(c, child) \cap PartitionsOf(c.edges, pt) = {})
         ?? AttachShape(attach_equivalence(CHOOSE e \in index_edge(c, parent) : TRUE,
                                           CHOOSE e \in index_edge(c, child) : TRUE),
                        constraint_backing(c, parent), constraint_backing(c, child))
         ?? (IF constraint_backing(c, parent) = "pk" THEN partition_key_nullability(c, child) ELSE "ok")

(* Every partition carries an attached child that is itself valid.         *)
index_is_fully_attached(c, id) ==
    \E e \in index_edge(c, id) :
        \A p \in PartitionsOf(c.edges, e.r) :
            \E i \in index_partitions_of(c, id), f \in Kind(c.edges, {"index"}) :
                f.d = i /\ f.valid /\ ResolveRename(c.edges, f.r) = ResolveRename(c.edges, p)

SetValid(E, ids, v) ==
    {IF e.k = "index" /\ e.d \in ids THEN [e EXCEPT !.valid = v] ELSE e : e \in E}

DueForValidation(c, ids) ==
    {i \in ids : \E e \in index_edge(c, i) : ~e.valid /\ index_is_fully_attached(c, i)}

ValidateLevel(st, now) ==
    IF now = {} THEN [st EXCEPT !.at = {}]
    ELSE [w  |-> Rewrite(st.w, SetValid(st.w.c.edges, now, TRUE)),
          at |-> UNION {index_parent_of(st.w.c, x) : x \in now}]

(* validate_partitioned_index: up the chain of parents, as far as each is  *)
(* invalid and now fully covered.                                          *)
validate_partitioned_index(w, id) ==
    FoldSet(LAMBDA i, st : ValidateLevel(st, DueForValidation(st.w.c, st.at)), [w |-> w, at |-> {id}],
            0..Cardinality(Kind(w.c.edges, {"idxpart"}))).w

(* A candidate for reuse is unattached, lives on the table and has an      *)
(* identical definition; attaching a table also asks for the same kind of  *)
(* constraint, creating an index only for some constraint.                 *)
Reusable(c, parent, table, template, rule) ==
    LET pk == constraint_backing(c, parent)
    IN  {e \in Kind(c.edges, {"index"}) :
            /\ index_parent_of(c, e.d) = {}
            /\ ResolveRename(c.edges, e.r) = ResolveRename(c.edges, table)
            /\ attach_equivalence(template, e) = "identical"
            /\ LET ck == constraint_backing(c, e.d)
               IN  pk # "none" => ck # "none" /\ (rule = "creation" \/ pk = ck)}

(* One step of ensure_partition_index_child: reuse or clone.               *)
ReuseChild(w, parent, e) ==
    [w |-> AddEdges(w, {IndexPartEdge(e.d, parent)}), id |-> e.d, made |-> FALSE, valid |-> e.valid]

CloneChild(w, parent, table, template, id) ==
    [w |-> AddEdges(w, {[template EXCEPT !.d = id, !.r = table, !.valid = TRUE], IndexPartEdge(id, parent)}),
     id |-> id, made |-> TRUE, valid |-> TRUE]

(* One step of ensure_partition_index_child: reuse or clone.               *)
EnsureChild(w, parent, table, template, found) ==
    IF found # {} THEN ReuseChild(w, parent, CHOOSE e \in found : TRUE)
    ELSE CloneChild(w, parent, table, template, <<table[1], FreshRelationName(w.c, table[1], {})>>)

SeenChild(st, p, root, r) ==
    [w    |-> r.w,
     id   |-> IF p = root THEN r.id ELSE st.id,
     next |-> st.next \cup (IF r.made THEN {r.id} \X PartitionsOf(st.w.c.edges, p[2]) ELSE {}),
     made |-> st.made \cup (IF r.made THEN {r.id} ELSE {}),
     bad  |-> st.bad \cup (IF r.valid THEN {} ELSE {r.id})]

EnsureVisit(st, p, root, template, rule) ==
    SeenChild(st, p, root, EnsureChild(st.w, p[1], p[2], template, Reusable(st.w.c, p[1], p[2], template, rule)))

EnsureLevel(st, root, template, rule) ==
    FoldSet(LAMBDA p, x : EnsureVisit(x, p, root, template, rule), [st EXCEPT !.next = {}], st.next)

(* A clone is invalid when something attached below it is.                 *)
BrokenClones(end) ==
    Reach(end.bad, LAMBDA S : UNION {index_parent_of(end.w.c, x) : x \in S} \cap end.made, Cardinality(end.made))
    \cap end.made

SettleClones(end, broken) ==
    [w |-> IF broken = {} THEN end.w ELSE Rewrite(end.w, SetValid(end.w.c.edges, broken, FALSE)),
     id |-> end.id, valid |-> end.id \notin broken \cup end.bad]

EnsureSettled(end) == SettleClones(end, BrokenClones(end))

(* The recursion over the partitions of a partition, level by level.       *)
ensure_partition_index_child(w, parent, table, template, rule) ==
    EnsureSettled(
        FoldSet(LAMBDA i, st : EnsureLevel(st, <<parent, table>>, template, rule),
                [w |-> w, id |-> parent, next |-> {<<parent, table>>}, made |-> {}, bad |-> {}],
                0..Cardinality(Kind(w.c.edges, {"part", "pending"}))))

(* REINDEX: a leaf index is usable again; a partitioned one follows its    *)
(* children.                                                               *)
mark_index_valid(w, id) ==
    IF \E e \in index_edge(w.c, id) : ~e.valid /\ PartitionsOf(w.c.edges, e.r) = {}
    THEN Rewrite(w, SetValid(w.c.edges, {id}, TRUE)) ELSE w

(* A mutant: the indexes of a detached partition stay attached.            *)
detach_no_indexes(w, table) == w

detach_index_partitions_of_table(w, table) ==
    LET doomed == {e.d : e \in {f \in Kind(w.c.edges, {"idxpart"}) :
                                  \E i \in IndexesOn(w.c, table) : i.d = f.d}}
    IN  IF doomed = {} THEN w
        ELSE Retain(w, LAMBDA e : ~(e.k = "idxpart" /\ e.d \in doomed))
==============================================================================
