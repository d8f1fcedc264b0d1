-------------------------- MODULE DependencyGraph --------------------------
(***************************************************************************)
(* The dependency graph of analysis/graph.rs: a set of typed edges from a  *)
(* dependent object to the object it references.  An identity is a pair    *)
(* <<schema, name>>; a routine's is a triple <<schema, name, signature>>.  *)
(* Every edge is a record with the fields k (its kind), d (dependent) and  *)
(* r (referenced); the payload of a kind adds fields of its own:           *)
(*   fk       con cols rcols gen    a foreign key of table d on table r    *)
(*   view     gen col               view d reads relation r                *)
(*   viewfn   written               view d calls routine r                 *)
(*   viewtype                       view d casts to type r                 *)
(*   index    cols valid unique     index d on relation r; shape is its    *)
(*            shape known           definition, known that of its columns  *)
(*   con      con cols pk           key constraint of table d = r          *)
(*   condep   con cols              check constraint of table d = r        *)
(*   rename   at                    d was renamed to r, at-th in order     *)
(*   inherit, part, pending         table d is a child of table r          *)
(*   idxpart                        index d is attached to index r         *)
(*   owned    col                   sequence d is owned by a column of r   *)
(*   genfrom  col on                a generated column of table d = r      *)
(*   default  col                   a default of table d reads sequence r  *)
(*   trigger  trg fn gen            trigger trg is on table r              *)
(*   pub      pub                   table d is in publication r            *)
(***************************************************************************)
EXTENDS Naturals, Sequences, FiniteSets, FiniteSetsExt

Kind(E, ks) == {e \in E : e.k \in ks}

(* Edges are deduplicated on their typed identity; a rename edge is kept   *)
(* with the position it was first inserted at.                             *)
AddEdge(E, e) ==
    IF e.k = "rename"
    THEN IF \E f \in Kind(E, {"rename"}) : f.d = e.d /\ f.r = e.r THEN E
         ELSE E \cup {[e EXCEPT !.at = 1 + Max({0} \cup {f.at : f \in Kind(E, {"rename"})})]}
    ELSE E \cup {e}

RenameEdge(old, new) == [k |-> "rename", d |-> old, r |-> new, at |-> 0]

(* A schema and a name, then for a routine its argument types, for a       *)
(* trigger its name within the table, for an array "[]".                   *)
Identities == (STRING \X STRING) \cup (STRING \X STRING \X (Seq(Seq(STRING)) \cup STRING))
RenameEdges == [k : {"rename"}, d : Identities, r : Identities, at : Nat]

(* The oldest rename edge of a source is the one the index keeps.          *)
Oldest(from) == CHOOSE e \in from : \A f \in from : e.at <= f.at

(* Where a chain of renames from id is after at most n of them.            *)
RenameChain[R \in SUBSET RenameEdges, id \in Identities, n \in Nat] ==
    LET from == {e \in R : e.d = id}
    IN  IF n = 0 \/ from = {} THEN id ELSE RenameChain[R, Oldest(from).r, n - 1]

(* The end of the rename chain of id, or id itself when the chain cycles.  *)
ResolveChain[R \in SUBSET RenameEdges, id \in Identities] ==
    LET last == RenameChain[R, id, Cardinality(R)]
    IN  IF \E e \in R : e.d = last THEN id ELSE last

ResolveRename(E, id) == ResolveChain[Kind(E, {"rename"}), id]

(* Objects reached from the set S along step, computed as a fixed point    *)
(* over at most bound rounds.                                              *)
Reach(S, step(_), bound) ==
    LET grow[i \in 0..bound] ==
            IF i = 0 THEN S ELSE grow[i - 1] \cup step(grow[i - 1])
    IN  grow[bound]

Above(E, kinds, S) ==
    {ResolveRename(E, e.r) : e \in {f \in Kind(E, kinds) : ResolveRename(E, f.d) \in S}}

(* The walk of check_partition_cycle and of check_inheritance_cycle: the   *)
(* ancestors of parent along the given kinds; a child among them, or equal *)
(* to the parent, would close a cycle.                                     *)
ClosesCycle(E, kinds, parent, child) ==
    ResolveRename(E, child)
      \in Reach({ResolveRename(E, parent)}, LAMBDA S : Above(E, kinds, S), Cardinality(Kind(E, kinds)))

(* A mutant: only the direct parent is looked at.                          *)
CheckPartitionParent(E, parent, child) ==
    \E e \in Kind(E, {"part", "pending"}) : e.d = parent /\ e.r = child

CheckPartitionCycle(E, parent, child) ==
    ClosesCycle(E, {"part", "pending"}, parent, child)

CheckInheritanceCycle(E, parent, child) ==
    ClosesCycle(E, {"inherit"}, parent, child)

PartitionsOf(E, id) ==
    {ResolveRename(E, e.d) :
        e \in {f \in Kind(E, {"part", "pending"}) :
                  ResolveRename(E, f.r) = ResolveRename(E, id) \/ f.r = id}}

------------------------------------------------------------------------------
(* Rewriting endpoints.                                                     *)

MoveEnd(e, end, old, new) ==
    IF e[end] = old THEN [e EXCEPT ![end] = new] ELSE e

(* A mutant: the publications of a renamed table are not among its edges.  *)
PropagateWithoutPublications(E, old, new) ==
    LET dep == {"fk", "view", "inherit", "part", "pending", "condep", "genfrom", "con", "viewfn", "viewtype",
                "default"}
        ref == {"fk", "view", "inherit", "part", "pending", "condep", "genfrom", "con", "index", "owned", "trigger"}
        move(e) ==
            LET m == IF e.k \in dep THEN MoveEnd(e, "d", old, new) ELSE e
            IN  IF e.k \in ref THEN MoveEnd(m, "r", old, new) ELSE m
    IN  {move(e) : e \in E}

(* A relation rename rewrites each endpoint that can name a relation.      *)
PropagateRelationRename(E, old, new) ==
    LET both == {"fk", "view", "inherit", "part", "pending", "condep",
                 "genfrom", "con"}
        dep  == both \cup {"viewfn", "viewtype", "default", "pub"}
        ref  == both \cup {"index", "owned", "trigger"}
        move(e) ==
            LET m == IF e.k \in dep THEN MoveEnd(e, "d", old, new) ELSE e
            IN  IF e.k \in ref THEN MoveEnd(m, "r", old, new) ELSE m
    IN  {move(e) : e \in E}

(* An index is the dependent end of its IndexOnRelation edge only.         *)
PropagateIndexRename(E, old, new) ==
    {IF e.k = "index" THEN MoveEnd(e, "d", old, new) ELSE e : e \in E}

PropagateSequenceRename(E, old, new) ==
    {CASE e.k = "owned"   -> MoveEnd(e, "d", old, new)
       [] e.k = "default" -> MoveEnd(e, "r", old, new)
       [] OTHER           -> e : e \in E}

PropagateTriggerRename(E, old, new) ==
    {IF e.k = "trigger" /\ e.trg = old
     THEN MoveEnd([e EXCEPT !.trg = new], "d", old, new)
     ELSE e : e \in E}

(* A resolved view call and a trigger follow the routine; a view call      *)
(* known by its written name only is the caller's decision.                *)
PropagateFunctionRename(E, old, new) ==
    {CASE e.k = "trigger"                        -> MoveEnd(e, "fn", old, new)
       [] e.k = "viewfn" /\ e.written = "exact"  -> MoveEnd(e, "r", old, new)
       [] OTHER                                  -> e : e \in E}

PropagateTypeRename(E, old, new) ==
    {IF e.k = "viewtype" THEN MoveEnd(e, "r", old, new) ELSE e : e \in E}

HasViewReferenceToName(E, name) ==
    \E e \in Kind(E, {"viewfn"}) : e.written = "name" /\ e.r = name

PropagateViewReferenceRename(E, old, new) ==
    {IF e.k = "viewfn" /\ e.written = "name"
     THEN MoveEnd(e, "r", old, new) ELSE e : e \in E}

WrittenName(routine) == <<routine[1], routine[2]>>

(* Views that call a routine: by its signature, or by a name it shares.    *)
ViewsForFunction(E, fn) ==
    {e \in Kind(E, {"viewfn"}) :
        IF e.written = "exact" THEN e.r = fn ELSE e.r = WrittenName(fn)}

ViewsForType(E, ty) == {e \in Kind(E, {"viewtype"}) : e.r = ty}

TriggersForFunction(E, fn) == {e \in Kind(E, {"trigger"}) : e.fn = fn}

RenameConstraint(E, table, old, new) ==
    {IF e.k \in {"fk", "con", "condep"} /\ e.d = table
     THEN MoveEnd(e, "con", old, new) ELSE e : e \in E}

RenameIn(cols, old, new) == {IF c = old THEN new ELSE c : c \in cols}

(* A column rename follows the column through every payload that names it. *)
RenameColumnDependencies(E, table, old, new) ==
    LET ren(e) ==
        CASE e.k = "fk" ->
                [e EXCEPT !.cols  = IF e.d = table THEN RenameIn(@, old, new) ELSE @,
                          !.rcols = IF e.r = table THEN RenameIn(@, old, new) ELSE @]
          [] e.k \in {"con", "condep"} /\ e.d = table ->
                [e EXCEPT !.cols = RenameIn(@, old, new)]
          [] e.k = "genfrom" /\ e.d = table ->
                MoveEnd(MoveEnd(e, "col", old, new), "on", old, new)
          [] e.k = "default" /\ e.d = table -> MoveEnd(e, "col", old, new)
          [] OTHER -> e
    IN  {ren(e) : e \in E}

RenameIndexColumn(E, table, old, new) ==
    {IF e.k = "index" /\ e.r = table
     THEN [e EXCEPT !.cols = RenameIn(@, old, new)] ELSE e : e \in E}

RenameOwnedSequenceColumn(E, seq, old, new) ==
    {IF e.k = "owned" /\ e.d = seq THEN MoveEnd(e, "col", old, new) ELSE e : e \in E}

RenamePublication(E, old, new) ==
    {IF e.k = "pub" /\ e.pub = old THEN [e EXCEPT !.pub = new, !.r = new] ELSE e : e \in E}

Moved(id, old, new) == IF id[1] = old THEN [id EXCEPT ![1] = new] ELSE id

(* ALTER SCHEMA ... RENAME rewrites every schema-qualified endpoint; a     *)
(* publication is not in a schema.                                         *)
RemapSchemaNamespace(E, old, new) ==
    LET dep(e) == [e EXCEPT !.d = Moved(@, old, new)]
        remap(e) ==
            CASE e.k = "pub"     -> dep(e)
              [] e.k = "trigger" -> [dep(e) EXCEPT !.r   = Moved(@, old, new),
                                                   !.trg = Moved(@, old, new),
                                                   !.fn  = Moved(@, old, new)]
              [] OTHER           -> [dep(e) EXCEPT !.r = Moved(@, old, new)]
    IN  {remap(e) : e \in E}
==============================================================================
