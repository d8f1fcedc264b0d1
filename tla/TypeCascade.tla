----------------------------- MODULE TypeCascade -----------------------------
(***************************************************************************)
(* Types and routines as other objects refer to them, and the deletion     *)
(* closure of DROP TYPE ... CASCADE (state/types.rs, type_cascade.rs).     *)
(*                                                                         *)
(* A type is a record with the fields of every kind: fields (composite),   *)
(* base (what a domain or a range is built on), mate (the multirange of a  *)
(* range and back), labels (enum), elem (the element name of a base type), *)
(* shell, uses (the routines a range or a base type names, by signature or *)
(* by name), and cons, nn, dflt (a domain's constraints, the name of its   *)
(* NOT NULL constraint and its default).                                   *)
(*                                                                         *)
(* A routine is <<schema, name, input types>>; owner is the type it is an  *)
(* internal part of, ret its result type where that resolved, res what it  *)
(* returns (routine_result), set whether it returns a set, in the names of *)
(* its inputs ("" for none), ndef its defaults and opts its options.       *)
(***************************************************************************)
EXTENDS AlterTable

(* A mutant: an array of the type does not count.                          *)
RefersToItself(ref, ids) == ref \in ids

RefersTo(ref, ids) == ref # <<>> /\ Element(ref) \in ids

Routine(kind, args, ret, owner) ==
    [st |-> "present", kind |-> kind, args |-> args, ret |-> ret, owner |-> owner,
     res |-> <<"scalar", ret>>, set |-> FALSE, in |-> [i \in DOMAIN args |-> ""], ndef |-> 0,
     opts |-> <<>>]

NewType(c, kind) ==
    [st |-> "present", kind |-> kind, owner |-> c.me, gen |-> c.gen, fields |-> <<>>,
     base |-> <<>>, mate |-> <<>>, labels |-> <<>>, elem |-> "", shell |-> FALSE,
     uses |-> {}, cons |-> <<>>, nn |-> [on |-> FALSE, name |-> ""], dflt |-> ""]

IsType(c, id, kind) == Present(c.types, id) /\ c.types[id].kind = kind

(* The multirange of a range: the recorded one, or the name PostgreSQL     *)
(* would give it (no type of the models has "range" in its own name).      *)
multirange_companion_id(id) == <<id[1], id[2] \o "_multirange">>
MultirangeOf(c, id) ==
    IF c.types[id].mate # <<>> THEN c.types[id].mate ELSE multirange_companion_id(id)

------------------------------------------------------------------------------
(* Domains.                                                                 *)

domain_closure(c, id) ==
    LET over(S) == {d \in Live(c.types) : c.types[d].kind = "domain" /\ c.types[d].base \in S}
    IN  Reach({id}, over, Cardinality(DOMAIN c.types))

ColumnTypes(c) ==
    UNION {{Rel(c, t).cols[n].ty : n \in DOMAIN Rel(c, t).cols} : t \in Live(c.relations)} \ {<<>>}

(* The types that a value of a type contains: elements, fields, subtypes.  *)
(* A domain is a leaf.                                                     *)
Components(c, ref) ==
    IF ref = ArrayOf(ref) THEN {Element(ref)}
    ELSE IF ~Present(c.types, ref) THEN {}
    ELSE LET t == c.types[ref]
         IN  CASE t.kind = "composite"  -> {t.fields[f] : f \in DOMAIN t.fields} \ {<<>>}
               [] t.kind = "range"      -> {t.base} \ {<<>>}
               [] t.kind = "multirange" -> {t.mate} \ {<<>>}
               [] OTHER                 -> {}

(* domain_container_validation_conflict: a column stores the domain inside *)
(* an array, a composite or a range, where it cannot be validated.         *)
domain_container_validation_conflict(c, id) ==
    LET inside(S) == UNION {Components(c, ref) : ref \in S}
        deep(ref) == Reach(Components(c, ref), inside, Cardinality(DOMAIN c.types))
    IN  \E ref \in ColumnTypes(c) : deep(ref) \cap domain_closure(c, id) # {}

------------------------------------------------------------------------------
(* Routines that go with something else.                                    *)

RoutineOverloads(c, name) == {f \in Live(c.functions) : WrittenName(f) = name}

(* A call known by its name only may mean an overload that stays.          *)
MayCallAnother(c, e, dropped) ==
    e.written = "name" /\ ~(RoutineOverloads(c, e.r) \subseteq dropped)

(* A trigger that calls a dropped routine leaves the list of its table.    *)
UnlistTrigger(w, e) ==
    IF Present(w.c.triggers, e.d) /\ Present(w.c.relations, e.r)
    THEN Assign(w, "relations", e.r, [Rel(w.c, e.r) EXCEPT !.trg = @ \ {e.d[3]}]) ELSE w

DropCallingTriggers(w, trgs) ==
    IF trgs = {} THEN w
    ELSE Retain(DropKeys(FoldSet(LAMBDA e, x : UnlistTrigger(x, e), w, trgs), "triggers", {e.d : e \in trgs}),
                LAMBDA e : ~\E t \in trgs : e.d = t.d)

DropCallers(w, trgs, views, stay) ==
    TaintIf(DropCallingTriggers(drop_cascaded_views(w, {e.d : e \in views \ stay}), trgs), stay # {})

(* trgs and views are the edges found when the statement was checked; the  *)
(* chain is inexact when a view that stays may have called the routine.    *)
apply_routine_cascade_drop(w, id, trgs, views, dropped) ==
    DropCallers(DropKeys(w, "functions", {id}), trgs, views, {e \in views : MayCallAnother(w.c, e, dropped)})

------------------------------------------------------------------------------
(* type_cascade_closure: the types that go, and the fields that composites *)
(* lose.                                                                   *)
TypeClosure(c, victims) ==
    LET goes(S, t) ==
            LET r == c.types[t]
            IN  \/ r.kind \in {"domain", "range"} /\ RefersTo(r.base, S)
                \/ r.kind = "multirange" /\ r.mate \in S
                \/ r.kind = "base" /\ <<t[1], r.elem>> \in S
                \/ \E v \in S : IsType(c, v, "range") /\ MultirangeOf(c, v) = t
        more(S) == {t \in Live(c.types) : goes(S, t)}
    IN  Reach(victims, more, Cardinality(DOMAIN c.types))

RemovedFields(c, gone) ==
    {x \in UNION {{<<t, f>> : f \in DOMAIN c.types[t].fields} : t \in Live(c.types) \ gone} :
        RefersTo(c.types[x[1]].fields[x[2]], gone)}

routine_cascade_victims(c, gone) ==
    {f \in Live(c.functions) :
        LET r == c.functions[f]
        IN  \/ r.owner \in gone \/ RefersTo(r.ret, gone)
            \/ \E i \in DOMAIN r.args : RefersTo(r.args[i], gone)}

type_cascade_columns(c, gone, removed) ==
    {x \in UNION {{<<t, n>> : n \in DOMAIN Rel(c, t).cols} : t \in Live(c.relations)} :
        /\ Rel(c, x[1]).kind \in TableLike
        /\ RefersTo(Rel(c, x[1]).cols[x[2]].ty, gone) \/ <<Rel(c, x[1]).oftype, x[2]>> \in removed}

(* Every routine is dropped with what depends on it then.                  *)
DropRoutines(w, fns) ==
    FoldSet(LAMBDA f, x : apply_routine_cascade_drop(x, f, TriggersForFunction(x.c.edges, f),
                                                     ViewsForFunction(x.c.edges, f), fns),
            TaintIf(w, \E f \in fns : ScopedFamilyObject(w.c, f, "functions")), fns)

(* The checks of ALTER TABLE that DROP COLUMN runs into.                   *)
DropColumnMayRun(c, a) ==
    Reject(alter_table_reloption_target(Rel(c, a.id)) \notin Permitted(a))
    ?? ColumnVerdict(c, a) ?? DropColumnVerdict(c, a)

TypedColumnDropped(w, a, v) ==
    CASE v = "noop" -> w
      [] v = "ok"   -> DropColumnEffect(w, a)
      [] OTHER      -> Taint(w)

(* A column goes through ALTER TABLE ... DROP COLUMN IF EXISTS CASCADE.    *)
DropTypedColumn(w, a) ==
    IF Present(w.c.relations, a.id) THEN TypedColumnDropped(w, a, DropColumnMayRun(w.c, a)) ELSE w

LoseFields(w, removed) ==
    LET losing == {y[1] : y \in removed}
        without(r, t) == [r EXCEPT !.fields = Without(@, {y[2] : y \in {z \in removed : z[1] = t}})]
    IN  [Snap(w, "types", losing) EXCEPT !.c.types = Over([t \in losing |-> without(@[t], t)], @)]

DropTypedTables(w, gone) ==
    drop_cascaded_views(w, {t \in Live(w.c.relations) : Rel(w.c, t).oftype \in gone})

(* A mutant: only casts to an array of a dropped type are looked for.      *)
DropArrayCasts(w, gone) ==
    LET casts == UNION {ViewsForType(w.c.edges, ArrayOf(t)) : t \in gone}
    IN  drop_cascaded_views(w, {e.d : e \in {x \in casts : Present(w.c.relations, x.d)}})

DropCasts(w, gone) ==
    LET casts == UNION {ViewsForType(w.c.edges, t) \cup ViewsForType(w.c.edges, ArrayOf(t)) : t \in gone}
    IN  drop_cascaded_views(w, {e.d : e \in {x \in casts : Present(w.c.relations, x.d)}})

DropTypedColumns(w, cols) ==
    FoldSet(LAMBDA y, x : DropTypedColumn(x, [id |-> y[1], only |-> FALSE, do |-> "drop_column", name |-> y[2],
                                              ifexists |-> TRUE, cascade |-> TRUE]), w, cols)

DropClosedTypes(w, gone) == DropKeys(w, "types", {t \in gone : Present(w.c.types, t)})

DropClosedColumns(w, gone, removed) ==
    DropClosedTypes(DropTypedColumns(w, type_cascade_columns(w.c, gone, removed)), gone)

DropTypeTier(w, gone, removed) ==
    DropClosedColumns(DropCasts(DropTypedTables(DropRoutines(w, routine_cascade_victims(w.c, gone)), gone), gone),
                      gone, removed)

CascadeTypes(w, gone, removed) == DropTypeTier(LoseFields(w, removed), gone, removed)

CascadeFrom(w, gone) == CascadeTypes(w, gone, RemovedFields(w.c, gone))

(* apply_type_cascade: fields, routines, typed tables, views, columns, and *)
(* the types last.  Its callers taint the chain when a part of the closure *)
(* could not be enumerated.                                                *)
apply_type_cascade(w, victims) == CascadeFrom(w, TypeClosure(w.c, victims))
==============================================================================
