------------------------------ MODULE Routines ------------------------------
(***************************************************************************)
(* Functions, procedures and aggregates (state/apply_routine.rs).  A       *)
(* statement has the fields do kind and                                    *)
(*   create  id replace args in ndef form ret outs set opts attrs          *)
(*   alter   id action ("options", "move" or "other") to opts              *)
(*   drop    ids ifexists cascade co                                       *)
(* kind is "function", "window", "procedure" or "aggregate"; form is the   *)
(* RETURNS clause ("none", "scalar", "record" or "table"), ret its type    *)
(* and outs the output parameters.  opts is a sequence of <<option,        *)
(* value>>, with the option "other" for those that are not modelled, and   *)
(* attrs the attributes of an aggregate.                                   *)
(***************************************************************************)
EXTENDS TypeCascade

CONSTANT RoutineStmts

Routines(action) == {s \in Offered(RoutineStmts) : s.do = action}
DropKinds(kind) == IF kind = "function" THEN {"function", "window"} ELSE {kind}

(* Two output parameters make a record, one makes its type.                *)
routine_result(kind, form, ret, outs) ==
    CASE kind = "procedure" -> IF outs = <<>> THEN <<"void">> ELSE <<"record", outs>>
      [] outs = <<>> -> (CASE form = "scalar" -> <<"scalar", ret>>
                           [] form = "none"   -> <<"void">>
                           [] OTHER           -> <<"record", <<>>>>)
      [] Len(outs) = 1 /\ form # "record" -> <<"scalar", outs[1].ty>>
      [] OTHER -> <<"record", outs>>

(* CREATE OR REPLACE keeps the result, the names that inputs already have  *)
(* and the number of defaults.                                             *)
check_routine_replacement(old, s) ==
    Reject(s.set # old.set \/ routine_result(s.kind, s.form, s.ret, s.outs) # old.res)
    ?? Reject(\E i \in DOMAIN old.in : old.in[i] # "" /\ (i \in DOMAIN s.in => s.in[i] # old.in[i]))
    ?? Reject(s.ndef < old.ndef)

(* An attribute of an aggregate: of is "routine", "type" or "plain".  Only *)
(* the absence of a type can be proved.                                    *)
AttributeResolves(c, x) ==
    CASE x.of = "plain" -> TRUE
      [] x.qualified    -> FALSE
      [] x.of = "type"  -> TypeResolves(c, x.name)
      [] OTHER          -> \E f \in Live(c.functions) : f[2] = x.name
check_aggregate_attribute(c, x) ==
    Reject(/\ x.of = "type" /\ ~x.qualified /\ ~AttributeResolves(c, x)
           /\ c.scope = {} /\ "types" \in c.known.families)

CreateRoutineVerdict(c, s) ==
    LET look == RoutineLookup(c, s.id, {s.kind})
    IN  EnsureSchema(c, s.id[1])
        ?? Reject(look = "wrong" \/ (look = "present" /\ ~s.replace))
        ?? (IF look = "present" /\ s.kind # "aggregate"
            THEN check_routine_replacement(c.functions[s.id], s) ELSE "ok")
        ?? Each(s.attrs, LAMBDA x : check_aggregate_attribute(c, x))

function_option_unmodeled(x) == x[1] = "other"
SetOptions(old, list) == FoldLeft(LAMBDA o, x : Put(o, x[1], x[2]), old, list)
Modelled(list) == SelectSeq(list, LAMBDA x : ~function_option_unmodeled(x))

(* A replacement stays an internal part of its type.                       *)
CreateRoutineEffect(w, s) ==
    LET here  == Present(w.c.functions, s.id)
        doubt == \/ RoutineLookup(w.c, s.id, {s.kind}) = "unknown"
                 \/ here /\ s.kind # "aggregate" /\ w.c.functions[s.id].ndef > 0 /\ s.ndef > 0
                 \/ \E i \in DOMAIN s.opts : function_option_unmodeled(s.opts[i])
                 \/ s.attrs # <<>>
        x     == TaintIf(IF s.kind = "aggregate" THEN w ELSE Bump(w), doubt)
        made  == Routine(s.kind, [i \in DOMAIN s.args |-> resolve_type_reference(w.c, s.args[i])],
                         IF s.form = "scalar" THEN resolve_type_reference(w.c, s.ret) ELSE <<>>,
                         IF here /\ s.kind \in {"function", "window"} THEN w.c.functions[s.id].owner ELSE <<>>)
    IN  Assign(x, "functions", s.id,
               [made EXCEPT !.res = routine_result(s.kind, s.form, s.ret, s.outs), !.set = s.set,
                            !.in = s.in, !.ndef = s.ndef, !.opts = SetOptions(<<>>, Modelled(s.opts))])

CreateRoutine == \E s \in Routines("create") : Settle(CreateRoutineVerdict(cat, s), CreateRoutineEffect(Work, s))

------------------------------------------------------------------------------
(* ALTER: a new name or schema, or options.                                 *)

validate_function_move(c, old, new) ==
    IF old = new THEN "ok" ELSE EnsureSchema(c, new[1]) ?? Reject(Present(c.functions, new))

(* Ranges and base types that name the routine by its signature follow it. *)
remap_range_routine_reference(w, old, new) ==
    LET hit == {t \in Live(w.c.types) : old \in w.c.types[t].uses}
        x   == Snap(w, "types", hit)
    IN  Set(x, "types", Over([t \in hit |-> [w.c.types[t] EXCEPT !.uses = (@ \ {old}) \cup {new}]], x.c.types))

(* A view that knows the routine by name follows it unless an overload of  *)
(* the old name is left.                                                   *)
move_function(w, old, new) ==
    LET x == Snap(w, "functions", {old, new})
        y == SnapGraphFull(Set(x, "functions", Rekey(x.c.functions, old, new)))
        z == remap_range_routine_reference(
                 Set(y, "edges", AddEdge(PropagateFunctionRename(y.c.edges, old, new), RenameEdge(old, new))),
                 old, new)
        byname == HasViewReferenceToName(z.c.edges, WrittenName(old))
    IN  CASE ~byname -> z
          [] byname /\ RoutineOverloads(z.c, WrittenName(old)) # {} -> Taint(z)
          [] OTHER -> Set(z, "edges", PropagateViewReferenceRename(z.c.edges, WrittenName(old), WrittenName(new)))

AlterRoutineVerdict(c, s) ==
    Ensure(RoutineLookup(c, s.id, DropKinds(s.kind)))
    ?? CASE s.action = "move"    -> validate_function_move(c, s.id, s.to)
         [] s.action = "options" -> "ok"
         [] OTHER                -> "unresolved"

(* A procedure stops at the first option that is not modelled, with the    *)
(* ones before it set; a function takes the others and taints the chain.   *)
SetRoutineOptions(w, s) ==
    LET other == {i \in DOMAIN s.opts : function_option_unmodeled(s.opts[i])}
        taken == IF s.kind = "procedure" /\ other # {} THEN SubSeq(s.opts, 1, Min(other) - 1)
                 ELSE Modelled(s.opts)
    IN  TaintIf(Assign(w, "functions", s.id, [w.c.functions[s.id] EXCEPT !.opts = SetOptions(@, taken)]),
                other # {})

AlterRoutine ==
    \E s \in Routines("alter") :
        LET v    == AlterRoutineVerdict(cat, s)
            cut  == s.action = "options" /\ s.kind = "procedure"
                    /\ \E i \in DOMAIN s.opts : function_option_unmodeled(s.opts[i])
        IN  IF v = "ok" /\ cut
            THEN SettleRun([v |-> "unresolved", w |-> SetRoutineOptions(Work, s)])
            ELSE Settle(v, IF s.action = "move" THEN move_function(Work, s.id, s.to)
                           ELSE SetRoutineOptions(Work, s))

------------------------------------------------------------------------------
(* DROP.                                                                    *)

(* A base type may know a routine by its name, with "" for no schema: it   *)
(* is the routine meant when no other has the name.                        *)
base_type_option_references_routine(c, uses, id) ==
    LET named(ref) == {f \in Live(c.functions) : f[2] = ref[2] /\ ref[1] \in {"", f[1]}}
    IN  id \in uses \/ \E ref \in uses : Len(ref) = 2 /\ named(ref) = {id}

types_requiring_routine(c, id, co) ==
    {t \in Live(c.types) \ co :
        c.types[t].kind \in {"range", "base"} /\ base_type_option_references_routine(c, c.types[t].uses, id)}

Outside(E, co) == {e \in E : e.d \notin co}
TriggersOn(c, id, co) == Outside(TriggersForFunction(c.edges, id), co)
ViewsOn(c, id, co) == Outside(ViewsForFunction(c.edges, id), co)

(* Views stop a RESTRICT unless it is not known which overload they call.  *)
ViewsAllow(c, views, cascade) ==
    LET definite == \E e \in views : e.written = "exact" \/ Cardinality(RoutineOverloads(c, e.r)) <= 1
    IN  Reject(~cascade /\ definite) ?? Doubt(~cascade /\ views # {})

DropRoutineTargets(c, s) == {id \in ToSet(s.ids) : RoutineLookup(c, id, DropKinds(s.kind)) = "present"}

(* PostgreSQL records no dependents of a procedure.                        *)
FunctionMayGo(c, s, id) ==
    LET owner == c.functions[id].owner
    IN  Reject(owner # <<>> /\ Present(c.types, owner) /\ owner \notin s.co)
        ?? Reject(~s.cascade /\ types_requiring_routine(c, id, s.co) # {})
        ?? Reject(~s.cascade /\ TriggersOn(c, id, s.co) # {})
        ?? ViewsAllow(c, ViewsOn(c, id, s.co), s.cascade)

DropRoutineVerdict(c, s) ==
    LET now == DropRoutineTargets(c, s)
        target(id) ==
            LET look == RoutineLookup(c, id, DropKinds(s.kind))
            IN  Reject(ExtensionMember(c, "routine", id))
                ?? (IF s.ifexists /\ look \in {"tomb", "absent"} THEN "ok" ELSE Ensure(look))
                ?? (IF look = "present" /\ s.kind = "function" THEN FunctionMayGo(c, s, id) ELSE "ok")
    IN  Each(s.ids, target) ?? Skip(now = {})
        ?? Doubt(\E id \in now : ScopedFamilyObject(c, id, "functions"))
        ?? (IF s.kind = "aggregate"
            THEN ViewsAllow(c, UNION {ViewsOn(c, id, s.co) : id \in now}, s.cascade) ELSE "ok")

DropFunctions(w, now, co) ==
    FoldSet(LAMBDA id, x : apply_routine_cascade_drop(x, id, TriggersOn(w.c, id, co), ViewsOn(w.c, id, co), now),
            w, now)

DropRequiring(w, need) == IF need = {} THEN w ELSE apply_type_cascade(w, need)

(* The dependents of every routine are those found before any is dropped,  *)
(* and the types that need one go last.                                    *)
DropFunctionsWithDependents(w, now, co) ==
    DropRequiring(DropFunctions(w, now, co), UNION {types_requiring_routine(w.c, id, co) : id \in now})

(* The dependents of every routine are those found before any is dropped,  *)
(* and the types that need one go last.                                    *)
DropFunctionEffect(w, s) ==
    IF s.cascade THEN DropFunctionsWithDependents(w, DropRoutineTargets(w.c, s), s.co)
    ELSE DropKeys(w, "functions", DropRoutineTargets(w.c, s))

DropAggregates(w, now, views, stay, cascade) ==
    TaintIf(IF cascade THEN drop_cascaded_views(DropKeys(w, "functions", now), {e.d : e \in views \ stay})
            ELSE DropKeys(w, "functions", now), stay # {})

DropAggregateEffect(w, s) ==
    LET now   == DropRoutineTargets(w.c, s)
        views == UNION {ViewsOn(w.c, id, s.co) : id \in now}
    IN  DropAggregates(w, now, views, {e \in views : MayCallAnother(w.c, e, now)}, s.cascade)

DropRoutine ==
    \E s \in Routines("drop") :
        Settle(DropRoutineVerdict(cat, s),
               CASE s.kind = "function"  -> DropFunctionEffect(Work, s)
                 [] s.kind = "aggregate" -> DropAggregateEffect(Work, s)
                 [] OTHER                -> DropKeys(Work, "functions", DropRoutineTargets(cat, s)))
=============================================================================
