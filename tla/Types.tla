-------------------------------- MODULE Types --------------------------------
(***************************************************************************)
(* Types and domains (state/apply_type.rs).  A statement has the fields do *)
(* and                                                                     *)
(*   create  id kind labels fields base elem shell storage multi canonical *)
(*           diff uses                                                     *)
(*   rename  old new domain                                                *)
(*   alter   id action name to ty ifexists cascade before owner storage    *)
(*           fixed uses                                                    *)
(*   domain  id base cons dflt                                             *)
(*   alter_domain  id action con name to ifexists owner dflt               *)
(*   drop    ids domain ifexists cascade co                                *)
(* storage says whether the storage option is one PostgreSQL takes, fixed  *)
(* whether ALTER TYPE ... SET names an option that only CREATE may give; a *)
(* domain's constraint is [kind, name, valid], kind "check", "not_null" or *)
(* "null".  Collations and whether a default can be coerced (which taints  *)
(* the statement only) are left out, as is the keyword VARIADIC of a       *)
(* signature.                                                              *)
(***************************************************************************)
EXTENDS Routines

CONSTANT TypeStmts

TypesTo(action) == {s \in Offered(TypeStmts) : s.do = action}
TypeKinds == {"composite", "enum", "range", "multirange", "base", "domain"}

------------------------------------------------------------------------------
(* CREATE TYPE.                                                             *)

check_created_type(c, s) ==
    LET declared == {s.fields[f] : f \in DOMAIN s.fields} \cup {s.base}
                    \cup (IF s.elem = "" THEN {} ELSE {<<s.id[1], s.elem>>})
    IN  Reject(s.kind = "base" /\ ~s.storage) ?? Reject(HasDuplicates(s.labels))
        ?? All(declared, LAMBDA ty : check_declared_type(c, ty))

(* A routine a range names is the one with exactly that signature; one a   *)
(* base type names, the only routine of that name.                         *)
resolve_internal_routine_id(c, written, signature) ==
    LET id == <<written[1], written[2], signature>>
    IN  IF written # <<>> /\ Present(c.functions, id) THEN {id} ELSE {}

resolve_unique_routine_reference(c, written) ==
    LET overloads == RoutineOverloads(c, written)
    IN  IF Cardinality(overloads) = 1 THEN CHOOSE f \in overloads : TRUE ELSE written

Companion(s) == IF s.multi # <<>> THEN s.multi ELSE multirange_companion_id(s.id)
CompletesShell(c, s) == IsType(c, s.id, "base") /\ c.types[s.id].shell /\ s.kind = "base" /\ ~s.shell

CreateTypeVerdict(c, s) ==
    EnsureSchema(c, s.id[1])
    ?? (CASE CompletesShell(c, s)   -> Reject(~s.storage)
          [] Present(c.types, s.id) -> "conflict"
          [] OTHER ->
                Reject(NameTaken(c, s.id)) ?? check_created_type(c, s)
                ?? (IF s.kind # "range" THEN "ok"
                    ELSE Reject(NameTaken(c, Companion(s))) ?? EnsureSchema(c, Companion(s)[1])))

(* PostgreSQL makes two constructors of a range and three of its           *)
(* multirange, all in the schema of the range; they replace whatever       *)
(* routine had the signature.                                              *)
Constructors(c, s) ==
    LET mr == Companion(s)
        sub == resolve_type_reference(c, s.base)
        made(name, args, ret) ==
            [f \in {<<s.id[1], name, args>>} |-> Routine("function", args, ret, ret)]
    IN  Over(Over(made(s.id[2], <<sub, sub>>, s.id), made(s.id[2], <<sub, sub, <<"pg_catalog", "text">>>>, s.id)),
             Over(made(mr[2], <<>>, mr), Over(made(mr[2], <<s.id>>, mr), made(mr[2], <<ArrayOf(s.id)>>, mr))))

TypeUses(c, s) ==
    CASE s.kind = "range" ->
            resolve_internal_routine_id(c, s.canonical, <<s.id>>)
            \cup resolve_internal_routine_id(c, s.diff, <<s.base, s.base>>)
      [] s.kind = "base" /\ ~s.shell -> {resolve_unique_routine_reference(c, u) : u \in s.uses}
      [] OTHER -> {}

CreateTypeEffect(w, s) ==
    LET c    == w.c
        new  == [NewType(c, s.kind) EXCEPT
                    !.fields = [f \in DOMAIN s.fields |-> resolve_type_reference(c, s.fields[f])],
                    !.base = resolve_type_reference(c, s.base), !.labels = s.labels, !.elem = s.elem,
                    !.shell = s.shell, !.uses = TypeUses(c, s)]
        made == Constructors(c, s)
        x    == Snap(w, "functions", DOMAIN made)
        y    == Bump([x EXCEPT !.c.functions = Over(made, @)])
        z    == Assign(y, "types", s.id, [new EXCEPT !.mate = Companion(s), !.gen = y.c.gen])
        one  == Bump(w)
        v    == Bump(z)
    IN  CASE CompletesShell(c, s) ->
                Assign(w, "types", s.id, [c.types[s.id] EXCEPT !.shell = FALSE, !.elem = s.elem,
                                                               !.uses = TypeUses(c, s)])
          [] s.kind = "range" ->
                Assign(v, "types", Companion(s), [NewType(v.c, "multirange") EXCEPT !.mate = s.id])
          [] OTHER -> Assign(one, "types", s.id, [new EXCEPT !.gen = one.c.gen])

CreateType == \E s \in TypesTo("create") : Settle(CreateTypeVerdict(cat, s), CreateTypeEffect(Work, s))

------------------------------------------------------------------------------
(* RENAME and SET SCHEMA: every reference to the type, or to its array,     *)
(* follows it, and so do the signatures of routines.                        *)

renamed_type_id(ref, s) ==
    CASE ref = s.old          -> s.new
      [] ref = ArrayOf(s.old) -> ArrayOf(s.new)
      [] OTHER                -> ref

RenamedRoutine(c, f, s) ==
    LET args == c.functions[f].args
        is(i) == args[i] # <<>> /\ renamed_type_id(args[i], s) # args[i]
    IN  <<f[1], f[2], [i \in DOMAIN f[3] |-> IF is(i) THEN renamed_type_id(args[i], s) ELSE f[3][i]]>>

MovedRoutines(c, s) == {f \in Live(c.functions) : RenamedRoutine(c, f, s) # f}

RenameTypeVerdict(c, s) ==
    LET look  == TypeLookup(c, s.old, IF s.domain THEN {"domain"} ELSE TypeKinds)
        moved == MovedRoutines(c, s)
        to    == [f \in moved |-> RenamedRoutine(c, f, s)]
    IN  (IF s.domain THEN Ensure(look) ELSE "ok")
        ?? (IF look = "present" THEN "ok" ELSE IF Covers(c, s.old, "types") THEN "conflict" ELSE "unresolved")
        ?? Reject(s.old # s.new /\ NameTaken(c, s.new))
        ?? (IF s.old[1] = s.new[1] THEN "ok" ELSE Ensure(SchemaLookup(c, s.new[1])))
        ?? Reject(\E f \in moved : \/ to[f] \in DOMAIN c.functions \ moved
                                   \/ \E g \in moved : g # f /\ to[f] = to[g])

RenamedType(t, s) ==
    LET ref(r) == IF r = <<>> THEN r ELSE renamed_type_id(r, s)
    IN  IF t.st = "dropped" THEN t
        ELSE [t EXCEPT !.base = ref(@), !.mate = ref(@), !.fields = [f \in DOMAIN @ |-> ref(@[f])],
                       !.elem = IF @ = s.old[2] THEN s.new[2] ELSE @]

RenameTypeEffect(w, s) ==
    LET x == snapshot_namespace(w)
        c == x.c
        ref(r) == IF r = <<>> THEN r ELSE renamed_type_id(r, s)
        types == Rekey(c.types, s.old, s.new)
        column(col) == [col EXCEPT !.ty = ref(@)]
        table(r) == IF r.st = "dropped" THEN r ELSE [r EXCEPT !.cols = [n \in DOMAIN @ |-> column(@[n])]]
        routine(f) ==
            [c.functions[f] EXCEPT !.owner = ref(@), !.ret = ref(@), !.args = [i \in DOMAIN @ |-> ref(@[i])]]
        moved == MovedRoutines(c, s)
        live  == Live(c.functions)
        fns   == Over([g \in {RenamedRoutine(c, f, s) : f \in live} |->
                    routine(CHOOSE f \in live : RenamedRoutine(c, f, s) = g)], Without(c.functions, live))
        follow(E, f) == LET g == RenamedRoutine(c, f, s)
                        IN  AddEdge(PropagateFunctionRename(E, f, g), RenameEdge(f, g))
        member(m) == IF m = <<"type", s.old>> THEN <<"type", s.new>> ELSE m
        ext(e) == IF e.st = "dropped" THEN e ELSE [e EXCEPT !.members = {member(m) : m \in @}]
    IN  [x EXCEPT !.c.types = [t \in DOMAIN types |-> RenamedType(types[t], s)],
                  !.c.relations = [t \in DOMAIN @ |-> table(@[t])],
                  !.c.functions = fns,
                  !.c.extensions = [e \in DOMAIN @ |-> ext(@[e])],
                  !.c.edges = FoldSet(LAMBDA f, E : follow(E, f), PropagateTypeRename(@, s.old, s.new), moved)]

RenameType == \E s \in TypesTo("rename") : Settle(RenameTypeVerdict(cat, s), RenameTypeEffect(Work, s))

------------------------------------------------------------------------------
(* ALTER TYPE.                                                              *)

AttributeActions == {"add_attr", "drop_attr", "alter_attr", "rename_attr"}
ValueActions == {"add_value", "rename_value"}
TypedTables(c, id) == {t \in Live(c.relations) : Rel(c, t).oftype = id}
Position(labels, x) == CHOOSE i \in DOMAIN labels : labels[i] = x

AlterTypeVerdict(c, s) ==
    LET t == c.types[s.id]
        there == s.name \in DOMAIN t.fields
        label == s.name \in ToSet(t.labels)
    IN  Ensure(TypeLookup(c, s.id, TypeKinds))
        ?? Reject(\/ s.action \in ValueActions /\ t.kind # "enum"
                  \/ s.action \in AttributeActions /\ t.kind # "composite"
                  \/ s.action = "set" /\ t.kind # "base")
        ?? Reject(s.action = "set" /\ (t.shell \/ s.fixed \/ ~s.storage))
        ?? Reject(s.action \in AttributeActions /\ TypedTables(c, s.id) # {} /\ ~s.cascade)
        ?? (IF s.action = "owner" THEN EnsureRole(c, s.owner) ELSE "ok")
        ?? CASE s.action = "add_attr"     -> Reject(there)
             [] s.action = "drop_attr"    -> Reject(~there /\ ~s.ifexists)
             [] s.action = "alter_attr"   -> Reject(~there)
             [] s.action = "rename_attr"  -> Reject(s.to \in DOMAIN t.fields \/ ~there)
             [] s.action = "add_value"    -> Skip(label) ?? Reject(s.to # "" /\ s.to \notin ToSet(t.labels))
             [] s.action = "rename_value" -> Reject(~label \/ s.to \in ToSet(t.labels))
             [] OTHER                     -> "ok"

AlteredType(c, s) ==
    LET t  == c.types[s.id]
        ty == resolve_type_reference(c, s.ty)
    IN  CASE s.action = "owner"       -> [t EXCEPT !.owner = s.owner]
          [] s.action = "set"         -> [t EXCEPT !.uses = @ \cup {resolve_unique_routine_reference(c, u) : u \in s.uses}]
          [] s.action \in {"add_attr", "alter_attr"} -> [t EXCEPT !.fields = Put(@, s.name, ty)]
          [] s.action = "drop_attr"   -> [t EXCEPT !.fields = Without(@, {s.name})]
          [] s.action = "rename_attr" -> [t EXCEPT !.fields = Rekey(@, s.name, s.to)]
          [] s.action = "add_value"   ->
                [t EXCEPT !.labels = IF s.to = "" THEN Append(@, s.name)
                                     ELSE InsertAt(@, Position(@, s.to) + (IF s.before THEN 0 ELSE 1), s.name)]
          [] OTHER                    -> [t EXCEPT !.labels[Position(t.labels, s.name)] = s.to]

(* The columns of the tables of the type are changed with it.              *)
SyncedColumns(c, cols, s) ==
    LET ty == resolve_type_reference(c, s.ty)
        there == s.name \in DOMAIN cols
    IN  CASE s.action = "add_attr" /\ ~there   -> Put(cols, s.name, Column(ty, TRUE, <<>>, "plain", {}))
          [] s.action = "drop_attr"            -> Without(cols, {s.name})
          [] s.action = "alter_attr" /\ there  -> [cols EXCEPT ![s.name].ty = ty]
          [] s.action = "rename_attr" /\ there -> Rekey(cols, s.name, s.to)
          [] OTHER                             -> cols

AlterTypeEffect(w, s) ==
    LET typed == TypedTables(w.c, s.id)
        x == TaintIf(w, s.action = "owner" /\ RoleDoubt(w.c, s.owner))
        y == Snap(Assign(x, "types", s.id, AlteredType(w.c, s)), "relations", typed)
    IN  Set(y, "relations",
            Over([t \in typed |-> [Rel(y.c, t) EXCEPT !.cols = SyncedColumns(w.c, @, s)]], y.c.relations))

AlterType == \E s \in TypesTo("alter") : Settle(AlterTypeVerdict(cat, s), AlterTypeEffect(Work, s))

------------------------------------------------------------------------------
(* Domains.                                                                 *)

DomainConstraints(t) == DOMAIN t.cons \cup (IF t.nn.name = "" THEN {} ELSE {t.nn.name})
domain_constraint_name_is_taken(c, id, name) == name \in DomainConstraints(c.types[id])
namespace_constraint_name_is_taken(c, schema, name) ==
    \/ \E k \in DOMAIN c.constraints : k[1][1] = schema /\ k[2] = name
    \/ \E d \in Live(c.types) : d[1] = schema /\ domain_constraint_name_is_taken(c, d, name)
allocate_domain_constraint_name(c, id, explicit, reserved) ==
    IF explicit # "" THEN explicit
    ELSE CHOOSE n \in Names : n \notin reserved /\ ~namespace_constraint_name_is_taken(c, id[1], n)

(* The constraints of CREATE DOMAIN in order: their names, and whether     *)
(* NULL and NOT NULL agree.                                                *)
DeclaredConstraints(c, s) ==
    LET step(acc, x) ==
            LET name == allocate_domain_constraint_name(c, s.id, x.name, acc.reserved)
                bad  == \/ x.kind # "null" /\ x.name \in acc.reserved
                        \/ x.kind = "not_null" /\ (acc.nn.on \/ acc.null)
                        \/ x.kind = "null" /\ acc.nn.on
            IN  CASE bad \/ acc.bad      -> [acc EXCEPT !.bad = TRUE]
                  [] x.kind = "null"     -> [acc EXCEPT !.null = TRUE]
                  [] x.kind = "not_null" -> [acc EXCEPT !.nn = [on |-> TRUE, name |-> name],
                                                        !.reserved = @ \cup {name}]
                  [] OTHER               -> [acc EXCEPT !.cons = Put(@, name, x.valid),
                                                        !.reserved = @ \cup {name}]
    IN  FoldLeft(step, [cons |-> <<>>, nn |-> [on |-> FALSE, name |-> ""], null |-> FALSE,
                        reserved |-> {}, bad |-> FALSE], s.cons)

CreateDomainVerdict(c, s) ==
    EnsureSchema(c, s.id[1]) ?? Reject(NameTaken(c, s.id)) ?? check_declared_type(c, s.base)
    ?? Reject(DeclaredConstraints(c, s).bad)

CreateDomainEffect(w, s) ==
    LET x == Bump(w)
        d == DeclaredConstraints(w.c, s)
    IN  Assign(x, "types", s.id,
               [NewType(x.c, "domain") EXCEPT !.base = resolve_type_reference(w.c, s.base), !.cons = d.cons,
                                              !.nn = d.nn, !.dflt = s.dflt])

CreateDomain == \E s \in TypesTo("domain") : Settle(CreateDomainVerdict(cat, s), CreateDomainEffect(Work, s))

(* Adding or validating a constraint scans the columns of the domain.      *)
AddDomainConstraintVerdict(c, s) ==
    LET scan == Reject(domain_container_validation_conflict(c, s.id))
    IN  CASE s.con.kind = "check" ->
                Reject(domain_constraint_name_is_taken(c, s.id, s.con.name))
                ?? (IF s.con.valid THEN scan ELSE "ok")
          [] s.con.kind = "not_null" ->
                Skip(c.types[s.id].nn.on)
                ?? Reject(s.con.name # "" /\ namespace_constraint_name_is_taken(c, s.id[1], s.con.name))
                ?? scan
          [] OTHER -> "unresolved"

AlterDomainVerdict(c, s) ==
    LET t == c.types[s.id]
        named == domain_constraint_name_is_taken(c, s.id, s.name)
        scan  == Reject(domain_container_validation_conflict(c, s.id))
    IN  Ensure(TypeLookup(c, s.id, {"domain"}))
        ?? CASE s.action = "add_con"       -> AddDomainConstraintVerdict(c, s)
             [] s.action = "drop_con"      -> IF named THEN "ok" ELSE Skip(s.ifexists) ?? "conflict"
             [] s.action = "rename_con"    -> Reject(~named \/ domain_constraint_name_is_taken(c, s.id, s.to))
             [] s.action = "validate"      ->
                    Reject(s.name \notin DOMAIN t.cons) ?? scan ?? Skip(t.cons[s.name])
             [] s.action = "set_default"   -> Skip(t.dflt = s.dflt)
             [] s.action = "drop_not_null" -> Skip(~t.nn.on)
             [] s.action = "set_not_null"  -> Skip(t.nn.on) ?? scan
             [] s.action = "owner"         -> EnsureRole(c, s.owner) ?? Skip(t.owner = s.owner)
             [] OTHER                      -> "unresolved"

(* Only PostgreSQL 18 records the name of a NOT NULL constraint added      *)
(* later.                                                                  *)
AlteredDomain(c, s) ==
    LET t == c.types[s.id]
        none == [on |-> FALSE, name |-> ""]
        fresh(name) == allocate_domain_constraint_name(c, s.id, name, {})
        notnull(name) == [t EXCEPT !.nn = [on |-> TRUE, name |-> IF c.pg18 THEN fresh(name) ELSE ""]]
    IN  CASE s.action = "add_con" /\ s.con.kind = "check" ->
                [t EXCEPT !.cons = Put(@, fresh(s.con.name), s.con.valid)]
          [] s.action = "add_con"       -> notnull(s.con.name)
          [] s.action = "set_not_null"  -> notnull("")
          [] s.action = "drop_not_null" -> [t EXCEPT !.nn = none]
          [] s.action = "drop_con" /\ s.name = t.nn.name   -> [t EXCEPT !.nn = none]
          [] s.action = "drop_con"      -> [t EXCEPT !.cons = Without(@, {s.name})]
          [] s.action = "rename_con" /\ s.name = t.nn.name -> [t EXCEPT !.nn.name = s.to]
          [] s.action = "rename_con"    -> [t EXCEPT !.cons = Rekey(@, s.name, s.to)]
          [] s.action = "validate"      -> [t EXCEPT !.cons[s.name] = TRUE]
          [] s.action = "owner"         -> [t EXCEPT !.owner = s.owner]
          [] OTHER                      -> [t EXCEPT !.dflt = s.dflt]

AlterDomainEffect(w, s) ==
    Assign(TaintIf(w, s.action = "owner" /\ RoleDoubt(w.c, s.owner)), "types", s.id, AlteredDomain(w.c, s))

AlterDomain == \E s \in TypesTo("alter_domain") : Settle(AlterDomainVerdict(cat, s), AlterDomainEffect(Work, s))

------------------------------------------------------------------------------
(* DROP TYPE and DROP DOMAIN.                                               *)

type_dependent_ids(c, id) == {id} \cup (IF IsType(c, id, "range") THEN {MultirangeOf(c, id)} ELSE {})

(* What depends on the type, its array or its multirange.  A constructor   *)
(* goes with its type, and the element of a base type is not looked at.    *)
has_type_dependents(c, id, co) ==
    LET ids == type_dependent_ids(c, id)
        table(t) == \/ Rel(c, t).oftype = id
                    \/ \E n \in DOMAIN Rel(c, t).cols : RefersTo(Rel(c, t).cols[n].ty, ids)
        routine(f) == /\ c.functions[f].owner \notin ids
                      /\ \/ RefersTo(c.functions[f].ret, ids)
                         \/ \E i \in DOMAIN c.functions[f].args : RefersTo(c.functions[f].args[i], ids)
        type(t) == LET r == c.types[t]
                   IN  \/ r.kind \in {"domain", "range"} /\ RefersTo(r.base, ids)
                       \/ r.kind = "composite" /\ \E f \in DOMAIN r.fields : RefersTo(r.fields[f], ids)
                       \/ r.kind = "range" /\ t # id /\ r.mate \in ids
    IN  \/ \E t \in Live(c.relations) \ co : table(t)
        \/ \E f \in Live(c.functions) \ co : routine(f)
        \/ \E t \in Live(c.types) \ co : type(t)
        \/ \E t \in ids : \E e \in ViewsForType(c.edges, t) \cup ViewsForType(c.edges, ArrayOf(t)) :
              e.d \notin co /\ Present(c.relations, e.d)

DropTypeKinds(s) == IF s.domain THEN {"domain"} ELSE TypeKinds \ {"domain"}
DropTypeTargets(c, s) == {id \in ToSet(s.ids) : TypeLookup(c, id, DropTypeKinds(s)) = "present"}

DropTypeVerdict(c, s) ==
    LET now == DropTypeTargets(c, s)
        target(id) ==
            LET look == TypeLookup(c, id, DropTypeKinds(s))
            IN  IF s.ifexists /\ look \in {"tomb", "absent"} THEN "ok" ELSE Ensure(look)
    IN  Reject(\E id \in ToSet(s.ids) : ExtensionMember(c, "type", id))
        ?? Each(s.ids, target) ?? Skip(now = {})
        ?? Reject(~s.cascade /\ \E id \in now : has_type_dependents(c, id, s.co))

(* finish_type_drop.                                                       *)
DropTypeEffect(w, s) ==
    LET now  == DropTypeTargets(w.c, s)
        with == now \cup {t \in UNION {type_dependent_ids(w.c, id) : id \in now} : Present(w.c.types, t)}
        x    == TaintIf(w, \E id \in now : ScopedFamilyObject(w.c, id, "types"))
    IN  IF s.cascade THEN apply_type_cascade(x, now)
        ELSE DropKeys(DropKeys(x, "functions", routine_cascade_victims(w.c, with)), "types", with)

DropType == \E s \in TypesTo("drop") : Settle(DropTypeVerdict(cat, s), DropTypeEffect(Work, s))
==============================================================================
