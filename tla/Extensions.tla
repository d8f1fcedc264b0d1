----------------------------- MODULE Extensions -----------------------------
(***************************************************************************)
(* Extensions (state/apply_extension.rs).  An extension is [st, schema,    *)
(* version, reloc, owner, members, complete, config, gen]: schema is ""    *)
(* when it is not known, reloc "yes", "no" or "unknown", complete says     *)
(* whether members is all of them, config the tables that a dump reads.    *)
(* A statement has the fields do and                                       *)
(*   create  name schema version ifnot    schema is <<>> or <<name>>       *)
(*   alter   name action ("add", "remove", "update", "schema") member to   *)
(*   drop    names ifexists cascade                                        *)
(* A member of kind "other" is an object that the code does not model.     *)
(* Collations are left out.                                                *)
(***************************************************************************)
EXTENDS Roles

CONSTANT ExtensionStmts

ExtensionsTo(action) == {s \in Offered(ExtensionStmts) : s.do = action}
ExtensionState(c, schema, version) ==
    [st |-> "present", schema |-> schema, version |-> version, reloc |-> "unknown", owner |-> c.me,
     members |-> {}, complete |-> FALSE, config |-> {}, gen |-> c.gen]

(* The script of an extension makes objects that cannot be known.          *)
CreateExtensionVerdict(c, s) ==
    LET there == Present(c.extensions, s.name)
    IN  Skip(there /\ s.ifnot) ?? Reject(there)
        ?? (IF s.schema = <<>> THEN "ok" ELSE EnsureSchema(c, s.schema[1]))

CreateExtensionEffect(w, s) ==
    LET x == Bump(w)
    IN  Taint(Assign(x, "extensions", s.name,
                     ExtensionState(x.c, IF s.schema = <<>> THEN "" ELSE s.schema[1], s.version)))

CreateExtension ==
    \E s \in ExtensionsTo("create") : Settle(CreateExtensionVerdict(cat, s), CreateExtensionEffect(Work, s))

ExtensionLookup(c, name) ==
    CASE Present(c.extensions, name)   -> "present"
      [] Tombstone(c.extensions, name) -> "tomb"
      [] c.known.available /\ "extensions" \in c.known.families -> "absent"
      [] OTHER -> "unknown"

------------------------------------------------------------------------------
(* ADD, DROP and UPDATE.                                                    *)

(* An index is looked up as a relation, which it never is.                 *)
extension_member_presence(c, m) ==
    LET in(map, family) == CASE Present(map, m[2])   -> "present"
                             [] Tombstone(map, m[2]) -> "absent"
                             [] OTHER -> IF Covers(c, m[2], family) THEN "absent" ELSE "unknown"
        orUnknown(p) == IF p THEN "present" ELSE "unknown"
    IN  CASE m[1] \in {"relation", "index"} -> in(c.relations, "relations")
          [] m[1] = "sequence"   -> in(c.sequences, "sequences")
          [] m[1] = "type"       -> in(c.types, "types")
          [] m[1] = "routine"    -> in(c.functions, "functions")
          [] m[1] = "schema"     -> IF SchemaLookup(c, m[2][2]) = "present" THEN "present" ELSE "absent"
          [] m[1] = "constraint" -> orUnknown(<<<<m[2][1], m[2][2]>>, m[2][3]>> \in DOMAIN c.constraints)
          [] m[1] = "trigger"    -> orUnknown(Present(c.triggers, m[2]))
          [] OTHER               -> "unknown"

AlterExtensionVerdict(c, s) ==
    LET m == resolve_extension_member(c, s.member)
    IN  Ensure(ExtensionLookup(c, s.name))
        ?? CASE s.action = "add"    -> Reject(ExtensionMember(c, m[1], m[2]))
                                       ?? Reject(extension_member_presence(c, m) = "absent")
             [] s.action = "remove" -> Reject(m \notin ExtensionMembers(c, s.name))
             [] OTHER               -> Skip(s.to = c.extensions[s.name].version)

AlterExtensionEffect(w, s) ==
    LET x == w.c.extensions[s.name]
        m == resolve_extension_member(w.c, s.member)
        stored == {y \in x.members : resolve_extension_member(w.c, y) = m}
        other == m[1] = "other"
    IN  CASE s.action = "add" ->
                TaintIf(Assign(w, "extensions", s.name,
                               [x EXCEPT !.members = @ \cup {m}, !.complete = @ /\ ~other]),
                        other \/ extension_member_presence(w.c, m) = "unknown")
          [] s.action = "remove" ->
                TaintIf(Assign(w, "extensions", s.name,
                               [x EXCEPT !.members = @ \ {CHOOSE y \in stored : TRUE}]), other)
          [] OTHER -> Taint(Assign(w, "extensions", s.name, [x EXCEPT !.version = s.to]))

------------------------------------------------------------------------------
(* A sequence of statements that the handler runs on a copy: the first     *)
(* that fails discards the copy, and what it had tainted with it.          *)

(* A statement of the handler, with its verdict and what it leaves.        *)
Then(run, v, w) ==
    CASE run.v # "ok" \/ v = "noop" -> run
      [] v = "ok"                   -> [run EXCEPT !.w = w]
      [] OTHER                      -> [run EXCEPT !.v = v]

SettleCopy(run) ==
    IF run.v = "unresolved" THEN SettleRun([v |-> run.v, w |-> Work]) ELSE SettleRun(run)

------------------------------------------------------------------------------
(* SET SCHEMA.                                                              *)

NamespaceBearing == {"relation", "sequence", "index", "type", "routine"}

SetSchemaVerdict(c, s) ==
    LET x == c.extensions[s.name]
        members == ExtensionMembers(c, s.name)
    IN  Ensure(ExtensionLookup(c, s.name)) ?? Reject(x.reloc = "no") ?? EnsureSchema(c, s.to)
        ?? Reject(<<"schema", <<"", s.to>>>> \in x.members)
        ?? Skip(x.schema = s.to)
        ?? Doubt(x.schema = "" /\ members # {})
        ?? Reject(x.schema # "" /\ \E m \in members : m[1] \in NamespaceBearing /\ m[2][1] # x.schema)

OfKind(members, kind) == {m[2] : m \in {x \in members : x[1] = kind}}

Unmoved(c, id) == ResolveRename(c.edges, id) = id

MoveRelationMember(run, m, here) ==
    Then(run, Skip(~here) ?? RenameRelationVerdict(run.w.c, m), RenameRelationEffect(run.w, m))

MoveSequenceMember(run, q) ==
    Then(run, Skip(~Unmoved(run.w.c, q.id) \/ ~Present(run.w.c.sequences, q.id)) ?? AlterSequenceVerdict(run.w.c, q),
         AlterSequenceEffect(run.w, q))

MoveTypeMember(run, m) ==
    Then(run, Skip(~Unmoved(run.w.c, m.old) \/ ~Present(run.w.c.types, m.old)) ?? RenameTypeVerdict(run.w.c, m),
         RenameTypeEffect(run.w, m))

MoveRoutineMember(run, f, new) ==
    Then(run, Skip(f = new \/ ~Present(run.w.c.functions, f)) ?? validate_function_move(run.w.c, f, new),
         move_function(run.w, f, new))

(* Members of each kind in turn; one that moved with another is passed     *)
(* over.                                                                   *)
MoveMembers(run, members, to) ==
    LET new(id) == [id EXCEPT ![1] = to]
        move(id) == [old |-> id, new |-> new(id), domain |-> FALSE]
        alter(id) == [id |-> id, ifexists |-> FALSE, opts |-> NoOptions, action |-> "rename",
                      ownedby |-> <<>>, owner |-> "", to |-> new(id)]
        isIndex(c, id) == Unmoved(c, id) /\ IndexIsPresent(c, id)
        now(c, f) == ResolveRename(c.edges, f)
    IN  FoldSet(LAMBDA f, r : MoveRoutineMember(r, now(r.w.c, f), new(now(r.w.c, f))),
        FoldSet(LAMBDA id, r : MoveTypeMember(r, move(id)),
        FoldSet(LAMBDA id, r : MoveSequenceMember(r, alter(id)),
        FoldSet(LAMBDA x, r : MoveRelationMember(r, move(x), isIndex(r.w.c, x)),
        FoldSet(LAMBDA t, r : MoveRelationMember(r, move(t), Present(r.w.c.relations, t)),
            run, OfKind(members, "relation")), OfKind(members, "index")), OfKind(members, "sequence")),
            OfKind(members, "type")), OfKind(members, "routine"))

(* A mutant: the members keep the identity they had.                       *)
remap_extension_schema(w, s, members) == [w EXCEPT !.c.extensions[s.name].schema = s.to]

(* A rename edge says where a member is now; one that has none is taken to *)
(* be in the new schema.                                                   *)
remap_extension_members(w, s, members) ==
    LET R(id) == ResolveRename(w.c.edges, id)
        old == w.c.extensions[s.name].schema
        stuck(m) == m[1] \in NamespaceBearing /\ R(m[2]) = m[2] /\ m[2][1] = old
        member(m) == IF stuck(m) THEN <<m[1], [m[2] EXCEPT ![1] = s.to]>> ELSE resolve_extension_member(w.c, m)
        table(t) == IF R(t) # t THEN R(t) ELSE Moved(t, old, s.to)
    IN  [TaintIf(w, \E m \in members : stuck(m) \/ m[1] = "other") EXCEPT
            !.c.extensions[s.name].members = {member(m) : m \in members},
            !.c.extensions[s.name].config = {table(t) : t \in @},
            !.c.extensions[s.name].schema = s.to]

MovedTo(run, s, members) ==
    IF run.v = "ok" THEN [run EXCEPT !.w = remap_extension_members(@, s, members)] ELSE run

SetSchemaFrom(w, s, x, members) ==
    MovedTo(MoveMembers([v |-> "ok", w |-> TaintIf(w, x.reloc = "unknown" \/ ~x.complete)], members, s.to), s, members)

(* The extension itself is changed without a snapshot of it.               *)
SetSchemaRun(w, s) ==
    IF w.c.extensions[s.name].schema = ""
    THEN [v |-> "ok", w |-> [Taint(w) EXCEPT !.c.extensions[s.name].schema = s.to]]
    ELSE SetSchemaFrom(w, s, w.c.extensions[s.name], ExtensionMembers(w.c, s.name))

AlterExtension ==
    \E s \in ExtensionsTo("alter") :
        IF s.action # "schema" THEN Settle(AlterExtensionVerdict(cat, s), AlterExtensionEffect(Work, s))
        ELSE IF SetSchemaVerdict(cat, s) # "ok" THEN Settle(SetSchemaVerdict(cat, s), Work)
        ELSE SettleCopy(SetSchemaRun(Work, s))

------------------------------------------------------------------------------
(* DROP EXTENSION: what its members are is dropped with it, the dependents  *)
(* first.                                                                   *)

(* Objects that go with a set of extensions, of which dependents are not   *)
(* looked at.                                                              *)
extension_member_co_dropped(c, names) ==
    LET members == UNION {ExtensionMembers(c, x) : x \in names}
        attached == {m[2] : m \in {y \in members : y[1] \in {"constraint", "trigger"}}}
        plain == {m \in members : m[1] \notin {"schema", "constraint", "trigger"}}
        types == {m[2] : m \in {y \in members : y[1] = "type"}}
    IN  {m[2] : m \in plain} \cup {<<id[1], id[2]>> : id \in attached}
        \cup {m[2] : m \in {y \in members : y[1] = "trigger"}}
        \cup {f \in Live(c.functions) : c.functions[f].owner \in types}
        \cup UNION {{ResolveRename(c.edges, t) : t \in c.extensions[x].config} : x \in names}

extension_has_external_dependents(c, members, co) ==
    LET R(id) == ResolveRename(c.edges, id)
        edge(ks, id) == \E e \in Kind(c.edges, ks) : EdgeIsCurrent(c, e) /\ R(e.r) = id /\ R(e.d) \notin co
        routine(f) == \/ \E e \in TriggersForFunction(c.edges, f) : e.d \notin co /\ Present(c.triggers, e.d)
                      \/ \E e \in ViewsForFunction(c.edges, f) : e.d \notin co /\ Present(c.relations, e.d)
        schema(n) == \E f \in {"relations", "types", "functions", "sequences", "triggers"} :
                        \E id \in Live(c[f]) : id[1] = n /\ id \notin co
        external(m) ==
            CASE m[1] = "relation" -> edge({"view", "fk", "inherit", "part", "pending"}, m[2])
              [] m[1] = "type"     -> has_type_dependents(c, m[2], co)
              [] m[1] = "routine"  -> routine(m[2])
              [] m[1] = "sequence" -> edge({"default"}, m[2])
              [] m[1] = "schema"   -> schema(m[2][2])
              [] OTHER             -> FALSE
    IN  \E m \in members : external(m)

(* A type goes before the types that it is built from.                     *)
extension_type_drop_order(c, types) ==
    LET parts(t) == {t.base} \cup (IF t.kind = "range" THEN {} ELSE {t.mate}) \cup {t.fields[f] : f \in DOMAIN t.fields}
        uses(t) == IF Present(c.types, t) THEN parts(c.types[t]) ELSE {}
        sorted == {q \in SetToSeqs(types) : \A i, j \in DOMAIN q : i < j => q[i] \notin uses(q[j])}
    IN  IF sorted = {} THEN SetToSeq(types) ELSE CHOOSE q \in sorted : TRUE

DropTypeAs(run, d) ==
    Then(run, Skip(~Present(run.w.c.types, d.ids[1])) ?? DropTypeVerdict(run.w.c, d), DropTypeEffect(run.w, d))

DropTypeMember(run, m) ==
    DropTypeAs(run, [ids |-> <<m.id>>, domain |-> IsType(run.w.c, m.id, "domain"), ifexists |-> FALSE,
                     cascade |-> m.cascade, co |-> m.co])

DropTypesInOrder(run, types, s, co) ==
    LET order == extension_type_drop_order(run.w.c, types)
    IN  FoldLeft(DropTypeMember, run, [i \in DOMAIN order |-> [id |-> order[i], cascade |-> s.cascade, co |-> co]])

DropViewMembers(run, v) ==
    Then(run, Skip(v.ids = <<>>) ?? DropViewVerdict(run.w.c, v),
         apply_drop_relation_family(run.w, DropViewTargets(run.w.c, v), v.cascade))

DropTableMembers(run, t) == Then(run, DropTableVerdict(run.w.c, t), DropTableEffect(run.w, t))

DropForeignMembers(run, ids, cascade) ==
    Then(run, Skip(ids = {}), apply_drop_relation_family(run.w, ids, cascade))

(* The kind of a member is the one it has before any is dropped.           *)
DropRelationMembers(run, rels, s, co) ==
    LET of(kind) == {id \in rels : Present(run.w.c.relations, id) /\ run.w.c.relations[id].kind = kind}
        drop(kind) == [kind |-> kind, ids |-> SetToSeq(of(kind)), ifexists |-> FALSE, cascade |-> s.cascade, co |-> co]
    IN  DropForeignMembers(
            DropTableMembers(DropViewMembers(DropViewMembers(run, drop("view")), drop("matview")), drop("table")),
            of("foreign"), s.cascade)

DropIndexes(run, d) == Then(run, DropIndexVerdict(run.w.c, d), DropIndexEffect(run.w, d))

(* Plain indexes, sequences, triggers and constraints among the members.   *)
DropIndexMembers(run, indexes, s) ==
    DropIndexes(run, [ids |-> SetToSeq({i \in indexes : IndexIsPresent(run.w.c, i)}), ifexists |-> FALSE,
                      cascade |-> s.cascade, conc |-> FALSE])

DropSequences(run, d) == Then(run, DropSequenceVerdict(run.w.c, d), DropSequenceEffect(run.w, d))

DropSequenceMembers(run, seqs, s, co) ==
    DropSequences(run, [ids |-> SetToSeq({q \in seqs : Present(run.w.c.sequences, q)}), ifexists |-> FALSE,
                        cascade |-> s.cascade, co |-> co])

DropTriggerMember(run, t, d) ==
    Then(run, Skip(~Present(run.w.c.relations, d.table) \/ ~Present(run.w.c.triggers, t)) ?? DropTriggerVerdict(run.w.c, d),
         DropTriggerEffect(run.w, d))

DropTriggerMembers(run, trgs) ==
    FoldSet(LAMBDA t, r : DropTriggerMember(r, t, [table |-> <<t[1], t[2]>>, name |-> t[3], ifexists |-> FALSE]),
            run, trgs)

DropConstraintMember(run, d) ==
    Then(run, Skip(~Present(run.w.c.relations, d.id) \/ <<d.id, d.name>> \notin DOMAIN run.w.c.constraints)
              ?? ConstraintVerdict(run.w.c, d),
         DropConstraintEffect(run.w, d))

DropConstraintMembers(run, cons, s) ==
    FoldSet(LAMBDA k, r : DropConstraintMember(r, [id |-> <<k[1], k[2]>>, only |-> FALSE, do |-> "drop_con",
                                                   name |-> k[3], ifexists |-> FALSE, cascade |-> s.cascade]),
            run, cons)

DropFunctionMembers(run, d) ==
    Then(run, Skip(d.ids = <<>>) ?? DropRoutineVerdict(run.w.c, d), DropFunctionEffect(run.w, d))

DropAggregateMembers(run, d) ==
    Then(run, Skip(d.ids = <<>>) ?? DropRoutineVerdict(run.w.c, d), DropAggregateEffect(run.w, d))

DropProcedureMembers(run, d) ==
    Then(run, Skip(d.ids = <<>>) ?? DropRoutineVerdict(run.w.c, d),
         DropKeys(run.w, "functions", DropRoutineTargets(run.w.c, d)))

(* Routines that are no part of a type, in one statement per kind.         *)
DropOuterRoutines(run, fns, s, co) ==
    LET part(c, f) == Present(c.functions, f) /\ c.functions[f].owner # <<>>
        outer(c, kind) == {f \in fns : RoutineLookup(c, f, DropKinds(kind)) = "present" /\ ~part(c, f)}
        drop(kind) == [kind |-> kind, ids |-> SetToSeq(outer(run.w.c, kind)), ifexists |-> FALSE,
                       cascade |-> s.cascade, co |-> co]
    IN  DropAggregateMembers(DropProcedureMembers(DropFunctionMembers(run, drop("function")), drop("procedure")),
                             drop("aggregate"))

(* The parts of types that are left when the types are gone.               *)
DropInternalRoutines(run, fns, types, s, co) ==
    DropFunctionMembers(run,
        [kind |-> "function", ifexists |-> FALSE, cascade |-> s.cascade, co |-> co,
         ids |-> SetToSeq({f \in Live(run.w.c.functions) :
                              /\ run.w.c.functions[f].kind \in {"function", "window"}
                              /\ \/ f \in fns /\ run.w.c.functions[f].owner # <<>>
                                 \/ run.w.c.functions[f].owner \in types})])

(* Routines that are no part of a type, in one statement per kind, then    *)
(* the types, then the parts of types that are left.                       *)
DropCallableMembers(run, fns, types, s, co) ==
    DropInternalRoutines(DropTypesInOrder(DropOuterRoutines(run, fns, s, co), types, s, co), fns, types, s, co)

DropSchemaMembers(run, d) ==
    Then(run, Skip(d.names = <<>>) ?? DropSchemaVerdict(run.w.c, d), DropSchemaEffect(run.w, d))

DropAttachedMembers(run, members, s) ==
    DropSchemaMembers(
        DropConstraintMembers(DropTriggerMembers(run, OfKind(members, "trigger")), OfKind(members, "constraint"), s),
        [names |-> SetToSeq({n[2] : n \in OfKind(members, "schema")}), ifexists |-> FALSE, cascade |-> s.cascade])

DropOwnMembers(run, members, config, s, co) ==
    DropSequenceMembers(
        DropIndexMembers(DropRelationMembers(run, OfKind(members, "relation") \cup config, s, co),
                         OfKind(members, "index"), s),
        OfKind(members, "sequence"), s, co)

DropMembers(run, x, members, s, co) ==
    DropAttachedMembers(
        DropCallableMembers(
            DropOwnMembers(
                Then(run, Reject(~s.cascade /\ extension_has_external_dependents(run.w.c, members, co)),
                     TaintIf(run.w, ~x.complete \/ OfKind(members, "other") # {})),
                members, x.config, s, co),
            OfKind(members, "routine"), OfKind(members, "type"), s, co),
        members, s)

drop_extension_members(run, x, s, co) ==
    DropMembers(run, x, {resolve_extension_member(run.w.c, m) : m \in x.members}, s, co)

DropExtensionVerdict(c, s) ==
    Each(s.names, LAMBDA n : IF s.ifexists THEN "ok" ELSE Ensure(ExtensionLookup(c, n)))
    ?? Skip(\A i \in DOMAIN s.names : ~Present(c.extensions, s.names[i]))

(* An extension is marked dropped before its members go, so that it does   *)
(* not protect them.                                                       *)
DropOneExtension(run, x) ==
    IF run.v # "ok" \/ ~Present(run.w.c.extensions, x.name) THEN run
    ELSE drop_extension_members([run EXCEPT !.w = DropKeys(@, "extensions", {x.name})], run.w.c.extensions[x.name],
                                x.stmt, x.all \cup extension_member_co_dropped(run.w.c, {x.name}))

DropExtensions(w, s, names) ==
    FoldLeft(DropOneExtension, [v |-> "ok", w |-> w],
             [i \in DOMAIN names |-> [name |-> names[i], stmt |-> s,
                                       all |-> extension_member_co_dropped(w.c, ToSet(names))]])

DropExtensionRun(w, s) == DropExtensions(w, s, SelectSeq(s.names, LAMBDA n : Present(w.c.extensions, n)))

DropExtension ==
    \E s \in ExtensionsTo("drop") :
        IF DropExtensionVerdict(cat, s) = "ok" THEN SettleCopy(DropExtensionRun(Work, s))
        ELSE Settle(DropExtensionVerdict(cat, s), Work)
=============================================================================
