------------------------------- MODULE Schemas -------------------------------
(***************************************************************************)
(* Schemas (state/apply_schema.rs, schemas.rs).  A statement has           *)
(*   create  name auth ifnot        auth is <<>> or <<role>>               *)
(*   owner   name owner                                                    *)
(*   rename  old new                                                       *)
(*   drop    names ifexists cascade                                        *)
(* The search path follows a schema in SessionSettings.                    *)
(***************************************************************************)
EXTENDS Types

CONSTANT SchemaStmts

SchemasTo(action) == {s \in Offered(SchemaStmts) : s.do = action}
SchemaState(owner, gen) == [st |-> "present", owner |-> owner, gen |-> gen]

(* "" is a role that the statement does not name: the current one stands   *)
(* in for it.                                                              *)
SchemaOwner(c, s) == IF s.auth \in {<<>>, <<"">>} THEN c.me ELSE s.auth[1]

CreateSchemaVerdict(c, s) ==
    LET look == SchemaLookup(c, s.name)
    IN  Skip(look = "present" /\ s.ifnot) ?? Reject(look = "present") ?? Doubt(look = "unknown")
        ?? (IF s.auth = <<"">> THEN "ok" ELSE EnsureRole(c, SchemaOwner(c, s)))

CreateSchemaEffect(w, s) ==
    LET x == Bump(TaintIf(w, s.auth = <<"">> \/ RoleDoubt(w.c, SchemaOwner(w.c, s))))
    IN  Assign(x, "schemas", s.name, SchemaState(SchemaOwner(w.c, s), x.c.gen))

CreateSchema == \E s \in SchemasTo("create") : Settle(CreateSchemaVerdict(cat, s), CreateSchemaEffect(Work, s))

SchemaOwnerEffect(w, s) ==
    Assign(TaintIf(w, RoleDoubt(w.c, s.owner)), "schemas", s.name, [w.c.schemas[s.name] EXCEPT !.owner = s.owner])

ChangeSchemaOwner ==
    \E s \in SchemasTo("owner") :
        Settle(Ensure(SchemaLookup(cat, s.name)) ?? EnsureRole(cat, s.owner), SchemaOwnerEffect(Work, s))

------------------------------------------------------------------------------
(* RENAME: every identity in the schema moves, of tombstones as well.       *)

RenameSchemaVerdict(c, s) ==
    Ensure(SchemaLookup(c, s.old))
    ?? Reject(SchemaLookup(c, s.new) = "present") ?? Doubt(SchemaLookup(c, s.new) = "unknown")

(* Keys that meet a tombstone of the new schema: the maps are rebuilt in   *)
(* the order of a HashMap, and the entry inserted last stays.              *)
MovedMaps == {"relations", "types", "functions", "sequences", "triggers"}
Collisions(c, s) ==
    UNION {{<<f, k>> : k \in {x \in DOMAIN c[f] : x[1] = s.old /\ Moved(x, s.old, s.new) \in DOMAIN c[f]}} :
             f \in MovedMaps}

(* The entry of a map after the move; last are the collisions in which the *)
(* moved entry was the last one in.                                        *)
MovedMap(c, s, f, last) ==
    LET map  == c[f]
        come == {k \in DOMAIN map : k[1] = s.old}
        wins == {k \in come : Moved(k, s.old, s.new) \notin DOMAIN map \/ <<f, k>> \in last}
    IN  Over([k \in {Moved(x, s.old, s.new) : x \in wins} |-> map[CHOOSE x \in wins : Moved(x, s.old, s.new) = k]],
             Without(map, come))

(* What the moved records themselves name.  The columns of tables, the     *)
(* types of typed tables, the functions of triggers and the indexes behind *)
(* constraints keep the name they had.                                     *)
RenamedReferences(r, s, f) ==
    LET ref(x) == IF x = <<>> THEN x ELSE Moved(x, s.old, s.new)
        refs(q) == [i \in DOMAIN q |-> ref(q[i])]
    IN  CASE r.st = "dropped"  -> r
          [] f = "functions"   -> [r EXCEPT !.args = refs(@), !.ret = ref(@), !.owner = ref(@)]
          [] f = "sequences"   -> [r EXCEPT !.ownedby = IF @ = <<>> THEN @ ELSE <<ref(@[1]), @[2]>>]
          [] f = "triggers"    -> [r EXCEPT !.table = ref(@)]
          [] f = "types"       -> [r EXCEPT !.base = ref(@), !.mate = ref(@), !.fields = refs(@),
                                            !.uses = IF r.kind = "range" THEN {ref(u) : u \in @} ELSE @]
          [] OTHER             -> r

RenamedObject(o, s) ==
    CASE o.kind = "table"  -> [o EXCEPT !.id = Moved(@, s.old, s.new)]
      [] o.kind = "schema" /\ o.id = <<"", s.old>> -> [o EXCEPT !.id = <<"", s.new>>]
      [] OTHER -> o

RenamedExtension(x, s) ==
    LET member(m) == IF m[1] # "schema" THEN <<m[1], Moved(m[2], s.old, s.new)>>
                     ELSE IF m[2][2] = s.old THEN <<m[1], <<"", s.new>>>> ELSE m
    IN  [x EXCEPT !.schema = IF @ = s.old THEN s.new ELSE @, !.members = {member(m) : m \in @},
                  !.config = {Moved(t, s.old, s.new) : t \in @}]

rename_schema_namespace(w, s, last) ==
    LET x == snapshot_namespace(w)
        c == x.c
        id(k) == Moved(k, s.old, s.new)
        key(k) == <<id(k[1]), k[2]>>
        live(map, f(_)) == [k \in DOMAIN map |-> IF map[k].st = "present" THEN f(map[k]) ELSE map[k]]
        moved(f) == LET map == MovedMap(c, s, f, last)
                    IN  [k \in DOMAIN map |-> RenamedReferences(map[k], s, f)]
        pub(p) == [p EXCEPT !.objs = {RenamedObject(o, s) : o \in @}]
        alias == {k \in UNION {DOMAIN c[f] : f \in MovedMaps} : k[1] = s.old}
    IN  [x EXCEPT !.c = Over(
          [relations    |-> moved("relations"), types |-> moved("types"), functions |-> moved("functions"),
           sequences    |-> moved("sequences"), triggers |-> moved("triggers"),
           publications |-> live(c.publications, pub),
           constraints  |-> [k \in {key(j) : j \in DOMAIN c.constraints} |->
                               LET map == c.constraints IN map[CHOOSE j \in DOMAIN map : key(j) = k]],
           pending      |-> {key(k) : k \in c.pending}, bfk |-> {key(k) : k \in c.bfk},
           extensions   |-> live(c.extensions, LAMBDA e : RenamedExtension(e, s)),
           edges        |-> FoldSet(LAMBDA k, E : AddEdge(E, RenameEdge(k, id(k))),
                                    RemapSchemaNamespace(c.edges, s.old, s.new), alias),
           baserel      |-> {id(k) : k \in c.baserel}, baseidx |-> {id(k) : k \in c.baseidx},
           bfkdep       |-> {id(k) : k \in c.bfkdep}, baseseq |-> {id(k) : k \in c.baseseq},
           external     |-> {<<k[1], id(k[2])>> : k \in c.external},
           scope        |-> {IF n = s.old THEN s.new ELSE n : n \in c.scope},
           schemas      |-> Put(Put(c.schemas, s.new, c.schemas[s.old]), s.old, Dropped)],
          c)]

RenameSchema ==
    \E s \in SchemasTo("rename") :
        LET v == RenameSchemaVerdict(cat, s)
        IN  \E last \in (IF v = "ok" THEN SUBSET Collisions(cat, s) ELSE {{}}) :
                Settle(v, rename_schema_namespace(Work, s, last))

------------------------------------------------------------------------------
(* DROP SCHEMA.                                                             *)

extension_schema_drop_conflict(c, name) == ExtensionMember(c, "schema", <<"", name>>)
InSchemas(names, keys) == {k \in keys : k[1] \in names}

(* RESTRICT: something depends on the schema from outside, or it is not    *)
(* empty; and an empty one may hold objects that are not modelled.         *)
SchemasMayGo(c, names) ==
    Reject(\E e \in c.edges : /\ EdgeIsCurrent(c, e) /\ e.k # "rename"
                              /\ e.r[1] \in names /\ e.d[1] \notin names)
    ?? Reject(\E f \in MovedMaps : InSchemas(names, Live(c[f])) # {})
    ?? "unresolved"

DropSchemaVerdict(c, s) ==
    LET target(n) ==
            LET look == SchemaLookup(c, n)
            IN  Reject(look \in {"tomb", "absent"} /\ ~s.ifexists)
    IN  Reject(\E i \in DOMAIN s.names : extension_schema_drop_conflict(c, s.names[i]))
        ?? Each(s.names, target)
        ?? Doubt(\E i \in DOMAIN s.names : SchemaLookup(c, s.names[i]) = "unknown")
        ?? Skip(\A i \in DOMAIN s.names : ~Present(c.schemas, s.names[i]))
        ?? (IF s.cascade THEN "ok" ELSE SchemasMayGo(c, ToSet(s.names)))

(* A mutant: only the sequences that dropped tables own go.                *)
DropSchemaOwnedSequences(w, names, rels) ==
    LET gone == {q \in Live(w.c.sequences) :
                    w.c.sequences[q].ownedby # <<>> /\ ResolveRename(w.c.edges, w.c.sequences[q].ownedby[1]) \in rels}
    IN  [clear_sequence_defaults_on_cascade(w, gone) EXCEPT !.c.sequences = MarkDropped(@, gone)]

(* Sequences in the schemas or owned by a table that goes; the defaults    *)
(* that read them are cleared.                                             *)
DropSchemaSequences(w, names, rels) ==
    LET c == w.c
        goes(q) == \/ q[1] \in names
                   \/ c.sequences[q].ownedby # <<>> /\ ResolveRename(c.edges, c.sequences[q].ownedby[1]) \in rels
        gone == {q \in Live(c.sequences) : goes(q)}
    IN  [clear_sequence_defaults_on_cascade(w, gone) EXCEPT !.c.sequences = MarkDropped(@, gone)]

(* Triggers in the schemas, on a table that goes, or that call a function  *)
(* that goes.                                                              *)
SchemaTriggers(c, rels, fns, names) ==
    {t \in Live(c.triggers) :
        \/ t[1] \in names \/ ResolveRename(c.edges, c.triggers[t].table) \in rels
        \/ \E e \in Kind(c.edges, {"trigger"}) : e.trg = t /\ e.fn \in fns}

DropTypesIn(w, ty) == IF ty = {} THEN w ELSE apply_type_cascade(w, ty)

DropSchemaRelations(w, names, rels) ==
    [TaintIf(w, ~(rels \subseteq Live(w.c.relations))) EXCEPT
        !.c.relations = MarkDropped(@, rels \cap Live(@)),
        !.c.types = MarkDropped(@, InSchemas(names, DOMAIN @))]

(* Publications keep what is outside the schemas.                          *)
DropSchemaReferences(w, names) ==
    LET stays(o) == o.id[IF o.kind = "table" THEN 1 ELSE 2] \notin names
        pub(p) == IF p.st = "present" THEN [p EXCEPT !.objs = {o \in @ : stays(o)}] ELSE p
    IN  [w EXCEPT !.c.pending = {k \in @ : k[1][1] \notin names},
                  !.c.publications = [p \in DOMAIN @ |-> pub(@[p])]]

DropSchemaEdges(w, names, gone, fns, trgs) ==
    LET R(id) == ResolveRename(w.c.edges, id)
    IN  Retain(w, LAMBDA e :
            /\ {R(e.d), R(e.r)} \cap gone.relations = {} /\ R(e.d) \notin gone.indexes
            /\ e.d[1] \notin names /\ e.r[1] \notin names
            /\ ~(e.k = "fk" /\ <<R(e.d), e.con>> \in gone.constraints)
            /\ ~(e.k = "trigger" /\ (e.trg \in trgs \/ e.fn \in fns)))

DropSchemaRoutines(w, names, gone, fns, trgs) ==
    DropSchemaEdges(
        DropSchemaReferences(
            remove_dropped_constraints([w EXCEPT !.c.functions = MarkDropped(@, fns), !.c.triggers = MarkDropped(@, trgs)],
                                       gone.relations, gone.constraints),
            names),
        names, gone, fns, trgs)

DropSchemaCalled(w, names, gone, fns) ==
    DropSchemaRoutines(w, names, gone, fns, SchemaTriggers(w.c, gone.relations, fns, names))

DropSchemaSequenced(w, names, gone) ==
    DropSchemaCalled(w, names, gone, InSchemas(names, DOMAIN w.c.functions))

DropSchemaClosure(w, names, gone) ==
    DropSchemaSequenced(
        DropSchemaSequences(DropSchemaRelations(w, names, gone.relations), names, gone.relations), names, gone)

DropSchemaTypes(w, names) == DropTypesIn(w, InSchemas(names, Live(w.c.types)))

DropSchemaContents(w, names) ==
    DropSchemaClosure(w, names, cascade_for_relations(w.c, InSchemas(names, Live(w.c.relations))))

DropSchemas(w, names) ==
    DropKeys(DropSchemaContents(DropSchemaTypes(snapshot_namespace(w), names), names), "schemas", names)

DropSchemaEffect(w, s) == DropSchemas(w, {n \in ToSet(s.names) : Present(w.c.schemas, n)})

DropSchema == \E s \in SchemasTo("drop") : Settle(DropSchemaVerdict(cat, s), DropSchemaEffect(Work, s))
==============================================================================
