---------------------------- MODULE CatalogState ----------------------------
(***************************************************************************)
(* The modelled catalog of analysis/state and the way a statement changes  *)
(* it.  cat is a record; its map fields are the HashMaps of LocalState,    *)
(* with an overlay for every key (a present object or a tombstone), edges  *)
(* is the dependency graph, and the other fields are scalars.  A handler   *)
(* is three operators of a family module: a verdict (its checks and early  *)
(* returns, in order), the state it leaves when it applies, and the        *)
(* snapshots it pushed on the undo log of the open transaction.            *)
(*                                                                         *)
(* The transaction here is a single block around the statements; nesting,  *)
(* savepoints and chained commits are MigrationTxn's.                      *)
(***************************************************************************)
EXTENDS Integers, Sequences, FiniteSets, TLC, SequencesExt, DependencyGraph

CONSTANTS
    Names,       \* names the generators of implicit names may use
    MaxSteps     \* bound on the statements of a behaviour

ASSUME CatalogAssumption == MaxSteps \in Nat /\ IsFiniteSet(Names)

VARIABLES
    cat,      \* the catalog
    undo,     \* the undo log of the open transaction
    backup,   \* history: the catalog when the transaction began
    txn,      \* "none", "open" or "aborted"
    result,   \* what the last statement returned
    steps,    \* statements executed
    scene     \* the scenario: where it starts and which statements it runs

catvars == <<cat, undo, backup, txn, result, steps, scene>>

(* The statements of a family, a function of the scenario, that are run.   *)
Offered(family) == IF scene \in DOMAIN family THEN family[scene] ELSE {}

MapFields == {"schemas", "relations", "types", "functions", "sequences",
              "extensions", "publications", "subscriptions", "roles",
              "triggers", "constraints"}

(* Fields a NamespaceSnapshot saves.                                       *)
NamespaceFields ==
    {"schemas", "relations", "types", "functions", "sequences", "extensions",
     "publications", "triggers", "constraints", "pending", "baserel",
     "baseidx", "bfk", "bfkdep", "baseseq", "external", "scope"}

Results == {"ok", "noop", "conflict", "unresolved", "unresolved_statement"}

------------------------------------------------------------------------------
(* Maps with overlays.                                                      *)

Dropped == [st |-> "dropped"]
Gone    == [st |-> "gone"]       \* the key has no overlay

(* The entries of f, and those of g where f has none.                      *)
Over(f, g) == [x \in DOMAIN f \cup DOMAIN g |-> IF x \in DOMAIN f THEN f[x] ELSE g[x]]

Present(map, k)   == k \in DOMAIN map /\ map[k].st = "present"
Tombstone(map, k) == k \in DOMAIN map /\ map[k].st = "dropped"
Live(map)         == {k \in DOMAIN map : map[k].st = "present"}
Put(map, k, v)    == Over([x \in {k} |-> v], map)
Without(map, ks)  == [k \in DOMAIN map \ ks |-> map[k]]
MarkDropped(map, ks) == Over([k \in ks |-> Dropped], map)

(* Move the value of key old to key new.                                   *)
Rekey(map, old, new) == Put(Without(map, {old}), new, map[old])

------------------------------------------------------------------------------
(* The undo log.  For each field or key the oldest saved value is what a   *)
(* rollback leaves, so that is what is kept: slots for single keys saved   *)
(* before the whole map, whole for maps and scalars, graph for the edges.  *)
(* A length marker restores a prefix of the edges: what it saved, less the *)
(* edges that did not stay in place; a full snapshot restores what it saw. *)

EmptyUndo == [slots |-> <<>>, whole |-> <<>>, graph |-> [kind |-> "none", base |-> {}]]

SlotValue(c, s) == IF s[2] \in DOMAIN c[s[1]] THEN c[s[1]][s[2]] ELSE Gone

snapshot_graph(u, c) ==
    IF u.graph.kind = "none" THEN [kind |-> "length", base |-> c.edges] ELSE u.graph

(* A mutant: the full snapshot forgets that a length marker came first.    *)
snapshot_graph_full_late(u, c) ==
    IF u.graph.kind = "full" THEN u.graph ELSE [kind |-> "full", base |-> c.edges]

snapshot_graph_full(u, c) ==
    IF u.graph.kind = "full" THEN u.graph
    ELSE [kind |-> "full", base |-> IF u.graph.kind = "none" THEN c.edges ELSE u.graph.base \cap c.edges]

(* Save single keys of a map and whole fields, unless an older value is kept. *)
SaveSlots(u, c, f, ks) ==
    LET fresh == {<<f, k>> : k \in {x \in ks : <<f, x>> \notin DOMAIN u.slots
                                              /\ f \notin DOMAIN u.whole}}
    IN  [u EXCEPT !.slots = Over(@, [x \in fresh |-> SlotValue(c, x)])]

SaveWhole(u, c, fs) == [u EXCEPT !.whole = Over(@, [f \in fs |-> c[f]])]

RestoredEdges(c, u) ==
    CASE u.graph.kind = "none" -> c.edges
      [] u.graph.kind = "full" -> u.graph.base
      [] OTHER                 -> u.graph.base \cap c.edges

(* rollback_undo_log: the catalog after every saved change is undone.      *)
Undone(c, u) ==
    LET field(f) == IF f \in DOMAIN u.whole THEN u.whole[f] ELSE c[f]
        saved(f) == {x[2] : x \in {y \in DOMAIN u.slots : y[1] = f}}
        restore(f, map) ==
            LET keys == {k \in DOMAIN map \cup saved(f) :
                            k \in saved(f) => u.slots[<<f, k>>] # Gone}
            IN  [k \in keys |-> IF k \in saved(f) THEN u.slots[<<f, k>>] ELSE map[k]]
    IN  [f \in DOMAIN c |->
            CASE f = "edges"      -> RestoredEdges(c, u)
              [] f \in MapFields  -> restore(f, field(f))
              [] OTHER            -> field(f)]

------------------------------------------------------------------------------
(* Verdicts: the checks of a handler in the order the code makes them; the *)
(* first that does not answer "ok" is the result.                          *)

a ?? b == IF a = "ok" THEN b ELSE a
Reject(p) == IF p THEN "conflict" ELSE "ok"
Doubt(p)  == IF p THEN "unresolved" ELSE "ok"
Skip(p)   == IF p THEN "noop" ELSE "ok"

(* The checks of a list, in order: the first failure is the result.        *)
Each(list, check(_)) ==
    LET first(rs, bad) == IF bad = {} THEN "ok" ELSE rs[Min(bad)]
        judge(rs) == first(rs, {i \in DOMAIN rs : rs[i] # "ok"})
    IN  judge([i \in DOMAIN list |-> check(list[i])])

(* The checks of a set that is visited in no fixed order.                  *)
All(S, check(_)) ==
    LET worst(rs) == IF "conflict" \in rs THEN "conflict"
                     ELSE IF "unresolved" \in rs THEN "unresolved" ELSE "ok"
    IN  worst({check(x) : x \in S})

(* The state a handler works on: the catalog and the undo log it pushes   *)
(* its snapshots on, in the order the code takes them.                     *)
Work == [c |-> cat, u |-> undo]

Set(w, f, v)        == [w EXCEPT !.c[f] = v]
Snap(w, f, ks)      == [w EXCEPT !.u = SaveSlots(@, w.c, f, ks)]
SnapWhole(w, fs)    == [w EXCEPT !.u = SaveWhole(@, w.c, fs)]
SnapGraph(w)        == [w EXCEPT !.u.graph = snapshot_graph(w.u, w.c)]
SnapGraphFull(w)    == [w EXCEPT !.u.graph = snapshot_graph_full(w.u, w.c)]
snapshot_namespace(w) == SnapGraphFull(SnapWhole(w, NamespaceFields))

(* Snapshot and change one key of a map; add edges after a length marker;  *)
(* keep the edges that satisfy a test after a full snapshot.               *)
Assign(w, f, k, v)   == [Snap(w, f, {k}) EXCEPT !.c[f] = Put(@, k, v)]
DropKeys(w, f, ks)   == [Snap(w, f, ks) EXCEPT !.c[f] = MarkDropped(@, ks)]
RemoveKeys(w, f, ks) == [Snap(w, f, ks) EXCEPT !.c[f] = Without(@, ks)]
AddEdges(w, E)       == IF E = {} THEN w ELSE [SnapGraph(w) EXCEPT !.c.edges = @ \cup E]
Retain(w, keep(_))   == [SnapGraphFull(w) EXCEPT !.c.edges = {e \in @ : keep(e)}]
Rewrite(w, E) == Set(SnapGraphFull(w), "edges", E)

(* taint: evidence for the rest of the chain is incomplete from here on.   *)
Taint(w) == Set(SnapWhole(w, {"tainted"}), "tainted", TRUE)
TaintIf(w, p) == IF p THEN Taint(w) ELSE w
Bump(w) == Set(SnapWhole(w, {"gen"}), "gen", w.c.gen + 1)

(* apply: the statement runs, its result is recorded and a conflict aborts *)
(* the open transaction.  unresolved() taints the chain.  Outside a        *)
(* transaction there is no log to push a snapshot on.                      *)
Settle(verdict, new) ==
    /\ steps < MaxSteps
    /\ txn # "aborted"
    /\ steps' = steps + 1
    /\ result' = verdict
    /\ LET w == CASE verdict = "ok"         -> new
                  [] verdict = "unresolved" -> Taint(Work)
                  [] OTHER                  -> Work
       IN  /\ cat' = w.c
           /\ undo' = IF txn = "open" THEN w.u ELSE undo
    /\ txn' = IF verdict = "conflict" /\ txn = "open" THEN "aborted" ELSE txn
    /\ UNCHANGED <<backup, scene>>

(* A compound statement: its actions in order.  One that is unresolved     *)
(* leaves what the others did; a conflict restores the whole statement.    *)
RunActions(w, list, check(_, _), effect(_, _)) ==
    LET act(st, x, v) == CASE st.v = "conflict"  -> st
                           [] v = "ok"           -> [st EXCEPT !.w = effect(@, x)]
                           [] v = "noop"         -> st
                           [] v = "unresolved"   -> [v |-> v, w |-> Taint(st.w)]
                           [] OTHER              -> [st EXCEPT !.v = v]
    IN  FoldLeft(LAMBDA st, x : act(st, x, check(st.w.c, x)), [v |-> "ok", w |-> w], list)

SettleRun(run) ==
    IF run.v \in {"ok", "conflict"} THEN Settle(run.v, run.w)
    ELSE /\ steps < MaxSteps /\ txn # "aborted"
         /\ cat' = run.w.c
         /\ undo' = IF txn = "open" THEN run.w.u ELSE undo
         /\ result' = run.v /\ steps' = steps + 1
         /\ UNCHANGED <<backup, txn, scene>>

Begin ==
    /\ txn = "none" /\ steps < MaxSteps
    /\ txn' = "open" /\ undo' = EmptyUndo /\ backup' = cat
    /\ UNCHANGED <<cat, result, steps, scene>>

Commit ==
    /\ txn = "open"
    /\ txn' = "none" /\ undo' = EmptyUndo /\ backup' = <<>>
    /\ UNCHANGED <<cat, result, steps, scene>>

Rollback ==
    /\ txn # "none"
    /\ txn' = "none" /\ undo' = EmptyUndo /\ backup' = <<>>
    /\ cat' = Undone(cat, undo)
    /\ UNCHANGED <<result, steps, scene>>

CatInit(baselines) ==
    /\ scene \in DOMAIN baselines /\ cat = baselines[scene]
    /\ undo = EmptyUndo /\ backup = <<>> /\ txn = "none"
    /\ result = "ok" /\ steps = 0

------------------------------------------------------------------------------
(* What the baseline proves.                                                *)

CatalogFamilies ==
    {"schemas", "relations", "sequences", "indexes", "constraints", "triggers", "functions", "types",
     "extensions", "dependencies", "inheritance", "roles", "publications", "subscriptions"}

(* A scope of {} means that every schema was synchronized.                 *)
InScope(c, schema) == c.scope = {} \/ schema \in c.scope
Covers(c, id, family) == c.known.available /\ InScope(c, id[1]) /\ family \in c.known.families

(* A row of a scoped baseline may have dependents outside the scope.       *)
ScopedFamilyObject(c, id, family) ==
    /\ c.scope # {} /\ Covers(c, id, family)
    /\ \/ ~c.known.boundary
       \/ family \notin {"relations", "types", "functions", "indexes"}
       \/ <<family, id>> \in c.external

SchemaAbsent(c, s) ==
    \/ Tombstone(c.schemas, s)
    \/ c.known.available /\ "schemas" \in c.known.families /\ InScope(c, s)

SchemaLookup(c, s) ==
    CASE Present(c.schemas, s)   -> "present"
      [] Tombstone(c.schemas, s) -> "tomb"
      [] SchemaAbsent(c, s)      -> "absent"
      [] OTHER                   -> "unknown"

IndexIsPresent(c, id) == \E e \in c.edges : e.k = "index" /\ e.d = id

(* One namespace for tables, views, indexes and sequences, as in pg_class; *)
(* a type of that name stands in the way as well.                          *)
NamespaceObject(c, id) ==
    Present(c.relations, id) \/ Present(c.sequences, id) \/ IndexIsPresent(c, id)

NameTaken(c, id) == NamespaceObject(c, id) \/ Present(c.types, id)

RelationLookup(c, id, kinds) ==
    CASE Present(c.relations, id) ->
            IF c.relations[id].kind \in kinds THEN "present" ELSE "wrong"
      [] Tombstone(c.relations, id) -> "tomb"
      [] Present(c.sequences, id) \/ IndexIsPresent(c, id) -> "wrong"
      [] Covers(c, id, "relations") -> "absent"
      [] OTHER -> "unknown"

TypeLookup(c, id, kinds) ==
    CASE Present(c.types, id) -> IF c.types[id].kind \in kinds THEN "present" ELSE "wrong"
      [] Tombstone(c.types, id) -> "tomb"
      [] Covers(c, id, "types") -> "absent"
      [] OTHER -> "unknown"

RoutineLookup(c, id, kinds) ==
    CASE Present(c.functions, id) ->
            IF c.functions[id].kind \in kinds THEN "present" ELSE "wrong"
      [] Tombstone(c.functions, id) -> "tomb"
      [] Covers(c, id, "functions") -> "absent"
      [] OTHER -> "unknown"

(* ensure_*_target: a missing or wrong object is a conflict, an unknown    *)
(* one leaves the outcome unresolved.                                      *)
Ensure(lookup) ==
    CASE lookup = "present" -> "ok"
      [] lookup = "unknown" -> "unresolved"
      [] OTHER              -> "conflict"

(* The same for DROP ... IF EXISTS.                                        *)
EnsureOrSkip(lookup, ifExists) ==
    IF ifExists /\ lookup \in {"tomb", "absent"} THEN "noop" ELSE Ensure(lookup)

(* The targets of a DROP in the order they are written: IF EXISTS passes   *)
(* over an object that is missing, and one that may be missing leaves the  *)
(* statement unresolved once every target has been looked at.              *)
EnsureDropTargets(ids, ifExists, lookup(_)) ==
    LET passed(look) == IF ifExists /\ look \in {"tomb", "absent", "unknown"} THEN "ok" ELSE Ensure(look)
    IN  Each(ids, LAMBDA id : passed(lookup(id)))
        ?? Doubt(\E i \in DOMAIN ids : lookup(ids[i]) = "unknown")

EnsureSchema(c, s) == IF s = "pg_temp" THEN "ok" ELSE Ensure(SchemaLookup(c, s))

------------------------------------------------------------------------------
(* The generators of implicit names take a name that is free in the        *)
(* namespace and not reserved by the statement.                            *)
FreshRelationName(c, schema, reserved) ==
    CHOOSE n \in Names : <<schema, n>> \notin reserved /\ ~NameTaken(c, <<schema, n>>)

FreshConstraintName(c, table, reserved) ==
    CHOOSE n \in Names :
        /\ n \notin reserved
        /\ \A k \in DOMAIN c.constraints : k[1][1] = table[1] => k[2] # n

------------------------------------------------------------------------------
(* Cascades.                                                                *)

IsCurrent(map, id, gen) == id \in DOMAIN map => map[id].st = "present" /\ map[id].gen = gen

(* An edge that carries a generation is current while its dependent is the *)
(* incarnation that made it; an object with no overlay is unknown, so the  *)
(* edge is kept.                                                           *)
EdgeIsCurrent(c, e) ==
    e.k \in {"fk", "view", "trigger"} =>
        IsCurrent(IF e.k = "trigger" THEN c.triggers ELSE c.relations,
                  ResolveRename(c.edges, IF e.k = "trigger" THEN e.trg ELSE e.d), e.gen)

(* The current edges of some kinds that refer to one of the ids.           *)
CurrentOn(c, ids, kinds) ==
    {e \in Kind(c.edges, kinds) : EdgeIsCurrent(c, e) /\ ResolveRename(c.edges, e.r) \in ids}

CascadeStepDown(c, S) == {ResolveRename(c.edges, e.d) : e \in CurrentOn(c, S, {"view", "inherit", "part"})}

CascadeRelations(c, id) ==
    Reach({ResolveRename(c.edges, id)}, LAMBDA S : CascadeStepDown(c, S),
          Cardinality(Kind(c.edges, {"view", "inherit", "part"})))

(* get_cascade_closure: the relations that go, the indexes on them and the *)
(* foreign keys of other tables that reference them.                       *)
CascadeClosure(c, rels) ==
    [relations   |-> rels,
     indexes     |-> {ResolveRename(c.edges, e.d) : e \in CurrentOn(c, rels, {"index"})},
     constraints |-> {<<ResolveRename(c.edges, e.d), e.con>> : e \in CurrentOn(c, rels, {"fk"})}]

cascade_for_relations(c, ids) == CascadeClosure(c, UNION {CascadeRelations(c, id) : id \in ids})

(* remove_dropped_constraints: the metadata of constraints that go with    *)
(* dropped relations, or that are named themselves.                        *)
ConstraintGoes(c, rels, cons, k) ==
    LET goes(t) == t \in rels \/ <<t, k[2]>> \in cons IN goes(ResolveRename(c.edges, k[1]))

ForgetConstraints(w, gone) ==
    LET hit == {f \in {"pending", "bfk"} : w.c[f] \cap gone # {}}
    IN  [SnapWhole(RemoveKeys(w, "constraints", gone \cap DOMAIN w.c.constraints), hit) EXCEPT
            !.c.pending = @ \ gone, !.c.bfk = @ \ gone]

remove_dropped_constraints(w, rels, cons) ==
    ForgetConstraints(w, {k \in DOMAIN w.c.constraints \cup w.c.pending \cup w.c.bfk :
                            ConstraintGoes(w.c, rels, cons, k)})

(* A member of an extension is <<kind, id>>, with <<"", name>> for a       *)
(* schema and <<schema, table, name>> for a constraint or a trigger, and   *)
(* is known by the name it has now.  An object an extension installed can  *)
(* only be dropped with it.                                                *)
resolve_extension_member(c, m) ==
    LET on(table) == <<m[1], <<table[1], table[2], m[2][3]>>>>
    IN  CASE m[1] = "schema" -> m
          [] m[1] \in {"constraint", "trigger"} -> on(ResolveRename(c.edges, <<m[2][1], m[2][2]>>))
          [] OTHER -> <<m[1], ResolveRename(c.edges, m[2])>>

ExtensionMembers(c, x) == {resolve_extension_member(c, m) : m \in c.extensions[x].members}
ExtensionMember(c, kind, id) == \E x \in Live(c.extensions) : <<kind, id>> \in ExtensionMembers(c, x)

(* role_fact_identity and the checks of OWNER TO; "" is a role that the    *)
(* statement does not name.                                                *)
EnsureRole(c, role) ==
    CASE role = ""              -> "unresolved"
      [] Present(c.roles, role) -> "ok"
      [] "roles" \in c.known.families -> "conflict"
      [] OTHER                  -> "ok"
RoleDoubt(c, role) == "roles" \notin c.known.families

------------------------------------------------------------------------------
(* A catalog with no objects, for the baselines of the MC modules.         *)
EmptyCatalog ==
    [schemas |-> <<>>, relations |-> <<>>, types |-> <<>>, functions |-> <<>>,
     sequences |-> <<>>, extensions |-> <<>>, publications |-> <<>>,
     subscriptions |-> <<>>, roles |-> <<>>, triggers |-> <<>>,
     constraints |-> <<>>, edges |-> {}, pending |-> {}, baserel |-> {},
     baseidx |-> {}, bfk |-> {}, bfkdep |-> {}, baseseq |-> {},
     external |-> {}, scope |-> {}, gen |-> 0, tainted |-> FALSE,
     pg16 |-> TRUE, pg17 |-> TRUE, pg18 |-> FALSE, me |-> "app", boot |-> "app",
     grantors |-> {}, gcomplete |-> TRUE,
     known |-> [available |-> TRUE, boundary |-> TRUE, families |-> CatalogFamilies]]

(* Rolling back restores the catalog the transaction began with, whatever  *)
(* its statements did: each handler pushed a snapshot of every key, field  *)
(* and edge it changed (snapshots.rs, rollback.rs), with a full snapshot   *)
(* of the graph wherever an edge is removed or rewritten.                  *)
UndoRestores == txn # "none" => Undone(cat, undo) = backup
==============================================================================
