------------------------------ MODULE NameLookup ------------------------------
(***************************************************************************)
(* Which object an unqualified name means (analysis/resolver.rs,           *)
(* analysis/namespace.rs, state/accessors.rs, state/lookup.rs,             *)
(* state/names.rs), next to the server the migration will run on.          *)
(*                                                                         *)
(* `tool` is what the analysis knows: overlays of schemas, relations and   *)
(* sequences, and of the graph the indexes and the aliases that renames    *)
(* leave behind, filled from a baseline that covers all schemas or some.   *)
(* `server` is the database itself: its state agrees with the baseline     *)
(* where that covers it, and is arbitrary elsewhere.  Every statement is   *)
(* given to both.  Once the analysis has said that it does not know, the   *)
(* two are compared no further.                                            *)
(***************************************************************************)
EXTENDS ImplicitNames, Functions

CONSTANTS
    Schemas,    \* names of permanent schemas
    Tables,     \* names given to tables
    Held,       \* names the tables of the database have at first
    Shapes,     \* new tables: [cols |-> their serial columns, key |-> whether they have a key]
    Paths,      \* what search_path is set to
    MaxSteps    \* bound: statements of one migration

IsSequence(n) == n \in Seq(Range(n))

ASSUME NamesAssumption ==
    /\ {"", "pg_temp"} \cap Schemas = {} /\ Paths \subseteq Seq(Schemas)
    /\ \A n \in Tables : IsSequence(n)
    /\ \A s \in Shapes : /\ IsSequence(s.cols) /\ \A i \in DOMAIN s.cols : IsSequence(s.cols[i])
                         /\ s.key \in BOOLEAN

VARIABLES
    tool,       \* [schemas, scope, relations, sequences, indexes, aliases, temp]
    server,     \* [schemas, rels, temp]: external
    template,   \* search_path as written
    existing,   \* source_existing_schemas: <<set>>, or <<>> where not recorded
    answer,     \* how the verdict of the analysis on the last statement compares
    steps       \* statements applied

vars == <<tool, server, template, existing, answer, steps>>

Temp == "pg_temp"
All == Schemas \cup {"", Temp}    \* the scope of a baseline without baseline_schemas
Full == tool.scope = All

------------------------------------------------------------------------------
(* Objects of the relation namespace: their kind, and the table they go    *)
(* with.  What is dropped from an overlay leaves a tombstone there.        *)

Live(rels) == {id \in DOMAIN rels : rels[id].kind # "dropped"}
Object(kind, of) == [kind |-> kind, of |-> of]
Tombstone == Object("dropped", <<>>)
NamesIn(rels, schema) == {id[2] : id \in {x \in Live(rels) : x[1] = schema}}
Over(g, f) == [x \in DOMAIN f \cup DOMAIN g |-> IF x \in DOMAIN g THEN g[x] ELSE f[x]]
With(f, x, y) == [z \in DOMAIN f \cup {x} |-> IF z = x THEN y ELSE f[z]]
Bury(rels, gone) == [id \in DOMAIN rels |-> IF id \in gone THEN Tombstone ELSE rels[id]]
Without(rels, gone) == Restrict(rels, DOMAIN rels \ gone)
Present(rels) == Restrict(rels, Live(rels))

(* The overlays and the graph share one namespace.  An index is the source *)
(* of an IndexOnRelation edge.                                             *)
Namespace(t) == Over(Present(t.relations), Over(Present(t.sequences), t.indexes))

(* relation_namespace_object_is_present                                    *)
IsTaken(rels, id) == id \in Live(rels)

------------------------------------------------------------------------------
(* Aliases: the RenameTo edges that the renames of schemas left in the     *)
(* graph, those of a rename together, oldest first.                        *)

Aliasing(aliases, id) == {i \in DOMAIN aliases : aliases[i].from = id[1] /\ id[2] \in aliases[i].names}

Alias(aliases, id) ==
    LET at == Aliasing(aliases, id)
    IN  IF at = {} THEN id ELSE <<aliases[First(at)].to, id[2]>>

(* What the aliases make of an identity: each leads to another schema, and *)
(* a cycle back to the identity itself.                                    *)
Resolved(t, id) ==
    LET hop[n \in 0..Cardinality(Schemas)] == IF n = 0 THEN id ELSE Alias(t.aliases, hop[n - 1])
        last == hop[Cardinality(Schemas)]
    IN  IF Aliasing(t.aliases, last) = {} THEN last ELSE id

(* The edges that remain when those between some identities go.            *)
Kept(aliases, Goes(_, _)) ==
    [i \in DOMAIN aliases |->
        [aliases[i] EXCEPT !.names =
            {n \in @ : ~Goes(<<aliases[i].from, n>>, <<aliases[i].to, n>>)}]]

(* An alias still leads from one of the objects, or to it, although the    *)
(* name it was left under has been given to another object since.          *)
Confused(ids) ==
    \E x \in Live(Namespace(tool)) :
        Resolved(tool, x) # x /\ {x, Resolved(tool, x)} \cap ids # {}

------------------------------------------------------------------------------
(* The effective search path.                                              *)

Searched(n) == [searched |-> TRUE, name |-> n]
Unresolved(n) == [searched |-> FALSE, name |-> n]

(* Mutant: only a schema the migration dropped is known to be absent.      *)
tombstone_is_authoritative(n) == tool.schemas[n] = "dropped"

schema_absence_is_authoritative(n) == tool.schemas[n] = "dropped" \/ n \in tool.scope
schema_did_not_exist_at_sync(n) == existing # <<>> /\ n \notin existing[1]

temp_namespace_exists == tool.temp /\ \E id \in DOMAIN tool.relations : id[1] = Temp

NoEntry == Unresolved("")

(* push_path_entry: what a written name contributes to the path.           *)
PathEntry(n) ==
    IF tool.schemas[n] = "present" THEN Searched(n)
    ELSE IF schema_absence_is_authoritative(n) \/ schema_did_not_exist_at_sync(n) THEN NoEntry
    ELSE Unresolved(n)

(* A place for every written name, with no entry in it where the name      *)
(* contributes nothing new.                                                *)
search_path ==
    LET entry(i) == PathEntry(template[i])
    IN  [i \in DOMAIN template |->
            IF \E j \in 1..(i - 1) : entry(j) = entry(i) THEN NoEntry ELSE entry(i)]

(* The temporary schema has the place before the written names.            *)
relation_search_path ==
    IF temp_namespace_exists THEN With(search_path, 0, Searched(Temp)) ELSE search_path

------------------------------------------------------------------------------
(* Names to identities.  A qualified name is <<schema, name>>, with the    *)
(* schema "" where none is written; the result also says whether the       *)
(* schema was inferred.                                                    *)

Entries(path) == {i \in DOMAIN path : path[i] # NoEntry}
Blind(path) == {i \in Entries(path) : ~path[i].searched}

(* The name at the first of the places.                                    *)
NameAt(path, places) ==
    IF places = {} THEN "" ELSE path[First(places)].name

resolve_in_namespace(ref) ==
    LET path == relation_search_path
        hits == {i \in DOMAIN path : path[i].searched /\ IsTaken(Namespace(tool), <<path[i].name, ref[2]>>)}
        schema == NameAt(path, IF hits = {} THEN Entries(path) ELSE hits)
    IN  IF ref[1] # "" THEN [id |-> ref, inferred |-> FALSE]
        ELSE [id |-> <<schema, ref[2]>>, inferred |-> TRUE]

(* The first schema of the path that is searched, else the first entry.    *)
creation_schema ==
    LET found == {i \in DOMAIN search_path : search_path[i].searched}
    IN  NameAt(search_path, IF found = {} THEN Entries(search_path) ELSE found)

resolve_creation_name(ref) ==
    IF ref[1] # "" THEN [id |-> ref, inferred |-> FALSE]
    ELSE [id |-> <<creation_schema, ref[2]>>, inferred |-> TRUE]

(* Whether an entry that cannot be searched comes before the schema; a     *)
(* schema that is not in the path comes after all of them.                 *)
path_shadows(schema) ==
    LET upto == {i \in DOMAIN search_path : search_path[i] = Searched(schema)}
        before == IF upto = {} THEN DOMAIN search_path ELSE 1..First(upto)
    IN  before \cap Blind(search_path) # {}

(* Mutant: only a name that was not found can be shadowed.                 *)
shadowed_misses_only(r) == r.inferred /\ ~IsTaken(Namespace(tool), r.id) /\ path_shadows(r.id[1])

lookup_shadowed(r) == r.inferred /\ path_shadows(r.id[1])

(* A tombstone among the relations comes before whatever has the name now. *)
relation_lookup(r) ==
    IF lookup_shadowed(r) THEN "unknown"
    ELSE IF r.id \in DOMAIN tool.relations
    THEN IF r.id \in Live(tool.relations) THEN "present" ELSE "tombstone"
    ELSE IF IsTaken(Namespace(tool), r.id) THEN "wrong kind"
    ELSE IF r.id[1] \in tool.scope THEN "absent" ELSE "unknown"

schema_lookup(n) ==
    IF n \in Schemas /\ tool.schemas[n] # "none" THEN tool.schemas[n]
    ELSE IF n \in tool.scope THEN "absent" ELSE "unknown"

ensure_creation_target(r) ==
    IF r.id[1] = Temp THEN "ok"
    ELSE IF lookup_shadowed(r) THEN "unresolved"
    ELSE CASE schema_lookup(r.id[1]) = "present" -> "ok"
           [] schema_lookup(r.id[1]) = "unknown" -> "unresolved"
           [] OTHER                              -> "conflict"

------------------------------------------------------------------------------
(* The server: a path skips the schemas that do not exist, the temporary   *)
(* one comes first, and the first match wins.                              *)

(* The name first written at one of the places.                            *)
FirstWritten(places) ==
    IF places = {} THEN "" ELSE template[First(places)]

ServerPlaces == {i \in DOMAIN template : template[i] \in server.schemas}

ServerLookup(ref) ==
    LET hits == {i \in ServerPlaces : <<template[i], ref[2]>> \in DOMAIN server.rels}
        id == IF ref[1] # "" THEN ref
              ELSE IF server.temp /\ <<Temp, ref[2]>> \in DOMAIN server.rels THEN <<Temp, ref[2]>>
              ELSE <<FirstWritten(hits), ref[2]>>
    IN  IF id \in DOMAIN server.rels THEN id ELSE <<>>

ServerTarget(ref) ==
    LET schema == IF ref[1] # "" THEN ref[1] ELSE FirstWritten(ServerPlaces)
    IN  IF schema \in server.schemas THEN <<schema, ref[2]>> ELSE <<>>
------------------------------------------------------------------------------
(* A statement: what the analysis says of it and what the server does.     *)
(* Where the analysis cannot say, the comparison ends.  It ends too where  *)
(* the analysis is known to go wrong: `excuse` says how if it misjudges    *)
(* the statement, `doubt` how if it applies it to something else.          *)

Done(id) == [result |-> "ok", id |-> id]
Error == [result |-> "error", id |-> <<>>]
Nothing == [result |-> "skip", id |-> <<>>]

Agrees(verdict, outcome, id) ==
    CASE verdict = "ok"       -> outcome = Done(id)
      [] verdict = "conflict" -> outcome.result = "error"
      [] verdict = "skip"     -> outcome.result = "skip"

Statement(verdict, outcome, id, excuse, doubt, effect, change) ==
    /\ answer' = IF verdict = "unresolved" THEN "unresolved"
                 ELSE IF Agrees(verdict, outcome, id)
                 THEN IF verdict = "ok" THEN doubt ELSE "agreed"
                 ELSE excuse
    /\ steps' = steps + (IF verdict = "ok" THEN 1 ELSE 0)
    /\ steps' <= MaxSteps
    /\ tool' = IF verdict = "ok" THEN effect ELSE tool
    /\ server' = IF outcome.result = "ok" THEN change ELSE server
    /\ UNCHANGED existing

SetPath(p) ==
    /\ Statement("ok", Done(<<>>), <<>>, "wrong", "agreed", tool, server)
    /\ template' = p

(* CREATE TABLE.  The analysis picks the names of the sequences, then the  *)
(* one of the key, before the table or any of them is there; the server    *)
(* makes the sequences, the table and the index in turn.                   *)

SeqLabel == <<"s", "e", "q">>
KeyLabel == <<"p", "k", "e", "y">>
Seconds == {<<>>} \cup {<<c>> : c \in UNION {Range(s.cols) : s \in Shapes}}
Sources == Tables \X Seconds \X {SeqLabel, KeyLabel}
Generated == [n \in Sources |-> Candidates(n[1], n[2], n[3])]
Expected == [n \in Sources |-> FairCandidates(n[1], n[2], n[3])]

SequenceLists(generator, table, cols) == [i \in DOMAIN cols |-> generator[<<table, <<cols[i]>>, SeqLabel>>]]

(* The reserved names are the ones picked before.                          *)
next_implicit_sequence_ids(rels, id, cols) ==
    InTurn(SequenceLists(Generated, id[2], cols), NamesIn(rels, id[1]))

primary_key_name(rels, id) == FirstFree(Generated[<<id[2], <<>>, KeyLabel>>], NamesIn(rels, id[1]))

SequencesOf(id, names) == [x \in {<<id[1], names[i]>> : i \in DOMAIN names} |-> Object("sequence", id)]

Created(t, id, cols, key) ==
    LET rels == Namespace(t)
    IN  [t EXCEPT !.relations = With(@, id, Object("table", <<>>)),
                  !.sequences = Over(SequencesOf(id, next_implicit_sequence_ids(rels, id, cols)), @),
                  !.indexes = IF key THEN With(@, <<id[1], primary_key_name(rels, id)>>, Object("index", id))
                              ELSE @]

ServerCreated(rels, id, cols, key) ==
    LET names == InTurn(SequenceLists(Expected, id[2], cols), NamesIn(rels, id[1]))
        table == With(Over(SequencesOf(id, names), rels), id, Object("table", <<>>))
        index == FirstFree(Expected[<<id[2], <<>>, KeyLabel>>], NamesIn(table, id[1]))
    IN  IF key THEN With(table, <<id[1], index>>, Object("index", id)) ELSE table

(* The sequences need their names before the table has its own.            *)
ServerSelfNamed(rels, id, cols) ==
    id[2] \in Range(InTurn(SequenceLists(Expected, id[2], cols), NamesIn(rels, id[1])))

(* The names the analysis generates for the parts of a table.              *)
PartNames(rels, id, cols, key) ==
    Range(next_implicit_sequence_ids(rels, id, cols))
        \cup (IF key THEN {primary_key_name(rels, id)} ELSE {})

(* Bound: no table for which the candidates run out.                       *)
CreateTable(ref, cols, key) ==
    LET r == resolve_creation_name(ref)
        on == ServerTarget(ref)
        target == ensure_creation_target(r)
        rels == Namespace(tool)
        verdict == IF target = "ok" /\ IsTaken(rels, r.id) THEN "conflict" ELSE target
        outcome == IF on = <<>> \/ IsTaken(server.rels, on) \/ ServerSelfNamed(server.rels, on, cols)
                   THEN Error ELSE Done(on)
        selfnamed == verdict = "ok" /\ r.id[2] \in PartNames(rels, r.id, cols, key)
    IN  /\ verdict = "ok" => NoName \notin PartNames(rels, r.id, cols, key)
        /\ Statement(verdict, outcome, r.id,
                     IF selfnamed THEN "self-named" ELSE "wrong",
                     IF selfnamed THEN "self-named" ELSE "agreed",
                     Created(tool, r.id, cols, key),
                     [server EXCEPT !.rels = ServerCreated(@, on, cols, key)])
        /\ UNCHANGED template

(* CREATE TEMPORARY TABLE: in the session's schema whatever the path says. *)
TempCreated(t, id) == [t EXCEPT !.relations = With(@, id, Object("table", <<>>)), !.temp = TRUE]

CreateTempTable(n) ==
    LET id == <<Temp, n>>
    IN  /\ Statement(IF IsTaken(Namespace(tool), id) THEN "conflict" ELSE "ok",
                     IF IsTaken(server.rels, id) THEN Error ELSE Done(id), id, "wrong", "agreed",
                     TempCreated(tool, id),
                     [server EXCEPT !.rels = With(@, id, Object("table", <<>>)), !.temp = TRUE])
        /\ UNCHANGED template

(* DROP TABLE.  A name that is not found is answered for the first entry   *)
(* of the path alone; a later one may not have been searched.              *)
DoubtfulMiss(r, look) ==
    /\ r.inferred /\ look \in {"absent", "tombstone"}
    /\ Blind(search_path) # {}

(* The tombstone of a table answers for what has its name now.             *)
HiddenHit(r, look) == look = "tombstone" /\ IsTaken(Namespace(tool), r.id)

(* Mutant: the sequences of the table stay.                                *)
DroppedAlone(t, root) == [t EXCEPT !.relations = With(@, root, Tombstone)]

(* The table is looked up as written, and dropped as the aliases have it.  *)
Dropped(t, root) ==
    LET Is(x) == Resolved(t, x) = root
    IN  [t EXCEPT !.relations = With(@, root, Tombstone),
                  !.sequences = Bury(@, {x \in Live(@) : Is(@[x].of)}),
                  !.indexes = Without(@, {x \in DOMAIN @ : Is(x) \/ Is(@[x].of)}),
                  !.aliases = LET Goes(x, y) == Is(x) \/ Is(y) IN Kept(@, Goes)]

Dependents(rels, id) == {x \in Live(rels) : x = id \/ rels[x].of = id}

DropTable(ref, if_exists) ==
    LET r == resolve_in_namespace(ref)
        look == relation_lookup(r)
        verdict == CASE look = "present"    -> "ok"
                     [] look = "wrong kind" -> "conflict"
                     [] look = "unknown"    -> "unresolved"
                     [] OTHER               -> IF if_exists THEN "skip" ELSE "conflict"
        on == ServerLookup(ref)
        outcome == IF on = <<>> THEN IF if_exists THEN Nothing ELSE Error
                   ELSE IF server.rels[on].kind = "table" THEN Done(on) ELSE Error
    IN  /\ Statement(verdict, outcome, r.id,
                     IF DoubtfulMiss(r, look) THEN "missed"
                     ELSE IF HiddenHit(r, look) THEN "hidden" ELSE "wrong",
                     IF Confused({r.id}) THEN "aliased" ELSE "agreed",
                     Dropped(tool, Resolved(tool, r.id)),
                     [server EXCEPT !.rels = Without(@, Dependents(@, on))])
        /\ UNCHANGED template

(* CREATE, DROP ... CASCADE and RENAME of a schema.                        *)
OfSchema(look, wanted) ==
    IF look = "unknown" THEN "unresolved" ELSE IF (look = "present") = wanted THEN "ok" ELSE "conflict"

SchemaCreated(t, n) == [t EXCEPT !.schemas[n] = "present"]

CreateSchema(n) ==
    /\ Statement(OfSchema(schema_lookup(n), FALSE),
                 IF n \in server.schemas THEN Error ELSE Done(<<>>), <<>>, "wrong", "agreed",
                 SchemaCreated(tool, n),
                 [server EXCEPT !.schemas = @ \cup {n}])
    /\ UNCHANGED template

Within(rels, n) == {id \in Live(rels) : id[1] = n}

(* The cascade starts from the tables as the aliases have them; sequences, *)
(* indexes and aliases go with them, and with the schema.                  *)
all_dropped(t, n) == {Resolved(t, x) : x \in Within(t.relations, n)}
dropped_indexes(t, n) ==
    {Resolved(t, x) : x \in {y \in DOMAIN t.indexes : Resolved(t, t.indexes[y].of) \in all_dropped(t, n)}}
GoesWith(t, n, x, y) ==
    \/ Resolved(t, x) \in all_dropped(t, n) \cup dropped_indexes(t, n)
    \/ Resolved(t, y) \in all_dropped(t, n)
    \/ n \in {x[1], y[1]}

SchemaDropped(t, n) ==
    [t EXCEPT !.schemas[n] = "dropped",
              !.relations = Bury(@, all_dropped(t, n) \cap Live(@)),
              !.sequences = Bury(@, {x \in Live(@) :
                                x[1] = n \/ Resolved(t, @[x].of) \in all_dropped(t, n)}),
              !.indexes = Without(@, {x \in DOMAIN @ : GoesWith(t, n, x, @[x].of)}),
              !.aliases = LET Goes(x, y) == GoesWith(t, n, x, y) IN Kept(@, Goes)]

DropSchema(n) ==
    /\ Statement(OfSchema(schema_lookup(n), TRUE),
                 IF n \in server.schemas THEN Done(<<>>) ELSE Error, <<>>, "wrong",
                 IF Confused(Within(Namespace(tool), n)) THEN "aliased" ELSE "agreed",
                 SchemaDropped(tool, n),
                 [server EXCEPT !.schemas = @ \ {n}, !.rels = Without(@, Within(@, n))])
    /\ UNCHANGED template

(* remap_schema_id                                                         *)
Renamed(id, old, new) == IF id # <<>> /\ id[1] = old THEN <<new, id[2]>> ELSE id

(* What has an entry under the new name already, by an earlier schema of   *)
(* that name, and is to have another one.                                  *)
Collisions(rels, old, new) == {id \in DOMAIN rels : id[1] = new /\ <<old, id[2]>> \in Live(rels)}

(* The overlay is rebuilt in the order of its hash map: of two entries     *)
(* that now have one identity either may be the last; `kept` are those     *)
(* where the earlier schema's is.                                          *)
Remapped(rels, old, new, kept) ==
    LET Source(y) == IF y[1] = new /\ <<old, y[2]>> \in DOMAIN rels /\ y \notin kept
                     THEN <<old, y[2]>> ELSE y
        entry(x) == Object(rels[x].kind, Renamed(rels[x].of, old, new))
    IN  [y \in {Renamed(x, old, new) : x \in DOMAIN rels} |-> entry(Source(y))]

Moved(schema, old, new) == IF schema = old THEN new ELSE schema

(* The aliases there are move too; every entry that moves leaves another,  *)
(* tombstones included.                                                    *)
Realiased(t, old, new) ==
    LET moving == {id[2] : id \in {x \in DOMAIN t.relations \cup DOMAIN t.sequences : x[1] = old}}
    IN  Append([i \in DOMAIN t.aliases |->
                   [t.aliases[i] EXCEPT !.from = Moved(@, old, new), !.to = Moved(@, old, new)]],
               [from |-> old, to |-> new, names |-> moving])

SchemaRenamed(t, old, new, kept) ==
    [t EXCEPT !.schemas = [@ EXCEPT ![old] = "dropped", ![new] = "present"],
              !.scope = IF old \in @ /\ @ # All THEN (@ \ {old}) \cup {new} ELSE @,
              !.relations = Remapped(@, old, new, kept.relations),
              !.sequences = Remapped(@, old, new, kept.sequences),
              !.indexes = Remapped(@, old, new, {}),
              !.aliases = Realiased(t, old, new)]

RenameSchema(old, new) ==
    LET verdict == IF OfSchema(schema_lookup(old), TRUE) # "ok" THEN OfSchema(schema_lookup(old), TRUE)
                   ELSE OfSchema(schema_lookup(new), FALSE)
        relations == Collisions(tool.relations, old, new)
        sequences == Collisions(tool.sequences, old, new)
    IN  \E kept \in [relations : SUBSET relations, sequences : SUBSET sequences] :
            /\ Statement(verdict,
                         IF old \in server.schemas /\ new \notin server.schemas THEN Done(<<>>) ELSE Error,
                         <<>>, "wrong",
                         IF relations \cup sequences # {} THEN "collided" ELSE "agreed",
                         SchemaRenamed(tool, old, new, kept),
                         [server EXCEPT !.schemas = (@ \ {old}) \cup {new},
                                        !.rels = Remapped(@, old, new, {})])
            /\ UNCHANGED template

------------------------------------------------------------------------------
(* The baseline has the schemas of its scope and what is in them.          *)
Baseline(scope) ==
    [schemas |-> [n \in Schemas |-> IF n \in scope \cap server.schemas THEN "present" ELSE "none"],
     scope   |-> scope,
     relations |-> Restrict(server.rels, {id \in DOMAIN server.rels : id[1] \in scope}),
     sequences |-> <<>>, indexes |-> <<>>, aliases |-> <<>>,
     temp    |-> FALSE]

Init ==
    /\ server \in {[schemas |-> S, rels |-> [id \in R |-> Object("table", <<>>)], temp |-> FALSE] :
                       S \in SUBSET Schemas, R \in SUBSET (Schemas \X Held)}
    /\ \A id \in DOMAIN server.rels : id[1] \in server.schemas
    /\ \E scope \in {All} \cup SUBSET Schemas : tool = Baseline(scope)
    /\ existing \in {<<>>, <<server.schemas>>}
    /\ template \in Paths
    /\ answer = "agreed"
    /\ steps = 0

Refs == (Schemas \cup {""}) \X Tables

(* Where the two are still compared.                                       *)
Next ==
    /\ answer = "agreed"
    /\ \/ \E p \in Paths \ {template} : SetPath(p)
       \/ \E ref \in Refs, s \in Shapes : CreateTable(ref, s.cols, s.key)
       \/ \E n \in Tables : CreateTempTable(n)
       \/ \E ref \in Refs, if_exists \in BOOLEAN : DropTable(ref, if_exists)
       \/ \E n \in Schemas : CreateSchema(n) \/ DropSchema(n)
       \/ \E old \in Schemas, new \in Schemas : old # new /\ RenameSchema(old, new)

Spec == Init /\ [][Next]_vars

------------------------------------------------------------------------------
(* Properties                                                              *)

(* An answer is the server's: what the analysis applies the server does,   *)
(* and to the same object; what it calls a conflict is an error; what it   *)
(* skips, IF EXISTS, is not there (resolver.rs, lookup.rs).  Three ways in *)
(* which the code goes wrong are told apart: a name found nowhere while an *)
(* entry of the path was not searched ("missed"), the tombstone of a       *)
(* relation that hides what has its name now ("hidden"), and a table named *)
(* like one of its own parts ("self-named").                               *)
AnswersAreRight == answer # "wrong"

(* The overlays hold exactly what the server has in the schemas they know: *)
(* the objects, the names generated for those that were not named, and     *)
(* what each belongs to.                                                   *)
SameCatalogs ==
    /\ \A n \in Schemas : /\ tool.schemas[n] = "present" => n \in server.schemas
                          /\ schema_absence_is_authoritative(n) /\ tool.schemas[n] # "present"
                                 => n \notin server.schemas
    /\ \A n \in {Temp} \cup {s \in Schemas : tool.schemas[s] = "present"} :
          Restrict(Namespace(tool), Within(Namespace(tool), n))
              = Restrict(server.rels, Within(server.rels, n))

(* While every answer was given the analysis and the server have the same  *)
(* catalogs; but for a drop under the old name of a renamed schema         *)
(* ("aliased"), and a schema renamed onto tombstones ("collided").         *)
CatalogsAgree == answer = "agreed" => SameCatalogs

(* With a baseline of every schema no name is in doubt                     *)
(* (refresh_role_sensitive_search_path drops what is provably absent).     *)
FullBaselineDecides == Full => answer \notin {"unresolved", "missed"}

(* A generated name fits in an identifier, and is the name of an object    *)
(* whose table is there too: drops and renames take both along             *)
(* (create_table.rs, drop.rs, schemas.rs).                                 *)
GeneratedNamesFit ==
    answer = "agreed" =>
        LET rels == Namespace(tool)
        IN  \A id \in DOMAIN rels : rels[id].kind # "table" =>
                /\ Bytes(id[2]) <= MaxIdentifierBytes
                /\ rels[id].of \in DOMAIN rels /\ rels[rels[id].of].kind = "table"

(* This fails.  A table or schema dropped where the old name of a renamed  *)
(* schema was used again is the one the statement names (apply_drop_table, *)
(* apply_drop_schema).                                                     *)
ReusedNamesAgree == answer = "aliased" => SameCatalogs
==============================================================================
