# TLA+ verification of safe-migrate

safe-migrate reads PostgreSQL migrations, simulates what each statement does to
a catalog, and reports what is risky. It never executes the SQL: its whole
value rests on a simulated state that stays right through failed statements,
savepoints, rollbacks and role switches, and on a report that says no more than
that state supports. This directory models those parts, checks them with TLC
and proves the central invariants with TLAPS.

Run a check with `tlc -workers 2 -config MCTxnHistory.cfg MCTxnHistory`, a
proof with `tlapm MigrationTxnProofs.tla`. `PROJECT.json` lists the components,
the runs, the mutants, the definition-to-source map, the findings, the hazards
and the theorems.

## The system

| Component | State | Operations | Interacts with |
|---|---|---|---|
| Engine (`_internal/engine/engine.rs`) | per-file findings, `warned_keys`, statement checkpoint | chain, file, statement and mutation loops; restore on conflict; ignore directives | visitor and resolver (mutations), `AnalysisState::apply`, rules, report |
| Transaction frames and undo log (`state/apply_transaction.rs`, `rollback.rs`, `snapshots.rs`, `transaction.rs`) | stack of frames, one undo log each; `transaction_aborted` | BEGIN, COMMIT, ROLLBACK (AND CHAIN), SAVEPOINT, ROLLBACK TO, RELEASE; snapshot, undo | every handler pushes snapshots; the engine's checkpoint is a length of the newest log |
| Catalog overlays (`state/apply_*.rs`) | maps of relations, types, routines, sequences, roles, ... over the baseline | one handler per mutation | undo log, dependency graph, evidence |
| Dependency graph (`analysis/graph.rs`, `state/cascade.rs`, `type_cascade.rs`) | edge list, renames | add, retain, rewrite, truncate; cascade closure | DROP handlers, undo log |
| Session settings (`state/apply_settings.rs`, `schemas.rs`, `namespace.rs`) | current, session and authenticated role, search path with its template and session template, timeouts | SET, SET LOCAL, RESET; refresh of the cached path | resolver (lookups), schema and role handlers, COMMIT |
| Evidence (`analysis/evidence.rs`, `state/evidence.rs`) | ordered set of records, confidence | record, undo | every handler; certainty of findings |
| Rules (`_internal/rules`) | none, or what they read of the state | evaluate on a mutation, before and after | engine |
| Report (`_internal/report`) | findings with certainty, not-evaluated list | verdict, certainty, rendering | engine |
| Resolver, facts, AST visitor | none | parse tree to mutations | state (lookups) |
| Cache file (`sync/writer.rs`, `db/cache_file.rs`, `main.rs`, `api.rs`) | the cache path, a temporary file, on Windows a backup path | sync, automatic refresh, load | file system, other processes |
| Sync loaders, cache schema (`_internal/sync`, `_internal/db/cache`) | one snapshot | catalog queries, validation | PostgreSQL, cache file, hydration |
| CLI, configuration, init | options | commands | API |

The analysis itself is single-threaded and sequential. What is hard in it is
not concurrency but *histories*: a long mix of savepoints, failed compound
statements and LOCAL settings whose effect shows only after a rollback several
statements later. The cache file is where processes interleave and crash.
`PROJECT.json` lists the hazards at their lines, each with the properties that
would catch it.

What makes each part correct:

- **undo**: after any rollback, to any savepoint, or of a failed statement, the
  state is exactly the one that was there, diagnostics included;
- **statement loop**: a failed statement leaves no finding, no deduplication key
  and no state; no undo loop gets stuck and no checkpoint is ever unusable;
- **evidence**: the confidence is tainted exactly when there is evidence; later
  evidence never taints earlier findings; SAFE means every check ran;
- **settings**: LOCAL never outlasts its transaction; the cached search path is
  never stale;
- **catalog**: what is recorded about one object in several places (its own
  record, the record of what contains it, the graph) says the same after any
  statement; nothing refers to what is gone; and the state after a migration is
  one that the validator of the cache would accept;
- **names**: an unqualified name is resolved with certainty only to the object
  the server means, and generated names are the server's;
- **cache file**: no reader sees an incomplete or missing cache, a reported
  success is durable, and no failure loses the last copy.

## Modules

### UndoLog, MigrationTxn: the transactional core

`UndoLog` defines the undo entries. Every part of `AnalysisState` that one
`StateChange` variant saves as a whole is a *slot* (one relation, one role, the
search path with its templates, the timeouts, the evidence log, the
confidence). The dependency graph is apart from the slots because its entries
come in two kinds, a full copy and a list length to truncate to.

`MigrationTxn` is the engine's statement loop over the frame stack:

| Code | Model |
|---|---|
| `StatementCheckpoint::capture` / `restore` | `Captured`, `StartStatement`, `ConflictInside`, `ConflictOutside` |
| `snapshot_*`, `snapshot_graph`, `snapshot_graph_full`, `snapshot_namespace` | `SnapshotSlot`, `SnapshotGraph`, `SnapshotGraphFull`, `SnapshotNamespace` |
| a handler's writes | `WriteSlot`, `AddEdge`, `RewriteEdges`, each guarded by what the mutation has snapshotted (`held`) |
| `record_evidence` | `Taint` |
| `apply_begin_transaction` ... `apply_release_savepoint` | `BeginTransaction`, `CommitTransaction`, `CommitAborted`, `RollbackTransaction`, `Savepoint`, `RollbackToSavepoint`, `StartRelease`/`ReleaseFrame`/`EndRelease`, and the failing forms of each |
| `rollback_undo_log` | `UndoEntry`, one popped entry per step, between `StartUnwind` and `EndUnwind` |

What a handler writes is left open: any value, any edge. That makes the results
hold for every handler that snapshots what it changes before changing it. The
discipline itself (`held`) is a guard here, an assumption on the handlers;
`SessionSettings` and `Catalog` check it for the handlers themselves, and each
finds one that breaks it.

### PgTransaction, TxnHistory: what it promises

`PgTransaction` is the abstract specification: PostgreSQL's transactions by
full copies. A savepoint saves a copy, a rollback restores one, a failed
statement restores the copy from its start. There are no logs. `TxnHistory`
adds history variables to `MigrationTxn` (the copies themselves, and the copy a
running undo is heading for) and states two things: `ImplementsPgTransaction`,
the refinement, and `UndoIsExact`, that a finished undo has produced the copy.
It also states `UndoInv`, the invariant the proof of both rests on. A step of
`TxnHistory` is a step of `MigrationTxn` with an assignment to the history
variables that is always possible, so what is proved of `HSpec` about the
engine's own variables holds of the engine.

### FindingPipeline: from mutations to the report

The chain, file, statement, mutation and rule loops of the engine with the four
things that outlive a statement: `all_violations`, `warned_keys`, the evidence
log and `not_evaluated`. Rules are arbitrary sources of findings: a rule reports
one finding of `Found` after another, each with or without a deduplication key,
and the engine takes each up in a step of its own. Directives, disabled rules,
capability gaps, the certainty of findings and the SAFE verdict are modelled;
texts and locations are not.

### SessionSettings: roles, search path, timeouts, schemas

Each SET, SET LOCAL and RESET handler, the schema handlers and the creation and
drop of temporary tables as far as they touch the session, transaction control
with the undo entries the handlers push, and the search path computed as
`refresh_role_sensitive_search_path` does. The path has one place for each
written name, empty where the name contributes nothing or nothing new. The
session is a function of its fields and a snapshot a restriction of it; the logs
of the frames are one log in which each frame has a start, so RELEASE only
forgets a start. Undoing part of the log gives each field what its *oldest* entry
there saved. `lasting` and `base` are history variables: the session without its
LOCAL statements, and the two when each frame was opened. Dropping a schema stands for the whole
handler; the objects it drops beside the schema are not part of this state, but
of `Schemas` below.

### CacheFile: the file on disk

Every `exists`, `rename`, `remove`, write and synchronization of the writer is
a step of its own, in both builds of `replace_cache` (the variable `platform`,
fixed by `Init`; `Shared` are the builds on which commands run at the same
time).
Processes may be killed between any two steps, any system call may fail, and a
power failure leaves the directory as the device has it. The file system is
external: renames are atomic and replace, directory changes reach the device in
order, and a file not synchronized may lose its bytes. Encoding, size limits
and encryption are one step that may fail; `--no-cache` commands touch no file
and are left out.

### Catalog: the handlers of analysis/state

`CatalogState` has the catalog as one record `cat`, whose map fields are the
HashMaps of `LocalState`: an overlay for every key, a present object or a
tombstone. `edges` is the dependency graph. A handler is translated into three
operators: its *verdict* (all checks and early returns, in the code's order:
`"ok"`, `"noop"`, `"conflict"` or one of the two `"unresolved"` results, which record
evidence), the state it leaves, and the snapshots it has pushed by then. `CatalogState` runs them the
way `AnalysisState::apply` does, in one open transaction block or outside;
nesting is `MigrationTxn`'s. `UndoRestores` compares what the pushed snapshots
would give back with a copy taken at BEGIN.

| Module | Code in `_internal/analysis` | Content |
|---|---|---|
| `DependencyGraph` | `graph.rs` | edges by kind with their payload, rename and move over them, lookups of dependents, cycle checks |
| `CatalogState` | `state/mod.rs`, `snapshots.rs`, `rollback.rs`, `schemas.rs`, `roles.rs` | the record, lookups, evidence, transaction block |
| `IndexTopology`, `Partitions` | `state/index_topology.rs`, `apply_relation/partition.rs` | attached indexes and their validity, predicates, compatibility, trigger clones and keys of a new partition |
| `SequenceParams`, `SequenceDdl` | `apply_sequence.rs` | options, limits and runtime value; CREATE, ALTER, DROP SEQUENCE |
| `Tables`, `TableLifecycle` | `create_table.rs`, `drop.rs`, `rename.rs`, `relation_helpers.rs` | CREATE TABLE in all its forms; DROP, rename, move, owner |
| `AlterTableChecks`, `AlterTable` | `alter_table/mod.rs`, `finish.rs` | every action of ALTER TABLE: checks first, then effects |
| `Views`, `IndexDdl`, `Triggers` | `apply_view_index.rs`, `apply_misc.rs`, `apply_policy_trigger.rs` | views, storage options, indexes, maintenance, policies, triggers |
| `TypeCascade`, `Types`, `Routines` | `types.rs`, `type_cascade.rs`, `apply_type.rs`, `apply_routine.rs` | types and domains, functions and procedures, the deletion closure of DROP ... CASCADE |
| `Schemas` | `apply_schema.rs`, `schemas.rs`, `cascade.rs` | create, owner, rename and drop with all that is inside |
| `Roles` | `apply_role.rs`, `roles.rs`, `grants.rs`, `model/relation.rs` | memberships with grantors, privileges with their provenance, the cascades of REVOKE |
| `Extensions`, `Replication` | `apply_extension.rs`, `apply_replication.rs`, `publication.rs` | members and their fate; publications and subscriptions |
| `CacheSchema` | `db/cache/mod.rs`, `hydrate.rs` | `DbCache::validate_semantics` over the record; every baseline satisfies it |
| `Catalog` | `state/apply.rs` | Next over all families, and the properties |

Conventions. An identity is `<<schema, name>>`, a routine's `<<schema, name,
argument types>>`, an array type's `<<schema, name, "[]">>`, a trigger's
`<<schema, table, name>>`; a constraint is keyed `<<table, name>>`. Names in
the statements are qualified, because resolving them is the subject of
`NameLookup`. `tainted` stands for chain-scope evidence; expressions, bounds
and index definitions are reduced to the columns they use and to an abstract
shape. Checks of single texts (an empty name, a malformed option) have no
counterpart.

### ImplicitNames, NameLookup: names

`ImplicitNames` are the pure functions of `names.rs`: a name is a sequence of
characters of one or two bytes, cut so that the parts, the separators and the
number fit; `FairName` says without a loop what the server generates.
`NameLookup` puts the analysis (`tool`) and a server (`server`) side by side. The
server agrees with the baseline where the baseline covers it and is arbitrary
elsewhere; every statement is given to both. The path is position-wise, as in
`SessionSettings`, and so are the places the server searches.

The analysis keeps relations and sequences in two overlays, which have
tombstones, and indexes and aliases in the graph, which has none:

| Code | Model |
|---|---|
| `relation_namespace_object_is_present` over the three | `Namespace`, `IsTaken` |
| `relation_lookup`, which asks the relations first | `relation_lookup` |
| RenameTo edges; `resolve` of `apply_drop_table`, `resolve_rename` | `tool.aliases`, `Resolved`; `Realiased` adds and moves them, `Kept` removes them |
| `apply_drop_table`: looked up as written, dropped as resolved | `DropTable`, `Dropped` |
| the closure of DROP SCHEMA ... CASCADE and its last sweep of the graph | `all_dropped`, `dropped_indexes`, `GoesWith`, `SchemaDropped` |
| `rename_schema_namespace` over the overlays, in any order of a hash map | `Remapped` with `kept` |
| the names of one CREATE TABLE | `next_implicit_sequence_ids`, `primary_key_name` |

The names of one CREATE TABLE are picked in turn (`InTurn`), each the first of its
candidates that is free and not picked before. The analysis picks them all before
anything is created, the server as it creates. Ten candidates stand for the
unbounded suffixes; a table for which they run out is outside the bound. Types
share the namespace in the code (`names.rs` 121) and are left out here.

The verdict of the analysis is compared with what the server does while `answer`
is `"agreed"`. The comparison ends when the analysis has said that it does not
know (`"unresolved"`), when it goes wrong (`"wrong"`), and in five ways in which
the code is known to go wrong: `"missed"`, `"hidden"`, `"self-named"`, `"collided"`
(below, under Names) and `"aliased"`, which the run `name_aliased` refutes. What
the statements may do is not restricted by any of them; `"missed"` and `"hidden"`
mark an answer that was wrong, the other three a statement that may have been
applied to something else.

## What is checked

Bounds are constants or guards named in the modules. Each passing property has
a mutant in `PROJECT.json`: a plausible bug in the mapped code which TLC then
finds.

| Run | Shows |
|---|---|
| `txn_history` | `TypeOK`, `StackShape`, `CheckpointUsable`, `ConfidenceHasEvidence`, `UndoIsExact` and `ImplementsPgTransaction`, with three frames, repeated savepoint names, compound statements, two edges and two pieces of evidence; with deadlock checking on, so an undo, release or commit loop that cannot go on is an error |
| `finding_pipeline` | `FailedStatementLeaksNothing`, `KeysAreReported`, `LaterNeverTaints`, `SafeMeansEveryCheckRan`, over two files |
| `session` | `PathIsFresh`, `LocalNeverLasts`, `RollbackRestoresSession`, in scenes for roles, for timeouts and paths, and for schemas |
| `cache` | both builds, four runs, all faults: `CacheIsWhole`, `OkIsDurable`, `LintFindsCache`, `CacheIsNeverLost`, `BackupIsStale` |
| `catalog` | 17 properties of the catalog, over 31 scenes |
| `names` | `GeneratedNamesFit`, `FullBaselineDecides`, `AnswersAreRight`, `CatalogsAgree`, over every scope of the baseline: drop and recreate, rename and recreate, move to a name with tombstones, tables named like sequences |
| `finding_taint`, `temp_written`, `cache_windows_race`, `dropped_partition`, `default_sibling`, `name_aliased` | one violated property each, see below |

What `catalog` checks of every reachable catalog: `UndoRestores`; `EdgesAreLive`
(the graph against the records); `StaysValid` (the validator of the cache still
accepts the state); `OwnedSequencesFollow`, `SequencesInBounds`;
`ConstraintsAgree`; `PartitionForest`, `IndexTreeFollowsTables`;
`TriggersAreListed`; `TypesAreResolved`, `ViewsGoWithWhatTheyUse` (of every
step); `ObjectsHaveSchemas`; `MembersExist`; `MembershipsAgree`,
`ProvenanceFollowsGrants`; `PublicationsFollow`, `EnabledHasSlot`.
`IndexTreeFollowsTables` states the first half of what
`tests/common/invariants.rs` 297-368 asserts; the second, that a valid index of a
partitioned table has a child in every partition, is not stated.

Why the bounds are enough to be interesting: three frames allow a savepoint
inside a savepoint, two of the same name, and a release into a released parent;
two mutations per statement make a failure after a success; two edges make a
list in which order matters, two pieces of evidence a second one that saves no
confidence (`Focus` in `MCTxnHistory` keeps the second edge to behaviours without
other snapshots, and the second piece of evidence to those without edges, with at
most one savepoint each); two files make evidence and keys cross a file boundary;
four commands allow a crash, a recovery, and a second crash in
the recovery. A scene of `catalog` is a baseline with the statements of the
families that interact on it; up to four of them run in any order, with BEGIN,
COMMIT and ROLLBACK anywhere, which is enough to create, change, drop and
re-create an object, or to build a chain of three. `Names` bounds the names
that are free, `TypeMax` scales the integer types down. In `names` identifiers
have nine bytes, so that a table's name and two of its columns are cut, become
equal, and equal to the name of another table; four statements make a rename, a
recreated schema, a recreated table and a drop. In `finding_taint` the chain has
four statements, so that BEGIN, evidence, the finding of a later statement and
ROLLBACK fit; the evidence about the finding's own statement plays no part in the
counterexample.

No fairness is assumed and no liveness stated: the program is one sequential loop,
its undo loops drain a list they own, nothing waits for anything, and nothing has
to follow a statement but the next one the author wrote. All properties are
safety. Deadlock checking is off where the system may stop: a chain that has been
analyzed, a session or a migration at its bound of statements, commands that have
all run.

### Disagreements between code and documentation

Six runs show the code breaking what a comment, a document or a test says;
`PROJECT.json` quotes the lines.

- `finding_taint`: a finding made under chain evidence is reported exact once a
  rollback has removed the evidence. (That a rolled-back run as a whole is
  exact again is what the tests want; the finding's own certainty is not.)
- `name_aliased`: the aliases a schema rename leaves stay when the old name is
  used again, and DROP TABLE looks up the name as written but drops what the
  aliases lead to: after RENAME SCHEMA s TO t and a recreated s.x, DROP TABLE s.x
  takes t.x. DROP SCHEMA has the same fault.
- `temp_written`: the search path is refreshed before the first temporary table
  exists, so a path naming `pg_temp` does not search it. The same refresh takes
  no snapshot, so the entry a second table adds outlives a rollback.
- `cache_windows_race`: of two Windows writers the first removes the backup the
  second has just staged, and a failure of the second loses the last copy.
- `dropped_partition`: DROP TABLE (without CASCADE) of a partition that was
  attached under an indexed parent leaves the edge from its index, which is
  gone, to the parent's. The sweep at the end of the handler looks for the
  dropped relations and for the indexes of a cascade, and here that set is empty.
- `default_sibling`: ATTACH PARTITION rewrites the predicate of the default
  partition, a relation no snapshot was taken of; a rollback keeps the new one.

The scenes of `catalog` leave the last two cases out.

Three smaller observations have no run. `not_evaluated` is outside the undo log,
so a compound statement that fails inside a transaction leaves its records
there (the verdict errs on the cautious side). On Windows a lint that runs during a
replacement finds no cache, which is why `LintFindsCache` is checked for the
other build only. And a refresh that fails to synchronize the directory is
reported as failed ("Continuing with the previous cache") over a cache it has
already replaced.

`PathIsFresh`, `RollbackRestoresSession` and `LocalNeverLasts` leave the
temporary namespace aside, because of the `temp_written` finding.

#### Met in the catalog handlers

The modules have these as the code has them. No document of the repository says
otherwise, or only PostgreSQL's does, so they have no run; where one touches a
checked property, its scenes keep clear of it.

Names:

- an unqualified name found nowhere is answered for the first entry of the path
  alone, with certainty, although a later entry that could not be searched may
  hold it (`resolver.rs` 86-95, `accessors.rs` 153-163). `AnswersAreRight` has
  the exception `"missed"`;
- `relation_lookup` finds the tombstone of a dropped relation before the sequence
  or index that has its name by now (`lookup.rs` 19-27). After DROP TABLE a_b_seq
  and CREATE TABLE a (b serial), DROP TABLE IF EXISTS a_b_seq is certainly nothing
  to do, where the server fails: the exception `"hidden"` of `AnswersAreRight`;
- CREATE TABLE does not reserve its own name before it generates those of its
  sequences and keys (`create_table.rs` 956-1090), so a table named like one of
  them is accepted, and two objects have one name: `"self-named"`, an exception of
  both `AnswersAreRight` and `CatalogsAgree`;
- ALTER SCHEMA ... RENAME to the name of a dropped schema gives objects the
  identities of its tombstones, and the order of a HashMap decides which of the
  two entries stays (`schemas.rs` 108-124): `"collided"`, of `CatalogsAgree`;
- paths that begin with `pg_temp` or `pg_catalog` are left out.

Undo and identity:

- ALTER EXTENSION ... SET SCHEMA moves members without a snapshot of all of
  them (`apply_extension.rs` 264-271, 418-427), as in `default_sibling`;
- ALTER SCHEMA ... RENAME remaps a constraint's table but not its backing index
  (`schemas.rs` 232-238);
- RENAME TYPE leaves the `of_type` of typed tables and the routines of a range
  (`apply_type.rs` 566-600), ALTER FUNCTION ... RENAME the `function_id` of
  triggers;
- a table re-created under a name that was renamed away survives DROP SCHEMA
  CASCADE (`cascade.rs` 56), and a re-created view leaves a stale edge
  (`apply_view_index.rs` 511-532);
- ADD CONSTRAINT ... USING INDEX under another name leaves REPLICA IDENTITY and
  CLUSTER with the old one (`create_table.rs` 1912-1950); they also outlive an
  index that DROP COLUMN removes (`finish.rs` 1264-1347).

Cascades and checks:

- DROP and RENAME TRIGGER on a partitioned table leave clones whose parent
  trigger is gone (`apply_policy_trigger.rs` 225-340), which the validator of
  the cache refuses; a new trigger reaches no existing partition;
- DROP TYPE of a multirange drops only the multirange (`type_cascade.rs`
  177-272); typed tables that a cascade drops stay in publications and keep
  their sequences; DROP TABLE does not look at columns of its row type;
- the walk of a cascade does not follow partitions whose detach is pending, and
  DETACH CONCURRENTLY never makes one; DROP CONSTRAINT of a primary key ignores
  the foreign keys that reference it; ADD and DROP COLUMN do not recurse;
- `drop_not_null_constraint` takes a single-column UNIQUE with it (`drop.rs`
  468); LIKE INCLUDING INDEXES or PARTITION OF beside a declared key makes two
  primary keys (`create_table.rs` 645);
- ALTER TYPE ... ATTRIBUTE CASCADE changes the columns of typed tables but not
  their indexes and constraints; ADD VALUE of a label that exists does nothing;
  CREATE TYPE AS RANGE over a shell type is a conflict, and its constructors
  overwrite routines of the same signature;
- `cascade_memberships_granted_by` keeps a record whose grantor lost ADMIN when
  the member has it from elsewhere (`apply_role.rs` 208-254); what
  `revoke_from_cascade` leaves can depend on the order of a HashMap
  (`model/relation.rs` 338-343); REVOKE without CASCADE refuses nothing, and
  `revoke_grant_option_from` forgets the options of other grantors (386-401);
- evidence recorded inside DROP or ALTER EXTENSION is lost with the statement;
  publication edges name the schema `public` whatever the table's is.

## What is proved

Every theorem holds for all values of the constants that satisfy the assumptions
named below, so for any number of processes, frames, files, schemas and
statements; a bound such as `MaxSteps` is an arbitrary natural number.

| Module | Theorems | Assumptions on the constants |
|---|---|---|
| `MigrationTxnProofs` | `EngineInvariant`; `TypeCorrect`, `StackShapeHolds`, `CheckpointAlwaysUsable` | `SlotsAssumption`: the diagnostics are not catalog slots, exact is not tainted; `BoundsAssumption`: the root is no savepoint name |
| `TxnHistoryProofs` | what pushing to, writing under, popping from and joining undo logs do to the relation `Restores`; `UndoInvariant`; `UndoExact`, `ConfidenceFollowsEvidence`; `ImplementsPg`: the refinement | the same |
| `CacheFileProofs` | `CacheInvariant`; `CacheAlwaysWhole`, `OkAlwaysDurable`, `LintAlwaysFindsCache`, `BackupAlwaysStale`; `CacheNeverLost`, `SerialRefreshLosesNothing` | `CacheAssumption`; the last two also that Windows commands do not overlap (`"windows" \notin Shared`), without which the run `cache_windows_race` refutes them |
| `FindingPipelineProofs` | `PipelineInvariant`; `FailureNeverLeaks`, `KeysAlwaysReported`, `SafeIsEarned`; `LaterEvidenceNeverTaints`, an action property | `PipelineAssumption` |
| `SessionSettingsProofs` | `SessionInvariant`; `PathAlwaysFresh`, `LocalNeverOutlives`, `RollbackAlwaysRestores` | `ScenesAssumption`, `FieldsAssumption`: fields, schemas and tables have different names |
| `NameLookupProofs` | `ShortenedIsFair`, `ObjectNameIsFair`, `CandidatesAreFair`, `InTurnPicks`: what the generator of names computes, for names of any length; `FullBaselineAlwaysDecides`; `AnswersAreAlwaysRight`, `CatalogsAlwaysAgree`, `GeneratedNamesAlwaysFit` | `LimitAssumption`: an identifier holds at least six bytes; digits, labels and separators have one byte each; `NamesAssumption`: neither the nameless nor the temporary schema is a permanent one; paths are of permanent schemas; names are sequences |
| `CatalogUndoProofs` | what snapshots, undo and writes do to the relation `Leads`; that the handlers of schemas, sequences, roles, grants, policies, publications and subscriptions stay on track; what GRANT, REVOKE and its cascade, and the options of a sequence, make of a record | `TypeMaxAssumption` |
| `CatalogProofs` | the same of the other covered handlers; `RollbacksAreExact`, `EnabledOnesHaveSlots`, `SequencesStayInBounds`, `SourcesFollowGrants` | `TypeMaxAssumption`: the types of a sequence have natural maxima; of a scenario in `Covered`, see below |

Each rests on one inductive invariant.

**`EngineInv`** (`MigrationTxn`). That the checkpoint is usable depends on no
control statement running while a catalog statement has a checkpoint, and on an
undo loop never passing its target; that the root frame stays depends on the
targets of the loops as well. `PhaseInv` says what each phase implies about the
checkpoint, the target and the stack.

**`UndoInv`** (`TxnHistory`). `UndoIsExact` speaks of the end of an undo loop; to
get there one has to know at every step, also while no undo runs, that the log of
each frame leads back to the copy taken when it was opened, that the part of the
newest log above the statement checkpoint leads back to the copy taken there,
and that what a mutation may write is covered by what it has snapshotted. "Leads
back" is `Restores(log, lo, d, b)`: each slot of `b` is what the oldest entry
above `lo` that covers the slot saved, or its value in `d` if there is none, and
likewise for the edge list with its two kinds of entries. Because it names the
oldest entry, and does not iterate over the log, it can be reasoned about
without induction: the first lemmas show what a push, a write under a snapshot, a
pop and a concatenation (RELEASE) do to it, each by finding the least place.
`ConfidenceFollowsEvidence` adds that the two diagnostics agree in every copy.

**The refinement** makes the start of an undo loop the abstract rollback: while
the loop runs, the abstract catalog is already the copy it has to arrive at
(`goal`). So each step of the engine is one step of `PgTransaction` or a stutter,
every popped entry among the stutters, and the end of the loop is one because
`UndoInv` says that the state has become the goal.

**`CacheInv`** (`CacheFile`). `TempIsReady`: a process that may still install its
temporary file has written and synchronized it. `FilesAreWhole`: so is every
file the directory has, now or on the device, and a backup is older than the
cache beside it. `PosixInv`: the device lags behind the directory but never
behind what was reported, and a cache that a command has seen stays there for
it. `SerialInv`, of a build whose commands do not overlap: a backup is only
removed beside a cache, and a command never sees the last copy go.

**`PipelineInv`** (`FindingPipeline`). `PlacesInv` puts all findings and failures
behind the statement at work, whose own findings are still in its buffers; with
it, that failed statements leak nothing (`LeaksInv`) is inductive. `KeysInv`: the
keys of the file and those of the statement are exactly those the rules gave the
findings they hold, once each (a forbidden directive has a key too, which is
never recorded and may be reported again for every mutation). `SkipsInv`: a skipped rule is on record unless its
statement failed, also in the checkpoint that a failure would restore.
`EvidenceInv`, `TaintsInv`: undo only takes evidence away, none is recorded
ahead, so what could taint an earlier finding was there when it was made.

**`SessionInv`** (`SessionSettings`). `RollbackRestoresSession` (the part of the
log above each frame's start leads back to the session it was opened on) is
inductive together with `FramesInv`, the order of those starts, and `LocalInv`:
now and at the opening of each frame, the session is fresh and differs from
`lasting` only in what LOCAL settings override, and not at all at the bottom of
the stack. That the path is fresh after an undo does not follow from its being
fresh before: it holds because every handler that changes a field the path
depends on has saved the path as well, so that the session an undo returns to is
one that was fresh. The proof found a guard missing in the model (a SET in an
aborted transaction was applied, where `AnalysisState::apply` refuses it), which
is now there.

**`LookupInv`** (`NameLookup`). That a full baseline decides every lookup needs
that no statement makes a partial baseline full or a full one partial: only a
rename touches the scope, and no set of permanent schemas contains the nameless
one. Then every written name is present or provably absent, nothing in the path
is blind, so nothing is shadowed, and each schema a name can resolve to, the
nameless and the temporary one included, is in the scope.

**Generated names.** The loop `Shortened` takes a byte off one of two names until
they fit. Its value is proved for all lengths although it is recursive: the pairs
of lengths are ordered by their sum, the closed form `FairShare` satisfies the
equation of the loop, and a least pair on which a solution differed from it would
contradict the equation. `InTurn`, where each name avoids those before it, has no
closed form: that its equation has a solution at all is shown by the least number
of names for which there would be none.

**`NameInv`** (`NameLookup`). That the answers are right is not inductive: a
verdict is right because of what the overlays say, so it needs that they agree
with the server. `Agreement`: at every identity in a schema the analysis knows,
both have the same object (`At`, a tombstone being nothing), and a schema of the
server is either present in the overlay or nothing is known of it (`InDoubt`).
`Placed`, `WellFormed`: every entry is in a schema the overlay has an entry for,
and what a statement generated belongs to a live table of the same schema, which is
why dropping a table takes the same objects from both sides. The aliases have no
part in it: a drop that meets one is marked by its answer, elsewhere no alias leads
to or from a live object that is dropped, and a rename onto identities that are
free has one outcome in any order. Each lookup is then compared place by place:
what the analysis finds before the first blind place is what the server finds,
since a place the server skips is one the analysis proves absent. CREATE TABLE needs the facts about generated names: the names picked
before anything is created are those the server picks one after another, because
the sequences of the statement avoid each other and a key's name never ends as a
sequence's does.

**`UndoInv`** (`CatalogProofs`). That a rollback gives back the catalog of BEGIN
needs, at every step before it, that the undo log leads back there. `Leads(c, u, b)`
says so entry by entry, without running the undo: an entry of `b` is the one the
log saved under that key, or what the saved copy of its map says, or is in `c`
unchanged; the edges of `b` are a prefix of those in `c`, or the copy saved. A
snapshot never changes what the log leads to, and a write does not as long as
what it writes was saved before (`SnapGood`, `AssignGood`, `FieldOver`, ...). Each
handler is then followed write by write: `Good(w, y, b)` says that the work `y`
still leads to `b`, from a catalog again (`IsCatalog`: every field of the record is
there and every entry of a map has a state), without having touched the
subscriptions; `Safe` is what a write may do to stay good. So the theorem is a
proof, handler by handler, of the discipline the code follows by convention only:
save before you write. `Slots` (an enabled subscription has a slot) is
carried along because a rollback also has to find it in the copy it returns to.

`IsCatalog` also says what a record has to be by itself to `Fit` in its map: a
sequence is `Bounded`, the privileges of a relation are `Sourced`. It is said of
both catalogs that `Leads` relates, so a rollback finds records that fit, and each
write of a sequence or a relation has to show that the new record does. Most
leave alone what the condition reads. The others are the substance of
`SequencesInBounds` and `ProvenanceFollowsGrants`: `MergedFit` (options that are
accepted give parameters that fit, whichever of type, bounds and start are given),
TRUNCATE, which forgets the value, and `GrantSourced`, `RevokeSourced`,
`OptionSourced` and `CascadeSourced`: a cascade keeps privileges and sources in
agreement at each of its steps, in whichever order a HashMap yields the roles. The
two conditions are stronger than the properties in one point each: the types of
what they compare, and that the sources of a relation are finitely many, without
which the bound of a cascade would be no number.

The four theorems speak of the scenarios in `Covered`, that is of any baseline,
any statements and any number of them, provided that the baseline is a catalog
with `Slots`, that every GRANT lists its targets, its roles and finitely many
privileges, that the bounds and the start of a sequence are written as numbers, and
that no statement is one the model carries out in parts, by a fold over a set of objects: CREATE and ALTER
TABLE, renames of relations, ALTER VIEW, the statements on indexes, DROP SCHEMA,
DROP EXTENSION and its move, and the cascades of DROP FUNCTION and DROP TYPE. What
a fold yields for every input is out of the prover's reach, so for these handlers
the four properties are only model-checked, and `UndoRestores` does not hold of all
of them: ATTACH PARTITION next to a default partition breaks it (`default_sibling`). Seven scenarios
of `MCObjects` are covered, among them those of grants, role membership, routines,
sequences and subscriptions, so the hypothesis is one that the runs meet.

Where the argument is that of a first or oldest entry, it is by well-foundedness
of `<` on the naturals (`WFMin`), in lemmas such as `LeastPlace` and
`LeastNumber`. Four recursive functions are reasoned about that way: the two of
the generator of names above, the steps of a cascade, and the roles of a GRANT or
REVOKE one after another (`ChangedSourced`). Their existence is shown by the least
number they are not defined up to, and what holds of their values by the least at
which it does not.

Only model-checked:

- the other properties of `Catalog`, and those four where a statement is carried
  out in parts: what a fold computes for every input needs induction with an
  operator parameter. `UndoRestores` moreover does not hold for all constants:
  `default_sibling` is a baseline and a statement for which the code breaks it;
- the properties of the violation runs, which are refuted.

## Plan

Done: the transactional core with its abstract specification, the finding
pipeline, the session settings, the cache file, the catalog with all families
of handlers, the validation of the cache, name lookup and generated names; the
proofs above. Next, in this order:

1. **Proofs** of the catalog: the invariants that relate two families of objects
   (`MembershipsAgree`, `PublicationsFollow`), and the handlers that work in parts.
2. **Report**: the rest of the verdict ladder and the baseline's evidence.
3. **Rules** with state (timeouts, transactions, idempotency).
4. Lookup of the other families in `NameLookup`, and the attributes of
   aggregates.

## Not modelled

SQL parsing and the AST visitor, rendering, the init wizard and option parsing
have no state worth a model. The catalog queries of sync are I/O; what they
yield enters as initial states. Encryption and encoding of the cache are
abstract. Collations, the attributes of aggregates (`state/aggregate.rs`), the
CURRENT_SCHEMA shorthand of publications, the order of a view's columns, and
the tables of built-in types and storage options are left out of the catalog
modules. What a rule reports about a statement is data of the rule.
