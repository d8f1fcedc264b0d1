--------------------------- MODULE SessionSettings ---------------------------
(***************************************************************************)
(* The session of AnalysisState: search path, timeouts, roles, the schemas *)
(* and temporary tables the effective search path depends on, and what     *)
(* transactions do to them (state/apply_settings.rs, apply_schema.rs,      *)
(* schemas.rs, accessors.rs, analysis/settings.rs, analysis/namespace.rs). *)
(*                                                                         *)
(* The session is a function of its fields.  A snapshot is the restriction *)
(* of the session to the fields it saves; undoing puts it back.  The logs  *)
(* of the open frames are one log here, in which a frame has a start: a    *)
(* RELEASE appends the logs of the released frames to the one below, which *)
(* is to forget where they start.  The search path in force is derived,    *)
(* from the template, the current role and the schemas, and cached: every  *)
(* handler must refresh it.                                                *)
(***************************************************************************)
EXTENDS Integers, Sequences

CONSTANTS
    Schemas,          \* schema names
    UnknownRole,
    Temps,            \* names of temporary tables
    Savepoints,       \* savepoint names
    Scenes            \* what was synchronized and which statements run

Families == {"path", "timeout", "role", "schema", "temp"}

(* A scene fixes the source of the session and the script that runs on it:
   baseline_schemas, whose absence the sync proves; the schemas it recorded as
   not existing; the roles (a role's schema has its name), timeouts and written
   search paths that occur; the statement families; and the bounds on open
   frames and on their undo entries. *)
SceneOK(s) ==
    /\ s.scope \subseteq Schemas /\ s.not_at_sync \subseteq Schemas
    /\ s.roles \subseteq Schemas /\ UnknownRole \notin s.roles
    /\ s.templates \subseteq Seq(Schemas \cup {"$user", "pg_temp"})
    /\ s.features \subseteq Families
    /\ {s.max_frames, s.max_undo} \subseteq Nat

ASSUME ScenesAssumption == \A s \in Scenes : SceneOK(s)

VARIABLES
    scene,                \* one of Scenes, for the whole behaviour
    session,              \* the fields below
    defaults,             \* template, timeouts and authenticated role of the source
    transactions,         \* frames: [name, start of its part of undo_log]
    undo_log,             \* the undo logs of the frames, oldest first
    transaction_aborted,
    lasting,              \* history: the session without its LOCAL statements
    base                  \* history: session and lasting when each frame was opened

vars == <<scene, session, defaults, transactions, undo_log, transaction_aborted, lasting, base>>

RoleContext ==
    {"current_role", "persistent_current_role", "session_role", "persistent_session_role"}
SearchPath == {"search_path", "search_path_template", "session_search_path_template"}
TimeoutSettings == {"lock_timeout", "statement_timeout"}
Namespace == Schemas \cup Temps \cup SearchPath \cup {"baseline_schemas"}

(* not_at_sync: the schemas source_existing_schemas says did not exist. *)
Fields == RoleContext \cup TimeoutSettings \cup Namespace \cup {"saw_temp_object", "not_at_sync"}

(* The field of a schema or of a temporary table has its name. *)
ASSUME FieldsAssumption ==
    /\ Schemas \cap Temps = {}
    /\ (Schemas \cup Temps) \cap (RoleContext \cup SearchPath \cup TimeoutSettings
                                  \cup {"baseline_schemas", "saw_temp_object", "not_at_sync"}) = {}
-----------------------------------------------------------------------------
(***************************************************************************)
(* The effective search path.                                              *)
(***************************************************************************)

(* temp_namespace_exists: a dropped temporary table still counts. *)
TempNamespaceExists(s) == s["saw_temp_object"] /\ \E t \in Temps : s[t] # "none"

(* schema_absence_is_authoritative *)
KnownAbsent(s, n) == s[n] = "dropped" \/ (s[n] = "none" /\ n \in s["baseline_schemas"])

Searched(n) == [searched |-> TRUE, name |-> n]
Unresolved(n) == [searched |-> FALSE, name |-> n]

Nothing == [searched |-> FALSE, name |-> ""]

(* push_path_entry: what a written name contributes to the path. *)
PathEntry(s, n) ==
    IF n = "pg_temp" THEN IF TempNamespaceExists(s) THEN Searched(n) ELSE Nothing
    ELSE IF s[n] = "present" THEN Searched(n)
    ELSE IF KnownAbsent(s, n) \/ n \in s["not_at_sync"] THEN Nothing
    ELSE Unresolved(n)

Entry(s, n) ==
    IF n # "$user" THEN PathEntry(s, n)
    ELSE IF s["current_role"] = UnknownRole THEN Unresolved("$user")
    ELSE PathEntry(s, s["current_role"])

(* One place for every written name, with nothing in it where the name
   contributes nothing new. *)
EffectivePath(s) ==
    LET entry(i) == Entry(s, s["search_path_template"][i])
    IN  [i \in DOMAIN s["search_path_template"] |->
            IF \E j \in 1..(i - 1) : entry(j) = entry(i) THEN Nothing ELSE entry(i)]

(* refresh_role_sensitive_search_path *)
Refreshed(s) == [s EXCEPT !["search_path"] = EffectivePath(s)]
-----------------------------------------------------------------------------
(* with_baseline: the fields a source with these schemas and this role gives. *)
Synchronized(schemas, role) ==
    [f \in Fields |->
        CASE f \in {"session_role", "persistent_session_role"} -> defaults.authenticated_role
          [] f \in {"current_role", "persistent_current_role"} -> role
          [] f \in SearchPath -> defaults.path
          [] f \in TimeoutSettings ->
                 [session |-> defaults.timeout[f], effective |-> defaults.timeout[f]]
          [] f = "saw_temp_object" -> FALSE
          [] f = "baseline_schemas" -> scene.scope
          [] f = "not_at_sync" -> scene.not_at_sync
          [] f \in Schemas -> schemas[f]
          [] OTHER -> "none"]

(* The tail of with_baseline. *)
Init ==
    /\ scene \in Scenes
    /\ defaults \in [path : scene.templates, timeout : [TimeoutSettings -> scene.timeouts],
                     authenticated_role : scene.roles \cup {UnknownRole}]
    /\ \E schemas \in [Schemas -> {"present", "none"}], role \in scene.roles \cup {UnknownRole} :
           /\ \A n \in scene.not_at_sync : schemas[n] = "none"
           /\ session = Refreshed(Synchronized(schemas, role))
    /\ transactions = <<>> /\ undo_log = <<>> /\ transaction_aborted = FALSE
    /\ lasting = session /\ base = <<>>

InTransaction == transactions # <<>>

Saved(fields) == [f \in fields |-> session[f]]

(* The snapshots a handler takes, one undo entry each. *)
Logged(snapshots) ==
    IF InTransaction THEN undo_log \o [i \in 1..Len(snapshots) |-> Saved(snapshots[i])]
    ELSE undo_log

(* A statement with the effect Eff after taking the snapshots.  LOCAL outside
   a transaction is a NoOp. *)
Applied(snapshots, local, Eff(_)) ==
    /\ ~transaction_aborted /\ (local => InTransaction)
    /\ undo_log' = Logged(snapshots) /\ Len(undo_log') <= scene.max_undo
    /\ session' = Eff(session)
    /\ lasting' = IF local THEN lasting ELSE Eff(lasting)
    /\ UNCHANGED <<scene, defaults, transactions, transaction_aborted, base>>

(* A conflicting statement changes nothing and aborts its transaction. *)
Conflict ==
    /\ InTransaction /\ ~transaction_aborted
    /\ transaction_aborted' = TRUE
    /\ UNCHANGED <<scene, session, defaults, transactions, undo_log, lasting, base>>
-----------------------------------------------------------------------------
(***************************************************************************)
(* SET and RESET.                                                          *)
(***************************************************************************)

(* apply_search_path; the template of the defaults stands for DEFAULT. *)
SetSearchPath(template, local) ==
    LET Eff(s) == Refreshed(
            [s EXCEPT !["search_path_template"] = template,
                      !["session_search_path_template"] = IF local THEN @ ELSE template])
    IN  "path" \in scene.features /\ Applied(<<SearchPath>>, local, Eff)

(* apply_timeout_setting *)
SetTimeout(setting, value, local) ==
    LET Eff(s) == [s EXCEPT ![setting] =
            [session |-> IF local THEN @.session ELSE value, effective |-> value]]
    IN  "timeout" \in scene.features /\ Applied(<<TimeoutSettings>>, local, Eff)

ResetTimeouts(s, settings) ==
    [f \in Fields |->
        IF f \in settings
        THEN [session |-> defaults.timeout[f], effective |-> defaults.timeout[f]] ELSE s[f]]

ResetPath(s) ==
    Refreshed([s EXCEPT !["search_path_template"] = defaults.path,
                        !["session_search_path_template"] = defaults.path])

(* apply_reset_settings *)
ResetAll ==
    /\ {"path", "timeout"} \subseteq scene.features
    /\ Applied(<<SearchPath, TimeoutSettings>>, FALSE,
               LAMBDA s : ResetTimeouts(ResetPath(s), TimeoutSettings))

ResetSearchPath == "path" \in scene.features /\ Applied(<<SearchPath>>, FALSE, ResetPath)

ResetTimeout(setting) ==
    /\ "timeout" \in scene.features
    /\ Applied(<<TimeoutSettings>>, FALSE, LAMBDA s : ResetTimeouts(s, {setting}))

(* Mutant: SET SESSION AUTHORIZATION leaves the role context unsaved. *)
SwitchSessionRoleUnsaved(role, local) ==
    LET Eff(s) == Refreshed(
            [s EXCEPT !["session_role"] = role, !["current_role"] = role,
                      !["persistent_session_role"] = IF local THEN @ ELSE role,
                      !["persistent_current_role"] = IF local THEN @ ELSE role])
    IN  "role" \in scene.features /\ Applied(<<SearchPath>>, local, Eff)

(* apply_switch_role, SET SESSION AUTHORIZATION; DEFAULT is the authenticated
   role. *)
SwitchSessionRole(role, local) ==
    LET Eff(s) == Refreshed(
            [s EXCEPT !["session_role"] = role, !["current_role"] = role,
                      !["persistent_session_role"] = IF local THEN @ ELSE role,
                      !["persistent_current_role"] = IF local THEN @ ELSE role])
    IN  "role" \in scene.features /\ Applied(<<RoleContext, SearchPath>>, local, Eff)

(* apply_switch_role, SET ROLE *)
SwitchRole(role, local) ==
    LET Eff(s) == Refreshed(
            [s EXCEPT !["current_role"] = role,
                      !["persistent_current_role"] = IF local THEN @ ELSE role])
    IN  "role" \in scene.features /\ Applied(<<RoleContext, SearchPath>>, local, Eff)

(* Mutant: what lasts after SET ROLE NONE is the session role in force. *)
ResetRoleToEffective(local) ==
    LET Eff(s) == Refreshed(
            [s EXCEPT !["current_role"] = s["session_role"],
                      !["persistent_current_role"] = IF local THEN @ ELSE s["session_role"]])
    IN  "role" \in scene.features /\ Applied(<<RoleContext, SearchPath>>, local, Eff)

(* apply_switch_role, SET ROLE NONE: back to the session role; what lasts is
   the session role that lasts. *)
ResetRole(local) ==
    LET Eff(s) == Refreshed(
            [s EXCEPT !["current_role"] = s["session_role"],
                      !["persistent_current_role"] =
                          IF local THEN @ ELSE s["persistent_session_role"]])
    IN  "role" \in scene.features /\ Applied(<<RoleContext, SearchPath>>, local, Eff)
-----------------------------------------------------------------------------
(***************************************************************************)
(* What else the search path follows.                                      *)
(***************************************************************************)

(* apply_create_schema; a name that may be taken leaves the state unresolved. *)
CreateSchema(n) ==
    /\ "schema" \in scene.features /\ KnownAbsent(session, n)
    /\ Applied(<<{n}, SearchPath>>, FALSE, LAMBDA s : Refreshed([s EXCEPT ![n] = "present"]))

(* apply_drop_schema *)
DropSchema(n) ==
    /\ "schema" \in scene.features /\ session[n] = "present"
    /\ Applied(<<{n}, SearchPath>>, FALSE, LAMBDA s : Refreshed([s EXCEPT ![n] = "dropped"]))

(* Mutant: the path still names the old schema. *)
RenamedStale(s, old, new) ==
    [s EXCEPT ![new] = "present", ![old] = "dropped",
        !["baseline_schemas"] = IF old \in @ THEN (@ \ {old}) \cup {new} ELSE @]

(* rename_schema_namespace: the old name is known to be absent from now on,
   and the scope follows the schema. *)
Renamed(s, old, new) ==
    Refreshed([s EXCEPT ![new] = "present", ![old] = "dropped",
                  !["baseline_schemas"] = IF old \in @ THEN (@ \ {old}) \cup {new} ELSE @])

(* apply_alter_schema RENAME; the namespace snapshot holds every overlay. *)
RenameSchema(old, new) ==
    /\ "schema" \in scene.features /\ session[old] = "present" /\ KnownAbsent(session, new)
    /\ Applied(<<SearchPath, Namespace>>, FALSE, LAMBDA s : Renamed(s, old, new))

(* apply_create_table TEMPORARY: note_temp_object_created refreshes the path
   before the table is in the catalog, and saves nothing. *)
CreateTemp(t, on_commit_drop) ==
    LET Eff(s) ==
            [Refreshed([s EXCEPT !["saw_temp_object"] = TRUE]) EXCEPT
                ![t] = IF ~on_commit_drop THEN "present"
                       ELSE IF InTransaction THEN "drop_at_commit" ELSE "dropped"]
    IN  /\ "temp" \in scene.features /\ session[t] \in {"none", "dropped"}
        /\ Applied(<<{t}>>, FALSE, Eff)

(* apply_drop_table *)
DropTemp(t) ==
    /\ "temp" \in scene.features /\ session[t] \notin {"none", "dropped"}
    /\ Applied(<<{t}>>, FALSE, LAMBDA s : [s EXCEPT ![t] = "dropped"])
-----------------------------------------------------------------------------
(***************************************************************************)
(* Transactions.                                                           *)
(***************************************************************************)
Frame(name, start) == [name |-> name, start |-> start]

Copy == [session |-> session, lasting |-> lasting]

BeginTransaction ==
    /\ ~InTransaction
    /\ transactions' = <<Frame("root", 0)>> /\ base' = <<Copy>>
    /\ UNCHANGED <<scene, session, defaults, undo_log, transaction_aborted, lasting>>

Savepoint(name) ==
    /\ InTransaction /\ ~transaction_aborted /\ Len(transactions) < scene.max_frames
    /\ transactions' = Append(transactions, Frame(name, Len(undo_log)))
    /\ base' = Append(base, Copy)
    /\ UNCHANGED <<scene, session, defaults, undo_log, transaction_aborted, lasting>>

(* Every frame is gone; AND CHAIN opens a new root. *)
Closed(chain) ==
    /\ chain => InTransaction
    /\ transactions' = IF chain THEN <<Frame("root", 0)>> ELSE <<>>
    /\ base' = IF chain THEN <<Copy'>> ELSE <<>>
    /\ undo_log' = <<>> /\ transaction_aborted' = FALSE
    /\ UNCHANGED <<scene, defaults>>

(* restore_persistent_role_context *)
Persistent(s) ==
    Refreshed([f \in Fields |->
        CASE f = "current_role" -> s["persistent_current_role"]
          [] f = "session_role" -> s["persistent_session_role"]
          [] f = "search_path_template" -> s["session_search_path_template"]
          [] f \in TimeoutSettings -> [s[f] EXCEPT !.effective = s[f].session]
          [] OTHER -> s[f]])

(* apply_on_commit_actions *)
AtCommit(s) ==
    [f \in Fields |-> IF f \in Temps /\ s[f] = "drop_at_commit" THEN "dropped" ELSE s[f]]

CommitTransaction(chain) ==
    /\ ~transaction_aborted
    /\ session' = AtCommit(Persistent(session))
    /\ lasting' = AtCommit(lasting)
    /\ Closed(chain)

(* Entry j of the log is the oldest above start that holds field f. *)
Oldest(log, start, f, j) ==
    /\ j \in (start + 1)..Len(log) /\ f \in DOMAIN log[j]
    /\ \A k \in (start + 1)..(j - 1) : f \notin DOMAIN log[k]

(* rollback_undo_log: the newest entry goes first, so the oldest one that holds
   a field has the last word. *)
Undone(log, start, s) ==
    [f \in Fields |->
        IF \E j \in 1..Len(log) : Oldest(log, start, f, j)
        THEN log[CHOOSE j \in 1..Len(log) : Oldest(log, start, f, j)][f]
        ELSE s[f]]

(* ROLLBACK, and COMMIT of an aborted transaction. *)
RollbackTransaction(chain) ==
    /\ InTransaction
    /\ session' = Undone(undo_log, 0, session) /\ lasting' = base[1].lasting
    /\ Closed(chain)

(* rposition *)
Newest(p, name) ==
    /\ transactions[p].name = name
    /\ \A q \in (p + 1)..Len(transactions) : transactions[q].name # name

RollbackToSavepoint(name) ==
    \E p \in 1..Len(transactions) :
        /\ Newest(p, name)
        /\ session' = Undone(undo_log, transactions[p].start, session)
        /\ lasting' = base[p].lasting
        /\ undo_log' = SubSeq(undo_log, 1, transactions[p].start)
        /\ transactions' = SubSeq(transactions, 1, p) /\ base' = SubSeq(base, 1, p)
        /\ transaction_aborted' = FALSE
        /\ UNCHANGED <<scene, defaults>>

ReleaseSavepoint(name) ==
    \E p \in 2..Len(transactions) :
        /\ ~transaction_aborted /\ Newest(p, name)
        /\ transactions' = SubSeq(transactions, 1, p - 1) /\ base' = SubSeq(base, 1, p - 1)
        /\ UNCHANGED <<scene, session, defaults, undo_log, transaction_aborted, lasting>>
-----------------------------------------------------------------------------
SetOrReset ==
    \/ \E template \in scene.templates, local \in BOOLEAN : SetSearchPath(template, local)
    \/ \E setting \in TimeoutSettings :
           \/ ResetTimeout(setting)
           \/ \E value \in scene.timeouts, local \in BOOLEAN : SetTimeout(setting, value, local)
    \/ ResetAll \/ ResetSearchPath
    \/ \E local \in BOOLEAN :
           \/ ResetRole(local) \/ \E role \in scene.roles : SwitchRole(role, local)
           \/ \E role \in scene.roles \cup {defaults.authenticated_role} :
                  SwitchSessionRole(role, local)

ChangeNamespace ==
    \/ \E n \in Schemas : CreateSchema(n) \/ DropSchema(n)
    \/ \E old, new \in Schemas : RenameSchema(old, new)
    \/ \E t \in Temps : DropTemp(t) \/ \E on_commit_drop \in BOOLEAN : CreateTemp(t, on_commit_drop)

ControlTransaction ==
    \/ Conflict \/ BeginTransaction
    \/ \E chain \in BOOLEAN : CommitTransaction(chain) \/ RollbackTransaction(chain)
    \/ \E name \in Savepoints :
           Savepoint(name) \/ RollbackToSavepoint(name) \/ ReleaseSavepoint(name)

Next == SetOrReset \/ ChangeNamespace \/ ControlTransaction

Spec == Init /\ [][Next]_vars
-----------------------------------------------------------------------------
WithoutTemp(path) ==
    [i \in DOMAIN path |-> IF path[i].name = "pg_temp" THEN Nothing ELSE path[i]]

(* All of a session but the temporary namespace. *)
Restorable(s) ==
    [f \in Fields \ {"saw_temp_object"} |->
        IF f = "search_path" THEN WithoutTemp(s[f]) ELSE s[f]]

(* The cached search path is never stale: in every state it is what the       *)
(* template, the current role and the schemas give, after any mix of role     *)
(* switches, schema changes, SET LOCAL, savepoints and undos, the temporary   *)
(* namespace aside.                                                           *)
PathIsFresh ==
    WithoutTemp(session["search_path"]) = WithoutTemp(EffectivePath(session))

(* Once the transaction is over, the session is the one that its statements   *)
(* without the LOCAL ones would have left.  SET ROLE NONE in the scope of a   *)
(* SET LOCAL SESSION AUTHORIZATION is the case to get wrong.                  *)
LocalNeverLasts == ~InTransaction => Restorable(session) = Restorable(lasting)

(* Every handler saves what it changes: undoing the open frames, down to any  *)
(* of them, gives back the session that frame was opened with.                *)
RollbackRestoresSession ==
    \A i \in 1..Len(transactions) :
        Restorable(Undone(undo_log, transactions[i].start, session))
            = Restorable(base[i].session)

Holds(seq, e) == \E i \in DOMAIN seq : seq[i] = e

(* A path that names pg_temp searches it, at its written position, once the   *)
(* session has a temporary namespace.                                         *)
TempIsSearchedWhereWritten ==
    TempNamespaceExists(session) /\ Holds(session["search_path_template"], "pg_temp")
        => Holds(session["search_path"], Searched("pg_temp"))
-----------------------------------------------------------------------------
(***************************************************************************)
(* The inductive invariant behind them.                                    *)
(***************************************************************************)
Templates == {"search_path_template", "session_search_path_template"}

IsSession(s) ==
    /\ s = [f \in Fields |-> s[f]]
    /\ \A f \in RoleContext : s[f] \in scene.roles \cup {UnknownRole}
    /\ \A f \in Templates : s[f] \in scene.templates
    /\ \A f \in TimeoutSettings :
           s[f] \in [session : scene.timeouts, effective : scene.timeouts]

IsList(seq) == Len(seq) \in Nat /\ seq = [i \in 1..Len(seq) |-> seq[i]]

(* The type invariant. *)
TypeOK ==
    /\ scene \in Scenes
    /\ defaults \in [path : scene.templates, timeout : [TimeoutSettings -> scene.timeouts],
                      authenticated_role : scene.roles \cup {UnknownRole}]
    /\ IsSession(session) /\ IsSession(lasting)
    /\ transactions \in Seq([name : Savepoints \cup {"root"}, start : Nat])
    /\ IsList(undo_log) /\ IsList(base) /\ Len(base) = Len(transactions)
    /\ \A i \in 1..Len(base) : IsSession(base[i].session) /\ IsSession(base[i].lasting)

(* The parts of the log that belong to the frames follow one another.         *)
FramesInv ==
    /\ transactions = <<>> => undo_log = <<>>
    /\ transactions # <<>> => transactions[1].start = 0
    /\ \A i \in 1..Len(transactions) :
           /\ transactions[i].start <= Len(undo_log)
           /\ \A j \in 1..i : transactions[j].start <= transactions[i].start

Fresh(s) == WithoutTemp(s["search_path"]) = WithoutTemp(EffectivePath(s))

(* Nothing LOCAL is in force.                                                 *)
Settled(s) ==
    /\ s["current_role"] = s["persistent_current_role"]
    /\ s["session_role"] = s["persistent_session_role"]
    /\ s["search_path_template"] = s["session_search_path_template"]
    /\ \A f \in TimeoutSettings : s[f].effective = s[f].session

Overridable == {"current_role", "session_role", "search_path_template"}

(* The two differ in what LOCAL settings override.                            *)
SameButLocal(s, l) ==
    /\ \A f \in Fields \ (Overridable \cup {"search_path", "saw_temp_object"} \cup TimeoutSettings) :
           s[f] = l[f]
    /\ \A f \in TimeoutSettings : s[f].session = l[f].session

Lasts(s, l) == Fresh(s) /\ Fresh(l) /\ Settled(l) /\ SameButLocal(s, l)

(* A session and what lasts of it, now and when the frames were opened.       *)
LocalInv ==
    /\ Lasts(session, lasting)
    /\ \A i \in 1..Len(base) : Lasts(base[i].session, base[i].lasting)
    /\ Settled(IF transactions = <<>> THEN session ELSE base[1].session)

SessionInv == TypeOK /\ FramesInv /\ LocalInv /\ RollbackRestoresSession
=============================================================================
