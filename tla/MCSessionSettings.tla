------------------------- MODULE MCSessionSettings -------------------------
(* SessionSettings on small instances: one written path per kind of entry. *)
EXTENDS SessionSettings

(* Role switches and SET LOCAL under two savepoints; the role's own schema is
   outside the synchronized scope. *)
RoleScene ==
    [scope |-> {"app"}, not_at_sync |-> {}, roles |-> {"app", "dev"}, timeouts |-> {1},
     templates |-> {<<"$user", "app">>}, features |-> {"role"}, max_frames |-> 3, max_undo |-> 4]

(* SET, SET LOCAL and RESET of the timeouts and the search path. *)
SettingScene ==
    [scope |-> {"app"}, not_at_sync |-> {"dev"}, roles |-> {}, timeouts |-> {1, 2},
     templates |-> {<<"app", "pg_temp">>, <<"app">>}, features |-> {"path", "timeout"},
     max_frames |-> 2, max_undo |-> 2]

(* Schemas that come, go and change names under the path that searches them. *)
SchemaScene ==
    [scope |-> {"app", "dev"}, not_at_sync |-> {"dev"}, roles |-> {"app"}, timeouts |-> {1},
     templates |-> {<<"$user", "dev", "pg_temp">>, <<"app">>}, features |-> {"schema", "temp"},
     max_frames |-> 2, max_undo |-> 4]

TempScene ==
    [scope |-> {"app"}, not_at_sync |-> {}, roles |-> {"app"}, timeouts |-> {1},
     templates |-> {<<"app", "pg_temp">>, <<"app">>}, features |-> {"path", "temp"},
     max_frames |-> 2, max_undo |-> 3]

SessionScenes == {RoleScene, SettingScene, SchemaScene}

TempScenes == {TempScene}
=============================================================================
