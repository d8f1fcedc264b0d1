------------------------------ MODULE Triggers ------------------------------
(***************************************************************************)
(* Row security policies and triggers (state/apply_policy_trigger.rs).  A  *)
(* trigger is keyed <<schema, table, name>> and is                         *)
(* [st, table, row, fn, parent, gen, mode].                                *)
(***************************************************************************)
EXTENDS IndexDdl

CONSTANTS
    PolicyStmts,   \* do ("create" or "drop") table name ifexists exact
    TriggerStmts   \* do ("create", "drop" or "rename") table name fn row ifexists to

------------------------------------------------------------------------------
PolicyVerdict(c, s) ==
    LET there == s.name \in Rel(c, s.table).policies
    IN  Ensure(RelationLookup(c, s.table, {"table"}))
        ?? (IF s.do = "create" THEN Reject(there)
            ELSE IF there THEN "ok" ELSE Skip(s.ifexists) ?? "conflict")

PolicyEffect(w, s) ==
    LET x == Assign(w, "relations", s.table,
                    [Rel(w.c, s.table) EXCEPT
                        !.policies = IF s.do = "create" THEN @ \cup {s.name} ELSE @ \ {s.name}])
    IN  TaintIf(x, s.do = "create" /\ ~s.exact)

ChangePolicy == \E s \in Offered(PolicyStmts) : Settle(PolicyVerdict(cat, s), PolicyEffect(Work, s))

------------------------------------------------------------------------------
TriggerId(table, name) == <<table[1], table[2], name>>

trigger_lookup(c, id) ==
    CASE Present(c.triggers, id)   -> "present"
      [] Tombstone(c.triggers, id) -> "tomb"
      [] Covers(c, id, "triggers") -> "absent"
      [] OTHER                     -> "unknown"

TriggerTarget(c, s) == Ensure(RelationLookup(c, s.table, {"table", "view"}))

(* The function must be known to return trigger.                           *)
CreateTriggerVerdict(c, s) ==
    Reject(trigger_lookup(c, TriggerId(s.table, s.name)) = "present")
    ?? TriggerTarget(c, s)
    ?? Ensure(RoutineLookup(c, s.fn, {"function"}))
    ?? Doubt(c.functions[s.fn].ret = <<>>)
    ?? Reject(c.functions[s.fn].ret # <<"pg_catalog", "trigger">>)

CreateTriggerEffect(w, s) ==
    LET id == TriggerId(s.table, s.name)
        x  == Bump(w)
        y  == Assign(x, "triggers", id,
                     [st |-> "present", table |-> s.table, row |-> s.row, fn |-> s.fn,
                      parent |-> <<>>, gen |-> x.c.gen, mode |-> "origin"])
        z  == SnapGraphFull(Assign(y, "relations", s.table,
                                   [Rel(y.c, s.table) EXCEPT !.trg = @ \cup {s.name}]))
    IN  Set(z, "edges", z.c.edges \cup {[k |-> "trigger", d |-> id, r |-> s.table, trg |-> id,
                                         fn |-> s.fn, gen |-> x.c.gen]})

DropTriggerVerdict(c, s) ==
    LET id == TriggerId(s.table, s.name)
    IN  TriggerTarget(c, s) ?? Reject(ExtensionMember(c, "trigger", id))
        ?? (IF trigger_lookup(c, id) = "present" THEN "ok" ELSE Skip(s.ifexists) ?? "conflict")

DropTriggerEffect(w, s) ==
    LET id == TriggerId(s.table, s.name)
        x  == Assign(DropKeys(w, "triggers", {id}), "relations", s.table,
                     [Rel(w.c, s.table) EXCEPT !.trg = @ \ {s.name}])
    IN  Retain(x, LAMBDA e : ~(e.k = "trigger" /\ e.d = id))

RenameTriggerVerdict(c, s) ==
    TriggerTarget(c, s) ?? Ensure(trigger_lookup(c, TriggerId(s.table, s.name)))
    ?? Reject(s.to # s.name /\ trigger_lookup(c, TriggerId(s.table, s.to)) = "present")

RenameTriggerEffect(w, s) ==
    LET old == TriggerId(s.table, s.name)
        new == TriggerId(s.table, s.to)
        x   == SnapGraphFull(Snap(Snap(w, "triggers", {old, new}), "relations", {s.table}))
    IN  [x EXCEPT !.c.triggers = Rekey(@, old, new),
                  !.c.relations[s.table].trg = (@ \ {s.name}) \cup {s.to},
                  !.c.edges = AddEdge(PropagateTriggerRename(@, old, new), RenameEdge(old, new))]

ChangeTrigger ==
    \E s \in Offered(TriggerStmts) :
        CASE s.do = "create" -> Settle(CreateTriggerVerdict(cat, s), CreateTriggerEffect(Work, s))
          [] s.do = "drop"   -> Settle(DropTriggerVerdict(cat, s), DropTriggerEffect(Work, s))
          [] OTHER           -> Settle(RenameTriggerVerdict(cat, s), RenameTriggerEffect(Work, s))
=============================================================================
