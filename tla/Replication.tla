----------------------------- MODULE Replication -----------------------------
(***************************************************************************)
(* Publications and subscriptions (state/apply_replication.rs,             *)
(* publication.rs).  A publication is [st, owner, all, objs, par, gen]; an *)
(* object is [kind, id, cols], kind "table", "schema" (id <<"", name>>) or *)
(* "other" for one the parser does not understand.  A subscription is [st, *)
(* owner, conn, pubs, par, enabled, slot, gen]; slot is "" for NONE.       *)
(* Statements have the fields                                              *)
(*   create  name all objs opts                                            *)
(*   alter   name action ("add", "set", "drop", "options", "owner",        *)
(*           "rename") all objs opts owner to                              *)
(*   drop    names ifexists                                                *)
(* and, for subscriptions,                                                 *)
(*   create  name pubs conn opts                                           *)
(*   alter   name action ("pubs", "refresh", "enable", "options", "skip",  *)
(*           "conn", "server", "owner", "rename") mode pubs opts conn      *)
(*           enabled owner to                                              *)
(*   drop    name ifexists                                                 *)
(* objs is a sequence of objects with only, whether the table's children   *)
(* are left out; opts a function from options to values.  CURRENT_SCHEMA   *)
(* stands for a schema that the search path gives (SessionSettings).       *)
(***************************************************************************)
EXTENDS Extensions

CONSTANTS PublicationStmts, SubscriptionStmts

PublicationsTo(action) == {s \in Offered(PublicationStmts) : s.do = action}
SubscriptionsTo(action) == {s \in Offered(SubscriptionStmts) : s.do = action}

(* Publications and subscriptions have no coverage of their own.           *)
NameLookup(c, map, name) ==
    CASE Present(map, name)   -> "present"
      [] Tombstone(map, name) -> "tomb"
      [] c.known.available    -> "absent"
      [] OTHER                -> "unknown"
publication_lookup(c, name)  == NameLookup(c, c.publications, name)
subscription_lookup(c, name) == NameLookup(c, c.subscriptions, name)

RenameTarget(lookup) == Reject(lookup = "present") ?? Doubt(lookup = "unknown")

(* "" is an owner that the statement does not name.                        *)
OwnerTarget(c, role) == IF role = "" THEN "ok" ELSE EnsureRole(c, role)
OwnerDoubt(c, role)  == role = "" \/ RoleDoubt(c, role)

------------------------------------------------------------------------------
(* What a publication holds.                                                *)

publication_object_key(o) == <<o.kind, o.id>>

(* The parser takes every schema after the first for a table.              *)
normalize_publication_scope(c, objs) ==
    LET step(done, o) ==
            LET after == \E i \in DOMAIN done : done[i].kind = "schema"
            IN  Append(done, IF o.kind = "table" /\ after /\ Present(c.schemas, o.id[2])
                             THEN [o EXCEPT !.kind = "schema", !.id = <<"", o.id[2]>>, !.cols = <<>>] ELSE o)
    IN  FoldLeft(step, <<>>, objs)

PublishedTable(c, o) ==
    CASE Present(c.relations, o.id) ->
            Reject(Rel(c, o.id).kind # "table" \/ Rel(c, o.id).pers # "permanent")
            ?? Reject(HasDuplicates(o.cols) \/ ~(ToSet(o.cols) \subseteq DOMAIN Rel(c, o.id).cols))
      [] OTHER -> Reject(Tombstone(c.relations, o.id) \/ Covers(c, o.id, "relations"))

validate_publication_scope(c, all, objs) ==
    LET keys == [i \in DOMAIN objs |-> publication_object_key(objs[i])]
    IN  IF all THEN "ok"
        ELSE Reject(HasDuplicates(keys))
             ?? Each(objs, LAMBDA o : CASE o.kind = "table"  -> PublishedTable(c, o)
                                        [] o.kind = "schema" -> Reject(SchemaLookup(c, o.id[2]) \in {"tomb", "absent"})
                                        [] OTHER             -> "ok")

(* The scope may reach tables that were not synchronized.                  *)
publication_scope_needs_inheritance_knowledge(c, all, objs) ==
    LET known(schema) == \A f \in {"relations", "inheritance"} : Covers(c, <<schema, "">>, f)
        local(id) == Present(c.relations, id) /\ Rel(c, id).gen > 0
        needs(o) == CASE o.kind = "table"  -> ~o.only /\ ~local(o.id) /\ ~known(o.id[1])
                      [] o.kind = "schema" -> ~known(o.id[2])
                      [] OTHER             -> FALSE
    IN  IF all
        THEN ~(c.known.available /\ c.scope = {} /\ {"relations", "inheritance"} \subseteq c.known.families)
        ELSE \E i \in DOMAIN objs : needs(objs[i])

ScopeDoubt(c, all, objs) ==
    \/ publication_scope_needs_inheritance_knowledge(c, all, objs)
    \/ ~all /\ \E i \in DOMAIN objs :
                  CASE objs[i].kind = "table"  -> objs[i].id \notin DOMAIN c.relations
                    [] objs[i].kind = "schema" -> SchemaLookup(c, objs[i].id[2]) = "unknown"
                    [] OTHER                   -> TRUE

Stored(objs) == {[kind |-> o.kind, id |-> o.id, cols |-> ToSet(o.cols)] : o \in ToSet(objs)}
PublicationEdges(name, objs) ==
    {[k |-> "pub", d |-> o.id, r |-> <<"", name>>, pub |-> <<"", name>>] : o \in {x \in objs : x.kind = "table"}}
InPublication(e, name) == e.k = "pub" /\ e.pub = <<"", name>>

(* What PostgreSQL reports of the options: the defaults where none was     *)
(* given, and generated columns from release 18.                           *)
effective_publication_params(c, explicit) ==
    LET defaults == Over([publish |-> "all", publish_via_partition_root |-> "false"],
                         IF c.pg18 THEN [publish_generated_columns |-> "none"] ELSE <<>>)
    IN  [o \in DOMAIN defaults |-> IF o \in DOMAIN explicit THEN explicit[o] ELSE defaults[o]]

------------------------------------------------------------------------------
CreatePublicationVerdict(c, s) ==
    Reject(publication_lookup(c, s.name) = "present")
    ?? validate_publication_scope(c, s.all, normalize_publication_scope(c, s.objs))

CreatePublicationEffect(w, s) ==
    LET c    == w.c
        objs == normalize_publication_scope(c, s.objs)
        x    == Bump(TaintIf(w, publication_lookup(c, s.name) = "unknown" \/ ScopeDoubt(c, s.all, objs)))
        y    == Assign(x, "publications", s.name,
                       [st |-> "present", owner |-> c.me, all |-> s.all, objs |-> Stored(objs),
                        par |-> effective_publication_params(c, s.opts), gen |-> x.c.gen])
    IN  IF s.all THEN y
        ELSE Rewrite(y, y.c.edges \cup PublicationEdges(s.name, Stored(objs)))

CreatePublication ==
    \E s \in PublicationsTo("create") : Settle(CreatePublicationVerdict(cat, s), CreatePublicationEffect(Work, s))

(* ADD and SET check the objects as they are written, DROP only that they  *)
(* are there.                                                              *)
AlterPublicationVerdict(c, s) ==
    LET p     == c.publications[s.name]
        keys  == {publication_object_key(o) : o \in p.objs}
        given == {publication_object_key(o) : o \in ToSet(s.objs)}
    IN  Ensure(publication_lookup(c, s.name))
        ?? CASE s.action = "rename" -> RenameTarget(publication_lookup(c, s.to))
             [] s.action = "owner"  -> OwnerTarget(c, s.owner)
             [] s.action = "add"    -> validate_publication_scope(c, FALSE, s.objs)
                                       ?? Reject(p.all) ?? Reject(given \cap keys # {})
             [] s.action = "set"    -> validate_publication_scope(c, s.all, s.objs)
             [] s.action = "drop"   -> Reject(p.all) ?? Reject(~(given \subseteq keys))
             [] OTHER               -> "ok"

AlterPublicationEffect(w, s) ==
    LET c == w.c
        p == c.publications[s.name]
        x == Bump(Snap(w, "publications", {s.name}))
        put(v, new) == Set(v, "publications", Put(v.c.publications, s.name, [new EXCEPT !.gen = x.c.gen]))
        named == {publication_object_key(o) : o \in ToSet(s.objs)}
        old  == SetToSeq({[kind |-> o.kind, id |-> o.id, cols |-> SetToSeq(o.cols), only |-> FALSE] : o \in p.objs})
        objs == Stored(normalize_publication_scope(c,
                    CASE s.action = "add" -> old \o s.objs
                      [] s.action = "set" -> s.objs
                      [] OTHER -> SelectSeq(old, LAMBDA o : publication_object_key(o) \notin named)))
        all  == s.action = "set" /\ s.all
        doubt == CASE s.action = "drop" -> publication_scope_needs_inheritance_knowledge(c, FALSE, s.objs)
                   [] OTHER             -> ScopeDoubt(c, all, s.objs)
        scoped == LET v == Retain(put(TaintIf(x, doubt), [p EXCEPT !.objs = IF all THEN {} ELSE objs, !.all = all]),
                                  LAMBDA e : ~InPublication(e, s.name))
                  IN  IF all THEN v ELSE Set(v, "edges", v.c.edges \cup PublicationEdges(s.name, objs))
        moved == SnapGraphFull(Snap(put(x, p), "publications", {s.to}))
    IN  CASE s.action = "options" -> put(x, [p EXCEPT !.par = effective_publication_params(c, Over(s.opts, @))])
          [] s.action = "owner"   -> put(TaintIf(x, OwnerDoubt(c, s.owner)), [p EXCEPT !.owner = s.owner])
          [] s.action = "rename"  ->
                [moved EXCEPT !.c.publications = Rekey(@, s.name, s.to),
                              !.c.edges = RenamePublication(@, <<"", s.name>>, <<"", s.to>>)]
          [] OTHER                -> scoped

AlterPublication ==
    \E s \in PublicationsTo("alter") : Settle(AlterPublicationVerdict(cat, s), AlterPublicationEffect(Work, s))

DropPublication ==
    \E s \in PublicationsTo("drop") :
        LET now == {n \in ToSet(s.names) : Present(cat.publications, n)}
        IN  Settle(EnsureDropTargets(s.names, s.ifexists, LAMBDA n : publication_lookup(cat, n)) ?? Skip(now = {}),
                   Retain(DropKeys(Work, "publications", now), LAMBDA e : ~(e.k = "pub" /\ e.r[2] \in now)))

------------------------------------------------------------------------------
(* Subscriptions.                                                           *)

IsFalse(opts, o) == o \in DOMAIN opts /\ opts[o] = "false"
IsTrue(opts, o)  == o \in DOMAIN opts /\ opts[o] = "true"

SubscriptionText == {"slot_name", "synchronous_commit", "lsn", "origin"}
SubscriptionBoolean == {"connect", "create_slot", "enabled", "copy_data", "refresh", "binary", "two_phase",
                        "disable_on_error", "password_required", "run_as_owner", "failover"}

(* Names, releases and values of the options.                              *)
validate_subscription_options(c, opts) ==
    LET boolean == {"true", "false"}
        good(o) ==
            /\ o \in SubscriptionBoolean => opts[o] \in boolean
            /\ o = "streaming" => opts[o] \in boolean \cup (IF c.pg16 THEN {"parallel"} ELSE {})
            /\ o \in {"password_required", "run_as_owner", "origin"} => c.pg16
            /\ o = "failover" => c.pg17
    IN  Reject(\E o \in DOMAIN opts :
                  o \notin SubscriptionText \cup SubscriptionBoolean \cup {"streaming"} \/ ~good(o))

Connects(s)    == ~IsFalse(s.opts, "connect")
CreatesSlot(s) == Connects(s) /\ ~IsFalse(s.opts, "create_slot")
StartsEnabled(s) == Connects(s) /\ ~IsFalse(s.opts, "enabled")
SlotNamed(value) == IF value = "none" THEN "" ELSE value
SlotOf(s) == IF "slot_name" \in DOMAIN s.opts THEN SlotNamed(s.opts["slot_name"]) ELSE s.name

(* A mutant: no slot is refused only where one would be created.           *)
CreateSubscriptionChecks(c, s) ==
    Reject(subscription_lookup(c, s.name) = "present")
    ?? validate_subscription_options(c, s.opts)
    ?? Reject(txn # "none" /\ CreatesSlot(s))
    ?? Reject(SlotOf(s) = "" /\ CreatesSlot(s))
    ?? Reject(HasDuplicates(s.pubs))

CreateSubscriptionVerdict(c, s) ==
    Reject(subscription_lookup(c, s.name) = "present")
    ?? validate_subscription_options(c, s.opts)
    ?? Reject(~Connects(s) /\ \E o \in {"create_slot", "enabled", "copy_data"} : IsTrue(s.opts, o))
    ?? Reject(txn # "none" /\ CreatesSlot(s))
    ?? Reject(SlotOf(s) = "" /\ (StartsEnabled(s) \/ CreatesSlot(s)))
    ?? Reject(HasDuplicates(s.pubs))

CreateSubscriptionEffect(w, s) ==
    LET x == Bump(TaintIf(w, Connects(s) \/ subscription_lookup(w.c, s.name) = "unknown"))
    IN  Assign(x, "subscriptions", s.name,
               [st |-> "present", owner |-> w.c.me, conn |-> s.conn, pubs |-> ToSet(s.pubs), par |-> s.opts,
                enabled |-> StartsEnabled(s), slot |-> SlotOf(s), gen |-> x.c.gen])

CreateSubscription ==
    \E s \in SubscriptionsTo("create") :
        Settle(CreateSubscriptionVerdict(cat, s), CreateSubscriptionEffect(Work, s))

AlterSubscriptionVerdict(c, s) ==
    LET p == c.subscriptions[s.name]
        inTransaction == txn # "none"
        change == DOMAIN s.opts
        pubs == Reject(inTransaction /\ ~IsFalse(s.opts, "refresh")) ?? Reject(HasDuplicates(s.pubs))
                ?? CASE s.mode = "add"  -> Reject(ToSet(s.pubs) \cap p.pubs # {})
                     [] s.mode = "drop" -> Reject(~(ToSet(s.pubs) \subseteq p.pubs))
                     [] OTHER           -> "ok"
        options == Reject(p.enabled /\ change \cap {"slot_name", "failover", "two_phase"} # {})
                   ?? Reject(inTransaction /\ ("failover" \in change \/ IsFalse(s.opts, "two_phase")))
    IN  Ensure(subscription_lookup(c, s.name))
        ?? (IF s.action = "rename" THEN RenameTarget(subscription_lookup(c, s.to)) ELSE "ok")
        ?? (IF s.action = "owner" THEN OwnerTarget(c, s.owner) ELSE "ok")
        ?? validate_subscription_options(c, s.opts)
        ?? CASE s.action = "pubs"    -> pubs
             [] s.action = "refresh" -> Reject(inTransaction)
             [] s.action = "options" -> options
             [] s.action = "enable"  -> Reject(s.enabled /\ p.slot = "")
             [] OTHER                -> "ok"

AlterSubscriptionEffect(w, s) ==
    LET c == w.c
        p == c.subscriptions[s.name]
        x == Bump(Snap(w, "subscriptions", {s.name}))
        y == TaintIf(x, \/ s.action \in {"refresh", "server"}
                        \/ s.action = "pubs" /\ ~IsFalse(s.opts, "refresh")
                        \/ s.action = "owner" /\ OwnerDoubt(c, s.owner))
        named == ToSet(s.pubs)
        new ==
            CASE s.action \in {"conn", "server"} -> [p EXCEPT !.conn = s.conn]
              [] s.action = "pubs"    -> [p EXCEPT !.pubs = CASE s.mode = "set" -> named
                                                              [] s.mode = "add" -> @ \cup named
                                                              [] OTHER          -> @ \ named]
              [] s.action = "enable"  -> [p EXCEPT !.enabled = s.enabled]
              [] s.action = "options" ->
                    [p EXCEPT !.par = Over(s.opts, @),
                              !.slot = IF "slot_name" \in DOMAIN s.opts THEN SlotNamed(s.opts["slot_name"]) ELSE @]
              [] s.action = "skip"    -> [p EXCEPT !.par = Over([o \in {"skip_lsn"} |-> s.opts["lsn"]], @)]
              [] s.action = "owner"   -> [p EXCEPT !.owner = s.owner]
              [] OTHER                -> p
        z == Set(y, "subscriptions", Put(y.c.subscriptions, s.name, [new EXCEPT !.gen = x.c.gen]))
        v == Snap(z, "subscriptions", {s.to})
    IN  IF s.action = "rename" THEN Set(v, "subscriptions", Rekey(v.c.subscriptions, s.name, s.to)) ELSE z

AlterSubscription ==
    \E s \in SubscriptionsTo("alter") : Settle(AlterSubscriptionVerdict(cat, s), AlterSubscriptionEffect(Work, s))

DropSubscription ==
    \E s \in SubscriptionsTo("drop") :
        Settle(EnsureOrSkip(subscription_lookup(cat, s.name), s.ifexists)
               ?? Reject(cat.subscriptions[s.name].slot # "" /\ txn # "none"),
               DropKeys(Taint(Work), "subscriptions", {s.name}))
==============================================================================
