------------------------------ MODULE MCObjects ------------------------------
(***************************************************************************)
(* Scenarios for types, domains, routines, schemas, roles, privileges,     *)
(* extensions, publications and subscriptions, and the families of every   *)
(* scenario, for the model of Catalog.                                     *)
(***************************************************************************)
EXTENDS MCRelations

E1 == S("e1")
C1 == S("c1")
R1 == S("r1")
D1 == S("d1")
D2 == S("d2")
T(n) == <<"t", n>>
Arr(id) == <<id[1], id[2], "[]">>
Enum == [NewType(Base, "enum") EXCEPT !.labels = <<"x", "y">>]
Typed(ty) == [id |-> Column(Int4, FALSE, <<>>, "plain", {}), n |-> Column(ty, TRUE, <<>>, "plain", {})]
Cast(id, deps, types) == [View(id, deps, <<Col("id", Int4)>>) EXCEPT !.types = types]

(* An enum as a column, a field, an element and a cast; typed tables.      *)
EnumUsers ==
    [base |-> [WithTable(Base, A, TableOf(Typed(E1))) EXCEPT !.types = Put(@, E1, Enum)],
     ct |-> {[Table(B, <<>>) EXCEPT !.of = C1]},
     cv |-> {Cast(V, {A}, {E1}), Cast(W, {}, {E1})},
     rt |-> {NewRoutine("function", <<"s", "f", <<E1>>>>, Int4), DropR("function", <<"s", "f", <<E1>>>>, FALSE)},
     ty |-> {[NewTypeOf(C1, "composite") EXCEPT !.fields = [f |-> Arr(E1), g |-> Int4]],
             [NewTypeOf(D2, "enum") EXCEPT !.labels = <<"z">>],
             RenType(E1, T("e2")), DropY(E1, TRUE), DropY(E1, FALSE), DropY(C1, FALSE),
             [AltType(C1, "drop_attr", "g") EXCEPT !.cascade = TRUE],
             [AltType(E1, "add_value", "w") EXCEPT !.to = "y", !.before = TRUE]}]

TypeChanges ==
    [base |-> [Base EXCEPT !.types = (E1 :> Enum) @@ (C1 :> [NewType(Base, "composite") EXCEPT !.fields = [f |-> E1]]),
                           !.functions = Put(@, <<"s", "h", <<>>>>, Routine("function", <<>>, Int4, <<>>))],
     ty |-> {[AltType(C1, "add_attr", "k") EXCEPT !.ty = Arr(E1)], [AltType(C1, "rename_attr", "f") EXCEPT !.to = "k"],
             [AltType(C1, "alter_attr", "f") EXCEPT !.ty = Text], AltType(C1, "drop_attr", "f"),
             AltType(E1, "add_value", "w"), [AltType(E1, "rename_value", "w") EXCEPT !.to = "x"],
             [AltType(C1, "owner", "") EXCEPT !.owner = "bob"], DropY(E1, TRUE),
             [NewTypeOf(D2, "base") EXCEPT !.shell = TRUE], [NewTypeOf(D2, "base") EXCEPT !.uses = {<<"s", "h">>}, !.elem = "e1"],
             [AltType(D2, "set", "") EXCEPT !.uses = {<<"s", "h">>}]},
     rt |-> {DropR("function", <<"s", "h", <<>>>>, TRUE), DropR("function", <<"s", "h", <<>>>>, FALSE)}]

(* A range, its multirange and their constructors.                         *)
NewRange(id, multi) == [NewTypeOf(id, "range") EXCEPT !.base = Int4, !.multi = multi]
Canonical == <<"s", "cn", <<R1>>>>
Ranges ==
    [base |-> [Base EXCEPT
                !.types = (R1 :> [NewType(Base, "range") EXCEPT !.base = Int4, !.mate = S("mr"), !.uses = {Canonical}])
                          @@ (S("mr") :> [NewType(Base, "multirange") EXCEPT !.mate = R1]),
                !.functions = Constructors(Base, NewRange(R1, S("mr")))
                              @@ (Canonical :> Routine("function", <<R1>>, R1, <<>>))],
     ct |-> {Table(B, <<Col("x", Int4), Col("m", S("mr"))>>)},
     ty |-> {NewRange(R1, S("mr")), NewRange(S("r2"), T("m2")),
             Domain(D1, R1, <<>>), [DropY(R1, FALSE) EXCEPT !.ifexists = TRUE], DropY(R1, TRUE), DropY(S("mr"), FALSE),
             RenType(R1, S("r2")), RenType(S("mr"), T("mr"))},
     rt |-> {DropR("function", <<"s", "mr", <<R1>>>>, TRUE), DropR("function", Canonical, TRUE),
             [NewRoutine("function", <<"s", "mr", <<R1>>>>, S("mr")) EXCEPT !.replace = TRUE]}]

(* Domains over domains, their constraints and the columns that use them.  *)
Domains ==
    [base |-> [WithTable(Base, A, TableOf(Typed(D1))) EXCEPT
                !.types = (D1 :> [NewType(Base, "domain") EXCEPT !.base = Int4, !.cons = [k |-> FALSE]])],
     ct |-> {Table(B, <<Col("x", Arr(D2))>>)},
     ty |-> {Domain(D2, D1, <<DomainCon("not_null", "nn", TRUE), DomainCon("check", "", TRUE)>>),
             Domain(D2, Int4, <<DomainCon("null", "", TRUE), DomainCon("not_null", "", TRUE)>>),
             AltDomain(D1, "set_not_null", ""), AltDomain(D1, "drop_not_null", ""),
             AltDomain(D1, "validate", "k"), [AltDomain(D2, "rename_con", "nn") EXCEPT !.to = "k"],
             [AltDomain(D1, "add_con", "") EXCEPT !.con = DomainCon("check", "k", TRUE)],
             [AltDomain(D2, "drop_con", "nn") EXCEPT !.ifexists = TRUE],
             [DropY(D1, TRUE) EXCEPT !.domain = TRUE],
             [AltDomain(D1, "set_default", "") EXCEPT !.dflt = "0"], [AltDomain(D1, "owner", "") EXCEPT !.owner = "bob"]}]

(* Overloads, views that call them by name or exactly, and triggers.       *)
F0 == <<"s", "f", <<>>>>
F1 == <<"s", "f", <<Int4>>>>
Calls(id, r, written) == [View(id, {A}, <<Col("id", Int4)>>) EXCEPT !.routines = {[r |-> r, written |-> written]}]
Overloads ==
    [base |-> [WithTable(Base, A, TableOf(Cols2)) EXCEPT !.functions = Put(@, F0, TriggerFn)],
     cv |-> {Calls(V, F1, "exact"), Calls(W, <<"s", "f">>, "name")},
     tg |-> {Trigger("create", A, "tr")},
     rt |-> {NewRoutine("function", F1, Int4), DropR("function", F0, TRUE), DropR("function", F1, FALSE),
             [DropR("function", F1, TRUE) EXCEPT !.ids = <<F0, F1>>],
             [AltRoutine("function", F1, "move") EXCEPT !.to = <<"t", "f", <<Int4>>>>]}]

RoutineKinds ==
    [base |-> WithTable([Base EXCEPT !.functions = (F1 :> Routine("aggregate", <<Int4>>, Int4, <<>>))],
                        A, TableOf(Cols2)),
     cv |-> {Calls(V, F1, "exact")},
     rt |-> {[NewRoutine("aggregate", F1, Int4) EXCEPT !.replace = TRUE,
                !.attrs = <<[of |-> "type", name |-> Text, qualified |-> FALSE]>>],
             [NewRoutine("function", F1, Int4) EXCEPT !.replace = TRUE],
             DropR("aggregate", F1, TRUE), DropR("aggregate", F1, FALSE),
             [NewRoutine("procedure", <<"s", "pr", <<>>>>, <<>>) EXCEPT !.form = "none", !.replace = TRUE],
             [AltRoutine("procedure", <<"s", "pr", <<>>>>, "options") EXCEPT
                !.opts = <<<<"security", "definer">>, <<"other", "">>>>],
             AltRoutine("aggregate", F1, "other"),
             [AltRoutine("function", F0, "options") EXCEPT !.opts = <<<<"volatile", "stable">>>>],
             DropR("procedure", <<"s", "pr", <<>>>>, FALSE),
             [NewRoutine("function", F0, Int4) EXCEPT !.replace = TRUE, !.in = <<>>, !.ndef = 0,
                !.opts = <<<<"volatile", "stable">>>>],
             [NewRoutine("function", F0, Int4) EXCEPT !.replace = TRUE, !.set = TRUE]}]

(* Schemas: what is in them, what refers into them and what moves.         *)
TwoSchemas ==
    WithTable(WithTable(
        [Base EXCEPT !.sequences = (T("q") :> SequenceState("app", <<T("x"), "n">>, "standalone", 0, DefaultParams))
                                @@ (T("r") :> SequenceState("app", <<>>, "standalone", 0, DefaultParams)),
                     !.edges = {OwnedEdge(T("q"), T("x"), "n"), [k |-> "fk", d |-> A, r |-> T("x"), con |-> "fk", gen |-> 0, cols |-> {"n"}, rcols |-> {"id"}]},
                     !.constraints = (<<A, "fk">> :> Con("fk", <<>>, <<>>)),
                     !.functions = Put(@, <<"t", "f", <<>>>>, TriggerFn), !.baseseq = {T("q"), T("r")}],
        T("x"), TableOf(Cols2)), A, TableOf(Cols2))
SchemaMoves ==
    [base |-> TwoSchemas,
     sc |-> {NewSchema("u"), [NewSchema("t") EXCEPT !.ifnot = TRUE], [NewSchema("w") EXCEPT !.auth = <<"bob">>],
             [do |-> "owner", name |-> "t", owner |-> "bob"],
             [do |-> "rename", old |-> "t", new |-> "u"], [do |-> "rename", old |-> "u", new |-> "w"],
             DropS("t", FALSE), DropS("t", TRUE), DropS("u", TRUE), [DropS("w", FALSE) EXCEPT !.ifexists = TRUE]},
     cv |-> {View(V, {T("x")}, <<Col("id", Int4)>>)},
     tg |-> {[Trigger("create", T("x"), "tr") EXCEPT !.fn = <<"t", "f", <<>>>>]},
     rn |-> {Ren(A, <<"u", "a">>)}]

SchemaTypes ==
    [base |-> [WithTable(Base, A, TableOf(Typed(T("e")))) EXCEPT !.types = Put(@, T("e"), Enum)],
     ct |-> {[Table(T("b"), <<Col("z", Int4)>>) EXCEPT !.cons = <<Check("ck", <<"z">>, "d1")>>]},
     cv |-> {Cast(V, {A}, {T("e")})},
     rt |-> {NewRoutine("function", <<"s", "f", <<T("e")>>>>, Int4)},
     pu |-> {NewPub("p1", <<Published("table", T("b")), Published("schema", <<"", "s">>)>>)},
     sc |-> {DropS("t", TRUE)}]

(* Memberships granted by several roles.                                   *)
Record(m, r, g, admin) ==
    [member |-> m, role |-> r, grantor |-> g, admin |-> admin, inherit |-> TRUE, set |-> TRUE]
InRole(role) == [RoleState(TRUE) EXCEPT !.member = {role}, !.admin = {role}, !.inherit = {role}, !.set = {role}]
Crew ==
    [Base EXCEPT !.roles = ("app" :> Super) @@ ("bob" :> InRole("team")) @@ ("cy" :> RoleState(FALSE))
                           @@ ("team" :> RoleState(TRUE)),
                 !.grantors = {Record("bob", "team", "app", TRUE)}]
Membership(do, to) == Grant(do, "roles", <<"team">>, <<to>>)
Memberships ==
    [base |-> Crew,
     rr |-> {[do |-> "create", name |-> "dee", inherits |-> <<TRUE>>], [do |-> "alter", name |-> "cy", inherits |-> <<TRUE>>],
             [do |-> "drop", names |-> <<"cy", "eve">>, ifexists |-> TRUE]},
     gr |-> {[Membership("grant", "cy") EXCEPT !.by = "bob", !.admin = <<TRUE>>],
             [Membership("grant", "cy") EXCEPT !.inherit = <<FALSE>>],
             Grant("grant", "roles", <<"cy">>, <<"team">>),
             [Membership("grant", "dee") EXCEPT !.by = "cy"],
             [Membership("revoke", "bob") EXCEPT !.cascade = TRUE],
             [Membership("revoke", "cy") EXCEPT !.by = "bob", !.admin = <<FALSE>>, !.cascade = TRUE],
             [Membership("revoke", "cy") EXCEPT !.set = <<FALSE>>]}]

LegacyMemberships ==
    [base |-> [Crew EXCEPT !.gcomplete = FALSE],
     gr |-> {[Membership("grant", "cy") EXCEPT !.by = "bob", !.admin = <<TRUE>>], Membership("grant", "cy"),
             Grant("grant", "roles", <<"cy">>, <<"team">>),
             [Membership("revoke", "bob") EXCEPT !.cascade = TRUE],
             [Membership("revoke", "cy") EXCEPT !.admin = <<FALSE>>]}]

(* Privileges passed on, and taken back.                                   *)
Privileges ==
    [base |-> [WithTable(Crew, A, TableOf(Cols2)) EXCEPT !.pg17 = FALSE],
     gr |-> {[Grant("grant", "tables", <<A>>, <<"bob">>) EXCEPT !.option = TRUE],
             [Grant("grant", "tables", <<A>>, <<"cy", "public">>) EXCEPT !.all = TRUE],
             [Grant("revoke", "tables", <<A>>, <<"bob">>) EXCEPT !.cascade = TRUE],
             [Grant("revoke", "tables", <<A>>, <<"bob">>) EXCEPT !.option = TRUE],
             [Grant("revoke", "schemas", <<"s">>, <<"cy">>) EXCEPT !.all = TRUE],
             [Grant("grant", "tables", <<A>>, <<"bob">>) EXCEPT !.privs = {"maintain"}]}]
PassedOn ==
    [base |-> [WithTable(Crew, A, [TableOf(Cols2) EXCEPT !.acl =
                [grants |-> {<<"bob", "select">>, <<"cy", "select">>, <<"team", "select">>},
                 options |-> {<<"bob", "select">>, <<"cy", "select">>},
                 from |-> {<<"bob", "select", "app">>, <<"cy", "select", "bob">>, <<"team", "select", "cy">>},
                 optfrom |-> {<<"bob", "select", "app">>, <<"cy", "select", "bob">>}]]) EXCEPT !.me = "app"],
     ro |-> {[id |-> A, owner |-> "bob"]},
     gr |-> {[Grant("revoke", "tables", <<A>>, <<"bob">>) EXCEPT !.cascade = TRUE],
             Grant("revoke", "tables", <<A>>, <<"bob">>),
             Grant("grant", "tables", <<A>>, <<"cy">>),
             [Grant("revoke", "tables", <<A>>, <<"cy">>) EXCEPT !.cascade = TRUE]}]

(* Extensions: members taken in and let go, moved and dropped.             *)
Ext(members) ==
    [ExtensionState(Base, "s", "1") EXCEPT !.members = members, !.complete = TRUE, !.reloc = "yes"]
HF == <<"s", "h", <<>>>>
ExtensionObjects ==
    [base |-> [WithTable(Base, A, TableOf(Typed(E1))) EXCEPT
                !.types = Put(@, E1, Enum), !.functions = Put(@, HF, Routine("function", <<>>, Int4, <<>>)),
                !.extensions = ("x" :> Ext({<<"type", E1>>, <<"routine", HF>>}))],
     ex |-> {[do |-> "create", name |-> "y", schema |-> <<"s">>, version |-> "1", ifnot |-> TRUE],
             [AltExtension("x", "add") EXCEPT !.member = <<"relation", A>>],
             [AltExtension("x", "remove") EXCEPT !.member = <<"relation", A>>],
             [AltExtension("x", "update") EXCEPT !.to = "2"],
             [do |-> "drop", names |-> <<"x">>, ifexists |-> FALSE, cascade |-> FALSE],
             [do |-> "drop", names |-> <<"y", "x">>, ifexists |-> TRUE, cascade |-> TRUE]},
     cv |-> {[Calls(V, HF, "exact") EXCEPT !.deps = {A}]},
     dt |-> {DropT(A, FALSE)}, ty |-> {DropY(E1, FALSE), RenType(E1, S("e2"))},
     rt |-> {DropR("function", HF, TRUE)}]
ExtensionMove ==
    [base |-> [WithTable(WithTable(Base, A, TableOf(Typed(E1))), B, TableOf(Cols2)) EXCEPT
                !.types = Put(@, E1, Enum), !.functions = Put(@, HF, Routine("function", <<E1>>, Int4, <<>>)),
                !.extensions = ("x" :> Ext({<<"type", E1>>, <<"relation", A>>}))],
     ex |-> {[AltExtension("x", "schema") EXCEPT !.to = "t"], [AltExtension("x", "schema") EXCEPT !.to = "s"],
             [do |-> "drop", names |-> <<"x">>, ifexists |-> FALSE, cascade |-> FALSE]},
     ct |-> {Table(T("a"), <<Col("z", Int4)>>)},
     rn |-> {Ren(A, S("c"))},
     sc |-> {DropS("t", FALSE)}]

(* Publications.                                                           *)
Publishing ==
    [base |-> TwoTables,
     pu |-> {NewPub("p1", <<Published("table", A)>>), [NewPub("p2", <<>>) EXCEPT !.all = TRUE],
             [AltPub("p1", "add") EXCEPT !.objs = <<Published("table", B)>>],
             [AltPub("p1", "add") EXCEPT !.objs = <<Published("schema", <<"", "t">>)>>],
             [AltPub("p1", "set") EXCEPT !.objs = <<[Published("table", A) EXCEPT !.cols = <<"id">>]>>],
             [AltPub("p1", "drop") EXCEPT !.objs = <<Published("table", A)>>],
             [AltPub("p1", "rename") EXCEPT !.to = "p3"], [AltPub("p1", "options") EXCEPT !.opts = [publish |-> "insert"]],
             [AltPub("p2", "owner") EXCEPT !.owner = "bob"],
             [do |-> "drop", names |-> <<"p1", "p3">>, ifexists |-> TRUE]},
     rn |-> {Ren(A, <<"t", "a">>)}, dt |-> {DropT(B, FALSE), DropT(A, TRUE)}]

Subscribing ==
    [base |-> Base,
     su |-> {NewSub("u1", <<>>), NewSub("u1", [connect |-> "false"]),
             NewSub("u1", [slot_name |-> "none", enabled |-> "false", create_slot |-> "false"]),
             NewSub("u1", [slot_name |-> "none", create_slot |-> "false"]),
             [AltSub("u1", "enable") EXCEPT !.enabled = TRUE], AltSub("u1", "enable"),
             [AltSub("u1", "options") EXCEPT !.opts = [slot_name |-> "none"]],
             [AltSub("u1", "options") EXCEPT !.opts = [slot_name |-> "sl", two_phase |-> "false"]],
             [AltSub("u1", "pubs") EXCEPT !.mode = "add", !.pubs = <<"p2">>, !.opts = [refresh |-> "false"]],
             [AltSub("u1", "pubs") EXCEPT !.mode = "drop", !.pubs = <<"p1">>],
             AltSub("u1", "refresh"), AltSub("u1", "conn"), [AltSub("u1", "skip") EXCEPT !.opts = [lsn |-> "0"]],
             [AltSub("u1", "rename") EXCEPT !.to = "u2"], [AltSub("u1", "owner") EXCEPT !.owner = "bob"],
             [do |-> "drop", name |-> "u1", ifexists |-> TRUE]}]

(* A baseline of one schema, with dependents outside it, and none at all.  *)
Scoped ==
    [base |-> [WithTable(WithTable(Base, A, TableOf(Typed(E1))), B, TableOf(Cols2)) EXCEPT
                !.schemas = ("s" :> SchemaState("app", 0)), !.scope = {"s"},
                !.types = Put(@, E1, Enum), !.functions = Put(@, HF, Routine("function", <<>>, Int4, <<>>)),
                !.external = {<<"relations", A>>, <<"types", E1>>, <<"functions", HF>>}],
     ct |-> {Table(T("x"), <<Col("id", Int4)>>), [Table(D, <<Col("id", T("e"))>>) EXCEPT !.fks = <<Fk("", <<"id">>, T("y"), <<"id">>)>>]},
     dt |-> {DropT(A, FALSE), DropT(A, TRUE), DropT(B, FALSE), [DropT(T("x"), FALSE) EXCEPT !.ifexists = TRUE]},
     rn |-> {Ren(A, T("a")), Ren(T("x"), T("z"))},
     cv |-> {View(V, {A, T("y")}, <<Col("id", Int4)>>)},
     rt |-> {DropR("function", HF, TRUE)}, ty |-> {DropY(E1, TRUE), RenType(T("e"), T("e2"))},
     sc |-> {NewSchema("t"), DropS("s", TRUE)}]
NoBaseline ==
    [base |-> [EmptyCatalog EXCEPT !.schemas = ("s" :> SchemaState("app", 0)),
                !.known = [available |-> FALSE, boundary |-> FALSE, families |-> {}]],
     sc |-> {NewSchema("t"), [DropS("s", TRUE) EXCEPT !.ifexists = TRUE]},
     ct |-> {Table(A, <<Col("id", Int4), [Col("x", Int4) EXCEPT !.how = "serial"]>>)},
     dt |-> {[DropT(B, FALSE) EXCEPT !.ids = <<B, A>>, !.ifexists = TRUE]},
     cv |-> {View(V, {B}, <<Col("id", Int4)>>)},
     at |-> {<<[Act(A, "add_pk") EXCEPT !.con = Key("pk", "", <<"id">>)], [Act(B, "rls") EXCEPT !.value = TRUE]>>},
     gr |-> {Grant("grant", "roles", <<"team">>, <<"bob">>)},
     rr |-> {[do |-> "create", name |-> "bob", inherits |-> <<TRUE>>]}]

(* Where the code and what the repository says of it part: a partition     *)
(* dropped with an attached index, and a partition attached beside a       *)
(* DEFAULT one.                                                            *)
DroppedPartition ==
    [base |-> PartBase, ci |-> {Index(S("pi"), P, <<"n">>)}, at |-> {Attach(<<"range", "2">>)}, dt |-> {DropT(A, FALSE)}]
DefaultSibling ==
    [base |-> PartBase, ct |-> {[Part(B, "1") EXCEPT !.bound = <<"default">>]}, at |-> {Attach(<<"range", "2">>)}]
Divergent == [dropped_partition |-> DroppedPartition, default_sibling |-> DefaultSibling]

Scenes ==
    Divergent @@ RelationScenes @@
    [enums |-> EnumUsers, types |-> TypeChanges, ranges |-> Ranges, domains |-> Domains, overloads |-> Overloads,
     routines |-> RoutineKinds, schemas |-> SchemaMoves, schematypes |-> SchemaTypes, members |-> Memberships,
     legacy |-> LegacyMemberships, grants |-> Privileges, passedon |-> PassedOn, extensions |-> ExtensionObjects,
     extmove |-> ExtensionMove, publications |-> Publishing, subscriptions |-> Subscribing,
     scoped |-> Scoped, nobaseline |-> NoBaseline]

StatementsOf(stmts, f) == IF f \in DOMAIN stmts THEN stmts[f] ELSE {}
FamilyIn(scenes, f) == [s \in DOMAIN scenes |-> StatementsOf(scenes[s], f)]
Family(f) == FamilyIn(Scenes, f)

MCBaselines == Without(Family("base"), DOMAIN Divergent)
DroppedPartitionBaseline == [s \in {"dropped_partition"} |-> PartBase]
DefaultSiblingBaseline == [s \in {"default_sibling"} |-> PartBase]
MCCreateTable == Family("ct")
MCDropTable == Family("dt")
MCRename == Family("rn")
MCOwner == Family("ro")
MCCreateSequence == Family("cs")
MCAlterSequence == Family("as")
MCDropSequence == Family("ds")
MCCreateView == Family("cv")
MCCreateMatview == Family("cm")
MCRefresh == Family("rf")
MCAlterView == Family("av")
MCDropView == Family("dv")
MCCreateIndex == Family("ci")
MCAlterIndex == Family("ai")
MCDropIndex == Family("di")
MCMaintenance == Family("mt")
MCPolicy == Family("pl")
MCTrigger == Family("tg")
MCAlterTable == Family("at")
MCRoutine == Family("rt")
MCType == Family("ty")
MCSchema == Family("sc")
MCRole == Family("rr")
MCGrant == Family("gr")
MCExtension == Family("ex")
MCPublication == Family("pu")
MCSubscription == Family("su")
MCTypeMax == [int2 |-> 3, int4 |-> 5, int8 |-> 7]
==============================================================================
