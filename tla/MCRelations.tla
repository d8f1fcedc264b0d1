----------------------------- MODULE MCRelations -----------------------------
(***************************************************************************)
(* Statements and baselines for the models of Catalog: a statement with    *)
(* nothing optional written, which the scenarios vary with EXCEPT, and     *)
(* catalogs as a synchronization finds them.  Then the scenarios for       *)
(* tables, sequences, views, indexes, partitions, triggers and ALTER       *)
(* TABLE: a scenario is a baseline and the statements of each family that  *)
(* are run on it.                                                          *)
(***************************************************************************)
EXTENDS Catalog

S(n) == <<"s", n>>
Int4 == <<"pg_catalog", "int4">>
Text == <<"pg_catalog", "text">>

(* Statements.                                                             *)
Col(n, ty) == [name |-> n, ty |-> ty, notnull |-> FALSE, dflt |-> <<>>, how |-> "plain",
               expr |-> {}, seq |-> <<>>, opts |-> NoOptions]
Key(kind, name, cols) == [kind |-> kind, name |-> name, cols |-> cols, def |-> <<>>, known |-> TRUE]
Check(name, cols, def) == [kind |-> "check", name |-> name, cols |-> cols, def |-> <<def>>, known |-> TRUE]
Fk(name, from, table, to) == [name |-> name, from |-> from, table |-> table, to |-> to]
Table(id, cols) ==
    [id |-> id, ifnot |-> FALSE, temp |-> FALSE, pers |-> "permanent", oncommit |-> "none",
     of |-> <<>>, strategy |-> "none", pkeys |-> <<>>, bound |-> <<>>, as |-> "no",
     inherits |-> <<>>, partof |-> <<>>, like |-> <<>>, cols |-> cols, cons |-> <<>>, fks |-> <<>>]
DropT(id, cascade) == [ids |-> <<id>>, ifexists |-> FALSE, cascade |-> cascade, co |-> {}]
Ren(old, new) == [old |-> old, new |-> new]

NewSeq(id) == [id |-> id, ifnot |-> FALSE, ownedby |-> <<>>, opts |-> NoOptions]
AltSeq(id) == [id |-> id, ifexists |-> FALSE, opts |-> NoOptions, action |-> "none",
               ownedby |-> <<>>, owner |-> "", to |-> <<>>]

View(id, deps, cols) ==
    [id |-> id, replace |-> FALSE, deps |-> deps, cols |-> cols, list |-> <<>>, complete |-> TRUE,
     upd |-> "unknown", opts |-> <<>>, routines |-> {}, types |-> {}, badagg |-> FALSE]
Matview(id, deps, cols) ==
    [id |-> id, ifnot |-> FALSE, deps |-> deps, cols |-> cols, list |-> <<>>, complete |-> TRUE,
     nodata |-> FALSE, opts |-> <<>>, routines |-> {}, types |-> {}]
DropV(kind, id, cascade) ==
    [kind |-> kind, ids |-> <<id>>, ifexists |-> FALSE, cascade |-> cascade, co |-> {}]
Option(name, on) ==
    [ns |-> "", name |-> name, on |-> on, good |-> TRUE, known |-> TRUE, value |-> TRUE]

Index(id, table, cols) ==
    [id |-> id, table |-> table, ifnot |-> FALSE, conc |-> FALSE, only |-> FALSE, cols |-> cols,
     unique |-> FALSE, method |-> "btree", opclass |-> "", known |-> TRUE]
DropI(id) == [ids |-> <<id>>, ifexists |-> FALSE, cascade |-> FALSE, conc |-> FALSE]
AltIndex(id, actions) == [id |-> id, ifexists |-> FALSE, actions |-> actions]
Upkeep(do, ids) ==
    [do |-> do, ids |-> ids, conc |-> FALSE, cascade |-> FALSE, restart |-> FALSE, other |-> FALSE]
Trigger(do, table, name) ==
    [do |-> do, table |-> table, name |-> name, fn |-> <<"s", "f", <<>>>>, row |-> TRUE,
     ifexists |-> FALSE, to |-> ""]
Policy(do, table, name) ==
    [do |-> do, table |-> table, name |-> name, ifexists |-> FALSE, exact |-> TRUE]

(* An action of ALTER TABLE; only the fields of its kind are read.         *)
Act(id, do) ==
    [id |-> id, only |-> FALSE, do |-> do, col |-> Col("x", Int4), ifnot |-> FALSE, name |-> "",
     ifexists |-> FALSE, cascade |-> FALSE, to |-> "", ty |-> <<>>, dflt |-> <<>>, pglz |-> TRUE,
     opts |-> <<>>, expr |-> {}, fk |-> Fk("", <<>>, <<>>, <<>>), notvalid |-> FALSE,
     con |-> Key("unique", "", <<>>), using |-> <<>>, child |-> <<>>, strategy |-> "",
     bound |-> <<>>, mode |-> "", parent |-> <<>>, index |-> <<>>, value |-> FALSE,
     type |-> <<>>, owner |-> ""]

(* Types, routines, schemas and roles.                                     *)
NewTypeOf(id, kind) ==
    [do |-> "create", id |-> id, kind |-> kind, labels |-> <<>>, fields |-> <<>>, base |-> <<>>, elem |-> "",
     shell |-> FALSE, storage |-> TRUE, multi |-> <<>>, canonical |-> <<>>, diff |-> <<>>, uses |-> {}]
RenType(old, new) == [do |-> "rename", old |-> old, new |-> new, domain |-> FALSE]
AltType(id, action, name) ==
    [do |-> "alter", id |-> id, action |-> action, name |-> name, to |-> "", ty |-> <<>>, ifexists |-> FALSE,
     cascade |-> FALSE, before |-> FALSE, owner |-> "", storage |-> TRUE, fixed |-> FALSE, uses |-> {}]
Domain(id, base, cons) == [do |-> "domain", id |-> id, base |-> base, cons |-> cons, dflt |-> ""]
DomainCon(kind, name, valid) == [kind |-> kind, name |-> name, valid |-> valid]
AltDomain(id, action, name) ==
    [do |-> "alter_domain", id |-> id, action |-> action, con |-> DomainCon("null", "", TRUE), name |-> name,
     to |-> "", ifexists |-> FALSE, owner |-> "", dflt |-> ""]
DropY(id, cascade) ==
    [do |-> "drop", ids |-> <<id>>, domain |-> FALSE, ifexists |-> FALSE, cascade |-> cascade, co |-> {}]

NewRoutine(kind, id, ret) ==
    [do |-> "create", kind |-> kind, id |-> id, replace |-> FALSE, args |-> id[3],
     in |-> [i \in DOMAIN id[3] |-> ""], ndef |-> 0, form |-> "scalar", ret |-> ret, outs |-> <<>>,
     set |-> FALSE, opts |-> <<>>, attrs |-> <<>>]
AltRoutine(kind, id, action) ==
    [do |-> "alter", kind |-> kind, id |-> id, action |-> action, to |-> <<>>, opts |-> <<>>]
DropR(kind, id, cascade) ==
    [do |-> "drop", kind |-> kind, ids |-> <<id>>, ifexists |-> FALSE, cascade |-> cascade, co |-> {}]

NewSchema(name) == [do |-> "create", name |-> name, auth |-> <<>>, ifnot |-> FALSE]
DropS(name, cascade) == [do |-> "drop", names |-> <<name>>, ifexists |-> FALSE, cascade |-> cascade]
Grant(do, on, targets, to) ==
    [do |-> do, on |-> on, targets |-> targets, privs |-> {"select"}, all |-> FALSE, to |-> to, by |-> "",
     option |-> FALSE, cascade |-> FALSE, admin |-> <<>>, inherit |-> <<>>, set |-> <<>>]

(* Extensions, publications and subscriptions.                             *)
AltExtension(name, action) ==
    [do |-> "alter", name |-> name, action |-> action, member |-> <<"other", <<"", "">>>>, to |-> ""]
Published(kind, id) == [kind |-> kind, id |-> id, cols |-> <<>>, only |-> FALSE]
NewPub(name, objs) == [do |-> "create", name |-> name, all |-> FALSE, objs |-> objs, opts |-> <<>>]
AltPub(name, action) ==
    [do |-> "alter", name |-> name, action |-> action, all |-> FALSE, objs |-> <<>>, opts |-> <<>>,
     owner |-> "", to |-> ""]
NewSub(name, opts) == [do |-> "create", name |-> name, pubs |-> <<"p1">>, conn |-> "c", opts |-> opts]
AltSub(name, action) ==
    [do |-> "alter", name |-> name, action |-> action, mode |-> "set", pubs |-> <<>>, opts |-> <<>>,
     conn |-> "c2", enabled |-> FALSE, owner |-> "", to |-> ""]

(* Baselines.                                                              *)
Super == [RoleState(TRUE) EXCEPT !.super = TRUE]
Base ==
    [EmptyCatalog EXCEPT
        !.schemas = ("s" :> SchemaState("app", 0)) @@ ("t" :> SchemaState("app", 0)),
        !.roles = ("app" :> Super) @@ ("bob" :> RoleState(TRUE))]

TableOf(cols) == NewRelation(Base, "table", cols)
Cols2 == ("id" :> Column(Int4, FALSE, <<>>, "plain", {})) @@ ("n" :> Column(Int4, TRUE, <<>>, "plain", {}))
WithTable(c, id, rel) == [c EXCEPT !.relations = Put(@, id, rel), !.baserel = @ \cup {id}]
WithKey(c, t, name, cols, kind) ==
    [c EXCEPT !.constraints = Put(@, <<t, name>>, Con(kind, <<>>, <<t[1], name>>)),
              !.edges = @ \cup {ConEdge(t, name, cols, kind = "pk"),
                                IndexEdge(<<t[1], name>>, t, cols, TRUE, "btree", TRUE)},
              !.baseidx = @ \cup {<<t[1], name>>}]

------------------------------------------------------------------------------
(* The scenarios.                                                          *)

A == S("a")
B == S("b")
D == S("d")
V == S("v")
W == S("w")
P == S("p")
Q == S("q")
Fn == <<"s", "f", <<>>>>

Named(id, do, n) == [Act(id, do) EXCEPT !.name = n]
To(id, do, n, new) == [Act(id, do) EXCEPT !.name = n, !.to = new]

OneTable == WithKey(WithTable(Base, A, TableOf(Cols2)), A, "a_pk", {"id"}, "pk")
TwoTables == WithTable(OneTable, B, TableOf(Cols2))

(* Foreign keys, views over the table, and the names they are known by.    *)
Keys ==
    [base |-> OneTable,
     ct |-> {[Table(B, <<Col("x", Int4)>>) EXCEPT !.fks = <<Fk("", <<"x">>, A, <<>>)>>],
             [Table(A, <<Col("id", Int4)>>) EXCEPT !.ifnot = TRUE, !.cons = <<Key("pk", "", <<"id">>)>>]},
     dt |-> {DropT(A, FALSE), DropT(A, TRUE), [DropT(B, FALSE) EXCEPT !.ids = <<B, A>>]},
     rn |-> {Ren(A, D), Ren(D, <<"t", "d">>)},
     cv |-> {View(V, {A}, <<Col("id", Int4)>>)},
     at |-> {<<[Act(B, "add_fk") EXCEPT !.fk = Fk("bfk", <<"x">>, A, <<"id">>), !.notvalid = TRUE]>>,
             <<Named(B, "validate", "bfk")>>, <<Named(B, "drop_con", "bfk")>>,
             <<To(B, "rename_con", "bfk", "cfk")>>}]

(* Views over views, replaced, renamed and dropped.                        *)
ViewsOnViews ==
    [base |-> OneTable,
     cv |-> {View(V, {A}, <<Col("id", Int4)>>), View(W, {V}, <<Col("id", Int4)>>),
             [View(V, {A}, <<Col("id", Int4), Col("n", Int4)>>) EXCEPT !.replace = TRUE, !.list = <<"id", "m">>],
             [View(V, {A}, <<Col("id", Int4)>>) EXCEPT !.replace = TRUE, !.upd = "no",
                !.opts = <<Option("check_option", {"view"})>>]},
     av |-> {[id |-> V, kind |-> "view", ifexists |-> FALSE,
              actions |-> <<[do |-> "rename", id |-> V, to |-> D]>>],
             [id |-> V, kind |-> "view", ifexists |-> TRUE,
              actions |-> <<[do |-> "default", id |-> V, col |-> "id", dflt |-> <<>>],
                            [do |-> "set", id |-> V, opts |-> <<Option("security_barrier", {"view"})>>],
                            [do |-> "owner", id |-> V, owner |-> "bob"]>>],
             [id |-> V, kind |-> "view", ifexists |-> TRUE,
              actions |-> <<[do |-> "reset", id |-> V,
                             opts |-> <<[Option("security_barrier", {"view"}) EXCEPT !.value = FALSE]>>],
                            [do |-> "other", id |-> V]>>]},
     dv |-> {DropV("view", V, TRUE), DropV("view", V, FALSE),
             [DropV("view", W, FALSE) EXCEPT !.ids = <<W, V>>, !.ifexists = TRUE]},
     dt |-> {DropT(A, TRUE)}]

Matviews ==
    [base |-> OneTable,
     cm |-> {Matview(V, {A}, <<Col("id", Int4)>>),
             [Matview(V, {A}, <<Col("id", Int4)>>) EXCEPT !.nodata = TRUE, !.ifnot = TRUE]},
     rf |-> {[id |-> V, conc |-> TRUE, nodata |-> FALSE], [id |-> V, conc |-> FALSE, nodata |-> TRUE]},
     ci |-> {[Index(S("vi"), V, <<"id">>) EXCEPT !.unique = TRUE]},
     di |-> {DropI(S("vi"))},
     at |-> {<<[Act(V, "cluster") EXCEPT !.index = S("vi")]>>},
     dv |-> {DropV("matview", V, FALSE)},
     dt |-> {DropT(A, TRUE)}]

(* Serial, identity and OWNED BY sequences; owners, renames, defaults.     *)
Opt(o, f, v) == [o EXCEPT ![f] = Val(v)]
OwnedSequences ==
    [base |-> OneTable,
     ct |-> {Table(B, <<[Col("x", Int4) EXCEPT !.how = "serial"],
                        [Col("y", Int4) EXCEPT !.how = "identity", !.seq = S("ys")]>>)},
     cs |-> {[NewSeq(S("q1")) EXCEPT !.ownedby = <<A, "n">>]},
     as |-> {[AltSeq(S("q1")) EXCEPT !.action = "owned"],
             [AltSeq(S("q1")) EXCEPT !.action = "owner", !.owner = "bob"],
             [AltSeq(S("q1")) EXCEPT !.action = "rename", !.to = S("q2")]},
     ds |-> {[ids |-> <<S("q1")>>, ifexists |-> TRUE, cascade |-> TRUE, co |-> {}]},
     ro |-> {[id |-> A, owner |-> "bob"]},
     rn |-> {Ren(A, <<"t", "a">>)},
     mt |-> {[Upkeep("truncate", <<A>>) EXCEPT !.restart = TRUE]},
     at |-> {<<[Act(A, "set_default") EXCEPT !.name = "n", !.dflt = S("q1")]>>,
             <<[Act(A, "drop_column") EXCEPT !.name = "n", !.cascade = TRUE]>>,
             <<To(A, "rename_column", "n", "m")>>,
             <<[Act(A, "add_column") EXCEPT !.col = [Col("z", Int4) EXCEPT !.how = "serial"]]>>}]

SequenceOptions ==
    [base |-> [Base EXCEPT !.sequences = Put(@, Q, [SequenceState("app", <<>>, "standalone", 0, DefaultParams)
                                                     EXCEPT !.exact = FALSE, !.last = Val(3)]),
                           !.baseseq = {Q}],
     cs |-> {[NewSeq(S("r")) EXCEPT !.opts = Opt(Opt(NoOptions, "inc", -1), "min", -3)]},
     as |-> {[AltSeq(Q) EXCEPT !.opts = o] :
               o \in {Opt(NoOptions, "max", 4), Opt(NoOptions, "max", 2), Opt(NoOptions, "min", 2),
                      [NoOptions EXCEPT !.restart = NoValue, !.as = Val("int2"), !.max = NoValue],
                      Opt(NoOptions, "start", 3), Opt(NoOptions, "inc", -1), Opt(NoOptions, "as", "int2"),
                      Opt(NoOptions, "restart", 2), Opt(NoOptions, "cycle", TRUE),
                      [NoOptions EXCEPT !.dup = TRUE]}}
            \cup {[AltSeq(S("r")) EXCEPT !.opts = Opt(NoOptions, "restart", -2), !.ifexists = TRUE]},
     ds |-> {[ids |-> <<Q>>, ifexists |-> FALSE, cascade |-> FALSE, co |-> {}]}]

(* Columns: generated ones, NOT NULL with and without constraints, types.  *)
Columns ==
    [base |-> [WithTable([Base EXCEPT !.pg18 = TRUE], A,
                         TableOf(Cols2 @@ ("g" :> Column(Int4, TRUE, <<>>, "generated", {"n"})))) EXCEPT
                !.edges = {[k |-> "genfrom", d |-> A, r |-> A, col |-> "g", on |-> "n"]}],
     cv |-> {View(V, {A}, <<Col("n", Int4)>>)},
     at |-> {<<[Act(A, "add_column") EXCEPT !.col = [Col("h", Int4) EXCEPT !.how = "generated", !.expr = {"id"}],
                                            !.ifnot = TRUE]>>,
             <<To(A, "rename_column", "n", "m")>>,
             <<[Act(A, "set_expr") EXCEPT !.name = "g", !.expr = {"id"}]>>,
             <<[Act(A, "drop_expr") EXCEPT !.name = "g", !.ifexists = TRUE]>>,
             <<Named(A, "set_not_null", "n")>>, <<Named(A, "drop_not_null", "n")>>,
             <<[Act(A, "add_check") EXCEPT !.con = Check("ck", <<"n">>, "d1"), !.notvalid = TRUE],
               [Act(A, "set_type") EXCEPT !.name = "n", !.ty = Text]>>,
             <<To(A, "rename_con", "ck", "cl")>>,
             <<[Act(A, "drop_column") EXCEPT !.name = "n", !.cascade = TRUE]>>,
             <<[Act(A, "drop_column") EXCEPT !.name = "n"]>>}]

(* Indexes a constraint takes over, CLUSTER, REPLICA IDENTITY.             *)
Indexes ==
    [base |-> TwoTables,
     ci |-> {[Index(S("i"), A, <<"n">>) EXCEPT !.unique = TRUE],
             [Index(S("i"), A, <<"id">>) EXCEPT !.unique = TRUE, !.conc = TRUE]},
     ai |-> {AltIndex(S("i"), <<[do |-> "rename", id |-> S("i"), to |-> S("j")]>>),
             AltIndex(S("a_pk"), <<[do |-> "rename", id |-> S("a_pk"), to |-> S("k")]>>)},
     di |-> {DropI(S("i")), [DropI(S("i")) EXCEPT !.conc = TRUE], DropI(S("a_pk"))},
     mt |-> {Upkeep("reindex_index", <<S("i")>>)},
     rn |-> {Ren(A, <<"t", "a">>)},
     at |-> {<<[Act(A, "add_unique") EXCEPT !.using = S("i"), !.con = Key("unique", "i", <<>>)]>>,
             <<[Act(A, "add_unique") EXCEPT !.con = Key("unique", "", <<"n">>)],
               [Act(A, "cluster") EXCEPT !.index = S("a_pk")]>>,
             <<[Act(A, "replica") EXCEPT !.index = S("i")]>>,
             <<[Act(A, "replica") EXCEPT !.index = S("a_pk")]>>,
             <<Named(A, "drop_con", "i")>>, <<Named(A, "drop_con", "a_pk")>>}]

(* Partitions: created, attached, detached; their indexes and triggers.    *)
Part(id, b) == [Table(id, <<>>) EXCEPT !.partof = P, !.bound = <<"range", b>>]
PartTable == [TableOf(Cols2) EXCEPT !.part = "range", !.pkeys = <<"id">>]
TriggerFn == Routine("function", <<>>, <<"pg_catalog", "trigger">>, <<>>)
PartBase == [WithTable(WithTable(Base, P, PartTable), A, TableOf(Cols2))
               EXCEPT !.functions = Put(@, Fn, TriggerFn)]
Attach(b) == <<[Act(P, "attach") EXCEPT !.child = A, !.strategy = "range", !.bound = b]>>
Detach(m) == <<[Act(P, "detach") EXCEPT !.child = A, !.mode = m]>>
PartitionIndexTree ==
    [base |-> PartBase,
     ct |-> {Part(B, "1")},
     ci |-> {Index(S("pi"), P, <<"n">>), [Index(S("pi"), P, <<"n">>) EXCEPT !.only = TRUE],
             Index(S("ai"), A, <<"n">>)},
     ai |-> {AltIndex(S("pi"), <<[do |-> "attach", id |-> S("pi"), child |-> S("ai")]>>)},
     di |-> {DropI(S("ai")), DropI(S("pi"))},
     at |-> {Attach(<<"range", "2">>), Detach("plain"),
             <<[Act(P, "add_pk") EXCEPT !.con = Key("pk", "ppk", <<"id">>)]>>},
     dt |-> {DropT(P, TRUE)}]

(* Partitions of partitions.                                               *)
Level(c, id, parent) ==
    [WithTable(c, id, [PartTable EXCEPT !.bound = <<"range", id[2]>>,
                        !.cols = [n \in DOMAIN @ |-> [@[n] EXCEPT !.local = FALSE, !.parents = 1]]]) EXCEPT
        !.edges = @ \cup {ChildEdge("part", id, parent)}]
PartitionTree ==
    [base |-> Level(Level(PartBase, B, P), D, B),
     ci |-> {Index(S("pi"), P, <<"n">>), [Index(S("bi"), B, <<"n">>) EXCEPT !.only = TRUE]},
     di |-> {DropI(S("pi"))},
     at |-> {<<[Act(D, "attach") EXCEPT !.child = A, !.strategy = "range", !.bound = <<"range", "2">>]>>,
             <<[Act(D, "attach") EXCEPT !.child = P, !.strategy = "range", !.bound = <<"range", "2">>]>>,
             <<[Act(P, "detach") EXCEPT !.child = B, !.mode = "plain"]>>,
             <<[Act(P, "attach") EXCEPT !.child = B, !.strategy = "range", !.bound = <<"range", "3">>]>>}]

PartitionTriggers ==
    [base |-> PartBase,
     ct |-> {Part(B, "1")},
     tg |-> {Trigger("create", P, "tr"), Trigger("drop", P, "tr"), Trigger("drop", A, "tr"),
             [Trigger("rename", P, "tr") EXCEPT !.to = "ts"], [Trigger("create", A, "tr") EXCEPT !.row = FALSE]},
     at |-> {Attach(<<"range", "2">>), Detach("plain"), Detach("conc"),
             <<[Named(P, "trigger", "tr") EXCEPT !.mode = "disabled"]>>},
     rn |-> {Ren(A, D)},
     dt |-> {DropT(A, FALSE), DropT(P, TRUE)}]

(* Inheritance and LIKE.                                                   *)
Children2 ==
    [base |-> [WithTable(Base, A, TableOf(Cols2)) EXCEPT
                !.constraints = Put(@, <<A, "ck">>, Con("check", <<"d1">>, <<>>)),
                !.edges = @ \cup {ConDepEdge(A, "ck", {"n"})}],
     ct |-> {[Table(B, <<>>) EXCEPT !.inherits = <<A>>],
             [Table(D, <<Col("z", Int4)>>) EXCEPT !.inherits = <<A, B>>,
                !.cons = <<Check("ck", <<"n">>, "d1")>>],
             [Table(D, <<>>) EXCEPT !.like = <<[rel |-> A, inc |-> {"constraints", "defaults"}]>>]},
     at |-> {<<[Act(D, "inherit") EXCEPT !.parent = A]>>, <<[Act(A, "inherit") EXCEPT !.parent = D]>>,
             <<[Act(B, "no_inherit") EXCEPT !.parent = A]>>,
             <<To(A, "rename_column", "n", "m")>>, <<[To(A, "rename_column", "n", "m") EXCEPT !.only = TRUE]>>},
     dt |-> {DropT(A, TRUE), DropT(B, FALSE)},
     rn |-> {Ren(B, <<"t", "b">>)}]

Copies ==
    [base |-> WithKey(OneTable, A, "a_u", {"n"}, "unique"),
     ct |-> {[Table(B, <<>>) EXCEPT !.like = <<[rel |-> A, inc |-> {"indexes", "statistics", "identity"}]>>],
             [Table(D, <<[Col("i", Int4) EXCEPT !.how = "identity"],
                         [Col("g", Int4) EXCEPT !.how = "generated", !.expr = {"i"}]>>) EXCEPT
                !.cons = <<Key("exclusion", "ex", <<"i">>), Key("unique", "", <<"g">>)>>],
             [Table(B, <<>>) EXCEPT !.like = <<[rel |-> D, inc |-> {"indexes", "identity", "generated"}]>>]},
     dt |-> {DropT(B, FALSE)},
     ci |-> {[Index(S("i"), A, <<"n">>) EXCEPT !.unique = TRUE]},
     rn |-> {Ren(D, A), Ren(S("a_u"), S("ex"))},
     at |-> {<<[Act(A, "add_unique") EXCEPT !.using = S("i"), !.con = Key("unique", "u", <<>>)]>>,
             <<[Act(A, "add_exclude") EXCEPT !.con = Key("exclusion", "ex", <<"n">>)]>>,
             <<Named(A, "drop_con", "ex")>>, <<Named(A, "drop_con", "a_u")>>}]

(* Settings, policies and the maintenance statements.                      *)
Settings ==
    [base |-> [OneTable EXCEPT !.relations[A].rules = {<<"r", "origin">>},
                               !.types = Put(@, S("c"), [NewType(Base, "composite") EXCEPT
                                                            !.fields = [id |-> Int4, n |-> Int4]])],
     pl |-> {Policy("create", A, "pol"), Policy("drop", A, "pol"), [Policy("create", A, "po2") EXCEPT !.exact = FALSE]},
     mt |-> {Upkeep("lock", <<A, B>>), Upkeep("vacuum", <<>>), Upkeep("database", <<>>),
             Upkeep("reindex_schema", <<>>), Upkeep("reindex_table", <<A>>)},
     at |-> {<<[Named(A, "rule", "r") EXCEPT !.mode = "disabled"], [Act(A, "rls") EXCEPT !.value = TRUE]>>,
             <<[Act(A, "of") EXCEPT !.type = S("c")], [Act(A, "persistence") EXCEPT !.value = "unlogged"]>>,
             <<[Act(A, "set_opts") EXCEPT !.opts = <<Option("fillfactor", {"table"})>>],
               [Act(A, "set_col_opts") EXCEPT !.name = "n", !.opts = <<Option("n_distinct", {"column"})>>],
               [Act(A, "owner") EXCEPT !.owner = "bob"]>>,
             <<[Act(A, "reset_opts") EXCEPT !.opts = <<[Option("fillfactor", {"table"}) EXCEPT !.value = FALSE]>>],
               [Act(A, "reset_col_opts") EXCEPT !.name = "n",
                  !.opts = <<[Option("n_distinct", {"column"}) EXCEPT !.value = FALSE]>>], Act(A, "reshape")>>,
             <<[Act(A, "add_column") EXCEPT !.col = Col("z", Int4)], Act(B, "rls")>>}]

RelationScenes ==
    [keys |-> Keys, views |-> ViewsOnViews, matviews |-> Matviews, owned |-> OwnedSequences,
     seqopts |-> SequenceOptions, columns |-> Columns, indexes |-> Indexes,
     pindex |-> PartitionIndexTree, ptree |-> PartitionTree, ptrigger |-> PartitionTriggers, inherit |-> Children2,
     copies |-> Copies, settings |-> Settings]
==============================================================================
