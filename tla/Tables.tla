------------------------------- MODULE Tables -------------------------------
(***************************************************************************)
(* CREATE TABLE (state/apply_relation/create_table.rs).  A statement has   *)
(*   id ifnot temp pers oncommit of strategy pkeys bound as                *)
(*   inherits  a sequence of parents      partof  <<>> or the parent       *)
(*   like      a sequence of [rel, inc], inc the INCLUDING set             *)
(*   cols      a sequence of [name, ty, notnull, dflt, how, expr, seq, opts] *)
(*   cons      a sequence of [kind, name, cols, def, known]                *)
(*   fks       a sequence of [name, from, table, to]                       *)
(* where a constraint without a name has the name "", expr is the set of   *)
(* columns a generated column reads ({"?"} when they are not known), and   *)
(* as is "no", "known" or "unknown" (CREATE TABLE AS and its columns).  A  *)
(* constraint written on a column is in cons.  A column of a relation is   *)
(* [ty, null, dflt, how, expr, parents, local]; ty is <<>> when unknown.   *)
(*                                                                         *)
(* Column order, storage, compression, statistics targets and the order of *)
(* the columns of a key are left out.                                      *)
(***************************************************************************)
EXTENDS SequenceDdl, SequencesExt

CONSTANT CreateTableStmts

TableLike == {"table", "foreign"}
Column(ty, null, dflt, how, expr) ==
    [ty |-> ty, null |-> null, dflt |-> dflt, how |-> how, expr |-> expr,
     parents |-> 0, local |-> TRUE]

HasDuplicates(seq) == \E i, j \in DOMAIN seq : i # j /\ seq[i] = seq[j]
NamesOf(cols) == {cols[i].name : i \in DOMAIN cols}
Declared(s, n) == s.cols[CHOOSE i \in DOMAIN s.cols : s.cols[i].name = n]

(* A relation as CREATE TABLE and the views make it.                       *)
NewRelation(c, kind, cols) ==
    [st |-> "present", kind |-> kind, owner |-> c.me, gen |-> c.gen, pers |-> "permanent",
     oncommit |-> "none", cols |-> cols, complete |-> TRUE, part |-> "none", pkeys |-> <<>>,
     bound |-> <<>>, pcheck |-> <<>>, oftype |-> <<>>, trg |-> {}, stats |-> <<>>,
     cluster |-> <<>>, replica |-> <<"default">>, rules |-> {}, rls |-> FALSE, opts |-> {},
     pop |-> "yes", upd |-> "unknown", policies |-> {}, counted |-> TRUE,
     acl |-> [grants |-> {}, options |-> {}, from |-> {}, optfrom |-> {}]]

------------------------------------------------------------------------------
(* Where the columns and constraints come from.                             *)

ChecksOf(c, t) == ConstraintsOf(c, t, {"check"})
CheckIsKnown(c, k) ==
    c.constraints[k].def # <<>> /\ ConstraintColumns(c, k[1], k[2], {"condep"}) # {}
CheckPlan(c, k) ==
    [src |-> k[1], name |-> k[2], def |-> c.constraints[k].def,
     cols |-> CHOOSE x \in ConstraintColumns(c, k[1], k[2], {"condep"}) : TRUE]

(* INHERITS: a column of several parents is merged.  Identity is not       *)
(* inherited.                                                              *)
Providers(c, s, n) == {p \in ToSet(s.inherits) : n \in DOMAIN Rel(c, p).cols}
Plain(col) == [col EXCEPT !.how = IF @ = "identity" THEN "plain" ELSE @]
MergedColumn(c, s, n) ==
    LET cols == {Plain(Rel(c, p).cols[n]) : p \in Providers(c, s, n)}
        gens == {x \in cols : x.how = "generated"}
        dfl  == {x.dflt : x \in cols} \ {<<>>}
        base == IF gens = {} THEN CHOOSE x \in cols : TRUE ELSE CHOOSE x \in gens : TRUE
    IN  [base EXCEPT !.null = \A x \in cols : x.null,
                     !.dflt = IF dfl = {} THEN <<>> ELSE CHOOSE d \in dfl : TRUE]

MergeConflict(c, s, n) ==
    LET cols == {Rel(c, p).cols[n] : p \in Providers(c, s, n)}
    IN  \/ Cardinality(Providers(c, s, n)) > 1
           /\ (Cardinality({x.ty : x \in cols}) > 1 \/ <<>> \in {x.ty : x \in cols})
        \/ Cardinality({x.dflt : x \in cols} \ {<<>>}) > 1
        \/ Cardinality({x.expr : x \in {y \in cols : y.how = "generated"}}) > 1

InheritVerdict(c, s) ==
    LET parents == ToSet(s.inherits)
        parent(p) ==
            Ensure(RelationLookup(c, p, TableLike))
            ?? Reject(CheckInheritanceCycle(c.edges, p, s.id))
            ?? Doubt(\E k \in ChecksOf(c, p) : ~CheckIsKnown(c, k))
        names == UNION {DOMAIN Rel(c, p).cols : p \in parents}
        checks == UNION {ChecksOf(c, p) : p \in parents}
    IN  Each(s.inherits, parent)
        ?? Reject(\E n \in names : MergeConflict(c, s, n))
        ?? Reject(\E a, b \in checks :
                    a[2] = b[2] /\ c.constraints[a].def # c.constraints[b].def)

InheritedColumns(c, s) ==
    [n \in UNION {DOMAIN Rel(c, p).cols : p \in ToSet(s.inherits)} |-> MergedColumn(c, s, n)]

(* One plan per name: parents that agree contribute one constraint.        *)
InheritedChecks(c, s) ==
    {[CheckPlan(c, k) EXCEPT !.src = s.id] : k \in UNION {ChecksOf(c, p) : p \in ToSet(s.inherits)}}

(* LIKE: names, types and NOT NULL, and each INCLUDING property by itself. *)
LikeSource(c, l) == Present(c.relations, l.rel)
LikeColumns(c, l) ==
    LET copy(col) ==
            [col EXCEPT !.dflt = IF "defaults" \in l.inc THEN @ ELSE <<>>,
                        !.how  = IF (@ = "generated" /\ "generated" \in l.inc)
                                    \/ (@ = "identity" /\ "identity" \in l.inc)
                                 THEN @ ELSE "plain"]
    IN  IF LikeSource(c, l) THEN [n \in DOMAIN Rel(c, l.rel).cols |-> copy(Rel(c, l.rel).cols[n])]
        ELSE [n \in DOMAIN c.types[l.rel].fields |->
                Column(c.types[l.rel].fields[n], TRUE, <<>>, "plain", {})]

IdentityColumns(c, t) == {n \in DOMAIN Rel(c, t).cols : Rel(c, t).cols[n].how = "identity"}
IdentitySequence(c, t, n) ==
    {q \in Live(c.sequences) : c.sequences[q].kind = "identity" /\ c.sequences[q].ownedby = <<t, n>>}

(* Index-backed constraints of t that no index edge stands for.            *)
Backed(c, t)     == {k \in ConstraintsOf(c, t, BackingKinds) :
                        \E e \in IndexesOn(c, t) : c.constraints[k].index = e.d}
LooseKeys(c, t)  == ConstraintsOf(c, t, BackingKinds) \ Backed(c, t)

LikeVerdict(c, s) ==
    LET source(l) ==
            IF ~LikeSource(c, l) /\ Present(c.types, l.rel) /\ c.types[l.rel].kind = "composite"
            THEN "ok"
            ELSE Ensure(RelationLookup(c, l.rel, {"table", "view", "matview"}))
                 ?? Doubt("identity" \in l.inc /\ \E n \in IdentityColumns(c, l.rel) :
                            IdentitySequence(c, l.rel, n) = {})
                 ?? Doubt("constraints" \in l.inc
                          /\ \E k \in ChecksOf(c, l.rel) : ~CheckIsKnown(c, k))
                 ?? Doubt("indexes" \in l.inc /\ \E k \in LooseKeys(c, l.rel) :
                            ConstraintColumns(c, l.rel, k[2], {"con", "condep"}) = {})
    IN  Each(s.like, source)

LikeChecks(c, s) ==
    UNION {{CheckPlan(c, k) : k \in ChecksOf(c, l.rel)} :
              l \in {x \in ToSet(s.like) : "constraints" \in x.inc /\ LikeSource(c, x)}}

(* The indexes of t to copy: [edge, kind, cols], kind "none" for an index  *)
(* that backs no constraint.                                               *)
IndexPlans(c, t, loose) ==
    LET colsOf(k) == ConstraintColumns(c, t, k[2], {"con", "condep"})
        backs(e)  == {k \in Backed(c, t) : c.constraints[k].index = e.d /\ colsOf(k) # {}}
        copied(e) ==
            IF backs(e) = {} THEN [edge |-> e, kind |-> "none", cols |-> e.cols]
            ELSE LET k == CHOOSE x \in backs(e) : TRUE
                 IN  [edge |-> e, kind |-> c.constraints[k].kind, cols |-> CHOOSE x \in colsOf(k) : TRUE]
        rebuilt(k) ==
            LET key  == ConstraintColumns(c, t, k[2], {"con"}) # {}
                cols == CHOOSE x \in colsOf(k) : TRUE
            IN  [edge |-> IndexEdge(<<t[1], k[2]>>, t, cols, c.constraints[k].kind \in KeyKinds,
                                    IF key THEN "btree" ELSE "opaque", TRUE),
                 kind |-> c.constraints[k].kind, cols |-> cols]
    IN  {copied(e) : e \in IndexesOn(c, t)}
        \cup (IF loose THEN {rebuilt(k) : k \in LooseKeys(c, t)} ELSE {})

LikeIndexes(c, s) ==
    UNION {IndexPlans(c, l.rel, TRUE) :
              l \in {x \in ToSet(s.like) : "indexes" \in x.inc /\ LikeSource(c, x)}}

(* Edges of generated columns and sequence defaults that LIKE copies.      *)
LikeEdges(c, s) ==
    UNION {{IF e.k = "genfrom" THEN [e EXCEPT !.d = s.id, !.r = s.id] ELSE [e EXCEPT !.d = s.id] :
              e \in {f \in Kind(c.edges, {"genfrom", "default"}) :
                       /\ f.d = l.rel
                       /\ IF f.k = "genfrom" THEN "generated" \in l.inc ELSE "defaults" \in l.inc}} :
           l \in ToSet(s.like)}

(* PARTITION OF: the columns, CHECKs, indexes and foreign keys of a parent *)
(* that is partitioned.                                                    *)
PartitionVerdict(c, s) ==
    IF s.partof = <<>> THEN "ok"
    ELSE Ensure(RelationLookup(c, s.partof, {"table"}))
         ?? Reject(Rel(c, s.partof).part = "none")
         ?? Doubt(\E k \in ChecksOf(c, s.partof) : ~CheckIsKnown(c, k))

PartitionColumns(c, s) ==
    IF s.partof = <<>> THEN <<>>
    ELSE [n \in DOMAIN Rel(c, s.partof).cols |-> Plain(Rel(c, s.partof).cols[n])]
PartitionChecks(c, s) ==
    IF s.partof = <<>> THEN {} ELSE {CheckPlan(c, k) : k \in ChecksOf(c, s.partof)}
PartitionIndexes(c, s) == IF s.partof = <<>> THEN {} ELSE IndexPlans(c, s.partof, FALSE)
PartitionForeignKeys(c, s) == {e \in Kind(c.edges, {"fk"}) : s.partof # <<>> /\ e.d = s.partof}

------------------------------------------------------------------------------
(* The columns of the new table.                                            *)

SourceMaps(c, s) ==
    <<InheritedColumns(c, s)>> \o [i \in DOMAIN s.like |-> LikeColumns(c, s.like[i])]
    \o <<PartitionColumns(c, s)>>

SourceColumns(c, s) ==
    LET first(maps, n) == maps[CHOOSE i \in DOMAIN maps : n \in DOMAIN maps[i]][n]
        joined(maps) == [n \in UNION {DOMAIN maps[i] : i \in DOMAIN maps} |-> first(maps, n)]
    IN  joined(SourceMaps(c, s))

ColumnNames(c, s) == DOMAIN SourceColumns(c, s) \cup NamesOf(s.cols)

(* A reference to a type: <<schema, name>>, or <<schema, name, "[]">> for  *)
(* its array type.  A relation's name is the name of its row type.         *)
ArrayOf(id) == <<id[1], id[2], "[]">>
Element(ref) == <<ref[1], ref[2]>>
TypeResolves(c, ty) ==
    ty = <<>> \/ ty[1] = "pg_catalog" \/ Present(c.types, Element(ty)) \/ Present(c.relations, Element(ty))
resolve_type_reference(c, ty) == IF TypeResolves(c, ty) THEN ty ELSE <<>>

(* check_declared_type: a name that no covered catalog has is refused.     *)
check_declared_type(c, ty) ==
    Reject(ty # <<>> /\ (ty[2] = "invalid"
           \/ (~TypeResolves(c, ty) /\ SchemaAbsent(c, ty[1]) /\ Covers(c, ty, "types"))))

(* Two sources may not bring the same column; a declared column may repeat *)
(* an inherited one of its type, and a generated one reads other columns.  *)
ColumnsVerdict(c, s) ==
    LET overlap(maps) == \E i, j \in DOMAIN maps : i # j /\ DOMAIN maps[i] \cap DOMAIN maps[j] # {}
        repeat(src, i) ==
            LET n == s.cols[i].name
            IN  \/ \E j \in 1..(i - 1) : s.cols[j].name = n
                \/ n \in DOMAIN src /\ (src[n].ty # s.cols[i].ty \/ src[n].ty = <<>>)
        reads(i, names) == s.cols[i].how = "generated"
                           /\ \E r \in s.cols[i].expr : r = s.cols[i].name \/ r \notin names
        declared(src) ==
            Reject(\E i \in DOMAIN s.cols : repeat(src, i))
            ?? (IF \E i \in DOMAIN s.cols : "?" \in s.cols[i].expr THEN "unresolved_statement" ELSE "ok")
            ?? Reject(\E i \in DOMAIN s.cols : reads(i, DOMAIN src \cup NamesOf(s.cols)))
    IN  Reject(overlap(SourceMaps(c, s))) ?? declared(SourceColumns(c, s))

(* Keys: one primary key, at least one column, none twice, all present.    *)
KeysVerdict(c, s) ==
    LET keys == {i \in DOMAIN s.cons : s.cons[i].kind \in KeyKinds}
        bad(k) == k.cols = <<>> \/ HasDuplicates(k.cols) \/ ~(ToSet(k.cols) \subseteq ColumnNames(c, s))
    IN  Reject(Cardinality({i \in keys : s.cons[i].kind = "pk"}) > 1)
        ?? Reject(\E i \in keys : bad(s.cons[i]))

------------------------------------------------------------------------------
(* Foreign keys.                                                            *)

(* unique_keys_for_relation: the keys that can be proved, as [cols, pk];   *)
(* known is FALSE when there is one whose columns are not recorded.        *)
RecordedKeys(c, t, mine) ==
    LET keys  == {[cols |-> e.cols, pk |-> e.pk] : e \in {f \in mine : f.cols # {}}}
        blank == t \in c.baserel /\ Present(c.relations, t) /\ DOMAIN Rel(c, t).cols = {}
        lost  == \/ \E e \in mine : e.cols = {}
                 \/ ConstraintsOf(c, t, KeyKinds) # {}
    IN  [known |-> ~blank /\ (keys # {} \/ ~lost), keys |-> IF blank THEN {} ELSE keys]

KeysOf(c, t) == RecordedKeys(c, t, {e \in Kind(c.edges, {"con"}) : e.d = t})

(* unique_keys_for_relation: the keys that can be proved, as [cols, pk];   *)
(* known is FALSE when there is one whose columns are not recorded.        *)
unique_keys_for_relation(c, id) == KeysOf(c, ResolveRename(c.edges, id))

(* The keys a self-reference may use are those of the statement.           *)
TargetKeys(c, s, fk) ==
    IF fk.table = s.id
    THEN [known |-> TRUE,
          keys  |-> {[cols |-> ToSet(k.cols), pk |-> k.kind = "pk"] :
                       k \in {x \in ToSet(s.cons) : x.kind \in KeyKinds}}]
    ELSE unique_keys_for_relation(c, fk.table)

ReferencedColumns(keys, fk) ==
    LET pks == {k.cols : k \in {x \in keys.keys : x.pk}}
    IN  CASE fk.to # <<>> -> ToSet(fk.to)
          [] Cardinality(pks) = 1 -> CHOOSE x \in pks : TRUE
          [] OTHER -> {}

(* The checks both CREATE TABLE and ADD FOREIGN KEY make of a key, given   *)
(* the columns of the source and of the target table.                      *)
ForeignKeyShape(fk, source) ==
    Reject(fk.from = <<>>) ?? Reject(fk.to # <<>> /\ Len(fk.to) # Len(fk.from))
    ?? Reject(HasDuplicates(fk.from) \/ HasDuplicates(fk.to))
    ?? Reject(~(ToSet(fk.from) \subseteq source))

ForeignKeyTarget(c, keys, fk, target) ==
    LET pks  == {k \in keys.keys : k.pk}
        cols == ReferencedColumns(keys, fk)
    IN  Reject(~(ToSet(fk.to) \subseteq target) /\ (fk.table \notin c.baserel \/ target # {}))
        ?? Reject(fk.to = <<>> /\ keys.known /\ Cardinality(pks) # 1)
        ?? Reject(keys.known /\ cols \notin {k.cols : k \in keys.keys})

(* The types of the paired columns; a key that names no columns is paired  *)
(* with a primary key of one column (the order of a longer one is left     *)
(* out).                                                                   *)
TypePairs(fk, cols, sourceTy, targetTy) ==
    LET to == CASE fk.to # <<>> -> fk.to
                [] Cardinality(cols) = 1 -> <<CHOOSE x \in cols : TRUE>>
                [] OTHER -> <<>>
    IN  {<<sourceTy[fk.from[i]], targetTy[to[i]]>> :
            i \in {j \in DOMAIN to : j \in DOMAIN fk.from /\ to[j] \in DOMAIN targetTy}}
TypesDiffer(pairs)  == \E p \in pairs : p[1] # p[2] /\ <<>> \notin {p[1], p[2]}
TypesUnknown(pairs) == \E p \in pairs : <<>> \in {p[1], p[2]}

KeyTypesFrom(c, s, fk, types, keys) ==
    TypePairs(fk, ReferencedColumns(keys, fk), types,
              IF fk.table = s.id THEN types
              ELSE [n \in DOMAIN Rel(c, fk.table).cols |-> Rel(c, fk.table).cols[n].ty])

(* The types of the columns of the new table.                              *)
NewTypes(s, src) ==
    [n \in DOMAIN src \cup NamesOf(s.cols) |-> IF n \in NamesOf(s.cols) THEN Declared(s, n).ty ELSE src[n].ty]

ForeignKeyVerdict(c, s, fk, types, keys) ==
    ForeignKeyShape(fk, DOMAIN types)
    ?? (IF fk.table = s.id THEN "ok" ELSE Ensure(RelationLookup(c, fk.table, {"table"})))
    ?? ForeignKeyTarget(c, keys, fk, IF fk.table = s.id THEN DOMAIN types ELSE DOMAIN Rel(c, fk.table).cols)
    ?? Doubt(TypesDiffer(KeyTypesFrom(c, s, fk, types, keys)))

ForeignKeysAmong(c, s, types) ==
    Each(s.fks, LAMBDA fk : ForeignKeyVerdict(c, s, fk, types, TargetKeys(c, s, fk)))

ForeignKeysVerdict(c, s) == ForeignKeysAmong(c, s, NewTypes(s, SourceColumns(c, s)))

------------------------------------------------------------------------------
(* Names.  Every implicit name is chosen before anything is created: free  *)
(* in the namespace and different from the names the statement gives.      *)

FreshNames(c, schema, avoid, n) ==
    LET used == {k[2] : k \in {x \in DOMAIN c.constraints : x[1][1] = schema}} \cup avoid
        pick[i \in 0..n] ==
            IF i = 0 THEN <<>>
            ELSE Append(pick[i - 1],
                        FreshRelationName(c, schema,
                            {<<schema, x>> : x \in used \cup ToSet(pick[i - 1])}))
    IN  pick[n]

(* Columns that get a sequence: declared serial and identity ones, then    *)
(* the identity columns LIKE copies.                                       *)
SequencePlans(c, s) ==
    LET mine == SelectSeq(s.cols, LAMBDA x : x.how \in {"serial", "identity"})
        declared(x) ==
            [col |-> x.name, seq |-> x.seq, kind |-> x.how,
             par |-> IF x.how = "serial" THEN default_column_sequence_parameters(x.ty[2])
                     ELSE identity_sequence_parameters(x.ty[2], x.opts)]
        copied == UNION {{[col |-> n, seq |-> <<>>, kind |-> "identity",
                           par |-> c.sequences[CHOOSE q \in IdentitySequence(c, l.rel, n) : TRUE].par] :
                            n \in IdentityColumns(c, l.rel)} :
                         l \in {x \in ToSet(s.like) : "identity" \in x.inc /\ LikeSource(c, x)}}
    IN  [i \in DOMAIN mine |-> declared(mine[i])] \o SetToSeq(copied)

(* Everything that is named: [what, name], the name "" when implicit.      *)
GivenNames(c, s) ==
    {x.name : x \in LikeChecks(c, s) \cup InheritedChecks(c, s) \cup PartitionChecks(c, s)}
    \cup {e.con : e \in PartitionForeignKeys(c, s)}
    \cup {x.name : x \in ToSet(s.cons) \cup ToSet(s.fks)} \cup {s.id[2]}
    \cup {x.seq[2] : x \in {y \in ToSet(s.cols) : y.seq # <<>>}}

Implicit(c, s, plans) ==
    LET nameless(list) == SelectSeq([i \in DOMAIN list |-> i], LAMBDA i : list[i].name = "")
        seqs == SelectSeq([i \in DOMAIN plans |-> i], LAMBDA i : plans[i].seq = <<>>)
        label(what, list) == [i \in DOMAIN list |-> <<what, list[i]>>]
        name(slots, names) == [x \in ToSet(slots) |-> names[CHOOSE i \in DOMAIN slots : slots[i] = x]]
        named(slots) == name(slots, FreshNames(c, s.id[1], GivenNames(c, s), Len(slots)))
    IN  named(label("seq", seqs) \o label("con", nameless(s.cons)) \o label("fk", nameless(s.fks)))

ConName(s, names, i) == IF s.cons[i].name = "" THEN names[<<"con", i>>] ELSE s.cons[i].name
FkName(s, names, i)  == IF s.fks[i].name = "" THEN names[<<"fk", i>>] ELSE s.fks[i].name
SeqName(s, plans, names, i) ==
    IF plans[i].seq = <<>> THEN <<s.id[1], names[<<"seq", i>>]>> ELSE plans[i].seq

(* A CHECK that repeats an inherited one of the same definition merges     *)
(* with it.                                                                *)
MergesCheck(c, s, con) ==
    con.kind = "check" /\ \E x \in InheritedChecks(c, s) : x.name = con.name /\ x.def = con.def

NamesVerdict(c, s) ==
    LET copied == LikeChecks(c, s) \cup InheritedChecks(c, s) \cup PartitionChecks(c, s)
        pfks   == {e.con : e \in PartitionForeignKeys(c, s)}
        given(i) == s.cons[i].name # "" /\ ~MergesCheck(c, s, s.cons[i])
        own    == [i \in {j \in DOMAIN s.cons : given(j)} |-> s.cons[i].name]
        fks    == [i \in {j \in DOMAIN s.fks : s.fks[j].name # ""} |-> s.fks[i].name]
        before == {x.name : x \in copied} \cup pfks
        repeated(f) == \E i, j \in DOMAIN f : i # j /\ f[i] = f[j]
        indexed == {<<s.id[1], own[i]>> : i \in {j \in DOMAIN own : s.cons[j].kind \in BackingKinds}}
        written == SelectSeq(s.cols, LAMBDA x : x.how \in {"serial", "identity"} /\ x.seq # <<>>)
        identities == {x \in ToSet(s.cols) : x.how = "identity"}
    IN  Reject(\E i \in DOMAIN written :
                  NameTaken(c, written[i].seq)
                  \/ \E j \in 1..(i - 1) : written[j].seq = written[i].seq)
        ?? Reject(\E x \in identities : IdentityRefused(x.ty[2], x.opts))
        ?? Reject(\E x, y \in copied : x # y /\ x.name = y.name)
        ?? Reject(\E x \in copied : x.name \in pfks)
        ?? Reject(repeated(own) \/ repeated(fks) \/ Range(own) \cap Range(fks) # {}
                  \/ (Range(own) \cup Range(fks)) \cap before # {})
        ?? Reject(\E id \in indexed : NameTaken(c, id))

------------------------------------------------------------------------------
TargetVerdict(c, s) ==
    Reject(s.strategy \notin {"none", "range", "list", "hash"})
    ?? Reject(s.temp /\ s.id[1] # "pg_temp")
    ?? CreateTarget(c, s.id, s.ifnot)
    ?? (IF s.of = <<>> THEN "ok"
        ELSE IF s.of \in DOMAIN c.types
             THEN Reject(~Present(c.types, s.of) \/ c.types[s.of].kind # "composite")
             ELSE "unresolved")

CreateTableVerdict(c, s) ==
    TargetVerdict(c, s) ?? InheritVerdict(c, s) ?? LikeVerdict(c, s) ?? PartitionVerdict(c, s)
    ?? ColumnsVerdict(c, s) ?? KeysVerdict(c, s) ?? ForeignKeysVerdict(c, s) ?? NamesVerdict(c, s)
    ?? Each(s.cols, LAMBDA x : check_declared_type(c, x.ty))

(* register_not_null_constraint: a pg_constraint row from PostgreSQL 18 on. *)
not_null_constraint_for_column(c, table, col) ==
    {<<ResolveRename(c.edges, e.d), e.con>> : e \in {f \in Kind(c.edges, {"con"}) :
        ResolveRename(c.edges, f.d) = table /\ ~f.pk /\ f.cols = {col}}}

register_not_null_constraint(w, table, col) ==
    LET name == FreshConstraintName(w.c, table, {})
        con  == [kind |-> "notnull", valid |-> TRUE, def |-> <<>>, index |-> <<>>]
    IN  IF ~w.c.pg18 \/ not_null_constraint_for_column(w.c, table, col) # {} THEN w
        ELSE AddEdges(Assign(w, "constraints", <<table, name>>, con),
                      {ConEdge(table, name, {col}, FALSE)})

(* The columns of the relation: sources first, then what is declared.      *)
PrimaryColumns(s) == UNION {ToSet(k.cols) : k \in {x \in ToSet(s.cons) : x.kind = "pk"}}
NotNullColumns(s) == {x.name : x \in {y \in ToSet(s.cols) : y.notnull}}
                     \cup (PrimaryColumns(s) \cap NamesOf(s.cols))

FinalColumns(c, s, plans, names) ==
    LET plan(n) == {i \in DOMAIN plans : plans[i].col = n}
        parents(n) == {p \in ToSet(s.inherits) \cup ({s.partof} \ {<<>>}) : n \in DOMAIN Rel(c, p).cols}
        declare(base, x) ==
            [base EXCEPT !.null = @ /\ x.name \notin NotNullColumns(s),
                         !.dflt = IF x.dflt # <<>> THEN x.dflt ELSE @,
                         !.how  = IF x.how \in {"generated", "identity"} THEN x.how ELSE @,
                         !.expr = IF x.how = "generated" THEN x.expr ELSE @]
        new(x) == Column(resolve_type_reference(c, x.ty), TRUE, <<>>, "plain", {})
        made(src, n) ==
            IF n \notin NamesOf(s.cols) THEN src[n]
            ELSE declare(IF n \in DOMAIN src THEN src[n] ELSE new(Declared(s, n)), Declared(s, n))
        inherited(col, n) ==
            [col EXCEPT !.parents = Cardinality(parents(n)),
                        !.local = s.partof = <<>> /\ (parents(n) = {} \/ n \in NamesOf(s.cols))]
        sequenced(col, n) == IF plan(n) = {} THEN col
                             ELSE [col EXCEPT !.null = FALSE, !.dflt = SeqName(s, plans, names, Max(plan(n)))]
        all(src) == [n \in DOMAIN src \cup NamesOf(s.cols) |-> sequenced(inherited(made(src, n), n), n)]
    IN  all(SourceColumns(c, s))

Sources(c, s) ==
    ToSet(s.inherits) \cup ({s.partof} \ {<<>>})
    \cup {l.rel : l \in {x \in ToSet(s.like) : LikeSource(c, x)}}

LikeStatistics(c, s) ==
    LET wanted == {l \in ToSet(s.like) : "statistics" \in l.inc /\ LikeSource(c, l)}
        copy(all, names) == [n \in ToSet(names) |->
                               LET i == CHOOSE j \in DOMAIN names : names[j] = n
                               IN  Rel(c, all[i][1]).stats[all[i][2]]]
        named(all) == copy(all, FreshNames(c, s.id[1], GivenNames(c, s), Len(all)))
    IN  named(SetToSeq(UNION {{<<l.rel, i>> : i \in DOMAIN Rel(c, l.rel).stats} : l \in wanted}))

NewTable(c, s, plans, names) ==
    [NewRelation(c, "table", FinalColumns(c, s, plans, names)) EXCEPT
        !.pers = s.pers, !.oncommit = s.oncommit, !.oftype = s.of,
        !.complete = (\A t \in Sources(c, s) : Rel(c, t).complete) /\ s.as # "unknown",
        !.part = s.strategy, !.pkeys = s.pkeys, !.bound = s.bound,
        !.stats = LikeStatistics(c, s)]

(* What every constraint adds: its metadata, its index and its edges.      *)
Con(kind, def, index) == [kind |-> kind, valid |-> TRUE, def |-> def, index |-> index]
KeyEdge(t, name, cols, kind) ==
    IF kind \in KeyKinds THEN ConEdge(t, name, cols, kind = "pk") ELSE ConDepEdge(t, name, cols)

AddChecks(w, t, plans) ==
    LET new == [k \in {<<t, p.name>> : p \in plans} |->
                  Con("check", (CHOOSE p \in plans : p.name = k[2]).def, <<>>)]
    IN  AddEdges([Snap(w, "constraints", DOMAIN new) EXCEPT !.c.constraints = Over(new, @)],
                 {ConDepEdge(t, p.name, p.cols) : p \in plans})

(* The label that ends a generated name (seq, idx, key) keeps the names of *)
(* copied indexes apart from those chosen for the sequences.               *)
AddIndexPlans(w, t, plans, taken) ==
    LET constraint(x, p, id) ==
            IF p.kind = "none" THEN x
            ELSE AddEdges(Assign(x, "constraints", <<t, id[2]>>, Con(p.kind, <<>>, id)),
                          {KeyEdge(t, id[2], p.cols, p.kind)})
        add(x, p, id) == constraint(AddEdges(x, {[p.edge EXCEPT !.d = id, !.r = t]}), p, id)
        one(p, x) == add(x, p, <<t[1], FreshNames(x.c, t[1], taken, 1)[1]>>)
    IN  FoldSet(one, w, plans)

AddSequence(w, t, id, plan) ==
    LET add(x) == AddEdges(Assign(x, "sequences", id,
                                  SequenceState(x.c.me, <<t, plan.col>>, plan.kind, x.c.gen, plan.par)),
                           {OwnedEdge(id, t, plan.col)})
    IN  add(Bump(Snap(w, "sequences", {id})))

(* A declared constraint; an exclusion's index has no established shape.   *)
AddConstraint(w, t, name, con) ==
    LET id   == <<t[1], name>>
        cols == ToSet(con.cols)
        key  == con.kind \in KeyKinds
        index(x) == IF con.kind \notin BackingKinds THEN x
                    ELSE AddEdges(x, {IndexEdge(id, t, cols, key, IF key THEN "btree" ELSE "placeholder",
                                                key \/ con.known)})
        edge(x) == IF key \/ con.known THEN AddEdges(x, {KeyEdge(t, name, cols, con.kind)}) ELSE Taint(x)
    IN  edge(index(Assign(w, "constraints", <<t, name>>,
                          Con(con.kind, con.def, IF con.kind \in BackingKinds THEN id ELSE <<>>))))

AddForeignKey(w, t, name, from, target, cols, gen) ==
    AddEdges(Assign(w, "constraints", <<t, name>>, Con("fk", <<>>, <<>>)),
             {[k |-> "fk", d |-> t, r |-> target, con |-> name, cols |-> from, rcols |-> cols,
               gen |-> gen]})

DoubtfulKeys(c, s, types) ==
    \E i \in DOMAIN s.fks :
        LET keys == TargetKeys(c, s, s.fks[i])
        IN  ~keys.known \/ TypesUnknown(KeyTypesFrom(c, s, s.fks[i], types, keys))

CreateDoubt(c, s) == s.as = "unknown" \/ DoubtfulKeys(c, s, NewTypes(s, SourceColumns(c, s)))

CreateRelation(w, c, s, plans, names) ==
    TaintIf(Assign(w, "relations", s.id, [NewTable(c, s, plans, names) EXCEPT !.gen = w.c.gen]), CreateDoubt(c, s))

(* What the sources bring: edges, NOT NULL constraints and CHECKs.         *)
CreateFromSources(w, c, s) ==
    LET gens == UNION {{[k |-> "genfrom", d |-> s.id, r |-> s.id, col |-> x.name, on |-> o] :
                          o \in x.expr} : x \in {y \in ToSet(s.cols) : y.how = "generated"}}
    IN  AddChecks(FoldSet(LAMBDA n, x : register_not_null_constraint(x, s.id, n),
                          AddEdges(w, LikeEdges(c, s) \cup gens), NotNullColumns(s)),
                  s.id, LikeChecks(c, s) \cup InheritedChecks(c, s) \cup PartitionChecks(c, s))

CreateIndexesAndSequences(w, c, s, plans, names) ==
    FoldSet(LAMBDA i, x : AddSequence(x, s.id, SeqName(s, plans, names, i), plans[i]),
            AddIndexPlans(w, s.id, LikeIndexes(c, s) \cup PartitionIndexes(c, s),
                          {SeqName(s, plans, names, i)[2] : i \in DOMAIN plans}),
            DOMAIN plans)

CreateParents(w, s) ==
    AddEdges(w, {ChildEdge("inherit", s.id, p) : p \in ToSet(s.inherits)}
                \cup {ChildEdge("part", s.id, p) : p \in {s.partof} \ {<<>>}})

CreateForeignKeys(w, c, s, names) ==
    FoldSet(LAMBDA e, x : AddForeignKey(x, s.id, e.con, e.cols, e.r, e.rcols, w.c.relations[s.id].gen),
            FoldSet(LAMBDA i, x : AddForeignKey(x, s.id, FkName(s, names, i), ToSet(s.fks[i].from), s.fks[i].table,
                                                ReferencedColumns(TargetKeys(c, s, s.fks[i]), s.fks[i]),
                                                w.c.relations[s.id].gen),
                    w, DOMAIN s.fks),
            PartitionForeignKeys(c, s))

CreateConstraints(w, c, s, names) ==
    FoldSet(LAMBDA i, x : AddConstraint(x, s.id, ConName(s, names, i), s.cons[i]),
            w, {i \in DOMAIN s.cons : ~MergesCheck(c, s, s.cons[i])})

CreateNamed(w, c, s, plans, names) ==
    CreateConstraints(
        CreateForeignKeys(
            CreateParents(
                CreateIndexesAndSequences(CreateFromSources(CreateRelation(w, c, s, plans, names), c, s),
                                          c, s, plans, names),
                s),
            c, s, names),
        c, s, names)

CreatePlanned(w, s, plans) ==
    CreateNamed(Bump(Snap(w, "relations", {s.id})), w.c, s, plans, Implicit(w.c, s, plans))

SetPredicate(w, t, p) == IF p = <<>> THEN w ELSE [w EXCEPT !.c.relations[t].pcheck = p]

CreatePartition(w, s) ==
    IF s.partof = <<>> THEN w
    ELSE ensure_partition_indexes_and_constraints(
            clone_row_triggers_to_partition(SetPredicate(w, s.id, PartitionPredicate(w.c, s.partof, s.id)),
                                            s.partof, s.id), s.partof, s.id)

CreateTableEffect(w, s) == CreatePartition(CreatePlanned(w, s, SequencePlans(w.c, s)), s)

(* The resolver adds the attributes of a typed table's composite type to   *)
(* the columns of the statement.                                           *)
resolve_create_table(c, s) ==
    LET fields == c.types[s.of].fields
        col(n) == [name |-> n, ty |-> fields[n], notnull |-> FALSE, dflt |-> <<>>, how |-> "plain",
                   expr |-> {}, seq |-> <<>>, opts |-> NoOptions]
    IN  IF s.of # <<>> /\ Present(c.types, s.of) /\ c.types[s.of].kind = "composite"
        THEN [s EXCEPT !.cols = @ \o SetToSeq({col(n) : n \in DOMAIN fields})]
        ELSE s

CreateResolved(s) == Settle(CreateTableVerdict(cat, s), CreateTableEffect(Work, s))
CreateTable == \E s \in Offered(CreateTableStmts) : CreateResolved(resolve_create_table(cat, s))
=============================================================================
