----------------------------- MODULE CacheSchema -----------------------------
(***************************************************************************)
(* The semantic validation of a cache (DbCache::validate_semantics), which *)
(* every baseline has to pass before the analysis starts.  The records of  *)
(* a cache are read here as what hydration makes of them: the maps of the  *)
(* catalog and the edges of its graph.  Checks of single texts (an empty   *)
(* name, a malformed option) have no counterpart in the model; an identity *)
(* that occurs twice cannot be written in a map.                           *)
(***************************************************************************)
EXTENDS Replication

(* Every family was read, and dependencies across the border of the scope  *)
(* start inside it.                                                        *)
ValidCoverage(c) ==
    /\ CatalogFamilies \subseteq c.known.families
    /\ \A x \in c.external : c.scope # {} /\ InScope(c, x[2][1])

Omitted(c, schema) == ~InScope(c, schema)
RoleRef(c, role) == Live(c.roles) # {} => Present(c.roles, role)
IsTable(c, id) == Present(c.relations, id) /\ Rel(c, id).kind = "table"
HasColumns(c, id, cols) == cols \subseteq DOMAIN Rel(c, id).cols
OwnersExist(c, f) == \A k \in Live(c[f]) : RoleRef(c, c[f][k].owner)

ValidColumns(c) ==
    \A t \in Live(c.relations) : \A n \in DOMAIN Rel(c, t).cols :
        LET col == Rel(c, t).cols[n] IN col.parents = 0 => col.local

(* A typed table has the columns of its composite type.                    *)
ValidTypedTables(c) ==
    \A t \in {x \in Live(c.relations) : Rel(c, x).oftype # <<>>} :
        LET ty == Rel(c, t).oftype
        IN  /\ Present(c.types, ty) /\ c.types[ty].kind = "composite"
            /\ DOMAIN Rel(c, t).cols = DOMAIN c.types[ty].fields
            /\ \A n \in DOMAIN Rel(c, t).cols : Rel(c, t).cols[n].ty = c.types[ty].fields[n]

ValidPrivileges(c) ==
    \A t \in Live(c.relations) :
        LET acl == Rel(c, t).acl
            known(r) == r = "public" \/ Present(c.roles, r)
        IN  /\ \A g \in acl.grants : known(g[1])
            /\ \A g \in acl.from : known(g[3]) /\ <<g[1], g[2]>> \in acl.grants
            /\ \A g \in acl.optfrom : known(g[3]) /\ <<g[1], g[2]>> \in acl.options

(* The labels of an enum are distinct.                                     *)
ValidTypes(c) ==
    \A t \in Live(c.types) : c.types[t].kind = "enum" => ~HasDuplicates(c.types[t].labels)

(* role_membership_cycle: no path of memberships comes back.               *)
role_membership_cycle(c) ==
    LET up(S) == UNION {IF Present(c.roles, r) THEN c.roles[r].member ELSE {} : r \in S}
    IN  \E r \in Live(c.roles) : r \in Reach(up({r}), up, Cardinality(DOMAIN c.roles))

ValidSequences(c) ==
    \A q \in Live(c.sequences) :
        LET p == c.sequences[q].par
        IN  /\ ~Present(c.relations, q) /\ p.inc # 0
            /\ TypeMin(p.ty) <= p.min /\ p.min < p.max /\ p.max <= TypeMax[p.ty]
            /\ p.start \in p.min..p.max

ValidPublications(c) ==
    \A p \in Live(c.publications) :
        \A x, y \in c.publications[p].objs : publication_object_key(x) = publication_object_key(y) => x = y

(* A sequence that is owned is in the schema of its table, and an identity *)
(* column has one identity sequence, which no other column has.            *)
ValidOwnership(c) ==
    /\ \A q \in {x \in Live(c.sequences) : c.sequences[x].ownedby # <<>>} :
          LET t   == c.sequences[q].ownedby[1]
              col == c.sequences[q].ownedby[2]
          IN  /\ q[1] = t[1]
              /\ IF Present(c.relations, t)
                 THEN /\ IsTable(c, t) /\ HasColumns(c, t, {col})
                      /\ c.sequences[q].kind = "identity" => Rel(c, t).cols[col].how = "identity"
                 ELSE Omitted(c, t[1])
    /\ \A t \in Live(c.relations) : \A n \in DOMAIN Rel(c, t).cols :
          Rel(c, t).cols[n].how = "identity" =>
              Cardinality({q \in Live(c.sequences) : /\ c.sequences[q].kind = "identity"
                                                     /\ c.sequences[q].ownedby = <<t, n>>}) = 1

ValidMemberships(c) ==
    \A r \in Live(c.roles) :
        LET role == c.roles[r]
        IN  /\ \A x \in role.member : Present(c.roles, x)
            /\ r \notin role.member
            /\ role.set \cup role.admin \cup role.inherit \subseteq role.member

ValidGrantors(c) ==
    /\ \A g \in c.grantors :
          /\ \A r \in {g.member, g.role, g.grantor} : Present(c.roles, r)
          /\ g.role \in c.roles[g.member].member
          /\ \A h \in c.grantors : <<h.member, h.role, h.grantor>> = <<g.member, g.role, g.grantor>> => h = g
    /\ c.gcomplete => \A r \in Live(c.roles) : \A x \in c.roles[r].member :
                          \E g \in c.grantors : g.member = r /\ g.role = x

ValidConstraints(c) ==
    \A k \in DOMAIN c.constraints :
        LET con == c.constraints[k]
        IN  /\ IsTable(c, k[1])
            /\ con.kind = "check" => con.def # <<>>
            /\ con.index # <<>> =>
                  /\ con.kind \in BackingKinds
                  /\ \E e \in index_edge(c, con.index) : e.r = k[1] /\ e.valid /\ (con.kind \in KeyKinds => e.unique)

ConstraintIs(c, e, kinds) == <<e.d, e.con>> \in DOMAIN c.constraints /\ c.constraints[<<e.d, e.con>>].kind \in kinds

ValidKeys(c) ==
    \A e \in Kind(c.edges, {"con"}) :
        /\ IsTable(c, e.d) /\ ConstraintIs(c, e, {"pk", "unique", "notnull"})
        /\ e.cols # {} /\ HasColumns(c, e.d, e.cols)
        /\ \A f \in Kind(c.edges, {"con"}) : <<f.d, f.con>> = <<e.d, e.con>> => f = e

ValidIndexes(c) ==
    \A e \in Kind(c.edges, {"index"}) :
        /\ e.d[1] = e.r[1] /\ ~Present(c.relations, e.d) /\ ~Present(c.sequences, e.d)
        /\ Present(c.relations, e.r) /\ Rel(c, e.r).kind \in {"table", "matview"}
        /\ e.known /\ HasColumns(c, e.r, e.cols)
        /\ \A f \in index_edge(c, e.d) : f = e

ValidSettings(c) ==
    \A t \in Live(c.relations) :
        LET rel == Rel(c, t)
            named(n) == {e \in index_edge(c, <<t[1], n>>) : e.r = t}
        IN  /\ rel.cluster # <<>> => named(rel.cluster[1]) # {}
            /\ Len(rel.replica) = 2 =>
                  \E e \in named(rel.replica[2]) :
                      e.valid /\ e.unique /\ HasColumns(c, t, e.cols) /\ \A n \in e.cols : ~rel.cols[n].null

ValidTriggers(c) ==
    \A t \in Live(c.triggers) :
        LET table == c.triggers[t].table
        IN  t[1] = table[1] /\ Present(c.relations, table) /\ Rel(c, table).kind \in {"table", "view"}

ValidClones(c) ==
    \A t \in {x \in Live(c.triggers) : c.triggers[x].parent # <<>>} :
        c.triggers[t].row /\ Present(c.triggers, c.triggers[t].parent)

ValidForeignKeys(c) ==
    \A e \in {f \in Kind(c.edges, {"fk"}) : EdgeIsCurrent(c, f)} :
        /\ IsTable(c, e.d) /\ IsTable(c, e.r) /\ ConstraintIs(c, e, {"fk"})
        /\ e.cols # {} /\ Cardinality(e.cols) = Cardinality(e.rcols)
        /\ HasColumns(c, e.d, e.cols) /\ HasColumns(c, e.r, e.rcols)

ValidInheritance(c) ==
    LET pending == Kind(c.edges, {"pending"})
    IN  /\ \A e \in Kind(c.edges, {"inherit", "part", "pending"}) :
              /\ e.d # e.r
              /\ \A id \in {e.d, e.r} : IF Present(c.relations, id) THEN IsTable(c, id) ELSE Omitted(c, id[1])
        /\ \A e \in pending :
              /\ Present(c.relations, e.r) => Rel(c, e.r).part # "none"
              /\ Present(c.relations, e.d) => Rel(c, e.d).bound # <<>>
              /\ \A f \in pending : f.r = e.r => f = e

ValidConstraintDependencies(c) ==
    \A e \in Kind(c.edges, {"condep"}) :
        Present(c.relations, e.d) /\ ConstraintIs(c, e, {"check", "exclusion"}) /\ HasColumns(c, e.d, e.cols)

ValidGenerated(c) ==
    \A e \in Kind(c.edges, {"genfrom"}) :
        e.col # e.on /\ Present(c.relations, e.d) /\ HasColumns(c, e.d, {e.col, e.on})

ValidDefaults(c) ==
    \A e \in Kind(c.edges, {"default"}) :
        /\ Present(c.relations, e.d) /\ HasColumns(c, e.d, {e.col})
        /\ Present(c.sequences, e.r) \/ Omitted(c, e.r[1])

ValidViews(c) ==
    \A e \in {f \in Kind(c.edges, {"view"}) : EdgeIsCurrent(c, f)} :
        /\ \A id \in {e.d, e.r} : Present(c.relations, id) \/ Omitted(c, id[1])
        /\ Present(c.relations, e.d) => Rel(c, e.d).kind \in {"view", "matview"}
        /\ (e.col # "" /\ Present(c.relations, e.r)) => HasColumns(c, e.r, {e.col})

(* Everything but the coverage and the clones of row triggers.             *)
ValidRecords(c) ==
    /\ \A f \in {"relations", "types", "extensions", "schemas", "sequences", "publications", "subscriptions"} :
          OwnersExist(c, f)
    /\ ValidColumns(c) /\ ValidTypedTables(c) /\ ValidPrivileges(c) /\ ValidTypes(c)
    /\ ~role_membership_cycle(c) /\ ValidMemberships(c) /\ ValidGrantors(c)
    /\ ValidSequences(c) /\ ValidOwnership(c) /\ ValidPublications(c)
    /\ ValidConstraints(c) /\ ValidKeys(c) /\ ValidIndexes(c) /\ ValidSettings(c) /\ ValidTriggers(c)
    /\ ValidForeignKeys(c) /\ ValidInheritance(c)
    /\ ValidConstraintDependencies(c) /\ ValidGenerated(c) /\ ValidDefaults(c) /\ ValidViews(c)

validate_semantics(c) == ValidCoverage(c) /\ ValidRecords(c) /\ ValidClones(c)

(* A baseline that is there has to be valid; without one the analysis      *)
(* starts from an empty cache that covers nothing.                         *)
try_with_baseline(c) == c.known.available => validate_semantics(c)
==============================================================================
