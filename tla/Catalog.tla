------------------------------- MODULE Catalog -------------------------------
(***************************************************************************)
(* The modelled catalog under every statement of the families, inside and  *)
(* outside a transaction, and what must hold of it whatever is run.        *)
(***************************************************************************)
EXTENDS CacheSchema

CONSTANT Baselines     \* a function from scenarios to synchronized catalogs

ASSUME BaselinesAssumption == \A s \in DOMAIN Baselines : try_with_baseline(Baselines[s])

Init == CatInit(Baselines)

Next ==
    \/ Begin \/ Commit \/ Rollback
    \/ CreateTable \/ DropTable \/ RenameRelation \/ ChangeRelationOwner \/ AlterTable
    \/ CreateSequence \/ AlterSequence \/ DropSequence
    \/ CreateView \/ CreateMaterializedView \/ RefreshMaterializedView
    \/ AlterViewFamily \/ DropView
    \/ CreateIndex \/ AlterIndex \/ DropIndex \/ Maintain
    \/ ChangePolicy \/ ChangeTrigger
    \/ CreateRoutine \/ AlterRoutine \/ DropRoutine
    \/ CreateType \/ RenameType \/ AlterType \/ CreateDomain \/ AlterDomain \/ DropType
    \/ CreateSchema \/ ChangeSchemaOwner \/ RenameSchema \/ DropSchema
    \/ CreateRole \/ AlterRole \/ DropRole \/ ChangePrivileges \/ GrantRole \/ RevokeRole
    \/ CreateExtension \/ AlterExtension \/ DropExtension
    \/ CreatePublication \/ AlterPublication \/ DropPublication
    \/ CreateSubscription \/ AlterSubscription \/ DropSubscription

Spec == Init /\ [][Next]_catvars

------------------------------------------------------------------------------
(* Whatever statements run on a baseline, and however undone, the catalog  *)
(* stays one that validate_semantics would accept as a baseline            *)
(* (db/cache/mod.rs 310-2121): cross references, keys and their indexes,   *)
(* one namespace for tables, indexes and sequences, ownership of           *)
(* sequences, layouts of typed tables, memberships, replica identities.    *)
(* The clones of row triggers are left out: DROP TRIGGER and RENAME on a   *)
(* partitioned table leave clones whose parent is gone.                    *)
StaysValid == cat.known.available => ValidRecords(cat)

LiveEnd(id) == Present(cat.relations, id)

(* The graph agrees with the catalog.  No edge outlives an object it joins:*)
(* a drop, with or without CASCADE, a rename or a rollback leaves no edge  *)
(* that is current and names a relation, sequence, index, trigger or       *)
(* trigger function that is gone (the sweep at the end of drop.rs,         *)
(* apply_view_index.rs 511-532, apply_routine.rs 1305-1366).  An edge that *)
(* stands for a record has it: a key, check or foreign-key edge the        *)
(* constraint of its name, an ownership edge the sequence that says the    *)
(* same, a trigger edge the trigger of that table, a publication edge the  *)
(* publication (tests/common/invariants.rs, assert_state_invariants).      *)
EdgesAreLive ==
    \A e \in cat.edges :
        /\ EdgeIsCurrent(cat, e) =>
              /\ e.k \in {"fk", "view", "inherit", "part", "pending", "con", "condep", "genfrom"}
                     => LiveEnd(e.d) /\ LiveEnd(e.r)
              /\ e.k \in {"index", "owned", "trigger"} => LiveEnd(e.r)
              /\ e.k \in {"viewfn", "viewtype", "default"} => LiveEnd(e.d)
              /\ e.k = "default" => Present(cat.sequences, e.r)
              /\ e.k = "trigger" => Present(cat.functions, e.fn)
        /\ e.k \in {"fk", "con", "condep"} => <<e.d, e.con>> \in DOMAIN cat.constraints
        /\ e.k = "owned" => Present(cat.sequences, e.d) /\ cat.sequences[e.d].ownedby = <<e.r, e.col>>
        /\ e.k = "trigger" => Present(cat.triggers, e.trg) /\ cat.triggers[e.trg].table = e.r
        /\ e.k = "pub" => Present(cat.publications, e.pub[2])

(* A sequence that a column owns stays with it: the table and the column   *)
(* exist, the graph has the ownership, and table and sequence have one     *)
(* owner (apply_sequence.rs 525-568, rename.rs 543-568, finish.rs          *)
(* 1199-1263).                                                             *)
OwnedSequencesFollow ==
    \A q \in Live(cat.sequences) :
        LET s == cat.sequences[q]
        IN  s.ownedby # <<>> =>
                /\ Present(cat.relations, s.ownedby[1])
                /\ s.ownedby[2] \in DOMAIN Rel(cat, s.ownedby[1]).cols
                /\ OwnedEdge(q, s.ownedby[1], s.ownedby[2]) \in cat.edges
                /\ s.owner = Rel(cat, s.ownedby[1]).owner

(* A sequence stands inside its bounds and starts inside them, whatever    *)
(* order its options came in (apply_sequence.rs 41-65, 152-297).           *)
SequencesInBounds ==
    \A q \in Live(cat.sequences) :
        LET s == cat.sequences[q]
        IN  /\ s.par.min < s.par.max /\ s.par.start \in s.par.min..s.par.max
            /\ TypeMin(s.par.ty) <= s.par.min /\ s.par.max <= TypeMax[s.par.ty]
            /\ s.exact /\ s.last.o = "is" => s.last.v \in s.par.min..s.par.max

(* What is recorded about a constraint in three places agrees: its table   *)
(* is there; a key or exclusion constraint, and no other, records an       *)
(* index, which is on that table as long as the evidence is complete       *)
(* (create_table.rs 1505-1866, finish.rs 550-756, rename.rs 440-491); and  *)
(* those awaiting validation are exactly those that are not valid          *)
(* (finish.rs 303-351, 499-549, 757-776).                                  *)
ConstraintsAgree ==
    /\ \A k \in DOMAIN cat.constraints :
          LET con == cat.constraints[k]
          IN  /\ Present(cat.relations, k[1])
              /\ con.kind \in BackingKinds <=> con.index # <<>>
              /\ con.kind \in BackingKinds /\ ~cat.tainted =>
                     \E e \in index_edge(cat, con.index) : e.r = k[1]
    /\ cat.pending = {k \in DOMAIN cat.constraints : ~cat.constraints[k].valid}

(* Partitions and inheritance form a forest over live tables: no cycle, at *)
(* most one partition parent, and the parent is partitioned.               *)
PartitionForest ==
    LET up(ks, S) == {e.r : e \in {f \in Kind(cat.edges, ks) : f.d \in S}}
        above(ks, t) == Reach(up(ks, {t}), LAMBDA S : up(ks, S), Cardinality(cat.edges))
        parents(t) == up({"part", "pending"}, {t})
    IN  \A t \in Live(cat.relations) :
            /\ t \notin above({"part", "pending"}, t) /\ t \notin above({"inherit"}, t)
            /\ Cardinality(parents(t)) <= 1
            /\ \A p \in parents(t) : Rel(cat, p).part # "none"

(* The tree of indexes follows the tree of tables, as the repository's own *)
(* assertion has it (tests/common/invariants.rs): an attachment joins two  *)
(* indexes that are there, the child's table is a partition of the         *)
(* parent's, and an index is attached once (index_topology.rs 322-402,     *)
(* 655-677).                                                               *)
IndexTreeFollowsTables ==
    \A e \in Kind(cat.edges, {"idxpart"}) :
        /\ IndexIsPresent(cat, e.d) /\ IndexIsPresent(cat, e.r)
        /\ \A i \in index_edge(cat, e.d), p \in index_edge(cat, e.r) : i.r \in PartitionsOf(cat.edges, p.r)
        /\ Cardinality(index_parent_of(cat, e.d)) = 1

(* A live trigger is on a live table that lists it, with an edge of the    *)
(* same generation, and a table lists no trigger that is gone              *)
(* (apply_policy_trigger.rs 99-341, partition.rs 781-881).                 *)
TriggersAreListed ==
    /\ \A t \in Live(cat.triggers) :
          LET r == cat.triggers[t]
          IN  /\ Present(cat.relations, r.table) /\ t[3] \in Rel(cat, r.table).trg
              /\ <<r.table[1], r.table[2]>> = <<t[1], t[2]>>
              /\ \E e \in Kind(cat.edges, {"trigger"}) : e.trg = t /\ e.r = r.table /\ e.gen = r.gen
    /\ \A t \in Live(cat.relations) : \A n \in Rel(cat, t).trg : Present(cat.triggers, <<t[1], t[2], n>>)

(* Nothing refers to a type that is gone: the columns of live relations,   *)
(* the parts of live types and the signatures of live routines name types  *)
(* or row types that are there, after any drop, rename or move             *)
(* (type_cascade.rs 25-170, apply_type.rs 454-625).  A range and its       *)
(* multirange come and go together, each knows the other, and a routine    *)
(* that is part of a type is gone when the type is (apply_type.rs 162-341, *)
(* type_cascade.rs 177-301).                                               *)
TypesAreResolved ==
    /\ \A t \in Live(cat.relations) : \A n \in DOMAIN Rel(cat, t).cols : TypeResolves(cat, Rel(cat, t).cols[n].ty)
    /\ \A t \in Live(cat.types) :
          LET ty == cat.types[t]
          IN  /\ TypeResolves(cat, ty.base)
              /\ \A f \in DOMAIN ty.fields : TypeResolves(cat, ty.fields[f])
              /\ ty.mate # <<>> => Present(cat.types, ty.mate) /\ cat.types[ty.mate].mate = t
    /\ \A f \in Live(cat.functions) :
          LET fn == cat.functions[f]
          IN  /\ TypeResolves(cat, fn.ret)
              /\ \A i \in DOMAIN fn.args : TypeResolves(cat, fn.args[i])
              /\ fn.owner # <<>> => Present(cat.types, fn.owner)

(* Every live object is in a schema that is there (apply_schema.rs         *)
(* 204-453, schemas.rs 232-398).                                           *)
ObjectsHaveSchemas ==
    /\ \A f \in {"relations", "types", "functions", "sequences"} :
          \A id \in Live(cat[f]) : Present(cat.schemas, id[1])
    /\ \A e \in Kind(cat.edges, {"index"}) : Present(cat.schemas, e.d[1])

(* What an extension is known to have is there, as long as the evidence is *)
(* complete (apply_extension.rs 110-228, 490-531).                         *)
MembersExist ==
    \A n \in Live(cat.extensions) :
        cat.extensions[n].complete /\ ~cat.tainted =>
            \A m \in ExtensionMembers(cat, n) : extension_member_presence(cat, m) = "present"

(* The records of who granted a membership and the memberships of a role   *)
(* say the same, and no role is a member of itself, directly or not        *)
(* (roles.rs 344-377, apply_role.rs 463-499).                              *)
MembershipsAgree ==
    LET of(r) == {x \in cat.grantors : x.member = r}
        up(S) == UNION {IF Present(cat.roles, r) THEN cat.roles[r].member ELSE {} : r \in S}
    IN  \A r \in Live(cat.roles) :
            /\ cat.gcomplete => /\ cat.roles[r].member = {x.role : x \in of(r)}
                                /\ cat.roles[r].admin  = {x.role : x \in {y \in of(r) : y.admin}}
                                /\ cat.roles[r].set    = {x.role : x \in {y \in of(r) : y.set}}
            /\ r \notin Reach(up({r}), up, Cardinality(DOMAIN cat.roles))

(* A grant option is held with its privilege, and every recorded source of *)
(* either is the source of one that is held (model/relation.rs 43-402).    *)
ProvenanceFollowsGrants ==
    \A t \in Live(cat.relations) :
        LET acl == Rel(cat, t).acl
        IN  /\ acl.options \subseteq acl.grants /\ acl.optfrom \subseteq acl.from
            /\ {<<x[1], x[2]>> : x \in acl.from} \subseteq acl.grants
            /\ {<<x[1], x[2]>> : x \in acl.optfrom} \subseteq acl.options

(* A publication holds live tables and live schemas, and the edges of the  *)
(* graph are exactly its tables (publication.rs 46-190, apply_replication.rs *)
(* 80-396; a rename or a drop of the table changes both).                  *)
PublicationsFollow ==
    /\ \A p \in Live(cat.publications) :
          \A o \in cat.publications[p].objs :
              /\ o.kind = "table"  => Present(cat.relations, o.id)
              /\ o.kind = "schema" => Present(cat.schemas, o.id[2])
    /\ Kind(cat.edges, {"pub"})
         = UNION {PublicationEdges(p, cat.publications[p].objs) : p \in Live(cat.publications)}

(* A subscription that is enabled has a replication slot                   *)
(* (apply_replication.rs 453-877, publication.rs 348-406).                 *)
EnabledHasSlot ==
    \A u \in Live(cat.subscriptions) : cat.subscriptions[u].enabled => cat.subscriptions[u].slot # ""

(* A statement that takes a routine or a type away takes every live view   *)
(* that calls the routine or casts to the type with it, or is refused: no  *)
(* such view still refers to what the step removed (apply_routine.rs       *)
(* 695-834, type_cascade.rs 122-138).  A view may name a routine that was  *)
(* never there, so this is about the step and not about the state.         *)
ViewsGoWithWhatTheyUse ==
    [][steps' # steps =>
          \A e \in Kind(cat'.edges, {"viewfn", "viewtype"}) :
              Present(cat'.relations, e.d) =>
                  /\ e.k = "viewtype" => Element(e.r) \notin Live(cat.types) \ Live(cat'.types)
                  /\ e.k = "viewfn" /\ e.written = "exact" => e.r \notin Live(cat.functions) \ Live(cat'.functions)
      ]_catvars
==============================================================================
