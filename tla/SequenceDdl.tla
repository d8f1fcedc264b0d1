----------------------------- MODULE SequenceDdl -----------------------------
(***************************************************************************)
(* CREATE, ALTER and DROP SEQUENCE (state/apply_sequence.rs).  A sequence  *)
(* is [st, owner, ownedby, kind, gen, par, last, exact]: ownedby is <<>>   *)
(* or <<table, column>>, last is the value it stands at (Unset if unknown) *)
(* and exact says whether that is what the session knows, or only what the *)
(* baseline saw.                                                           *)
(***************************************************************************)
EXTENDS Partitions, SequenceParams

CONSTANTS CreateSequenceStmts, AlterSequenceStmts, DropSequenceStmts

SequenceState(owner, ownedby, kind, gen, par) ==
    [st |-> "present", owner |-> owner, ownedby |-> ownedby, kind |-> kind,
     gen |-> gen, par |-> par, last |-> Val(par.start), exact |-> TRUE]

OwnedEdge(seq, table, col) == [k |-> "owned", d |-> seq, r |-> table, col |-> col]

sequence_lookup(c, id) ==
    CASE Present(c.sequences, id)   -> "present"
      [] Tombstone(c.sequences, id) -> "tomb"
      [] Covers(c, id, "sequences") -> "absent"
      [] OTHER                      -> "unknown"

(* ensure_creation_target and the name checks that begin every CREATE.     *)
CreateTarget(c, id, ifNotExists) ==
    EnsureSchema(c, id[1]) ?? Skip(ifNotExists /\ NameTaken(c, id)) ?? Reject(NameTaken(c, id))

(* A sequence lives with the table that owns it, and has its owner.        *)
OwningTable(c, id, ownedby, owner) ==
    IF ownedby = <<>> THEN "ok"
    ELSE LET t == ownedby[1]
         IN  Reject(t[1] # id[1]) ?? Ensure(RelationLookup(c, t, {"table"}))
             ?? Reject(ownedby[2] \notin DOMAIN Rel(c, t).cols)
             ?? Reject(Rel(c, t).owner # owner)

CreateSequenceVerdict(c, s) ==
    CreateTarget(c, s.id, s.ifnot) ?? OwningTable(c, s.id, s.ownedby, c.me)
    ?? Reject(ParamsRefused(DefaultParams, s.opts, TRUE))

CreateSequenceEffect(w, s) ==
    LET x    == Bump(Snap(w, "sequences", {s.id}))
        kind == IF s.ownedby = <<>> THEN "standalone" ELSE "owned"
        seq  == SequenceState(x.c.me, s.ownedby, kind, x.c.gen,
                              MergedParams(DefaultParams, s.opts, TRUE))
        y    == Assign(x, "sequences", s.id, seq)
    IN  IF s.ownedby = <<>> THEN y
        ELSE AddEdges(y, {OwnedEdge(s.id, s.ownedby[1], s.ownedby[2])})

CreateSequence ==
    \E s \in Offered(CreateSequenceStmts) :
        Settle(CreateSequenceVerdict(cat, s), CreateSequenceEffect(Work, s))

(* A mutant: only the upper bound is compared with the current value.      *)
sequence_upper_bound_conflict(seq, p) ==
    LET above == seq.last.o = "is" /\ seq.last.v > p.max
    IN  above /\ (seq.exact \/ (~seq.par.cycle /\ seq.par.inc > 0))

(* The value the sequence stands at may fall outside the merged bounds; an *)
(* inexact one proves that only if it cannot have moved back.              *)
sequence_runtime_bounds_conflict(seq, p) ==
    LET below == seq.last.o = "is" /\ seq.last.v < p.min
        above == seq.last.o = "is" /\ seq.last.v > p.max
    IN  \/ below /\ (seq.exact \/ (~seq.par.cycle /\ seq.par.inc < 0))
        \/ above /\ (seq.exact \/ (~seq.par.cycle /\ seq.par.inc > 0))

sequence_bounds_narrowed(cur, p) == p.min > cur.min \/ p.max < cur.max

AlterSequenceTarget(c, s, look) ==
    CASE look = "present" -> "ok"
      [] look = "absent"  -> IF s.ifexists THEN "noop" ELSE "conflict"
      [] look = "tomb" /\ Covers(c, s.id, "sequences") -> "conflict"
      [] look = "tomb" /\ s.ifexists -> "noop"
      [] OTHER -> "unresolved"

(* The sequence of an identity column belongs to its column.               *)
AlterSequenceAction(c, s, seq) ==
    Reject(s.action # "none" /\ seq.kind = "identity")
    ?? CASE s.action = "owned"  -> OwningTable(c, s.id, s.ownedby, seq.owner)
         [] s.action = "owner"  ->
                EnsureRole(c, s.owner)
                ?? (IF seq.ownedby = <<>> THEN "ok"
                    ELSE Ensure(RelationLookup(c, seq.ownedby[1], {"table"}))
                         ?? Reject(Rel(c, seq.ownedby[1]).owner # s.owner))
         [] s.action = "rename" ->
                EnsureSchema(c, s.to[1]) ?? Reject(NameTaken(c, s.to))
                ?? Reject(seq.ownedby # <<>> /\ seq.ownedby[1][1] # s.to[1])
         [] OTHER -> "ok"

AlterSequenceParams(seq, o) ==
    Reject(ParamsRefused(seq.par, o, FALSE))
    ?? Reject(o.restart = Unset /\ sequence_runtime_bounds_conflict(seq, MergedParams(seq.par, o, FALSE)))

(* The statement's action: "none", "owned" (OWNED BY), "owner", "rename"   *)
(* (also SET SCHEMA).                                                      *)
AlterSequenceVerdict(c, s) ==
    AlterSequenceTarget(c, s, sequence_lookup(c, s.id)) ?? Reject(s.opts.dup)
    ?? AlterSequenceParams(c.sequences[s.id], s.opts) ?? AlterSequenceAction(c, s, c.sequences[s.id])

SetSequenceParams(w, s, seq, p) ==
    IF p = seq.par /\ s.opts.restart = Unset THEN w
    ELSE Assign(TaintIf(w, s.opts.restart = Unset /\ ~seq.exact /\ sequence_bounds_narrowed(seq.par, p)),
                "sequences", s.id,
                IF s.opts.restart = Unset THEN [seq EXCEPT !.par = p]
                ELSE [seq EXCEPT !.par = p, !.last = Val(RestartValue(s.opts, p)), !.exact = TRUE])

SequenceOwnedBy(w, s) ==
    AddEdges(Retain(Assign(w, "sequences", s.id,
                           [w.c.sequences[s.id] EXCEPT !.ownedby = s.ownedby,
                                                       !.kind = IF s.ownedby = <<>> THEN "standalone" ELSE "owned"]),
                    LAMBDA e : ~(e.k = "owned" /\ e.d = s.id)),
             IF s.ownedby = <<>> THEN {} ELSE {OwnedEdge(s.id, s.ownedby[1], s.ownedby[2])})

SequenceOwner(w, s) ==
    Assign(TaintIf(w, RoleDoubt(w.c, s.owner)), "sequences", s.id,
           [w.c.sequences[s.id] EXCEPT !.owner = s.owner])

SequenceRenamed(w, s) ==
    [snapshot_namespace(w) EXCEPT
        !.c.sequences = Rekey(@, s.id, s.to),
        !.c.edges = AddEdge(PropagateSequenceRename(@, s.id, s.to), RenameEdge(s.id, s.to)),
        !.c.baseseq = {IF q = s.id THEN s.to ELSE q : q \in @}]

SequenceAction(w, s) ==
    CASE s.action = "owned"  -> SequenceOwnedBy(w, s)
      [] s.action = "owner"  -> SequenceOwner(w, s)
      [] s.action = "rename" -> SequenceRenamed(w, s)
      [] OTHER               -> w

(* The parameters first, then the ownership, the owner or the name.        *)
AlterSequenceEffect(w, s) ==
    SequenceAction(SetSequenceParams(w, s, w.c.sequences[s.id], MergedParams(w.c.sequences[s.id].par, s.opts, FALSE)), s)

AlterSequence ==
    \E s \in Offered(AlterSequenceStmts) :
        Settle(AlterSequenceVerdict(cat, s), AlterSequenceEffect(Work, s))

(* Defaults that draw from a dropped sequence: the recorded dependency     *)
(* decides where there is one, else what the default says.                 *)
DefaultUses(c, seq, t, col) ==
    LET recorded == {e \in Kind(c.edges, {"default"}) :
                        ResolveRename(c.edges, e.d) = t /\ e.col = col}
    IN  \/ c.sequences[seq].kind = "serial" /\ c.sequences[seq].ownedby = <<t, col>>
        \/ \E e \in recorded : ResolveRename(c.edges, e.r) = seq
        \/ recorded = {} /\ Rel(c, t).cols[col].dflt = seq

clear_sequence_defaults_on_cascade(w, seqs) ==
    LET uses(t, col) == \E q \in seqs : DefaultUses(w.c, q, t, col)
        hit == {t \in Live(w.c.relations) : \E col \in DOMAIN Rel(w.c, t).cols : uses(t, col)}
        cleared(t) ==
            [Rel(w.c, t) EXCEPT !.cols =
                [col \in DOMAIN @ |-> IF uses(t, col) THEN [@[col] EXCEPT !.dflt = <<>>] ELSE @[col]]]
        x == Snap(w, "relations", hit)
    IN  Set(x, "relations", Over([t \in hit |-> cleared(t)], x.c.relations))

DropSequenceTargets(c, s) == {id \in ToSet(s.ids) : Present(c.sequences, id)}

DropSequenceVerdict(c, s) ==
    LET target(id) ==
            LET look == sequence_lookup(c, id)
            IN  IF look \in {"absent", "tomb"} THEN Reject(~s.ifexists) ELSE Ensure(look)
        now == DropSequenceTargets(c, s)
        dependent(id) ==
            \E e \in Kind(c.edges, {"default"}) :
                e.r = id /\ ResolveRename(c.edges, e.d) \notin s.co
    IN  Reject(\E id \in ToSet(s.ids) : ExtensionMember(c, "sequence", id))
        ?? Each(s.ids, target)
        ?? Skip(now = {})
        ?? Doubt(\E id \in now : id \in c.baseseq
                    /\ ("dependencies" \notin c.known.families
                        \/ ScopedFamilyObject(c, id, "sequences")))
        ?? Reject(\E id \in now :
                    \/ c.sequences[id].kind = "identity"
                    \/ ~s.cascade /\ (c.sequences[id].kind = "serial" \/ dependent(id)))

DropSequenceEffect(w, s) ==
    LET now == DropSequenceTargets(w.c, s)
        x   == IF s.cascade THEN clear_sequence_defaults_on_cascade(w, now) ELSE w
    IN  Retain(DropKeys(x, "sequences", now),
               LAMBDA e : ~(\/ e.k = "owned" /\ e.d \in now
                            \/ e.k = "default" /\ e.r \in now))

DropSequence ==
    \E s \in Offered(DropSequenceStmts) :
        Settle(DropSequenceVerdict(cat, s), DropSequenceEffect(Work, s))
=============================================================================
