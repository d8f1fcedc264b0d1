-------------------------------- MODULE Roles --------------------------------
(***************************************************************************)
(* Roles, memberships and privileges on relations (state/apply_role.rs,    *)
(* roles.rs, grants.rs, the privilege matrix of model/relation.rs).        *)
(*                                                                         *)
(* A role is [st, super, inherits, member, admin, inherit, set]; the last  *)
(* four are sets of roles, a projection of the records in grantors, each   *)
(* [member, role, grantor, admin, inherit, set].  gcomplete says whether   *)
(* there is a record for every membership.  The privileges of a relation   *)
(* are grants and options, sets of <<role, privilege>>, with their sources *)
(* from and optfrom, sets of <<role, privilege, grantor>>.                 *)
(*                                                                         *)
(* A role statement has do name names inherits ifexists; a GRANT or REVOKE *)
(*   do on targets privs all to by option cascade admin inherit set        *)
(* with on "tables", "schemas" or "roles", by "" when there is no GRANTED  *)
(* BY, option WITH GRANT OPTION or GRANT OPTION FOR, and admin, inherit    *)
(* and set the membership options: <<>> or <<value>>.  The session's role  *)
(* and the server version are known; an option is written at most once.    *)
(***************************************************************************)
EXTENDS Schemas

CONSTANTS RoleStmts, GrantStmts

RolesTo(action) == {s \in Offered(RoleStmts) : s.do = action}
Grants(do, on) == {s \in Offered(GrantStmts) : s.do = do /\ s.on \in on}

OptionOr(option, default) == IF option = <<>> THEN default ELSE option[1]

role_lookup(c, r) ==
    CASE Present(c.roles, r)           -> "present"
      [] Tombstone(c.roles, r)         -> "tomb"
      [] "roles" \in c.known.families  -> "absent"
      [] OTHER                         -> "unknown"

RoleState(inherits) ==
    [st |-> "present", super |-> FALSE, inherits |-> inherits, member |-> {}, admin |-> {},
     inherit |-> {}, set |-> {}]

CreateRole ==
    \E s \in RolesTo("create") :
        Settle(Reject(role_lookup(cat, s.name) = "present"),
               Assign(Bump(TaintIf(Work, role_lookup(cat, s.name) = "unknown")), "roles", s.name, RoleState(s.inherits[1])))

AlterRole ==
    \E s \in RolesTo("alter") :
        Settle(Doubt(s.name = "") ?? Ensure(role_lookup(cat, s.name)),
               Bump(Assign(Work, "roles", s.name, [cat.roles[s.name] EXCEPT !.inherits = OptionOr(s.inherits, @)])))

(* Whether a role can be dropped is not known where the roles are: what it *)
(* owns is not recorded completely.                                        *)
DropRoleVerdict(c, s) ==
    LET target(r) == IF s.ifexists /\ role_lookup(c, r) \in {"tomb", "absent"} THEN "ok" ELSE Ensure(role_lookup(c, r))
    IN  Each(s.names, target)
        ?? Doubt("roles" \in c.known.families /\ \E r \in ToSet(s.names) : Present(c.roles, r))

DropRole ==
    \E s \in RolesTo("drop") :
        Settle(DropRoleVerdict(cat, s), DropKeys(Work, "roles", {r \in ToSet(s.names) : Present(cat.roles, r)}))

------------------------------------------------------------------------------
(* Authority.                                                               *)

(* The roles whose privileges a role has, its own included.                *)
InheritedRoles(c, role) ==
    LET up(S) == UNION {IF Present(c.roles, r) /\ (c.pg16 \/ c.roles[r].inherits) THEN c.roles[r].inherit ELSE {} :
                          r \in S}
    IN  Reach({role}, up, Cardinality(DOMAIN c.roles))

(* ACL rows are direct grants, to the role or to PUBLIC.                   *)
effective_grant_option(c, rel, role, p) ==
    \E r \in InheritedRoles(c, role) \cup {"public"} : <<r, p>> \in rel.acl.options

has_admin_privileges_on_role(c, member, target) ==
    \/ c.roles[member].super
    \/ \E r \in InheritedRoles(c, member) : Present(c.roles, r) /\ target \in c.roles[r].admin

grantor_identity(c, s) == IF s.by = "" THEN c.me ELSE s.by

(* A superuser grants a membership in the name of the bootstrap role, if   *)
(* that is known ("" if not).                                              *)
role_membership_grantor(c, s) ==
    CASE s.by # "" -> s.by
      [] Present(c.roles, c.me) /\ c.roles[c.me].super /\ c.pg16 -> c.boot
      [] OTHER -> c.me

resolve_grant_privileges(c, s) ==
    IF s.all THEN {"select", "insert"} \cup (IF c.pg17 THEN {"maintain"} ELSE {}) ELSE s.privs

AuthorizeRelation(c, s, id) ==
    LET g == grantor_identity(c, s)
        r == Rel(c, id)
    IN  Present(c.roles, g) =>
            \/ c.roles[g].super \/ r.owner = g
            \/ \A p \in resolve_grant_privileges(c, s) :
                  "roles" \in c.known.families /\ effective_grant_option(c, r, g, p)

GrantTargets(c, s) ==
    CASE s.on = "tables"  -> Each(s.targets, LAMBDA id : Ensure(RelationLookup(c, id, AnyRelation)))
      [] s.on = "schemas" -> Each(s.targets, LAMBDA n : EnsureSchema(c, n))
      [] OTHER            -> Each(s.targets, LAMBDA r : Ensure(role_lookup(c, r)))

validate_role_fact(c, r) ==
    Doubt(r = "") ?? Reject(r # "public" /\ role_lookup(c, r) \in {"tomb", "absent"})

(* What a GRANT and a REVOKE check first.                                  *)
GrantHeader(c, s) ==
    GrantTargets(c, s) ?? Each(s.to, LAMBDA r : validate_role_fact(c, r))
    ?? (IF s.by = "" THEN "ok" ELSE validate_role_fact(c, s.by))
    ?? Reject(~s.all /\ "maintain" \in s.privs /\ ~c.pg17)

(* A missing or unknown grantor, or roles that are not known, leave the    *)
(* authority in doubt; only the absence of a path to ADMIN is a conflict.  *)
MembershipAuthority(c, s) ==
    LET g == role_membership_grantor(c, s)
    IN  Reject(/\ g # "" /\ "roles" \in c.known.families /\ s.by = "" /\ Present(c.roles, g)
               /\ \E r \in ToSet(s.targets) : ~has_admin_privileges_on_role(c, g, r))
MembershipDoubt(c, s) ==
    LET g == role_membership_grantor(c, s)
    IN  \/ g = "" \/ "roles" \notin c.known.families \/ ~Present(c.roles, g)
        \/ /\ s.by # "" /\ ~c.roles[g].super
           /\ \E r \in ToSet(s.targets) : r \notin c.roles[g].admin

------------------------------------------------------------------------------
(* Privileges on relations.                                                 *)

grant_from(acl, role, privs, grantor, option) ==
    LET pairs == {<<role, p>> : p \in privs}
        src   == {<<role, p, grantor>> : p \in privs}
    IN  [grants |-> acl.grants \cup pairs, from |-> acl.from \cup src,
         options |-> IF option THEN acl.options \cup pairs ELSE acl.options,
         optfrom |-> IF option THEN acl.optfrom \cup src ELSE acl.optfrom]

(* A mutant: the grant option outlives the privilege.                      *)
revoke_from_privilege(acl, roles, privs, grantor) ==
    LET src  == {<<x[1], x[2], grantor>> : x \in roles \X privs}
        lost == {x \in roles \X privs : ~\E y \in acl.from \ src : y[1] = x[1] /\ y[2] = x[2]}
    IN  [acl EXCEPT !.grants = @ \ lost, !.from = @ \ src, !.optfrom = @ \ src]

(* A revoke takes one grantor's grants to one role, or to all roles that   *)
(* hold from it; a privilege goes with its last source, or at once when it *)
(* has none recorded, and the option likewise.                             *)
revoke_from(acl, roles, privs, grantor) ==
    LET src   == {<<x[1], x[2], grantor>> : x \in roles \X privs}
        left  == acl.from \ src
        oleft == acl.optfrom \ src
        sourced(F, x) == \E y \in F : y[1] = x[1] /\ y[2] = x[2]
        lost  == {x \in roles \X privs : ~sourced(left, x)}
        optlost == {x \in roles \X privs : /\ ~sourced(oleft, x)
                                           /\ sourced(acl.optfrom, x) \/ x \in lost}
    IN  [grants |-> acl.grants \ lost, from |-> left, optfrom |-> oleft, options |-> acl.options \ optlost]

(* What was granted by a role that lost its last option goes with it.  The *)
(* roles to look at are a stack, and those downstream of a role are pushed *)
(* in the order of a HashMap; a role is looked at once.                    *)
CascadeStep(st) ==
    LET x    == Last(st.todo)
        rest == Front(st.todo)
        down == IF x \in st.seen \cup st.acl.options THEN {}
                ELSE {y[1] : y \in {z \in st.acl.from : z[3] = x[1] /\ z[2] = x[2]}}
    IN  IF st.todo = <<>> THEN {st}
        ELSE {[acl |-> revoke_from(st.acl, down, {x[2]}, x[1]), seen |-> st.seen \cup {x}, todo |-> rest \o q] :
                q \in {[i \in DOMAIN o |-> <<o[i], x[2]>>] : o \in SetToSeqs(down)}}

(* The outcomes of a revoke.                                               *)
revoke_from_cascade(acl, role, privs, grantor, cascade) ==
    LET first == revoke_from(acl, {role}, privs, grantor)
        todo  == [i \in DOMAIN SetToSeq(privs) |-> <<role, SetToSeq(privs)[i]>>]
        bound == Cardinality(privs) + Cardinality(acl.from)
        run[i \in 0..bound] ==
            IF i = 0 THEN {[acl |-> first, seen |-> {}, todo |-> todo]}
            ELSE UNION {CascadeStep(st) : st \in run[i - 1]}
    IN  IF cascade THEN {st.acl : st \in run[bound]} ELSE {first}

(* GRANT OPTION FOR: the option goes with its last source, and then every  *)
(* source of the option is forgotten.                                      *)
revoke_grant_option_from(acl, role, privs, grantor) ==
    LET others(p) == \E x \in acl.optfrom : x[1] = role /\ x[2] = p /\ x[3] # grantor
    IN  [acl EXCEPT !.options = @ \ {<<role, p>> : p \in {q \in privs : ~others(q)}},
                    !.optfrom = {x \in @ : ~(x[1] = role /\ x[2] \in privs)}]

(* The relations a statement names, and the change to each, role by role.  *)
GrantedRelations(c, s) ==
    IF s.on = "tables" THEN ToSet(s.targets) ELSE {t \in Live(c.relations) : t[1] \in ToSet(s.targets)}

ChangedAcls(c, s, acl) ==
    LET privs == resolve_grant_privileges(c, s)
        g     == grantor_identity(c, s)
        one(a, r) == CASE s.do = "grant" -> {grant_from(a, r, privs, g, s.option)}
                       [] s.do = "revoke" /\ s.option -> {revoke_grant_option_from(a, r, privs, g)}
                       [] OTHER -> revoke_from_cascade(a, r, privs, g, s.cascade)
        after[i \in 0..Len(s.to)] == IF i = 0 THEN {acl} ELSE UNION {one(a, s.to[i]) : a \in after[i - 1]}
    IN  after[Len(s.to)]

(* A privilege without a recorded source cannot be revoked exactly.        *)
ProvenanceUnknown(c, s, id) ==
    LET acl  == Rel(c, id).acl
        held == IF s.option THEN acl.options ELSE acl.grants
        src  == IF s.option THEN acl.optfrom ELSE acl.from
    IN  \E x \in held : /\ x[1] \in ToSet(s.to) /\ x[2] \in resolve_grant_privileges(c, s)
                        /\ ~\E y \in src : y[1] = x[1] /\ y[2] = x[2]

PrivilegeVerdict(c, s) ==
    GrantHeader(c, s) ?? Reject(s.by \notin {"", c.me})
    ?? (IF s.on = "tables" THEN Reject(\E id \in ToSet(s.targets) : ~AuthorizeRelation(c, s, id)) ELSE "ok")

(* acls gives the outcome for each relation.                               *)
PrivilegeEffect(w, s, acls) ==
    LET ids == GrantedRelations(w.c, s)
        x   == Snap(TaintIf(w, \/ s.option \/ s.on = "schemas"
                               \/ \E r \in ToSet(s.to) : r # "public" /\ role_lookup(w.c, r) = "unknown"
                               \/ ~Present(w.c.roles, grantor_identity(w.c, s))
                               \/ s.do = "revoke" /\ \E id \in ids : ProvenanceUnknown(w.c, s, id)),
                    "relations", ids)
    IN  Set(x, "relations", Over([t \in ids |-> [Rel(x.c, t) EXCEPT !.acl = acls[t]]], x.c.relations))

ChangePrivileges ==
    \E s \in Grants("grant", {"tables", "schemas"}) \cup Grants("revoke", {"tables", "schemas"}) :
        LET v   == PrivilegeVerdict(cat, s)
            ids == IF v = "ok" THEN GrantedRelations(cat, s) ELSE {}
            may(t) == ChangedAcls(cat, s, Rel(cat, t).acl)
        IN  \E acls \in {f \in [ids -> UNION {may(t) : t \in ids}] : \A t \in ids : f[t] \in may(t)} :
                Settle(v, PrivilegeEffect(Work, s, acls))

------------------------------------------------------------------------------
(* Memberships.                                                             *)

RecordsOf(c, m, r, g) == {x \in c.grantors : x.member = m /\ x.role = r /\ x.grantor = g}
SnapGrantors(w) == SnapWhole(w, {"grantors", "gcomplete"})

(* Whether another record gives the member ADMIN on the role.              *)
membership_admin_from_other_record(c, x) ==
    \E y \in c.grantors \ {x} : y.member = x.member /\ y.role = x.role /\ y.admin

(* The sets of some roles, from the records.                               *)
reconcile_membership_projection(w, members) ==
    LET mine(m) == {x \in w.c.grantors : x.member = m}
        hit == {m \in members : Present(w.c.roles, m)}
        role(m) == [w.c.roles[m] EXCEPT
                        !.member  = {x.role : x \in mine(m)},
                        !.admin   = {x.role : x \in {y \in mine(m) : y.admin}},
                        !.inherit = {x.role : x \in {y \in mine(m) : y.inherit}},
                        !.set     = {x.role : x \in {y \in mine(m) : y.set}}]
    IN  IF ~w.c.gcomplete THEN w
        ELSE [Snap(w, "roles", hit) EXCEPT !.c.roles = Over([m \in hit |-> role(m)], @)]

(* A mutant: only a membership in both directions at once is a cycle.      *)
MembershipLoop(c, s) == \E m \in ToSet(s.to) : m \in ToSet(s.targets)

(* The whole batch is checked against the memberships it would make.       *)
MembershipCycle(c, s) ==
    LET new(r) == IF r \in ToSet(s.to) THEN ToSet(s.targets) ELSE {}
        up(S) == UNION {(IF Present(c.roles, r) THEN c.roles[r].member ELSE {}) \cup new(r) : r \in S}
    IN  \E m \in ToSet(s.to) : m \in Reach(ToSet(s.targets), up, Cardinality(DOMAIN c.roles))

GrantRoleVerdict(c, s) ==
    GrantHeader(c, s) ?? Reject(~c.pg16 /\ (s.inherit # <<>> \/ s.set # <<>> \/ s.admin = <<FALSE>>))
    ?? MembershipAuthority(c, s)
    ?? Doubt(s.option /\ s.admin = <<>> /\ s.inherit = <<>> /\ s.set = <<>>)
    ?? Doubt("public" \in ToSet(s.to)) ?? Reject(MembershipCycle(c, s))

(* One record for each member, role and grantor; an option that is not     *)
(* written keeps its value, and a new record inherits as the member does.  *)
GrantedRecord(c, s, m, r, g) ==
    LET old == RecordsOf(c, m, r, g)
        was == CHOOSE x \in old : TRUE
        inherits == IF Present(c.roles, m) /\ c.pg16 THEN c.roles[m].inherits ELSE TRUE
    IN  IF old = {}
        THEN [member |-> m, role |-> r, grantor |-> g, admin |-> OptionOr(s.admin, FALSE),
              inherit |-> OptionOr(s.inherit, inherits), set |-> OptionOr(s.set, TRUE)]
        ELSE [was EXCEPT !.admin = OptionOr(s.admin, @), !.inherit = IF c.pg16 THEN OptionOr(s.inherit, @) ELSE @,
                         !.set = OptionOr(s.set, @)]

(* Without a record for every membership the sets of the role are changed  *)
(* themselves, and at most one record is kept for a membership.            *)
LegacyRole(c, role, parents, s) ==
    LET turn(S, option, default) ==
            LET on(r) == OptionOr(option, IF r \in role.member THEN r \in S ELSE default)
            IN  {r \in S \cup parents : IF r \in parents THEN on(r) ELSE TRUE}
    IN  [role EXCEPT !.member = @ \cup parents, !.admin = turn(@, s.admin, FALSE), !.set = turn(@, s.set, TRUE),
                     !.inherit = turn(@, IF c.pg16 THEN s.inherit ELSE <<>>, IF c.pg16 THEN role.inherits ELSE TRUE)]

LegacyRecords(c, s, g) ==
    LET new == {k \in ToSet(s.to) \X ToSet(s.targets) :
                  ~(/\ Present(c.roles, k[1]) /\ k[2] \in c.roles[k[1]].member
                    /\ \E x \in c.grantors : x.member = k[1] /\ x.role = k[2])}
        made(k) == [member |-> k[1], role |-> k[2], grantor |-> g, admin |-> OptionOr(s.admin, FALSE),
                    inherit |-> ~c.pg16 \/ OptionOr(s.inherit, TRUE), set |-> OptionOr(s.set, TRUE)]
    IN  {x \in c.grantors : <<x.member, x.role>> \notin new} \cup {made(k) : k \in new}

GrantRoleEffect(w, s) ==
    LET g       == role_membership_grantor(w.c, s)
        pairs   == ToSet(s.to) \X ToSet(s.targets)
        x       == SnapGrantors(TaintIf(w, s.option \/ MembershipDoubt(w.c, s)))
        old     == UNION {RecordsOf(w.c, k[1], k[2], g) : k \in pairs}
        recs    == (w.c.grantors \ old) \cup {GrantedRecord(w.c, s, k[1], k[2], g) : k \in pairs}
        members == {m \in ToSet(s.to) : Present(w.c.roles, m)}
        legacy(y) == [Snap(y, "roles", members) EXCEPT
                        !.c.roles = Over([m \in members |-> LegacyRole(w.c, w.c.roles[m], ToSet(s.targets), s)], @)]
    IN  CASE g # "" /\ w.c.gcomplete ->
                reconcile_membership_projection([x EXCEPT !.c.grantors = recs], ToSet(s.to))
          [] g # "" -> legacy([x EXCEPT !.c.grantors = LegacyRecords(w.c, s, g)])
          [] OTHER  -> legacy([x EXCEPT !.c.gcomplete = FALSE])

GrantRole == \E s \in Grants("grant", {"roles"}) : Settle(GrantRoleVerdict(cat, s), GrantRoleEffect(Work, s))

------------------------------------------------------------------------------
(* REVOKE: the option named, or the membership.                             *)

RevokeRoleVerdict(c, s) ==
    GrantHeader(c, s) ?? Reject(~c.pg16 /\ (s.inherit # <<>> \/ s.set # <<>>)) ?? MembershipAuthority(c, s)
    ?? Doubt(<<TRUE>> \in {s.admin, s.inherit, s.set}) ?? Doubt("public" \in ToSet(s.to))

RevokesMembership(s) == s.admin = <<>> /\ s.inherit = <<>> /\ s.set = <<>>

(* cascade_memberships_granted_by: the records of a grantor whose member   *)
(* has no ADMIN on the role from another record go, and those of the       *)
(* members that lose ADMIN with them.                                      *)
cascade_memberships_granted_by(w, grantors) ==
    LET c == w.c
        goes(S) == {x \in c.grantors : x.grantor \in S /\ ~membership_admin_from_other_record(c, x)}
        lose(S) == {x.member : x \in {y \in goes(S) : y.admin}}
        gone == goes(Reach(grantors, lose, Cardinality(c.grantors)))
        x == [SnapGrantors(w) EXCEPT !.c.grantors = @ \ gone]
    IN  IF gone = {} THEN w
        ELSE reconcile_membership_projection(x, {r.member : r \in gone})

RevokeRecords(w, s, g) ==
    LET hit == {x \in w.c.grantors : /\ x.grantor = g /\ x.member \in ToSet(s.to) /\ x.role \in ToSet(s.targets)
                                     /\ s.admin = <<FALSE>> => x.admin}
        after(x) == IF RevokesMembership(s) THEN {}
                    ELSE {[x EXCEPT !.admin = OptionOr(s.admin, @), !.inherit = OptionOr(s.inherit, @), !.set = OptionOr(s.set, @)]}
        lost == {x.member : x \in {y \in hit : /\ y.admin /\ ~membership_admin_from_other_record(w.c, y)
                                               /\ RevokesMembership(s) \/ s.admin = <<FALSE>>}}
        x == [SnapGrantors(w) EXCEPT !.c.grantors = (@ \ hit) \cup UNION {after(y) : y \in hit}]
        z == reconcile_membership_projection(x, {y.member : y \in hit})
    IN  IF hit = {} THEN w
        ELSE IF s.cascade THEN cascade_memberships_granted_by(z, lost) ELSE z

(* cascade_role_memberships: the same over the sets of the roles.          *)
WithoutMemberships(role, parents) ==
    [role EXCEPT !.member = @ \ parents, !.admin = @ \ parents, !.inherit = @ \ parents, !.set = @ \ parents]

cascade_role_memberships(w, grantors) ==
    LET c == w.c
        goes(S) == {x \in c.grantors : x.grantor \in S /\ Present(c.roles, x.member) /\ x.role \in c.roles[x.member].member}
        gone == goes(Reach(grantors, LAMBDA S : {x.member : x \in goes(S)}, Cardinality(c.grantors)))
        edges == {<<x.member, x.role>> : x \in gone}
        hit == {k[1] : k \in edges}
        x == [SnapGrantors(w) EXCEPT !.c.grantors = {y \in @ : <<y.member, y.role>> \notin edges}]
    IN  IF gone = {} THEN w
        ELSE [Snap(x, "roles", hit) EXCEPT
                !.c.roles = Over([m \in hit |-> WithoutMemberships(c.roles[m], {k[2] : k \in {j \in edges : j[1] = m}})], @)]

RevokeLegacy(w, s) ==
    LET parents == ToSet(s.targets)
        members == {m \in ToSet(s.to) : Present(w.c.roles, m)}
        listed(y) == y.member \in members /\ y.role \in parents
        x == IF (s.cascade \/ RevokesMembership(s))
                /\ \E y \in w.c.grantors : y.member \in ToSet(s.to) /\ y.role \in parents
             THEN SnapGrantors(w) ELSE w
        without(role) ==
            IF RevokesMembership(s) THEN WithoutMemberships(role, parents)
            ELSE [role EXCEPT !.admin   = IF s.admin # <<>> THEN @ \ parents ELSE @,
                              !.inherit = IF s.inherit # <<>> THEN @ \ parents ELSE @,
                              !.set     = IF s.set # <<>> THEN @ \ parents ELSE @]
        y == [Snap(x, "roles", ToSet(s.to)) EXCEPT
                !.c.roles = Over([m \in members |-> without(w.c.roles[m])], @),
                !.c.grantors = IF RevokesMembership(s) THEN {r \in @ : ~listed(r)} ELSE @]
    IN  IF s.cascade /\ (RevokesMembership(s) \/ s.admin # <<>>)
        THEN cascade_role_memberships(y, ToSet(s.to)) ELSE y

RevokeRoleEffect(w, s) ==
    LET g == role_membership_grantor(w.c, s)
        x == TaintIf(w, s.option \/ MembershipDoubt(w.c, s) \/ (s.cascade /\ ~w.c.gcomplete))
    IN  IF g # "" /\ w.c.gcomplete THEN RevokeRecords(x, s, g) ELSE RevokeLegacy(x, s)

RevokeRole == \E s \in Grants("revoke", {"roles"}) : Settle(RevokeRoleVerdict(cat, s), RevokeRoleEffect(Work, s))
==============================================================================
