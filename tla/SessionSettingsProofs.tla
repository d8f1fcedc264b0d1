----------------------- MODULE SessionSettingsProofs -----------------------
(***************************************************************************)
(* Proofs about the session: for every set of schemas, roles, settings and *)
(* written search paths, and any nesting of frames.                        *)
(***************************************************************************)
EXTENDS SessionSettings, WellFoundedInduction, TLAPS

(* Undoing: the oldest entry has the last word, and there is one. *)

LEMMA LeastElement ==
    ASSUME NEW T, T \subseteq Nat, T # {}
    PROVE  \E m \in T : \A k \in T : m <= k
<1>1. PICK m \in T : \A k \in T : <<k, m>> \notin OpToRel(<, Nat)
  BY WFMin, NatLessThanWellFounded, Zenon
<1>2. \A k \in T : k \in Nat /\ m \in Nat /\ ~(k < m)
  BY <1>1 DEF OpToRel
<1>3. QED
  BY <1>2

LEMMA OldestExists ==
    ASSUME NEW log, Len(log) \in Nat, NEW start \in Nat, NEW f,
           NEW i \in (start + 1)..Len(log), f \in DOMAIN log[i]
    PROVE  \E j \in 1..Len(log) : Oldest(log, start, f, j)
<1> DEFINE T == {j \in (start + 1)..Len(log) : f \in DOMAIN log[j]}
<1>1. T \subseteq Nat /\ T # {}
  OBVIOUS
<1> HIDE DEF T
<1>2. PICK m \in T : \A k \in T : m <= k
  BY <1>1, LeastElement
<1> USE DEF T
<1>3. m \in 1..Len(log)
  OBVIOUS
<1>4. ASSUME NEW k \in (start + 1)..(m - 1), f \in DOMAIN log[k] PROVE FALSE
  <2>1. k \in T /\ ~(m <= k)
    BY <1>4
  <2>2. QED
    BY <1>2, <2>1
<1>5. QED
  BY <1>3, <1>4 DEF Oldest

LEMMA UndoneField ==
    ASSUME NEW log, Len(log) \in Nat, NEW start \in Nat, NEW s, NEW f \in Fields
    PROVE  /\ \A j \in 1..Len(log) : Oldest(log, start, f, j) =>
                  Undone(log, start, s)[f] = log[j][f]
           /\ (\A j \in (start + 1)..Len(log) : f \notin DOMAIN log[j]) =>
                  Undone(log, start, s)[f] = s[f]
<1>1. ASSUME NEW j \in 1..Len(log), Oldest(log, start, f, j)
      PROVE  Undone(log, start, s)[f] = log[j][f]
  <2> DEFINE i == CHOOSE k \in 1..Len(log) : Oldest(log, start, f, k)
  <2>1. i \in 1..Len(log) /\ Oldest(log, start, f, i)
    BY <1>1
  <2> HIDE DEF i
  <2>2. i = j
    BY <1>1, <2>1 DEF Oldest
  <2>3. Undone(log, start, s)[f] = log[i][f]
    BY <1>1 DEF Undone, i
  <2>4. QED
    BY <2>2, <2>3
<1>2. ASSUME \A j \in (start + 1)..Len(log) : f \notin DOMAIN log[j]
      PROVE  Undone(log, start, s)[f] = s[f]
  <2>1. \A j \in 1..Len(log) : ~Oldest(log, start, f, j)
    BY <1>2 DEF Oldest
  <2>2. QED
    BY <2>1 DEF Undone
<1>3. QED
  BY <1>1, <1>2

(* An entry that the handler adds holds the field as it was, so undoing still
   ends where it did; a field that no new entry holds is as it is now. *)
LEMMA UndoneAdded ==
    ASSUME NEW S, NEW log \in Seq(S), NEW add \in Seq(S), NEW start \in 0..Len(log),
           NEW s, NEW t, NEW f \in Fields,
           \A i \in 1..Len(add) : f \in DOMAIN add[i] => add[i][f] = s[f]
    PROVE  \/ Undone(log \o add, start, t)[f] = Undone(log, start, s)[f]
           \/ /\ \A i \in 1..Len(add) : f \notin DOMAIN add[i]
              /\ Undone(log \o add, start, t)[f] = t[f] /\ Undone(log, start, s)[f] = s[f]
<1> DEFINE all == log \o add
<1>1. /\ Len(log) \in Nat /\ Len(add) \in Nat /\ start \in Nat /\ Len(all) = Len(log) + Len(add)
      /\ \A i \in 1..Len(log) : all[i] = log[i]
      /\ \A i \in 1..Len(add) : all[Len(log) + i] = add[i]
      /\ \A i \in (Len(log) + 1)..(Len(log) + Len(add)) : all[i] = add[i - Len(log)]
  OBVIOUS
<1> HIDE DEF all
<1>0. Len(all) \in Nat /\ Len(log) \in Nat /\ start \in Nat
  BY <1>1
<1>2. CASE \E i \in (start + 1)..Len(log) : f \in DOMAIN log[i]
  <2>1. PICK j \in 1..Len(log) : Oldest(log, start, f, j)
    BY <1>1, <1>2, OldestExists
  <2>2. j \in 1..Len(all) /\ Oldest(all, start, f, j) /\ all[j] = log[j]
    BY <1>1, <2>1 DEF Oldest
  <2>3. Undone(all, start, t)[f] = all[j][f]
    BY <1>0, <2>2, UndoneField
  <2>4. Undone(log, start, s)[f] = log[j][f]
    BY <1>0, <2>1, UndoneField
  <2>5. QED
    BY <2>2, <2>3, <2>4 DEF all
<1>3. CASE ~\E i \in (start + 1)..Len(log) : f \in DOMAIN log[i]
  <2>1. Undone(log, start, s)[f] = s[f]
    BY <1>1, <1>3, UndoneField
  <2>2. CASE \E i \in 1..Len(add) : f \in DOMAIN add[i]
    <3>1. \E i \in (start + 1)..Len(all) : f \in DOMAIN all[i]
      <4>1. PICK i \in 1..Len(add) : f \in DOMAIN add[i]
        BY <2>2
      <4>2. Len(log) + i \in (start + 1)..Len(all) /\ f \in DOMAIN all[Len(log) + i]
        BY <1>1, <4>1
      <4>3. QED
        BY <4>2
    <3>2. PICK j \in 1..Len(all) : Oldest(all, start, f, j)
      BY <1>0, <1>1, <3>1, OldestExists
    <3>3. j \in (Len(log) + 1)..(Len(log) + Len(add))
      BY <1>1, <1>3, <3>2 DEF Oldest
    <3>4. j - Len(log) \in 1..Len(add) /\ all[j] = add[j - Len(log)] /\ f \in DOMAIN all[j]
      BY <1>1, <3>2, <3>3 DEF Oldest
    <3>5. all[j][f] = s[f]
      BY <3>4
    <3>6. Undone(all, start, t)[f] = all[j][f]
      BY <1>0, <3>2, UndoneField
    <3>7. QED
      BY <2>1, <3>5, <3>6 DEF all
  <2>3. CASE ~\E i \in 1..Len(add) : f \in DOMAIN add[i]
    <3>1. ASSUME NEW i \in (start + 1)..Len(all) PROVE f \notin DOMAIN all[i]
      <4>1. CASE i <= Len(log)
        BY <1>1, <1>3, <4>1
      <4>2. CASE ~(i <= Len(log))
        <5>1. i - Len(log) \in 1..Len(add) /\ all[i] = add[i - Len(log)]
          BY <1>1, <4>2
        <5>2. QED
          BY <2>3, <5>1
      <4>3. QED
        BY <4>1, <4>2
    <3>2. Undone(all, start, t)[f] = t[f]
      BY <1>0, <3>1, UndoneField
    <3>3. QED
      BY <2>1, <2>3, <3>2 DEF all
  <2>4. QED
    BY <2>2, <2>3
<1>4. QED
  BY <1>2, <1>3

(* Undoing the newer part of a log and then the older part is undoing both. *)
LEMMA UndoneInParts ==
    ASSUME NEW S, NEW log \in Seq(S), NEW mid \in 0..Len(log), NEW start \in 0..mid,
           NEW s, NEW f \in Fields
    PROVE  Undone(SubSeq(log, 1, mid), start, Undone(log, mid, s))[f] = Undone(log, start, s)[f]
<1> DEFINE low == SubSeq(log, 1, mid)
           u == Undone(log, mid, s)
<1>1. /\ Len(log) \in Nat /\ mid \in Nat /\ start \in Nat /\ Len(low) = mid
      /\ \A i \in 1..mid : low[i] = log[i]
  OBVIOUS
<1> HIDE DEF low, u
<1>2. CASE \E i \in (start + 1)..mid : f \in DOMAIN log[i]
  <2>1. \E i \in (start + 1)..Len(low) : f \in DOMAIN low[i]
    BY <1>1, <1>2
  <2>2. PICK j \in 1..Len(low) : Oldest(low, start, f, j)
    BY <1>1, <2>1, OldestExists
  <2>3. j \in 1..Len(log) /\ Oldest(log, start, f, j) /\ low[j] = log[j]
    BY <1>1, <2>2 DEF Oldest
  <2>4. Undone(low, start, u)[f] = low[j][f]
    BY <1>1, <2>2, UndoneField
  <2>5. Undone(log, start, s)[f] = log[j][f]
    BY <1>1, <2>3, UndoneField
  <2>6. QED
    BY <2>3, <2>4, <2>5 DEF low, u
<1>3. CASE ~\E i \in (start + 1)..mid : f \in DOMAIN log[i]
  <2>1. Undone(low, start, u)[f] = u[f]
    BY <1>1, <1>3, UndoneField
  <2>2. u[f] = Undone(log, start, s)[f]
    <3>1. CASE \E i \in (mid + 1)..Len(log) : f \in DOMAIN log[i]
      <4>1. PICK j \in 1..Len(log) : Oldest(log, mid, f, j)
        BY <1>1, <3>1, OldestExists
      <4>2. ASSUME NEW k \in (start + 1)..(j - 1) PROVE f \notin DOMAIN log[k]
        <5>1. CASE k <= mid
          BY <1>1, <1>3, <5>1
        <5>2. CASE ~(k <= mid)
          BY <1>1, <4>1, <5>2 DEF Oldest
        <5>3. QED
          BY <5>1, <5>2
      <4>3. Oldest(log, start, f, j)
        BY <1>1, <4>1, <4>2 DEF Oldest
      <4>4. QED
        BY <1>1, <4>1, <4>3, UndoneField DEF u
    <3>2. CASE ~\E i \in (mid + 1)..Len(log) : f \in DOMAIN log[i]
      <4>1. ASSUME NEW k \in (start + 1)..Len(log) PROVE f \notin DOMAIN log[k]
        <5>1. CASE k <= mid
          BY <1>1, <1>3, <5>1
        <5>2. CASE ~(k <= mid)
          BY <1>1, <3>2, <5>2
        <5>3. QED
          BY <5>1, <5>2
      <4>2. Undone(log, start, s)[f] = s[f] /\ u[f] = s[f]
        BY <1>1, <3>2, <4>1, UndoneField DEF u
      <4>3. QED
        BY <4>2
    <3>3. QED
      BY <3>1, <3>2
  <2>3. QED
    BY <2>1, <2>2 DEF low, u
<1>4. QED
  BY <1>2, <1>3
-----------------------------------------------------------------------------
(* The search path *)

LEMMA FieldsFacts ==
    /\ RoleContext \subseteq Fields /\ TimeoutSettings \subseteq Fields /\ SearchPath \subseteq Fields
    /\ Templates \subseteq SearchPath
    /\ Schemas \subseteq Fields /\ Temps \subseteq Fields
    /\ {"baseline_schemas", "saw_temp_object", "not_at_sync"} \subseteq Fields
    /\ \A n \in Schemas \cup Temps :
           n \notin RoleContext \cup SearchPath \cup TimeoutSettings
                        \cup {"baseline_schemas", "saw_temp_object", "not_at_sync"}
    /\ \A n \in Temps : n \notin Schemas
BY FieldsAssumption DEF Fields, RoleContext, TimeoutSettings, SearchPath, Namespace, Templates

(* What the path depends on but the temporary namespace. *)
PathSources ==
    Schemas \cup {"current_role", "search_path_template", "baseline_schemas", "not_at_sync"}

LEMMA SameEntry ==
    ASSUME scene \in Scenes, NEW s, NEW r, IsSession(s), \A f \in PathSources : s[f] = r[f],
           NEW n \in Schemas \cup {"$user", "pg_temp"}
    PROVE  \/ Entry(s, n) = Entry(r, n)
           \/ {Entry(s, n), Entry(r, n)} \subseteq {Nothing, Searched("pg_temp")}
<1>1. ASSUME NEW m \in Schemas \cup {"pg_temp"}
      PROVE  \/ PathEntry(s, m) = PathEntry(r, m)
             \/ {PathEntry(s, m), PathEntry(r, m)} \subseteq {Nothing, Searched("pg_temp")}
  <2>1. CASE m = "pg_temp"
    BY <2>1 DEF PathEntry
  <2>2. CASE m # "pg_temp"
    BY <2>2 DEF PathEntry, KnownAbsent, PathSources
  <2>3. QED
    BY <2>1, <2>2
<1>2. s["current_role"] = r["current_role"]
      /\ (s["current_role"] = UnknownRole \/ s["current_role"] \in Schemas)
  BY ScenesAssumption DEF SceneOK, IsSession, RoleContext, PathSources
<1>3. CASE n = "$user" /\ s["current_role"] = UnknownRole
  BY <1>2, <1>3 DEF Entry
<1>4. CASE n = "$user" /\ s["current_role"] \in Schemas /\ s["current_role"] # UnknownRole
  BY <1>1, <1>2, <1>4 DEF Entry
<1>5. CASE n # "$user"
  BY <1>1, <1>5 DEF Entry
<1>6. QED
  BY <1>2, <1>3, <1>4, <1>5

(* The temporary namespace aside, the path is a function of its sources. *)
LEMMA SamePath ==
    ASSUME scene \in Scenes, NEW s, NEW r, IsSession(s), \A f \in PathSources : s[f] = r[f]
    PROVE  WithoutTemp(EffectivePath(s)) = WithoutTemp(EffectivePath(r))
<1> DEFINE written == s["search_path_template"]
           V == {Nothing, Searched("pg_temp")}
           es(i) == Entry(s, written[i])
           er(i) == Entry(r, written[i])
           ps == [i \in DOMAIN written |->
                     IF \E j \in 1..(i - 1) : es(j) = es(i) THEN Nothing ELSE es(i)]
           pr == [i \in DOMAIN written |->
                     IF \E j \in 1..(i - 1) : er(j) = er(i) THEN Nothing ELSE er(i)]
<1>1. written = r["search_path_template"]
      /\ written \in Seq(Schemas \cup {"$user", "pg_temp"})
  BY ScenesAssumption DEF SceneOK, IsSession, Templates, PathSources
<1>2. EffectivePath(s) = ps /\ EffectivePath(r) = pr
  BY <1>1 DEF EffectivePath
<1>3. DOMAIN written = 1..Len(written) /\ Len(written) \in Nat
      /\ \A i \in 1..Len(written) : written[i] \in Schemas \cup {"$user", "pg_temp"}
  BY <1>1
<1>4. \A i \in 1..Len(written) : es(i) = er(i) \/ {es(i), er(i)} \subseteq V
  BY <1>3, SameEntry
<1>5. Nothing # Searched("pg_temp") /\ Nothing.name # "pg_temp" /\ Searched("pg_temp").name = "pg_temp"
  BY DEF Nothing, Searched
<1> HIDE DEF es, er, written
<1>6. ASSUME NEW i \in 1..Len(written)
      PROVE  (IF ps[i].name = "pg_temp" THEN Nothing ELSE ps[i])
               = (IF pr[i].name = "pg_temp" THEN Nothing ELSE pr[i])
  <2>1. ps[i] = (IF \E j \in 1..(i - 1) : es(j) = es(i) THEN Nothing ELSE es(i))
        /\ pr[i] = (IF \E j \in 1..(i - 1) : er(j) = er(i) THEN Nothing ELSE er(i))
    BY <1>3
  <2> HIDE DEF ps, pr
  <2>2. CASE {es(i), er(i)} \subseteq V
    BY <1>5, <2>1, <2>2
  <2>3. CASE es(i) = er(i) /\ es(i) \notin V
    <3>1. ASSUME NEW j \in 1..(i - 1) PROVE es(j) = es(i) <=> er(j) = er(i)
      <4>1. j \in 1..Len(written)
        BY <1>3
      <4>2. QED
        BY <1>4, <2>3, <4>1
    <3>2. QED
      BY <2>1, <2>3, <3>1
  <2>4. QED
    BY <1>4, <2>2, <2>3
<1>7. DOMAIN ps = 1..Len(written) /\ DOMAIN pr = 1..Len(written)
  BY <1>3
<1> HIDE DEF ps, pr
<1>8. WithoutTemp(ps) = WithoutTemp(pr)
  BY <1>6, <1>7 DEF WithoutTemp
<1>9. QED
  BY <1>2, <1>8

(* Equal but for the temporary namespace. *)
Alike(s, r) ==
    /\ \A f \in Fields \ {"saw_temp_object", "search_path"} : s[f] = r[f]
    /\ WithoutTemp(s["search_path"]) = WithoutTemp(r["search_path"])

LEMMA AlikeRestorable ==
    ASSUME NEW s, NEW r
    PROVE  Alike(s, r) <=> Restorable(s) = Restorable(r)
<1>0. "search_path" \in Fields \ {"saw_temp_object"}
  BY FieldsFacts DEF SearchPath
<1>1. ASSUME Alike(s, r) PROVE Restorable(s) = Restorable(r)
  BY <1>1 DEF Alike, Restorable
<1>2. ASSUME Restorable(s) = Restorable(r) PROVE Alike(s, r)
  <2>1. \A f \in Fields \ {"saw_temp_object"} : Restorable(s)[f] = Restorable(r)[f]
    BY <1>2
  <2>2. \A q : \A f \in Fields \ {"saw_temp_object"} :
            Restorable(q)[f] = IF f = "search_path" THEN WithoutTemp(q[f]) ELSE q[f]
    BY DEF Restorable
  <2>3. QED
    BY <1>0, <2>1, <2>2 DEF Alike
<1>3. QED
  BY <1>1, <1>2

LEMMA AlikeFresh ==
    ASSUME scene \in Scenes, NEW s, NEW r, IsSession(s), Alike(s, r), Fresh(r)
    PROVE  Fresh(s)
<1>1. \A f \in PathSources : s[f] = r[f]
  BY FieldsFacts DEF Alike, PathSources, RoleContext, SearchPath
<1>2. QED
  BY <1>1, SamePath DEF Fresh, Alike

LEMMA RefreshedFacts ==
    ASSUME scene \in Scenes, NEW s, IsSession(s)
    PROVE  /\ IsSession(Refreshed(s)) /\ Fresh(Refreshed(s))
           /\ \A f \in Fields : f # "search_path" => Refreshed(s)[f] = s[f]
           /\ Refreshed(s)["search_path"] = EffectivePath(s)
<1>1. "search_path" \in Fields /\ "search_path" \notin RoleContext \cup Templates \cup TimeoutSettings
  BY FieldsFacts DEF RoleContext, Templates, TimeoutSettings, SearchPath
<1>2. s = [f \in Fields |-> s[f]]
  BY DEF IsSession
<1> DEFINE q == Refreshed(s)
<1>3. /\ q = [f \in Fields |-> q[f]]
      /\ \A f \in Fields : f # "search_path" => q[f] = s[f]
      /\ q["search_path"] = EffectivePath(s)
  BY <1>1, <1>2 DEF Refreshed
<1> HIDE DEF q
<1>4. IsSession(q)
  BY <1>1, <1>3, FieldsFacts DEF IsSession
<1>5. \A f \in PathSources : q[f] = s[f]
  BY <1>3, FieldsFacts DEF PathSources, RoleContext, SearchPath
<1>6. Fresh(q)
  <2>1. WithoutTemp(EffectivePath(q)) = WithoutTemp(EffectivePath(s))
    BY <1>4, <1>5, SamePath
  <2>2. QED
    BY <1>3, <2>1 DEF Fresh
<1>7. QED
  BY <1>3, <1>4, <1>6 DEF q
-----------------------------------------------------------------------------
(* The invariant, action by action *)

LEMMA ListIsSeq ==
    ASSUME NEW S, NEW l, IsList(l), \A i \in 1..Len(l) : l[i] \in S
    PROVE  l \in Seq(S)
<1>1. Len(l) \in Nat /\ l = [i \in 1..Len(l) |-> l[i]]
  BY DEF IsList
<1>2. [i \in 1..Len(l) |-> l[i]] \in Seq(S)
  BY <1>1
<1>3. QED
  BY <1>1, <1>2

LEMMA SeqIsList ==
    ASSUME NEW S, NEW l \in Seq(S)
    PROVE  IsList(l)
BY DEF IsList

LEMMA StartIsNat ==
    ASSUME TypeOK, NEW i \in 1..Len(transactions)
    PROVE  transactions[i].start \in Nat /\ transactions # <<>>
<1> DEFINE F == [name : Savepoints \cup {"root"}, start : Nat]
<1>1. transactions \in Seq(F)
  BY DEF TypeOK
<1> HIDE DEF F
<1>2. transactions[i] \in F /\ transactions # <<>>
  <2>1. transactions[i] \in F
    BY <1>1
  <2>2. transactions # <<>>
    BY <1>1
  <2>3. QED
    BY <2>1, <2>2
<1>3. QED
  BY <1>2 DEF F

(* The invariant of the next state, in terms of the scene that stays. *)
LEMMA InvPrimed ==
    ASSUME SessionInv, UNCHANGED <<scene, defaults>>,
           transactions' \in Seq([name : Savepoints \cup {"root"}, start : Nat]),
           IsList(undo_log'), IsList(base'), Len(base') = Len(transactions'),
           FramesInv', RollbackRestoresSession',
           IsSession(session'), IsSession(lasting'), Lasts(session', lasting'),
           \A i \in 1..Len(base') : /\ IsSession(base'[i].session) /\ IsSession(base'[i].lasting)
                                    /\ Lasts(base'[i].session, base'[i].lasting),
           Settled(IF transactions' = <<>> THEN session' ELSE base'[1].session)
    PROVE  SessionInv'
<1>1. TypeOK'
  BY DEF SessionInv, TypeOK, IsSession, IsList
<1>2. LocalInv'
  BY DEF LocalInv
<1>3. QED
  BY <1>1, <1>2 DEF SessionInv

(* A statement: what it changes it has saved. *)
LEMMA AppliedInv ==
    ASSUME SessionInv, UNCHANGED <<scene, defaults, transactions, base>>,
           NEW snapshots \in Seq(SUBSET Fields), undo_log' = Logged(snapshots),
           IsSession(session'), IsSession(lasting'), Lasts(session', lasting'),
           transactions = <<>> => Settled(session'),
           \A f \in Fields \ {"saw_temp_object", "search_path"} :
               (\A i \in 1..Len(snapshots) : f \notin snapshots[i]) => session'[f] = session[f],
           (\A i \in 1..Len(snapshots) : "search_path" \notin snapshots[i]) =>
               WithoutTemp(session'["search_path"]) = WithoutTemp(session["search_path"])
    PROVE  SessionInv'
<1> DEFINE add == [i \in 1..Len(snapshots) |-> Saved(snapshots[i])]
           S == {undo_log[i] : i \in 1..Len(undo_log)} \cup {add[i] : i \in 1..Len(add)}
<1>1. Len(snapshots) \in Nat /\ Len(add) = Len(snapshots)
      /\ \A i \in 1..Len(add) : add[i] = Saved(snapshots[i]) /\ DOMAIN add[i] = snapshots[i]
                                /\ \A f \in snapshots[i] : add[i][f] = session[f]
  BY DEF Saved
<1>2. add \in Seq(S)
  BY <1>1
<1>3. undo_log \in Seq(S) /\ Len(undo_log) \in Nat
  <2>1. IsList(undo_log) /\ \A i \in 1..Len(undo_log) : undo_log[i] \in S
    BY DEF SessionInv, TypeOK
  <2> HIDE DEF S
  <2>2. QED
    BY <2>1, ListIsSeq DEF IsList
<1> HIDE DEF S
<1>4. undo_log' = IF transactions # <<>> THEN undo_log \o add ELSE undo_log
  BY DEF Logged, InTransaction
<1> HIDE DEF add
<1>5. IsList(undo_log') /\ Len(undo_log') \in Nat /\ Len(undo_log) <= Len(undo_log')
  <2>1. undo_log' \in Seq(S) /\ Len(undo_log) <= Len(undo_log')
    BY <1>2, <1>3, <1>4
  <2>2. QED
    BY <2>1, SeqIsList
<1>6. FramesInv'
  <2>1. \A i \in 1..Len(transactions) : transactions[i].start \in Nat
    BY StartIsNat DEF SessionInv
  <2>2. QED
    BY <1>3, <1>4, <1>5, <2>1 DEF SessionInv, FramesInv
<1>7. RollbackRestoresSession'
  <2> SUFFICES ASSUME NEW i \in 1..Len(transactions)
               PROVE  Restorable(Undone(undo_log', transactions[i].start, session'))
                        = Restorable(base[i].session)
    BY DEF RollbackRestoresSession
  <2> DEFINE start == transactions[i].start
             old == Undone(undo_log, start, session)
             new == Undone(undo_log', start, session')
  <2>1. start \in 0..Len(undo_log) /\ transactions # <<>>
    <3>1. start \in Nat /\ transactions # <<>>
      BY StartIsNat DEF SessionInv
    <3>2. start <= Len(undo_log)
      BY DEF SessionInv, FramesInv
    <3>3. QED
      BY <1>3, <3>1, <3>2
  <2>2. Alike(old, base[i].session)
    BY AlikeRestorable DEF SessionInv, RollbackRestoresSession
  <2>3. ASSUME NEW f \in Fields
        PROVE  \/ new[f] = old[f]
               \/ /\ \A k \in 1..Len(snapshots) : f \notin snapshots[k]
                  /\ new[f] = session'[f] /\ old[f] = session[f]
    <3>1. \A k \in 1..Len(add) : f \in DOMAIN add[k] => add[k][f] = session[f]
      BY <1>1
    <3>2. undo_log' = undo_log \o add
      BY <1>4, <2>1
    <3> HIDE DEF start
    <3>3. \/ new[f] = old[f]
          \/ /\ \A k \in 1..Len(add) : f \notin DOMAIN add[k]
             /\ new[f] = session'[f] /\ old[f] = session[f]
      BY <1>2, <1>3, <2>1, <3>1, <3>2, UndoneAdded
    <3>4. QED
      BY <1>1, <3>3
  <2> HIDE DEF old, new
  <2>4. \A f \in Fields \ {"saw_temp_object", "search_path"} : new[f] = old[f]
    BY <2>3
  <2>5. WithoutTemp(new["search_path"]) = WithoutTemp(old["search_path"])
    <3>1. "search_path" \in Fields
      BY FieldsFacts DEF SearchPath
    <3>2. QED
      BY <2>3, <3>1
  <2>6. Alike(new, base[i].session)
    BY <2>2, <2>4, <2>5 DEF Alike
  <2>7. QED
    BY <2>6, AlikeRestorable DEF new
<1>8. QED
  <2>1. \A i \in 1..Len(base) : /\ IsSession(base[i].session) /\ IsSession(base[i].lasting)
                                /\ Lasts(base[i].session, base[i].lasting)
    BY DEF SessionInv, TypeOK, LocalInv
  <2>2. Settled(IF transactions = <<>> THEN session' ELSE base[1].session)
    BY DEF SessionInv, LocalInv
  <2>3. transactions \in Seq([name : Savepoints \cup {"root"}, start : Nat])
        /\ IsList(base) /\ Len(base) = Len(transactions)
    BY DEF SessionInv, TypeOK
  <2>4. QED
    BY <1>5, <1>6, <1>7, <2>1, <2>2, <2>3, InvPrimed

(* The same with the one or two snapshots that handlers take. *)
LEMMA StatementInv ==
    ASSUME SessionInv, UNCHANGED <<scene, defaults, transactions, base>>,
           NEW A \in SUBSET Fields, NEW B \in SUBSET Fields,
           (undo_log' = Logged(<<A>>) /\ B = {}) \/ undo_log' = Logged(<<A, B>>),
           IsSession(session'), IsSession(lasting'), Lasts(session', lasting'),
           transactions = <<>> => Settled(session'),
           \A f \in Fields \ {"saw_temp_object", "search_path"} :
               f \notin A \cup B => session'[f] = session[f],
           "search_path" \notin A \cup B =>
               WithoutTemp(session'["search_path"]) = WithoutTemp(session["search_path"])
    PROVE  SessionInv'
<1>1. ASSUME NEW snapshots \in Seq(SUBSET Fields), undo_log' = Logged(snapshots),
             \A f : (\A i \in 1..Len(snapshots) : f \notin snapshots[i]) => f \notin A \cup B
      PROVE  SessionInv'
  BY <1>1, AppliedInv
<1>2. CASE undo_log' = Logged(<<A>>) /\ B = {}
  <2>1. <<A>> \in Seq(SUBSET Fields) /\ Len(<<A>>) = 1 /\ <<A>>[1] = A
    OBVIOUS
  <2>2. QED
    BY <1>1, <1>2, <2>1
<1>3. CASE undo_log' = Logged(<<A, B>>)
  <2>1. <<A, B>> \in Seq(SUBSET Fields) /\ Len(<<A, B>>) = 2 /\ <<A, B>>[1] = A /\ <<A, B>>[2] = B
    OBVIOUS
  <2>2. 1 \in 1..2 /\ 2 \in 1..2
    OBVIOUS
  <2>3. QED
    BY <1>1, <1>3, <2>1, <2>2
<1>4. QED
  BY <1>2, <1>3

(* Handlers that refresh the path after taking a snapshot of it. *)
LEMMA RefreshedInv ==
    ASSUME SessionInv, UNCHANGED <<scene, defaults, transactions, base>>,
           NEW A \in SUBSET Fields, NEW B \in SUBSET Fields, SearchPath \subseteq A \cup B,
           (undo_log' = Logged(<<A>>) /\ B = {}) \/ undo_log' = Logged(<<A, B>>),
           NEW x, NEW y, IsSession(x), IsSession(y), session' = Refreshed(x),
           (lasting' = lasting /\ y = lasting) \/ lasting' = Refreshed(y),
           Settled(y), SameButLocal(x, y), transactions = <<>> => Settled(x),
           \A f \in Fields \ {"saw_temp_object", "search_path"} :
               f \notin A \cup B => x[f] = session[f]
    PROVE  SessionInv'
<1>0. scene \in Scenes /\ Fresh(lasting)
  BY DEF SessionInv, TypeOK, LocalInv, Lasts
<1>1. /\ IsSession(session') /\ Fresh(session')
      /\ \A f \in Fields : f # "search_path" => session'[f] = x[f]
  BY <1>0, RefreshedFacts
<1>2. /\ IsSession(lasting') /\ Fresh(lasting')
      /\ \A f \in Fields : f # "search_path" => lasting'[f] = y[f]
  <2>1. CASE lasting' = lasting /\ y = lasting
    BY <1>0, <2>1
  <2>2. CASE lasting' = Refreshed(y)
    BY <1>0, <2>2, RefreshedFacts
  <2>3. QED
    BY <2>1, <2>2
<1>3. RoleContext \cup Templates \cup TimeoutSettings \subseteq Fields \ {"search_path"}
  BY FieldsFacts DEF RoleContext, Templates, TimeoutSettings, SearchPath
<1>4. Settled(lasting') /\ (transactions = <<>> => Settled(session'))
  BY <1>1, <1>2, <1>3 DEF Settled, RoleContext, Templates
<1>5. SameButLocal(session', lasting')
  BY <1>1, <1>2, <1>3 DEF SameButLocal
<1>6. "search_path" \in A \cup B
  BY DEF SearchPath
<1>7. QED
  BY <1>1, <1>2, <1>4, <1>5, <1>6, StatementInv DEF Lasts

LEMMA FreshKept ==
    ASSUME scene \in Scenes, NEW x, NEW s, IsSession(x), Fresh(s),
           x["search_path"] = s["search_path"], \A f \in PathSources : x[f] = s[f]
    PROVE  Fresh(x)
BY SamePath DEF Fresh

(* What the actions start from. *)
LEMMA SessionFacts ==
    ASSUME SessionInv
    PROVE  /\ scene \in Scenes /\ IsSession(session) /\ IsSession(lasting)
           /\ defaults.path \in scene.templates /\ defaults.timeout \in [TimeoutSettings -> scene.timeouts]
           /\ defaults.authenticated_role \in scene.roles \cup {UnknownRole}
           /\ Fresh(session) /\ Fresh(lasting) /\ Settled(lasting) /\ SameButLocal(session, lasting)
           /\ transactions = <<>> => Settled(session)
BY DEF SessionInv, TypeOK, LocalInv, Lasts

LEMMA SetSearchPathInv ==
    ASSUME SessionInv, NEW template \in scene.templates, NEW local \in BOOLEAN,
           SetSearchPath(template, local)
    PROVE  SessionInv'
<1> DEFINE Put(s) == [s EXCEPT !["search_path_template"] = template,
                               !["session_search_path_template"] = IF local THEN @ ELSE template]
           x == Put(session)
           y == IF local THEN lasting ELSE Put(lasting)
<1>1. /\ session' = Refreshed(x)
      /\ (lasting' = lasting /\ y = lasting) \/ lasting' = Refreshed(y)
      /\ undo_log' = Logged(<<SearchPath>>) /\ (local => transactions # <<>>)
      /\ UNCHANGED <<scene, defaults, transactions, base>>
  <2>1. session' = Refreshed(x) /\ lasting' = IF local THEN lasting ELSE Refreshed(Put(lasting))
    BY DEF SetSearchPath, Applied
  <2>2. undo_log' = Logged(<<SearchPath>>) /\ (local => transactions # <<>>)
        /\ UNCHANGED <<scene, defaults, transactions, base>>
    BY DEF SetSearchPath, Applied, InTransaction
  <2> HIDE DEF Put
  <2>3. QED
    BY <2>1, <2>2
<1>2. ASSUME NEW s, IsSession(s)
      PROVE  /\ IsSession(Put(s))
             /\ Put(s)["search_path_template"] = template
             /\ Put(s)["session_search_path_template"] =
                    IF local THEN s["session_search_path_template"] ELSE template
             /\ \A f \in Fields \ Templates : Put(s)[f] = s[f]
  BY <1>2, FieldsFacts DEF IsSession, Templates, RoleContext, TimeoutSettings, SearchPath
<1> HIDE DEF Put
<1>3. IsSession(x) /\ IsSession(y)
  BY <1>2, SessionFacts
<1>4. Settled(y) /\ SameButLocal(x, y) /\ (transactions = <<>> => Settled(x))
  BY <1>1, <1>2, SessionFacts, FieldsFacts
     DEF Settled, SameButLocal, Overridable, Templates, RoleContext, TimeoutSettings
<1>5. \A f \in Fields \ {"saw_temp_object", "search_path"} :
          f \notin SearchPath \cup {} => x[f] = session[f]
  BY <1>2, SessionFacts, FieldsFacts
<1> HIDE DEF x, y
<1>6. SearchPath \in SUBSET Fields /\ {} \in SUBSET Fields /\ SearchPath \subseteq SearchPath \cup {}
  BY FieldsFacts
<1>7. QED
  BY <1>1, <1>3, <1>4, <1>5, <1>6, RefreshedInv

LEMMA ResetSearchPathInv ==
    ASSUME SessionInv, ResetSearchPath
    PROVE  SessionInv'
<1> DEFINE Put(s) == [s EXCEPT !["search_path_template"] = defaults.path,
                               !["session_search_path_template"] = defaults.path]
           x == Put(session)
           y == Put(lasting)
<1>1. /\ session' = Refreshed(x) /\ lasting' = Refreshed(y)
      /\ undo_log' = Logged(<<SearchPath>>)
      /\ UNCHANGED <<scene, defaults, transactions, base>>
  BY DEF ResetSearchPath, Applied, ResetPath
<1>2. ASSUME NEW s, IsSession(s)
      PROVE  /\ IsSession(Put(s))
             /\ \A f \in Templates : Put(s)[f] = defaults.path
             /\ \A f \in Fields \ Templates : Put(s)[f] = s[f]
  BY <1>2, SessionFacts, FieldsFacts
     DEF IsSession, Templates, RoleContext, TimeoutSettings, SearchPath
<1> HIDE DEF Put
<1>3. IsSession(x) /\ IsSession(y)
  BY <1>2, SessionFacts
<1>4. Settled(y) /\ SameButLocal(x, y) /\ (transactions = <<>> => Settled(x))
  BY <1>2, SessionFacts, FieldsFacts
     DEF Settled, SameButLocal, Overridable, Templates, RoleContext, TimeoutSettings
<1>5. \A f \in Fields \ {"saw_temp_object", "search_path"} :
          f \notin SearchPath \cup {} => x[f] = session[f]
  BY <1>2, SessionFacts, FieldsFacts
<1> HIDE DEF x, y
<1>6. SearchPath \in SUBSET Fields /\ {} \in SUBSET Fields /\ SearchPath \subseteq SearchPath \cup {}
  BY FieldsFacts
<1>7. QED
  BY <1>1, <1>3, <1>4, <1>5, <1>6, RefreshedInv

LEMMA SwitchSessionRoleInv ==
    ASSUME SessionInv, NEW role \in scene.roles \cup {defaults.authenticated_role}, NEW local \in BOOLEAN, SwitchSessionRole(role, local)
    PROVE  SessionInv'
<1> DEFINE Put(s) == [s EXCEPT !["session_role"] = role, !["current_role"] = role,
                               !["persistent_session_role"] = IF local THEN @ ELSE role,
                               !["persistent_current_role"] = IF local THEN @ ELSE role]
           x == Put(session)
           y == IF local THEN lasting ELSE Put(lasting)
<1>1. /\ session' = Refreshed(x)
      /\ (lasting' = lasting /\ y = lasting) \/ lasting' = Refreshed(y)
      /\ undo_log' = Logged(<<RoleContext, SearchPath>>) /\ (local => transactions # <<>>)
      /\ UNCHANGED <<scene, defaults, transactions, base>>
  <2>1. session' = Refreshed(x) /\ lasting' = IF local THEN lasting ELSE Refreshed(Put(lasting))
    BY DEF SwitchSessionRole, Applied
  <2>2. undo_log' = Logged(<<RoleContext, SearchPath>>) /\ (local => transactions # <<>>)
        /\ UNCHANGED <<scene, defaults, transactions, base>>
    BY DEF SwitchSessionRole, Applied, InTransaction
  <2> HIDE DEF Put
  <2>3. QED
    BY <2>1, <2>2
<1>2. ASSUME NEW s, IsSession(s)
      PROVE  /\ IsSession(Put(s))
             /\ Put(s)["session_role"] = role /\ Put(s)["current_role"] = role
             /\ \A f \in {"persistent_session_role", "persistent_current_role"} :
                    Put(s)[f] = IF local THEN s[f] ELSE role
             /\ \A f \in Fields \ RoleContext : Put(s)[f] = s[f]
  BY <1>2, SessionFacts, FieldsFacts DEF IsSession, Templates, RoleContext, TimeoutSettings, SearchPath
<1> HIDE DEF Put
<1>3. IsSession(x) /\ IsSession(y)
  BY <1>2, SessionFacts
<1>4. Settled(y) /\ SameButLocal(x, y) /\ (transactions = <<>> => Settled(x))
  BY <1>1, <1>2, SessionFacts, FieldsFacts
     DEF Settled, SameButLocal, Overridable, Templates, RoleContext, TimeoutSettings, SearchPath
<1>5. \A f \in Fields \ {"saw_temp_object", "search_path"} :
          f \notin RoleContext \cup SearchPath => x[f] = session[f]
  BY <1>2, SessionFacts, FieldsFacts
<1> HIDE DEF x, y
<1>6. RoleContext \in SUBSET Fields /\ SearchPath \in SUBSET Fields
      /\ SearchPath \subseteq RoleContext \cup SearchPath
  BY FieldsFacts
<1>7. QED
  BY <1>1, <1>3, <1>4, <1>5, <1>6, RefreshedInv

LEMMA SwitchRoleInv ==
    ASSUME SessionInv, NEW role \in scene.roles, NEW local \in BOOLEAN, SwitchRole(role, local)
    PROVE  SessionInv'
<1> DEFINE Put(s) == [s EXCEPT !["current_role"] = role,
                               !["persistent_current_role"] = IF local THEN @ ELSE role]
           x == Put(session)
           y == IF local THEN lasting ELSE Put(lasting)
<1>1. /\ session' = Refreshed(x)
      /\ (lasting' = lasting /\ y = lasting) \/ lasting' = Refreshed(y)
      /\ undo_log' = Logged(<<RoleContext, SearchPath>>) /\ (local => transactions # <<>>)
      /\ UNCHANGED <<scene, defaults, transactions, base>>
  <2>1. session' = Refreshed(x) /\ lasting' = IF local THEN lasting ELSE Refreshed(Put(lasting))
    BY DEF SwitchRole, Applied
  <2>2. undo_log' = Logged(<<RoleContext, SearchPath>>) /\ (local => transactions # <<>>)
        /\ UNCHANGED <<scene, defaults, transactions, base>>
    BY DEF SwitchRole, Applied, InTransaction
  <2> HIDE DEF Put
  <2>3. QED
    BY <2>1, <2>2
<1>2. ASSUME NEW s, IsSession(s)
      PROVE  /\ IsSession(Put(s))
             /\ Put(s)["current_role"] = role
             /\ Put(s)["persistent_current_role"] =
                    IF local THEN s["persistent_current_role"] ELSE role
             /\ \A f \in {"session_role", "persistent_session_role"} : Put(s)[f] = s[f]
             /\ \A f \in Fields \ RoleContext : Put(s)[f] = s[f]
  BY <1>2, SessionFacts, FieldsFacts DEF IsSession, Templates, RoleContext, TimeoutSettings, SearchPath
<1> HIDE DEF Put
<1>3. IsSession(x) /\ IsSession(y)
  BY <1>2, SessionFacts
<1>4. Settled(y) /\ SameButLocal(x, y) /\ (transactions = <<>> => Settled(x))
  BY <1>1, <1>2, SessionFacts, FieldsFacts
     DEF Settled, SameButLocal, Overridable, Templates, RoleContext, TimeoutSettings, SearchPath
<1>5. \A f \in Fields \ {"saw_temp_object", "search_path"} :
          f \notin RoleContext \cup SearchPath => x[f] = session[f]
  BY <1>2, SessionFacts, FieldsFacts
<1> HIDE DEF x, y
<1>6. RoleContext \in SUBSET Fields /\ SearchPath \in SUBSET Fields
      /\ SearchPath \subseteq RoleContext \cup SearchPath
  BY FieldsFacts
<1>7. QED
  BY <1>1, <1>3, <1>4, <1>5, <1>6, RefreshedInv

LEMMA ResetRoleInv ==
    ASSUME SessionInv, NEW local \in BOOLEAN, ResetRole(local)
    PROVE  SessionInv'
<1> DEFINE Put(s) == [s EXCEPT !["current_role"] = s["session_role"],
                               !["persistent_current_role"] =
                                   IF local THEN @ ELSE s["persistent_session_role"]]
           x == Put(session)
           y == IF local THEN lasting ELSE Put(lasting)
<1>1. /\ session' = Refreshed(x)
      /\ (lasting' = lasting /\ y = lasting) \/ lasting' = Refreshed(y)
      /\ undo_log' = Logged(<<RoleContext, SearchPath>>) /\ (local => transactions # <<>>)
      /\ UNCHANGED <<scene, defaults, transactions, base>>
  <2>1. session' = Refreshed(x) /\ lasting' = IF local THEN lasting ELSE Refreshed(Put(lasting))
    BY DEF ResetRole, Applied
  <2>2. undo_log' = Logged(<<RoleContext, SearchPath>>) /\ (local => transactions # <<>>)
        /\ UNCHANGED <<scene, defaults, transactions, base>>
    BY DEF ResetRole, Applied, InTransaction
  <2> HIDE DEF Put
  <2>3. QED
    BY <2>1, <2>2
<1>2. ASSUME NEW s, IsSession(s)
      PROVE  /\ IsSession(Put(s))
             /\ Put(s)["current_role"] = s["session_role"]
             /\ Put(s)["persistent_current_role"] =
                    IF local THEN s["persistent_current_role"] ELSE s["persistent_session_role"]
             /\ \A f \in {"session_role", "persistent_session_role"} : Put(s)[f] = s[f]
             /\ \A f \in Fields \ RoleContext : Put(s)[f] = s[f]
  BY <1>2, SessionFacts, FieldsFacts DEF IsSession, Templates, RoleContext, TimeoutSettings, SearchPath
<1> HIDE DEF Put
<1>3. IsSession(x) /\ IsSession(y)
  BY <1>2, SessionFacts
<1>4. Settled(y) /\ SameButLocal(x, y) /\ (transactions = <<>> => Settled(x))
  BY <1>1, <1>2, SessionFacts, FieldsFacts
     DEF Settled, SameButLocal, Overridable, Templates, RoleContext, TimeoutSettings, SearchPath
<1>5. \A f \in Fields \ {"saw_temp_object", "search_path"} :
          f \notin RoleContext \cup SearchPath => x[f] = session[f]
  BY <1>2, SessionFacts, FieldsFacts
<1> HIDE DEF x, y
<1>6. RoleContext \in SUBSET Fields /\ SearchPath \in SUBSET Fields
      /\ SearchPath \subseteq RoleContext \cup SearchPath
  BY FieldsFacts
<1>7. QED
  BY <1>1, <1>3, <1>4, <1>5, <1>6, RefreshedInv

LEMMA CreateSchemaInv ==
    ASSUME SessionInv, NEW n \in Schemas, CreateSchema(n)
    PROVE  SessionInv'
<1> DEFINE Put(s) == [s EXCEPT ![n] = "present"]
           x == Put(session)
           y == Put(lasting)
<1>1. /\ session' = Refreshed(x) /\ lasting' = Refreshed(y)
      /\ undo_log' = Logged(<<{n}, SearchPath>>)
      /\ UNCHANGED <<scene, defaults, transactions, base>>
  BY DEF CreateSchema, Applied
<1>2. ASSUME NEW s, IsSession(s)
      PROVE  /\ IsSession(Put(s))
             /\ Put(s)[n] = "present"
             /\ \A f \in Fields \ {n} : Put(s)[f] = s[f]
  BY <1>2, FieldsFacts DEF IsSession, Templates
<1> HIDE DEF Put
<1>3. IsSession(x) /\ IsSession(y)
  BY <1>2, SessionFacts
<1>4. {n} \cap (RoleContext \cup Templates \cup TimeoutSettings) = {}
  BY FieldsFacts DEF RoleContext, Templates, TimeoutSettings
<1>5. Settled(y) /\ (transactions = <<>> => Settled(x))
  BY <1>2, <1>4, SessionFacts, FieldsFacts DEF Settled, Templates, RoleContext
<1>6. SameButLocal(x, y)
  <2>1. \A f \in Fields \ {n} : x[f] = session[f] /\ y[f] = lasting[f]
    BY <1>2, SessionFacts
  <2>2. \A f \in {n} : session[f] = lasting[f] /\ x[f] = y[f]
    <3>1. \A f \in {n} :
              f \in Fields \ (Overridable \cup {"search_path", "saw_temp_object"} \cup TimeoutSettings)
      BY FieldsFacts DEF Overridable, RoleContext, SearchPath, TimeoutSettings
    <3>2. \A f \in {n} : session[f] = lasting[f]
      BY <3>1, SessionFacts DEF SameButLocal
    <3>3. QED
      BY <1>2, <3>2, SessionFacts
  <2>3. QED
    BY <1>4, <2>1, <2>2, SessionFacts, FieldsFacts DEF SameButLocal
<1>7. \A f \in Fields \ {"saw_temp_object", "search_path"} :
          f \notin {n} \cup SearchPath => x[f] = session[f]
  BY <1>2, SessionFacts
<1> HIDE DEF x, y
<1>8. {n} \in SUBSET Fields /\ SearchPath \in SUBSET Fields /\ SearchPath \subseteq {n} \cup SearchPath
  BY FieldsFacts
<1>9. QED
  BY <1>1, <1>3, <1>5, <1>6, <1>7, <1>8, RefreshedInv

LEMMA DropSchemaInv ==
    ASSUME SessionInv, NEW n \in Schemas, DropSchema(n)
    PROVE  SessionInv'
<1> DEFINE Put(s) == [s EXCEPT ![n] = "dropped"]
           x == Put(session)
           y == Put(lasting)
<1>1. /\ session' = Refreshed(x) /\ lasting' = Refreshed(y)
      /\ undo_log' = Logged(<<{n}, SearchPath>>)
      /\ UNCHANGED <<scene, defaults, transactions, base>>
  BY DEF DropSchema, Applied
<1>2. ASSUME NEW s, IsSession(s)
      PROVE  /\ IsSession(Put(s))
             /\ Put(s)[n] = "dropped"
             /\ \A f \in Fields \ {n} : Put(s)[f] = s[f]
  BY <1>2, FieldsFacts DEF IsSession, Templates
<1> HIDE DEF Put
<1>3. IsSession(x) /\ IsSession(y)
  BY <1>2, SessionFacts
<1>4. {n} \cap (RoleContext \cup Templates \cup TimeoutSettings) = {}
  BY FieldsFacts DEF RoleContext, Templates, TimeoutSettings
<1>5. Settled(y) /\ (transactions = <<>> => Settled(x))
  BY <1>2, <1>4, SessionFacts, FieldsFacts DEF Settled, Templates, RoleContext
<1>6. SameButLocal(x, y)
  <2>1. \A f \in Fields \ {n} : x[f] = session[f] /\ y[f] = lasting[f]
    BY <1>2, SessionFacts
  <2>2. \A f \in {n} : session[f] = lasting[f] /\ x[f] = y[f]
    <3>1. \A f \in {n} :
              f \in Fields \ (Overridable \cup {"search_path", "saw_temp_object"} \cup TimeoutSettings)
      BY FieldsFacts DEF Overridable, RoleContext, SearchPath, TimeoutSettings
    <3>2. \A f \in {n} : session[f] = lasting[f]
      BY <3>1, SessionFacts DEF SameButLocal
    <3>3. QED
      BY <1>2, <3>2, SessionFacts
  <2>3. QED
    BY <1>4, <2>1, <2>2, SessionFacts, FieldsFacts DEF SameButLocal
<1>7. \A f \in Fields \ {"saw_temp_object", "search_path"} :
          f \notin {n} \cup SearchPath => x[f] = session[f]
  BY <1>2, SessionFacts
<1> HIDE DEF x, y
<1>8. {n} \in SUBSET Fields /\ SearchPath \in SUBSET Fields /\ SearchPath \subseteq {n} \cup SearchPath
  BY FieldsFacts
<1>9. QED
  BY <1>1, <1>3, <1>5, <1>6, <1>7, <1>8, RefreshedInv

LEMMA RenameSchemaInv ==
    ASSUME SessionInv, NEW old \in Schemas, NEW new \in Schemas, RenameSchema(old, new)
    PROVE  SessionInv'
<1> DEFINE Put(s) == [s EXCEPT ![new] = "present", ![old] = "dropped",
                         !["baseline_schemas"] = IF old \in @ THEN (@ \ {old}) \cup {new} ELSE @]
           x == Put(session)
           y == Put(lasting)
<1>1. /\ session' = Refreshed(x) /\ lasting' = Refreshed(y)
      /\ undo_log' = Logged(<<SearchPath, Namespace>>)
      /\ UNCHANGED <<scene, defaults, transactions, base>>
  BY DEF RenameSchema, Applied, Renamed
<1>2. ASSUME NEW s, IsSession(s)
      PROVE  /\ IsSession(Put(s))
             /\ Put(s)[old] = "dropped" /\ Put(s)[new] = IF new = old THEN "dropped" ELSE "present"
             /\ Put(s)["baseline_schemas"] =
                    IF old \in s["baseline_schemas"] THEN (s["baseline_schemas"] \ {old}) \cup {new}
                    ELSE s["baseline_schemas"]
             /\ \A f \in Fields \ {old, new, "baseline_schemas"} : Put(s)[f] = s[f]
  <2> DEFINE q == Put(s)
             scope == s["baseline_schemas"]
  <2>1. /\ old \in Fields /\ new \in Fields /\ "baseline_schemas" \in Fields
        /\ old # "baseline_schemas" /\ new # "baseline_schemas" /\ s = [f \in Fields |-> s[f]]
    BY <1>2, FieldsFacts DEF IsSession
  <2>2. /\ q[old] = "dropped" /\ q[new] = IF new = old THEN "dropped" ELSE "present"
        /\ q["baseline_schemas"] = IF old \in scope THEN (scope \ {old}) \cup {new} ELSE scope
        /\ \A f \in Fields \ {old, new, "baseline_schemas"} : q[f] = s[f]
        /\ q = [f \in Fields |-> q[f]]
    BY <2>1
  <2>3. \A f \in RoleContext \cup Templates \cup TimeoutSettings :
            f \in Fields \ {old, new, "baseline_schemas"}
    BY FieldsFacts DEF RoleContext, Templates, TimeoutSettings
  <2> HIDE DEF q
  <2>4. IsSession(q)
    BY <1>2, <2>2, <2>3 DEF IsSession
  <2>5. QED
    BY <2>2, <2>4 DEF q
<1> HIDE DEF Put
<1>3. IsSession(x) /\ IsSession(y)
  BY <1>2, SessionFacts
<1>4. {old, new, "baseline_schemas"} \cap (RoleContext \cup Templates \cup TimeoutSettings) = {}
  BY FieldsFacts DEF RoleContext, Templates, TimeoutSettings
<1>5. Settled(y) /\ (transactions = <<>> => Settled(x))
  <2>1. \A f \in RoleContext \cup Templates \cup TimeoutSettings :
            x[f] = session[f] /\ y[f] = lasting[f]
    BY <1>2, <1>4, SessionFacts, FieldsFacts
  <2>2. QED
    BY <2>1, SessionFacts DEF Settled, Templates, RoleContext
<1>6. SameButLocal(x, y)
  <2>1. \A f \in Fields \ {old, new, "baseline_schemas"} : x[f] = session[f] /\ y[f] = lasting[f]
    BY <1>2, SessionFacts
  <2>2. \A f \in {old, new, "baseline_schemas"} : session[f] = lasting[f] /\ x[f] = y[f]
    <3>1. \A f \in {old, new, "baseline_schemas"} :
              f \in Fields \ (Overridable \cup {"search_path", "saw_temp_object"} \cup TimeoutSettings)
      BY FieldsFacts DEF Overridable, RoleContext, SearchPath, TimeoutSettings
    <3>2. \A f \in {old, new, "baseline_schemas"} : session[f] = lasting[f]
      BY <3>1, SessionFacts DEF SameButLocal
    <3>3. x[old] = y[old] /\ x[new] = y[new]
      BY <1>2, SessionFacts
    <3>4. x["baseline_schemas"] = y["baseline_schemas"]
      BY <1>2, <3>2, SessionFacts
    <3>5. QED
      BY <3>2, <3>3, <3>4
  <2>3. QED
    BY <1>4, <2>1, <2>2, SessionFacts, FieldsFacts DEF SameButLocal
<1>7. \A f \in Fields \ {"saw_temp_object", "search_path"} :
          f \notin SearchPath \cup Namespace => x[f] = session[f]
  BY <1>2, SessionFacts, FieldsFacts DEF Namespace
<1> HIDE DEF x, y
<1>8. SearchPath \in SUBSET Fields /\ Namespace \in SUBSET Fields /\ SearchPath \subseteq SearchPath \cup Namespace
  BY FieldsFacts DEF Namespace, SearchPath
<1>9. QED
  BY <1>1, <1>3, <1>5, <1>6, <1>7, <1>8, RefreshedInv

LEMMA SetTimeoutInv ==
    ASSUME SessionInv, NEW setting \in TimeoutSettings, NEW value \in scene.timeouts,
           NEW local \in BOOLEAN, SetTimeout(setting, value, local)
    PROVE  SessionInv'
<1> DEFINE Put(s) == [s EXCEPT ![setting] =
                         [session |-> IF local THEN @.session ELSE value, effective |-> value]]
<1>1. /\ session' = Put(session) /\ lasting' = IF local THEN lasting ELSE Put(lasting)
      /\ undo_log' = Logged(<<TimeoutSettings>>) /\ (local => transactions # <<>>)
      /\ UNCHANGED <<scene, defaults, transactions, base>>
  BY DEF SetTimeout, Applied, InTransaction
<1>2. \A f \in RoleContext \cup Templates : f \in Fields \ TimeoutSettings
  BY FieldsFacts DEF RoleContext, Templates, TimeoutSettings
<1>3. ASSUME NEW s, IsSession(s)
      PROVE  /\ IsSession(Put(s))
             /\ Put(s)[setting].session = IF local THEN s[setting].session ELSE value
             /\ Put(s)[setting].effective = value
             /\ \A f \in Fields \ {setting} : Put(s)[f] = s[f]
  <2> DEFINE q == Put(s)
             v == [session |-> IF local THEN s[setting].session ELSE value, effective |-> value]
  <2>1. setting \in Fields /\ s = [f \in Fields |-> s[f]]
    BY <1>3, FieldsFacts DEF IsSession
  <2>2. /\ q = [f \in Fields |-> q[f]] /\ q[setting] = v
        /\ \A f \in Fields \ {setting} : q[f] = s[f]
    BY <2>1
  <2>3. v \in [session : scene.timeouts, effective : scene.timeouts]
    BY <1>3 DEF IsSession
  <2> HIDE DEF q, v
  <2>4. IsSession(q)
    BY <1>2, <1>3, <2>2, <2>3, FieldsFacts DEF IsSession
  <2>5. QED
    BY <2>2, <2>4 DEF q, v
<1> HIDE DEF Put
<1>4. IsSession(session') /\ IsSession(lasting')
  BY <1>1, <1>3, SessionFacts
<1>5. \A f \in Fields \ TimeoutSettings : session'[f] = session[f] /\ lasting'[f] = lasting[f]
  BY <1>1, <1>3, SessionFacts
<1>6. Settled(lasting') /\ (transactions = <<>> => Settled(session'))
  BY <1>1, <1>2, <1>3, <1>5, SessionFacts, FieldsFacts DEF Settled, RoleContext, Templates
<1>7. SameButLocal(session', lasting')
  BY <1>1, <1>3, <1>5, SessionFacts, FieldsFacts DEF SameButLocal
<1>8. PathSources \cup {"search_path"} \subseteq Fields \ TimeoutSettings
  BY FieldsFacts DEF PathSources, RoleContext, SearchPath, TimeoutSettings
<1>9. Fresh(session') /\ Fresh(lasting')
  BY <1>4, <1>5, <1>8, SessionFacts, FreshKept
<1>10. \A f \in Fields \ {"saw_temp_object", "search_path"} :
           f \notin TimeoutSettings \cup {} => session'[f] = session[f]
  BY <1>5
<1>11. TimeoutSettings \in SUBSET Fields /\ {} \in SUBSET Fields
       /\ session'["search_path"] = session["search_path"]
  BY <1>5, <1>8, FieldsFacts
<1>12. QED
  BY <1>1, <1>4, <1>6, <1>7, <1>9, <1>10, <1>11, StatementInv DEF Lasts

(* What RESET does to the timeouts. *)
LEMMA ResetTimeoutsFacts ==
    ASSUME SessionInv, NEW s, IsSession(s), NEW settings \in SUBSET TimeoutSettings
    PROVE  /\ IsSession(ResetTimeouts(s, settings))
           /\ \A f \in settings :
                  /\ ResetTimeouts(s, settings)[f].session = defaults.timeout[f]
                  /\ ResetTimeouts(s, settings)[f].effective = defaults.timeout[f]
           /\ \A f \in Fields \ settings : ResetTimeouts(s, settings)[f] = s[f]
<1> DEFINE q == ResetTimeouts(s, settings)
           v(f) == [session |-> defaults.timeout[f], effective |-> defaults.timeout[f]]
<1>1. /\ q = [f \in Fields |-> q[f]] /\ \A f \in settings : q[f] = v(f)
      /\ \A f \in Fields \ settings : q[f] = s[f]
  BY FieldsFacts DEF ResetTimeouts
<1>2. \A f \in settings : v(f) \in [session : scene.timeouts, effective : scene.timeouts]
                          /\ v(f).session = defaults.timeout[f] /\ v(f).effective = defaults.timeout[f]
  BY SessionFacts
<1> HIDE DEF q, v
<1>3. \A f \in RoleContext \cup Templates : f \in Fields \ settings
  BY FieldsFacts DEF RoleContext, Templates, TimeoutSettings
<1>4. IsSession(q)
  BY <1>1, <1>2, <1>3, FieldsFacts DEF IsSession
<1>5. QED
  BY <1>1, <1>2, <1>4 DEF q

LEMMA ResetTimeoutInv ==
    ASSUME SessionInv, NEW setting \in TimeoutSettings, ResetTimeout(setting)
    PROVE  SessionInv'
<1>1. /\ session' = ResetTimeouts(session, {setting}) /\ lasting' = ResetTimeouts(lasting, {setting})
      /\ undo_log' = Logged(<<TimeoutSettings>>)
      /\ UNCHANGED <<scene, defaults, transactions, base>>
  BY DEF ResetTimeout, Applied
<1>2. \A f \in RoleContext \cup Templates : f \in Fields \ TimeoutSettings
  BY FieldsFacts DEF RoleContext, Templates, TimeoutSettings
<1>3. /\ IsSession(session') /\ IsSession(lasting')
      /\ \A f \in {setting} :
             /\ session'[f].session = defaults.timeout[f] /\ session'[f].effective = defaults.timeout[f]
             /\ lasting'[f].session = defaults.timeout[f] /\ lasting'[f].effective = defaults.timeout[f]
      /\ \A f \in Fields \ {setting} : session'[f] = session[f] /\ lasting'[f] = lasting[f]
  <2>1. {setting} \in SUBSET TimeoutSettings
    OBVIOUS
  <2>2. QED
    BY <1>1, <2>1, SessionFacts, ResetTimeoutsFacts
<1>5. \A f \in Fields \ TimeoutSettings : session'[f] = session[f] /\ lasting'[f] = lasting[f]
  BY <1>3
<1>6. Settled(lasting') /\ (transactions = <<>> => Settled(session'))
  BY <1>2, <1>3, <1>5, SessionFacts, FieldsFacts DEF Settled, RoleContext, Templates
<1>7. SameButLocal(session', lasting')
  BY <1>3, <1>5, SessionFacts, FieldsFacts DEF SameButLocal
<1>8. PathSources \cup {"search_path"} \subseteq Fields \ TimeoutSettings
  BY FieldsFacts DEF PathSources, RoleContext, SearchPath, TimeoutSettings
<1>9. Fresh(session') /\ Fresh(lasting')
  BY <1>3, <1>5, <1>8, SessionFacts, FreshKept
<1>10. \A f \in Fields \ {"saw_temp_object", "search_path"} :
           f \notin TimeoutSettings \cup {} => session'[f] = session[f]
  BY <1>5
<1>11. TimeoutSettings \in SUBSET Fields /\ {} \in SUBSET Fields
       /\ session'["search_path"] = session["search_path"]
  BY <1>5, <1>8, FieldsFacts
<1>12. QED
  BY <1>1, <1>3, <1>6, <1>7, <1>9, <1>10, <1>11, StatementInv DEF Lasts

LEMMA ResetAllInv ==
    ASSUME SessionInv, ResetAll
    PROVE  SessionInv'
<1>1. /\ session' = ResetTimeouts(ResetPath(session), TimeoutSettings)
      /\ lasting' = ResetTimeouts(ResetPath(lasting), TimeoutSettings)
      /\ undo_log' = Logged(<<SearchPath, TimeoutSettings>>)
      /\ UNCHANGED <<scene, defaults, transactions, base>>
  BY DEF ResetAll, Applied
<1>2. ASSUME NEW s, IsSession(s)
      PROVE  /\ IsSession(ResetPath(s)) /\ Fresh(ResetPath(s))
             /\ \A f \in Templates : ResetPath(s)[f] = defaults.path
             /\ \A f \in Fields \ SearchPath : ResetPath(s)[f] = s[f]
  <2> DEFINE q == [s EXCEPT !["search_path_template"] = defaults.path,
                            !["session_search_path_template"] = defaults.path]
  <2>1. IsSession(q) /\ (\A f \in Templates : q[f] = defaults.path)
        /\ \A f \in Fields \ Templates : q[f] = s[f]
    BY <1>2, SessionFacts, FieldsFacts
       DEF IsSession, Templates, RoleContext, TimeoutSettings, SearchPath
  <2>2. ResetPath(s) = Refreshed(q)
    BY DEF ResetPath
  <2> HIDE DEF q
  <2>3. \A f \in Fields \ SearchPath : f \in Fields \ Templates /\ f # "search_path"
    BY DEF SearchPath, Templates
  <2>4. \A f \in Templates : f \in Fields /\ f # "search_path"
    BY FieldsFacts DEF Templates
  <2>5. scene \in Scenes
    BY SessionFacts
  <2>6. QED
    BY <2>1, <2>2, <2>3, <2>4, <2>5, RefreshedFacts
<1>3. ASSUME NEW s, IsSession(s)
      PROVE  LET r == ResetTimeouts(ResetPath(s), TimeoutSettings) IN
             /\ IsSession(r)
             /\ \A f \in TimeoutSettings :
                    r[f].session = defaults.timeout[f] /\ r[f].effective = defaults.timeout[f]
             /\ \A f \in Fields \ TimeoutSettings : r[f] = ResetPath(s)[f]
  BY <1>2, <1>3, ResetTimeoutsFacts
<1>4. /\ IsSession(session') /\ IsSession(lasting')
      /\ \A f \in TimeoutSettings :
             /\ session'[f].session = defaults.timeout[f] /\ session'[f].effective = defaults.timeout[f]
             /\ lasting'[f].session = defaults.timeout[f] /\ lasting'[f].effective = defaults.timeout[f]
      /\ \A f \in Fields \ TimeoutSettings :
             session'[f] = ResetPath(session)[f] /\ lasting'[f] = ResetPath(lasting)[f]
  BY <1>1, <1>3, SessionFacts
<1>5. /\ \A f \in Templates : f \in Fields \ TimeoutSettings
      /\ \A f \in RoleContext : f \in Fields \ (TimeoutSettings \cup SearchPath)
  BY FieldsFacts DEF RoleContext, Templates, TimeoutSettings, SearchPath
<1>6. /\ \A f \in Templates : session'[f] = defaults.path /\ lasting'[f] = defaults.path
      /\ \A f \in Fields \ (TimeoutSettings \cup SearchPath) :
             session'[f] = session[f] /\ lasting'[f] = lasting[f]
  BY <1>2, <1>4, <1>5, SessionFacts
<1>7. Settled(lasting') /\ (transactions = <<>> => Settled(session'))
  BY <1>4, <1>5, <1>6, SessionFacts DEF Settled, RoleContext, Templates
<1>8. SameButLocal(session', lasting')
  <2>1. SearchPath \subseteq Overridable \cup {"search_path"} \cup Templates
    BY DEF SearchPath, Overridable, Templates
  <2>2. QED
    BY <1>4, <1>6, <2>1, SessionFacts, FieldsFacts DEF SameButLocal
<1>9. PathSources \cup {"search_path"} \subseteq Fields \ TimeoutSettings
  BY FieldsFacts DEF PathSources, RoleContext, SearchPath, TimeoutSettings
<1>10. Fresh(session') /\ Fresh(lasting')
  <2>1. scene \in Scenes /\ Fresh(ResetPath(session)) /\ Fresh(ResetPath(lasting))
    BY <1>2, SessionFacts
  <2>2. \A f \in PathSources \cup {"search_path"} :
            session'[f] = ResetPath(session)[f] /\ lasting'[f] = ResetPath(lasting)[f]
    BY <1>4, <1>9
  <2>3. QED
    BY <1>4, <2>1, <2>2, FreshKept
<1>11. \A f \in Fields \ {"saw_temp_object", "search_path"} :
           f \notin SearchPath \cup TimeoutSettings => session'[f] = session[f]
  BY <1>6
<1>12. SearchPath \in SUBSET Fields /\ TimeoutSettings \in SUBSET Fields
       /\ "search_path" \in SearchPath \cup TimeoutSettings
  BY FieldsFacts DEF SearchPath
<1>13. QED
  BY <1>1, <1>4, <1>7, <1>8, <1>10, <1>11, <1>12, StatementInv DEF Lasts

LEMMA CreateTempInv ==
    ASSUME SessionInv, NEW t \in Temps, NEW on_commit_drop \in BOOLEAN, CreateTemp(t, on_commit_drop)
    PROVE  SessionInv'
<1> DEFINE v == IF ~on_commit_drop THEN "present"
                ELSE IF InTransaction THEN "drop_at_commit" ELSE "dropped"
           Saw(s) == [s EXCEPT !["saw_temp_object"] = TRUE]
           Put(s) == [Refreshed(Saw(s)) EXCEPT ![t] = v]
<1>1. /\ session' = Put(session) /\ lasting' = Put(lasting)
      /\ undo_log' = Logged(<<{t}>>)
      /\ UNCHANGED <<scene, defaults, transactions, base>>
  BY DEF CreateTemp, Applied
<1> HIDE DEF v
<1>2. /\ t \in Fields /\ t \notin RoleContext \cup Templates \cup TimeoutSettings \cup PathSources
      /\ t # "search_path" /\ t # "saw_temp_object"
      /\ "saw_temp_object" \notin RoleContext \cup Templates \cup TimeoutSettings \cup PathSources
      /\ "search_path" \in Fields /\ "search_path" \notin RoleContext \cup Templates \cup TimeoutSettings
      /\ "saw_temp_object" \in Fields
      /\ PathSources \subseteq Fields \ {t, "search_path", "saw_temp_object"}
  BY FieldsFacts DEF PathSources, RoleContext, SearchPath, TimeoutSettings, Templates
<1>3. ASSUME NEW s, IsSession(s), Fresh(s)
      PROVE  /\ IsSession(Put(s)) /\ Fresh(Put(s)) /\ Put(s)[t] = v
             /\ \A f \in Fields \ {t, "search_path", "saw_temp_object"} : Put(s)[f] = s[f]
             /\ WithoutTemp(Put(s)["search_path"]) = WithoutTemp(s["search_path"])
  <2> DEFINE z == Saw(s)
             r == Refreshed(z)
             q == Put(s)
  <2>0. scene \in Scenes
    BY SessionFacts
  <2>1. z = [f \in Fields |-> z[f]] /\ \A f \in Fields \ {"saw_temp_object"} : z[f] = s[f]
    BY <1>2, <1>3 DEF IsSession
  <2>2. IsSession(z)
    <3> HIDE DEF z
    <3>1. QED
      BY <1>2, <1>3, <2>1, FieldsFacts DEF IsSession
  <2> HIDE DEF z
  <2>3. /\ IsSession(r) /\ \A f \in Fields : f # "search_path" => r[f] = z[f]
        /\ r["search_path"] = EffectivePath(z)
    BY <2>0, <2>2, RefreshedFacts
  <2>4. q = [r EXCEPT ![t] = v]
    BY DEF z
  <2> HIDE DEF r, q
  <2>5. /\ q = [f \in Fields |-> q[f]] /\ q[t] = v
        /\ \A f \in Fields \ {t} : q[f] = r[f]
    <3>1. r = [f \in Fields |-> r[f]]
      BY <2>3 DEF IsSession
    <3>2. QED
      BY <1>2, <2>4, <3>1
  <2>6. IsSession(q)
    BY <1>2, <2>3, <2>5, FieldsFacts DEF IsSession
  <2>7. \A f \in Fields \ {t, "search_path", "saw_temp_object"} : q[f] = s[f]
    BY <2>1, <2>3, <2>5
  <2>8. q["search_path"] = EffectivePath(z)
    BY <1>2, <2>3, <2>5
  <2>9. /\ WithoutTemp(EffectivePath(z)) = WithoutTemp(EffectivePath(s))
        /\ WithoutTemp(EffectivePath(q)) = WithoutTemp(EffectivePath(s))
    <3>1. \A f \in PathSources : z[f] = s[f] /\ q[f] = s[f]
      BY <1>2, <2>1, <2>7
    <3>2. QED
      BY <2>0, <2>2, <2>6, <3>1, SamePath
  <2>10. Fresh(q) /\ WithoutTemp(q["search_path"]) = WithoutTemp(s["search_path"])
    BY <1>3, <2>8, <2>9 DEF Fresh
  <2>11. QED
    BY <2>5, <2>6, <2>7, <2>10 DEF q
<1> HIDE DEF Put
<1>4. /\ IsSession(session') /\ IsSession(lasting') /\ Fresh(session') /\ Fresh(lasting')
      /\ session'[t] = lasting'[t]
      /\ \A f \in Fields \ {t, "search_path", "saw_temp_object"} :
             session'[f] = session[f] /\ lasting'[f] = lasting[f]
      /\ WithoutTemp(session'["search_path"]) = WithoutTemp(session["search_path"])
  BY <1>1, <1>3, SessionFacts
<1>5. \A f \in RoleContext \cup Templates \cup TimeoutSettings :
          f \in Fields \ {t, "search_path", "saw_temp_object"}
  BY <1>2, FieldsFacts
<1>6. Settled(lasting') /\ (transactions = <<>> => Settled(session'))
  BY <1>4, <1>5, SessionFacts DEF Settled, RoleContext, Templates
<1>7. SameButLocal(session', lasting')
  BY <1>4, <1>5, SessionFacts DEF SameButLocal
<1>8. \A f \in Fields \ {"saw_temp_object", "search_path"} :
          f \notin {t} \cup {} => session'[f] = session[f]
  BY <1>4
<1>9. {t} \in SUBSET Fields /\ {} \in SUBSET Fields
  BY FieldsFacts
<1>10. QED
  BY <1>1, <1>4, <1>6, <1>7, <1>8, <1>9, StatementInv DEF Lasts

LEMMA DropTempInv ==
    ASSUME SessionInv, NEW t \in Temps, DropTemp(t)
    PROVE  SessionInv'
<1> DEFINE Put(s) == [s EXCEPT ![t] = "dropped"]
<1>1. /\ session' = Put(session) /\ lasting' = Put(lasting)
      /\ undo_log' = Logged(<<{t}>>)
      /\ UNCHANGED <<scene, defaults, transactions, base>>
  BY DEF DropTemp, Applied
<1>2. /\ t \in Fields
      /\ RoleContext \cup Templates \cup TimeoutSettings \cup PathSources \cup {"search_path"}
             \subseteq Fields \ {t}
  BY FieldsFacts DEF PathSources, RoleContext, SearchPath, TimeoutSettings, Templates
<1>3. ASSUME NEW s, IsSession(s)
      PROVE  /\ IsSession(Put(s)) /\ Put(s)[t] = "dropped"
             /\ \A f \in Fields \ {t} : Put(s)[f] = s[f]
  BY <1>2, <1>3 DEF IsSession
<1> HIDE DEF Put
<1>4. /\ IsSession(session') /\ IsSession(lasting') /\ session'[t] = lasting'[t]
      /\ \A f \in Fields \ {t} : session'[f] = session[f] /\ lasting'[f] = lasting[f]
  BY <1>1, <1>3, SessionFacts
<1>5. Fresh(session') /\ Fresh(lasting')
  BY <1>2, <1>4, SessionFacts, FreshKept
<1>6. Settled(lasting') /\ (transactions = <<>> => Settled(session'))
  BY <1>2, <1>4, SessionFacts DEF Settled, RoleContext, Templates
<1>7. SameButLocal(session', lasting')
  BY <1>2, <1>4, SessionFacts DEF SameButLocal
<1>8. \A f \in Fields \ {"saw_temp_object", "search_path"} :
          f \notin {t} \cup {} => session'[f] = session[f]
  BY <1>4
<1>9. {t} \in SUBSET Fields /\ {} \in SUBSET Fields
      /\ session'["search_path"] = session["search_path"]
  BY <1>2, <1>4, FieldsFacts
<1>10. QED
  BY <1>1, <1>4, <1>5, <1>6, <1>7, <1>8, <1>9, StatementInv DEF Lasts

-----------------------------------------------------------------------------
(* Transactions *)

LEMMA UnchangedInv ==
    ASSUME SessionInv, UNCHANGED <<scene, session, defaults, transactions, undo_log, lasting, base>>
    PROVE  SessionInv'
<1>1. TypeOK'
  BY DEF SessionInv, TypeOK, IsSession, IsList
<1>2. FramesInv' /\ LocalInv' /\ RollbackRestoresSession'
  BY DEF SessionInv, FramesInv, LocalInv, RollbackRestoresSession
<1>3. QED
  BY <1>1, <1>2 DEF SessionInv

(* A session that differs in the temporary namespace lasts as the other does. *)
LEMMA AlikeLasts ==
    ASSUME scene \in Scenes, NEW s, NEW b, NEW l, s = [f \in Fields |-> s[f]],
           IsSession(b), Alike(s, b), Lasts(b, l)
    PROVE  IsSession(s) /\ Lasts(s, l) /\ (Settled(b) => Settled(s))
<1>1. RoleContext \cup Templates \cup TimeoutSettings \subseteq Fields \ {"saw_temp_object", "search_path"}
  BY FieldsFacts DEF RoleContext, SearchPath, TimeoutSettings, Templates
<1>2. \A f \in Fields \ {"saw_temp_object", "search_path"} : s[f] = b[f]
  BY DEF Alike
<1>3. IsSession(s)
  BY <1>1, <1>2 DEF IsSession
<1>4. Fresh(s)
  BY <1>3, AlikeFresh DEF Lasts
<1>5. Settled(b) => Settled(s)
  BY <1>1, <1>2 DEF Settled, RoleContext, Templates
<1>6. SameButLocal(s, l)
  BY <1>1, <1>2 DEF Lasts, SameButLocal
<1>7. QED
  BY <1>3, <1>4, <1>5, <1>6 DEF Lasts

(* A log that ends where the frame starts has nothing to undo. *)
LEMMA NothingToUndo ==
    ASSUME NEW log, NEW start \in Nat, Len(log) = start, NEW s
    PROVE  Alike(Undone(log, start, s), s)
<1>1. \A f \in Fields : Undone(log, start, s)[f] = s[f]
  BY UndoneField
<1>2. QED
  BY <1>1, FieldsFacts DEF Alike, SearchPath

(* No frame is left, or a new root. *)
LEMMA RootInv ==
    ASSUME SessionInv, UNCHANGED <<scene, defaults>>, undo_log' = <<>>,
           \/ transactions' = <<>> /\ base' = <<>>
           \/ transactions' = <<Frame("root", 0)>> /\ base' = <<Copy'>>,
           IsSession(session'), IsSession(lasting'), Lasts(session', lasting'), Settled(session')
    PROVE  SessionInv'
<1>1. IsList(undo_log') /\ Len(undo_log') = 0
  BY DEF IsList
<1>2. CASE transactions' = <<>> /\ base' = <<>>
  <2>1. /\ transactions' \in Seq([name : Savepoints \cup {"root"}, start : Nat])
        /\ IsList(base') /\ Len(base') = 0 /\ Len(transactions') = 0
    BY <1>2 DEF IsList
  <2>2. FramesInv' /\ RollbackRestoresSession'
    BY <1>2, <2>1 DEF FramesInv, RollbackRestoresSession
  <2>3. QED
    BY <1>1, <1>2, <2>1, <2>2, InvPrimed
<1>3. CASE transactions' = <<Frame("root", 0)>> /\ base' = <<Copy'>>
  <2>1. /\ transactions' \in Seq([name : Savepoints \cup {"root"}, start : Nat])
        /\ Len(transactions') = 1 /\ transactions' # <<>> /\ transactions'[1].start = 0
    <3>1. Frame("root", 0) \in [name : Savepoints \cup {"root"}, start : Nat]
          /\ Frame("root", 0).start = 0
      BY DEF Frame
    <3>2. QED
      BY <1>3, <3>1
  <2>2. /\ IsList(base') /\ Len(base') = 1
        /\ base'[1].session = session' /\ base'[1].lasting = lasting'
    BY <1>3 DEF IsList, Copy
  <2>3. FramesInv'
    BY <1>1, <2>1 DEF FramesInv
  <2>4. RollbackRestoresSession'
    <3>1. Alike(Undone(undo_log', 0, session'), session')
      BY <1>1, NothingToUndo
    <3>2. QED
      BY <2>1, <2>2, <3>1, AlikeRestorable DEF RollbackRestoresSession
  <2>5. QED
    BY <1>1, <2>1, <2>2, <2>3, <2>4, InvPrimed
<1>4. QED
  BY <1>2, <1>3

LEMMA BeginTransactionInv ==
    ASSUME SessionInv, BeginTransaction
    PROVE  SessionInv'
<1>1. /\ UNCHANGED <<scene, session, defaults, undo_log, lasting>>
      /\ transactions = <<>> /\ transactions' = <<Frame("root", 0)>> /\ base' = <<Copy>>
  BY DEF BeginTransaction, InTransaction
<1>2. Copy' = Copy
  BY <1>1 DEF Copy
<1>3. undo_log' = <<>>
  BY <1>1 DEF SessionInv, FramesInv
<1>4. /\ IsSession(session') /\ IsSession(lasting') /\ Lasts(session', lasting') /\ Settled(session')
  BY <1>1, SessionFacts DEF Lasts
<1>5. QED
  BY <1>1, <1>2, <1>3, <1>4, RootInv

LEMMA CommitTransactionInv ==
    ASSUME SessionInv, NEW chain \in BOOLEAN, CommitTransaction(chain)
    PROVE  SessionInv'
<1> DEFINE p == [f \in Fields |->
                    CASE f = "current_role" -> session["persistent_current_role"]
                      [] f = "session_role" -> session["persistent_session_role"]
                      [] f = "search_path_template" -> session["session_search_path_template"]
                      [] f \in TimeoutSettings -> [session[f] EXCEPT !.effective = session[f].session]
                      [] OTHER -> session[f]]
<1>1. /\ session' = AtCommit(Refreshed(p)) /\ lasting' = AtCommit(lasting)
      /\ UNCHANGED <<scene, defaults>> /\ undo_log' = <<>>
      /\ \/ transactions' = <<>> /\ base' = <<>>
         \/ transactions' = <<Frame("root", 0)>> /\ base' = <<Copy'>>
  BY DEF CommitTransaction, Closed, Persistent
<1>2. RoleContext \cup Templates \subseteq Fields \ TimeoutSettings
  BY FieldsFacts DEF RoleContext, TimeoutSettings, Templates
<1>3. /\ p = [f \in Fields |-> p[f]]
      /\ p["current_role"] = session["persistent_current_role"]
      /\ p["session_role"] = session["persistent_session_role"]
      /\ p["search_path_template"] = session["session_search_path_template"]
      /\ \A f \in Fields \ (Overridable \cup TimeoutSettings) : p[f] = session[f]
  BY <1>2, FieldsFacts DEF Overridable, RoleContext, Templates, SearchPath, TimeoutSettings
<1>4. \A f \in TimeoutSettings :
          /\ p[f] \in [session : scene.timeouts, effective : scene.timeouts]
          /\ p[f].session = session[f].session /\ p[f].effective = session[f].session
  <2> SUFFICES ASSUME NEW f \in TimeoutSettings
               PROVE  /\ p[f] \in [session : scene.timeouts, effective : scene.timeouts]
                      /\ p[f].session = session[f].session /\ p[f].effective = session[f].session
    OBVIOUS
  <2>1. p[f] = [session[f] EXCEPT !.effective = session[f].session]
    BY FieldsFacts DEF TimeoutSettings
  <2>2. session[f] \in [session : scene.timeouts, effective : scene.timeouts]
    BY SessionFacts DEF IsSession
  <2>3. QED
    BY <2>1, <2>2
<1> HIDE DEF p
<1>5. IsSession(p) /\ Settled(p) /\ SameButLocal(p, lasting)
  <2>1. {"persistent_current_role", "persistent_session_role", "session_search_path_template"}
           \subseteq Fields \ (Overridable \cup TimeoutSettings)
    BY FieldsFacts DEF Overridable, RoleContext, Templates, SearchPath, TimeoutSettings
  <2>2. IsSession(p)
    BY <1>3, <1>4, <2>1, SessionFacts DEF IsSession, RoleContext, Templates
  <2>3. Settled(p)
    BY <1>3, <1>4, <2>1 DEF Settled
  <2>4. SameButLocal(p, lasting)
    BY <1>3, <1>4, SessionFacts DEF SameButLocal
  <2>5. QED
    BY <2>2, <2>3, <2>4
<1> DEFINE r == Refreshed(p)
<1>6. /\ IsSession(r) /\ Fresh(r) /\ \A f \in Fields : f # "search_path" => r[f] = p[f]
  BY <1>5, SessionFacts, RefreshedFacts
<1>7. session' = AtCommit(r)
  BY <1>1
<1> HIDE DEF r
<1>8. RoleContext \cup Templates \cup TimeoutSettings \subseteq Fields \ {"search_path"}
  BY FieldsFacts DEF RoleContext, Templates, TimeoutSettings, SearchPath
<1>9. Settled(r) /\ SameButLocal(r, lasting)
  <2>1. Settled(r)
    BY <1>5, <1>6, <1>8 DEF Settled, RoleContext, Templates
  <2>2. SameButLocal(r, lasting)
    BY <1>5, <1>6, <1>8 DEF SameButLocal
  <2>3. QED
    BY <2>1, <2>2
<1>10. RoleContext \cup Templates \cup TimeoutSettings \cup PathSources \cup {"search_path"}
             \subseteq Fields \ Temps
  BY FieldsFacts DEF PathSources, RoleContext, SearchPath, TimeoutSettings, Templates
<1>11. ASSUME NEW s, IsSession(s), Fresh(s)
       PROVE  /\ IsSession(AtCommit(s)) /\ Fresh(AtCommit(s)) /\ (Settled(s) => Settled(AtCommit(s)))
              /\ \A f \in Fields \ Temps : AtCommit(s)[f] = s[f]
              /\ \A f \in Temps : AtCommit(s)[f] = IF s[f] = "drop_at_commit" THEN "dropped" ELSE s[f]
  <2> DEFINE q == AtCommit(s)
  <2>1. /\ q = [f \in Fields |-> q[f]] /\ \A f \in Fields \ Temps : q[f] = s[f]
        /\ \A f \in Temps : q[f] = IF s[f] = "drop_at_commit" THEN "dropped" ELSE s[f]
    BY FieldsFacts DEF AtCommit
  <2> HIDE DEF q
  <2>2. IsSession(q)
    BY <1>10, <1>11, <2>1 DEF IsSession
  <2>3. Fresh(q)
    BY <1>10, <1>11, <2>1, <2>2, SessionFacts, FreshKept
  <2>4. Settled(s) => Settled(q)
    BY <1>10, <2>1 DEF Settled, RoleContext, Templates
  <2>5. QED
    BY <2>1, <2>2, <2>3, <2>4 DEF q
<1>12. /\ IsSession(session') /\ IsSession(lasting') /\ Fresh(session') /\ Fresh(lasting')
       /\ Settled(session') /\ Settled(lasting')
  BY <1>1, <1>6, <1>7, <1>9, <1>11, SessionFacts
<1>13. SameButLocal(session', lasting')
  <2>1. /\ \A f \in Fields \ Temps : session'[f] = r[f] /\ lasting'[f] = lasting[f]
        /\ \A f \in Temps :
               /\ session'[f] = IF r[f] = "drop_at_commit" THEN "dropped" ELSE r[f]
               /\ lasting'[f] = IF lasting[f] = "drop_at_commit" THEN "dropped" ELSE lasting[f]
    BY <1>1, <1>6, <1>7, <1>11, SessionFacts
  <2>2. QED
    BY <1>9, <1>10, <2>1 DEF SameButLocal
<1>14. QED
  BY <1>1, <1>12, <1>13, RootInv DEF Lasts

(* Undoing down to a frame gives back the session it was opened with. *)
LEMMA UndoneToFrame ==
    ASSUME SessionInv, NEW i \in 1..Len(transactions)
    PROVE  LET u == Undone(undo_log, transactions[i].start, session)
           IN  /\ IsSession(u) /\ Lasts(u, base[i].lasting) /\ IsSession(base[i].lasting)
               /\ Settled(base[i].session) => Settled(u)
<1> DEFINE u == Undone(undo_log, transactions[i].start, session)
<1>1. Alike(u, base[i].session)
  BY AlikeRestorable DEF SessionInv, RollbackRestoresSession
<1>2. u = [f \in Fields |-> u[f]]
  BY DEF Undone
<1>3. /\ IsSession(base[i].session) /\ IsSession(base[i].lasting)
      /\ Lasts(base[i].session, base[i].lasting) /\ scene \in Scenes
  BY DEF SessionInv, TypeOK, LocalInv
<1> HIDE DEF u
<1>4. QED
  BY <1>1, <1>2, <1>3, AlikeLasts DEF u

LEMMA RollbackTransactionInv ==
    ASSUME SessionInv, NEW chain \in BOOLEAN, RollbackTransaction(chain)
    PROVE  SessionInv'
<1>1. /\ session' = Undone(undo_log, 0, session) /\ lasting' = base[1].lasting
      /\ transactions # <<>> /\ UNCHANGED <<scene, defaults>> /\ undo_log' = <<>>
      /\ \/ transactions' = <<>> /\ base' = <<>>
         \/ transactions' = <<Frame("root", 0)>> /\ base' = <<Copy'>>
  BY DEF RollbackTransaction, InTransaction, Closed
<1>2. 1 \in 1..Len(transactions)
  <2> DEFINE F == [name : Savepoints \cup {"root"}, start : Nat]
  <2>1. transactions \in Seq(F)
    BY DEF SessionInv, TypeOK
  <2> HIDE DEF F
  <2>2. QED
    BY <1>1, <2>1
<1>3. transactions[1].start = 0 /\ Settled(base[1].session)
  BY <1>1 DEF SessionInv, FramesInv, LocalInv
<1>4. /\ IsSession(session') /\ IsSession(lasting') /\ Lasts(session', lasting') /\ Settled(session')
  BY <1>1, <1>2, <1>3, UndoneToFrame
<1>5. QED
  BY <1>1, <1>4, RootInv

(* The frames that stay: what the invariant says of them is unchanged. *)
LEMMA FramesFacts ==
    ASSUME SessionInv, NEW n \in 0..Len(transactions), UNCHANGED <<scene, defaults>>,
           transactions' = SubSeq(transactions, 1, n), base' = SubSeq(base, 1, n)
    PROVE  /\ transactions' \in Seq([name : Savepoints \cup {"root"}, start : Nat])
           /\ Len(transactions') = n /\ IsList(base') /\ Len(base') = n
           /\ n # 0 => transactions' # <<>>
           /\ \A i \in 1..n : transactions'[i] = transactions[i] /\ base'[i] = base[i]
           /\ \A i \in 1..n : /\ IsSession(base[i].session) /\ IsSession(base[i].lasting)
                              /\ Lasts(base[i].session, base[i].lasting)
<1> DEFINE F == [name : Savepoints \cup {"root"}, start : Nat]
           S == {base[i] : i \in 1..Len(base)}
<1>1. /\ transactions \in Seq(F) /\ Len(base) = Len(transactions) /\ IsList(base)
      /\ \A i \in 1..Len(base) : /\ IsSession(base[i].session) /\ IsSession(base[i].lasting)
                                 /\ Lasts(base[i].session, base[i].lasting)
  BY DEF SessionInv, TypeOK, LocalInv
<1>2. \A i \in 1..Len(base) : base[i] \in S
  OBVIOUS
<1> HIDE DEF F, S
<1>3. base \in Seq(S)
  BY <1>1, <1>2, ListIsSeq
<1>4. /\ transactions' \in Seq(F) /\ Len(transactions') = n
      /\ \A i \in 1..n : transactions'[i] = transactions[i]
  BY <1>1
<1>5. base' \in Seq(S) /\ Len(base') = n /\ \A i \in 1..n : base'[i] = base[i]
  BY <1>1, <1>3
<1>6. IsList(base')
  BY <1>5, SeqIsList
<1>7. n # 0 => transactions' # <<>>
  BY <1>4
<1>8. \A i \in 1..n : i \in 1..Len(base)
  BY <1>1
<1>9. QED
  BY <1>1, <1>4, <1>5, <1>6, <1>7, <1>8 DEF F

LEMMA RollbackToSavepointInv ==
    ASSUME SessionInv, NEW name, RollbackToSavepoint(name)
    PROVE  SessionInv'
<1>1. PICK p \in 1..Len(transactions) :
          /\ session' = Undone(undo_log, transactions[p].start, session)
          /\ lasting' = base[p].lasting
          /\ undo_log' = SubSeq(undo_log, 1, transactions[p].start)
          /\ transactions' = SubSeq(transactions, 1, p) /\ base' = SubSeq(base, 1, p)
          /\ UNCHANGED <<scene, defaults>>
  BY DEF RollbackToSavepoint
<1> DEFINE mid == transactions[p].start
           S == {undo_log[i] : i \in 1..Len(undo_log)}
<1>2. undo_log \in Seq(S) /\ Len(undo_log) \in Nat
  <2>1. IsList(undo_log) /\ \A i \in 1..Len(undo_log) : undo_log[i] \in S
    BY DEF SessionInv, TypeOK
  <2> HIDE DEF S
  <2>2. QED
    BY <2>1, ListIsSeq DEF IsList
<1> HIDE DEF S
<1>3. p \in 0..Len(transactions) /\ Len(transactions) \in Nat /\ p # 0
  <2> DEFINE F == [name : Savepoints \cup {"root"}, start : Nat]
  <2>1. transactions \in Seq(F)
    BY DEF SessionInv, TypeOK
  <2> HIDE DEF F
  <2>2. QED
    BY <2>1
<1>4. mid \in 0..Len(undo_log)
  <2>1. mid \in Nat /\ mid <= Len(undo_log)
    BY StartIsNat DEF SessionInv, FramesInv
  <2>2. QED
    BY <1>2, <2>1
<1>5. ASSUME NEW i \in 1..p
      PROVE  transactions[i].start \in 0..mid /\ i \in 1..Len(transactions)
  <2>1. i \in 1..Len(transactions)
    BY <1>3
  <2>2. transactions[i].start \in Nat /\ transactions[i].start <= mid
    BY <2>1, StartIsNat DEF SessionInv, FramesInv
  <2>3. QED
    BY <1>4, <2>1, <2>2
<1>6. /\ IsSession(session') /\ IsSession(lasting') /\ Lasts(session', lasting')
  BY <1>1, UndoneToFrame
<1>7. undo_log' \in Seq(S) /\ Len(undo_log') = mid /\ IsList(undo_log')
  <2>1. undo_log' \in Seq(S) /\ Len(undo_log') = mid
    BY <1>1, <1>2, <1>4
  <2>2. QED
    BY <2>1, SeqIsList
<1>8. /\ transactions' \in Seq([name : Savepoints \cup {"root"}, start : Nat])
      /\ Len(transactions') = p /\ IsList(base') /\ Len(base') = p
      /\ transactions' # <<>>
      /\ \A i \in 1..p : transactions'[i] = transactions[i] /\ base'[i] = base[i]
      /\ \A i \in 1..p : /\ IsSession(base[i].session) /\ IsSession(base[i].lasting)
                         /\ Lasts(base[i].session, base[i].lasting)
  BY <1>1, <1>3, FramesFacts
<1>9. Settled(IF transactions' = <<>> THEN session' ELSE base'[1].session)
  <2>1. 1 \in 1..p /\ transactions # <<>>
    BY <1>3, StartIsNat DEF SessionInv
  <2>2. QED
    BY <1>8, <2>1 DEF SessionInv, LocalInv
<1>10. FramesInv'
  <2>1. transactions'[1].start = 0
    <3>1. 1 \in 1..p /\ transactions # <<>>
      BY <1>3, StartIsNat DEF SessionInv
    <3>2. QED
      BY <1>8, <3>1 DEF SessionInv, FramesInv
  <2>2. ASSUME NEW i \in 1..p
        PROVE  /\ transactions'[i].start <= Len(undo_log')
               /\ \A j \in 1..i : transactions'[j].start <= transactions'[i].start
    <3>1. transactions[i].start <= mid
      BY <1>4, <1>5
    <3>2. \A j \in 1..i : j \in 1..p /\ transactions[j].start <= transactions[i].start
      BY <1>3, <1>5 DEF SessionInv, FramesInv
    <3>3. QED
      BY <1>7, <1>8, <3>1, <3>2
  <2>3. QED
    BY <1>8, <2>1, <2>2 DEF FramesInv
<1>11. RollbackRestoresSession'
  <2> SUFFICES ASSUME NEW i \in 1..p
               PROVE  Restorable(Undone(undo_log', transactions[i].start, session'))
                        = Restorable(base[i].session)
    BY <1>8 DEF RollbackRestoresSession
  <2> DEFINE start == transactions[i].start
             old == Undone(undo_log, start, session)
             new == Undone(undo_log', start, session')
  <2>1. Alike(old, base[i].session)
    BY <1>5, AlikeRestorable DEF SessionInv, RollbackRestoresSession
  <2>2. start \in 0..mid
    BY <1>5
  <2> HIDE DEF mid, start
  <2>3. \A f \in Fields : new[f] = old[f]
    BY <1>1, <1>2, <1>4, <2>2, UndoneInParts DEF mid
  <2> HIDE DEF old, new
  <2>4. Alike(new, base[i].session)
    BY <2>1, <2>3, FieldsFacts DEF Alike, SearchPath
  <2>5. QED
    BY <2>4, AlikeRestorable DEF new, start
<1>12. QED
  BY <1>1, <1>6, <1>7, <1>8, <1>9, <1>10, <1>11, InvPrimed

LEMMA ReleaseSavepointInv ==
    ASSUME SessionInv, NEW name, ReleaseSavepoint(name)
    PROVE  SessionInv'
<1>1. PICK p \in 2..Len(transactions) :
          /\ transactions' = SubSeq(transactions, 1, p - 1) /\ base' = SubSeq(base, 1, p - 1)
          /\ UNCHANGED <<scene, session, defaults, undo_log, lasting>>
  BY DEF ReleaseSavepoint
<1> DEFINE n == p - 1
<1>2. n \in 0..Len(transactions) /\ Len(transactions) \in Nat /\ n # 0 /\ 1 \in 1..n
      /\ \A i \in 1..n : i \in 1..Len(transactions) /\ \A j \in 1..i : j \in 1..n
  <2> DEFINE F == [name : Savepoints \cup {"root"}, start : Nat]
  <2>1. transactions \in Seq(F)
    BY DEF SessionInv, TypeOK
  <2> HIDE DEF F
  <2>2. QED
    BY <2>1
<1> HIDE DEF n
<1>3. /\ transactions' \in Seq([name : Savepoints \cup {"root"}, start : Nat])
      /\ Len(transactions') = n /\ IsList(base') /\ Len(base') = n
      /\ transactions' # <<>>
      /\ \A i \in 1..n : transactions'[i] = transactions[i] /\ base'[i] = base[i]
      /\ \A i \in 1..n : /\ IsSession(base[i].session) /\ IsSession(base[i].lasting)
                         /\ Lasts(base[i].session, base[i].lasting)
  <2>1. transactions' = SubSeq(transactions, 1, n) /\ base' = SubSeq(base, 1, n)
        /\ UNCHANGED <<scene, defaults>>
    BY <1>1 DEF n
  <2>2. QED
    BY <1>2, <2>1, FramesFacts
<1>4. transactions # <<>>
  BY <1>2, StartIsNat DEF SessionInv
<1>5. Settled(IF transactions' = <<>> THEN session' ELSE base'[1].session)
  BY <1>2, <1>3, <1>4 DEF SessionInv, LocalInv
<1>6. FramesInv'
  <2>1. transactions'[1].start = 0
    BY <1>2, <1>3, <1>4 DEF SessionInv, FramesInv
  <2>2. \A i \in 1..n : /\ transactions'[i].start <= Len(undo_log')
                        /\ \A j \in 1..i : transactions'[j].start <= transactions'[i].start
    BY <1>1, <1>2, <1>3 DEF SessionInv, FramesInv
  <2>3. QED
    BY <1>3, <2>1, <2>2 DEF FramesInv
<1>7. RollbackRestoresSession'
  BY <1>1, <1>2, <1>3 DEF SessionInv, RollbackRestoresSession
<1>8. /\ IsSession(session') /\ IsSession(lasting') /\ Lasts(session', lasting')
  BY <1>1, SessionFacts DEF Lasts
<1>9. IsList(undo_log')
  BY <1>1 DEF SessionInv, TypeOK
<1>10. QED
  BY <1>1, <1>3, <1>5, <1>6, <1>7, <1>8, <1>9, InvPrimed

LEMMA SavepointInv ==
    ASSUME SessionInv, NEW name \in Savepoints, Savepoint(name)
    PROVE  SessionInv'
<1> DEFINE F == [name : Savepoints \cup {"root"}, start : Nat]
           frame == Frame(name, Len(undo_log))
           n == Len(transactions)
           S == {base[i] : i \in 1..Len(base)} \cup {Copy}
<1>1. /\ transactions' = Append(transactions, frame) /\ base' = Append(base, Copy)
      /\ transactions # <<>> /\ UNCHANGED <<scene, session, defaults, undo_log, lasting>>
  BY DEF Savepoint, InTransaction
<1>2. /\ transactions \in Seq(F) /\ Len(base) = Len(transactions) /\ IsList(base)
      /\ IsList(undo_log) /\ Len(undo_log) \in Nat
      /\ \A i \in 1..Len(base) : /\ IsSession(base[i].session) /\ IsSession(base[i].lasting)
                                 /\ Lasts(base[i].session, base[i].lasting)
  BY DEF SessionInv, TypeOK, LocalInv, IsList
<1>3. frame \in F /\ frame.start = Len(undo_log) /\ Copy \in S
      /\ Copy.session = session /\ Copy.lasting = lasting
  BY <1>2 DEF Frame, Copy
<1>4. \A i \in 1..Len(base) : base[i] \in S
  OBVIOUS
<1> HIDE DEF F, S, frame
<1>5. base \in Seq(S) /\ n \in Nat
  BY <1>2, <1>4, ListIsSeq
<1>6. /\ transactions' \in Seq(F) /\ Len(transactions') = n + 1 /\ transactions' # <<>>
      /\ transactions'[n + 1] = frame /\ \A i \in 1..n : transactions'[i] = transactions[i]
  BY <1>1, <1>2, <1>3
<1>7. /\ base' \in Seq(S) /\ Len(base') = n + 1 /\ base'[n + 1] = Copy
      /\ \A i \in 1..n : base'[i] = base[i]
  BY <1>1, <1>2, <1>3, <1>5
<1>8. IsList(base') /\ IsList(undo_log')
  BY <1>1, <1>2, <1>7, SeqIsList
<1>9. 1 \in 1..n /\ \A i \in 1..(n + 1) : i \in 1..n \/ i = n + 1
  BY <1>1, <1>2, <1>5
<1> HIDE DEF n
<1>10. /\ IsSession(session') /\ IsSession(lasting') /\ Lasts(session', lasting')
  BY <1>1, SessionFacts DEF Lasts
<1>11. \A i \in 1..Len(base') : /\ IsSession(base'[i].session) /\ IsSession(base'[i].lasting)
                                /\ Lasts(base'[i].session, base'[i].lasting)
  <2>1. \A i \in 1..n : /\ IsSession(base[i].session) /\ IsSession(base[i].lasting)
                        /\ Lasts(base[i].session, base[i].lasting)
    BY <1>2 DEF n
  <2>2. /\ IsSession(Copy.session) /\ IsSession(Copy.lasting) /\ Lasts(Copy.session, Copy.lasting)
    BY <1>1, <1>3, <1>10
  <2>3. QED
    BY <1>7, <1>9, <2>1, <2>2
<1>12. Settled(IF transactions' = <<>> THEN session' ELSE base'[1].session)
  BY <1>1, <1>6, <1>7, <1>9 DEF SessionInv, LocalInv
<1>13. FramesInv'
  <2>1. transactions'[1].start = 0
    BY <1>1, <1>6, <1>9 DEF SessionInv, FramesInv
  <2>2. ASSUME NEW i \in 1..n
        PROVE  /\ transactions'[i].start <= Len(undo_log)
               /\ \A j \in 1..i : transactions'[j].start <= transactions'[i].start
    <3>1. \A j \in 1..i : j \in 1..n
      BY <1>5
    <3>2. QED
      BY <1>6, <3>1 DEF SessionInv, FramesInv, n
  <2>3. \A j \in 1..(n + 1) : transactions'[j].start <= transactions'[n + 1].start
    BY <1>2, <1>3, <1>6, <1>9, <2>2
  <2>4. transactions'[n + 1].start <= Len(undo_log)
    BY <1>2, <1>3, <1>6
  <2>5. \A i \in 1..(n + 1) : /\ transactions'[i].start <= Len(undo_log')
                              /\ \A j \in 1..i : transactions'[j].start <= transactions'[i].start
    BY <1>1, <1>9, <2>2, <2>3, <2>4
  <2>6. QED
    BY <1>6, <2>1, <2>5 DEF FramesInv
<1>14. RollbackRestoresSession'
  <2>1. \A i \in 1..n : Restorable(Undone(undo_log, transactions[i].start, session))
                          = Restorable(base[i].session)
    BY DEF SessionInv, RollbackRestoresSession, n
  <2>2. Restorable(Undone(undo_log, frame.start, session)) = Restorable(Copy.session)
    <3>1. Alike(Undone(undo_log, Len(undo_log), session), session)
      BY <1>2, NothingToUndo
    <3>2. QED
      BY <1>3, <3>1, AlikeRestorable
  <2>3. \A i \in 1..(n + 1) : Restorable(Undone(undo_log', transactions'[i].start, session'))
                                = Restorable(base'[i].session)
    BY <1>1, <1>6, <1>7, <1>9, <2>1, <2>2
  <2>4. QED
    BY <1>6, <2>3 DEF RollbackRestoresSession
<1>15. QED
  BY <1>1, <1>6, <1>7, <1>8, <1>10, <1>11, <1>12, <1>13, <1>14, InvPrimed DEF F
-----------------------------------------------------------------------------
LEMMA InitInv ==
    ASSUME Init
    PROVE  SessionInv
<1>1. PICK schemas \in [Schemas -> {"present", "none"}], role \in scene.roles \cup {UnknownRole} :
          session = Refreshed(Synchronized(schemas, role))
  BY DEF Init
<1> DEFINE v(f) == [session |-> defaults.timeout[f], effective |-> defaults.timeout[f]]
           z == Synchronized(schemas, role)
<1>2. /\ scene \in Scenes /\ transactions = <<>> /\ undo_log = <<>> /\ base = <<>>
      /\ lasting = session /\ session = Refreshed(z)
      /\ defaults \in [path : scene.templates, timeout : [TimeoutSettings -> scene.timeouts],
                       authenticated_role : scene.roles \cup {UnknownRole}]
  BY <1>1 DEF Init
<1>3. \A f \in TimeoutSettings : /\ v(f) \in [session : scene.timeouts, effective : scene.timeouts]
                                 /\ v(f).session = v(f).effective
  BY <1>2
<1> HIDE DEF v
<1>4. /\ z = [f \in Fields |-> z[f]]
      /\ z["session_role"] = defaults.authenticated_role
      /\ z["persistent_session_role"] = defaults.authenticated_role
      /\ z["current_role"] = role /\ z["persistent_current_role"] = role
      /\ \A f \in Templates : z[f] = defaults.path
      /\ \A f \in TimeoutSettings : z[f] = v(f)
  BY FieldsFacts DEF Synchronized, RoleContext, SearchPath, TimeoutSettings, Templates, v
<1> HIDE DEF z
<1>5. IsSession(z) /\ Settled(z)
  BY <1>2, <1>3, <1>4 DEF IsSession, Settled, RoleContext, Templates
<1>6. /\ IsSession(session) /\ Fresh(session)
      /\ \A f \in Fields : f # "search_path" => session[f] = z[f]
  BY <1>2, <1>5, RefreshedFacts
<1>7. Settled(session)
  <2>1. RoleContext \cup Templates \cup TimeoutSettings \subseteq Fields \ {"search_path"}
    BY FieldsFacts DEF RoleContext, Templates, TimeoutSettings, SearchPath
  <2>2. QED
    BY <1>5, <1>6, <2>1 DEF Settled, RoleContext, Templates
<1>8. Lasts(session, lasting)
  BY <1>2, <1>6, <1>7 DEF Lasts, SameButLocal
<1>9. Len(transactions) = 0 /\ Len(base) = 0 /\ IsList(base) /\ IsList(undo_log)
      /\ transactions \in Seq([name : Savepoints \cup {"root"}, start : Nat])
  BY <1>2 DEF IsList
<1>10. TypeOK
  BY <1>2, <1>6, <1>9 DEF TypeOK
<1>11. FramesInv /\ LocalInv /\ RollbackRestoresSession
  BY <1>2, <1>7, <1>8, <1>9 DEF FramesInv, LocalInv, RollbackRestoresSession
<1>12. QED
  BY <1>10, <1>11 DEF SessionInv

LEMMA NextInv ==
    ASSUME SessionInv, [Next]_vars
    PROVE  SessionInv'
<1>1. CASE SetOrReset
  BY <1>1, SetSearchPathInv, ResetTimeoutInv, SetTimeoutInv, ResetAllInv, ResetSearchPathInv,
     ResetRoleInv, SwitchRoleInv, SwitchSessionRoleInv DEF SetOrReset
<1>2. CASE ChangeNamespace
  BY <1>2, CreateSchemaInv, DropSchemaInv, RenameSchemaInv, DropTempInv, CreateTempInv
     DEF ChangeNamespace
<1>3. CASE ControlTransaction
  <2>1. Conflict => SessionInv'
    BY UnchangedInv DEF Conflict
  <2>2. QED
    BY <1>3, <2>1, BeginTransactionInv, CommitTransactionInv, RollbackTransactionInv, SavepointInv,
       RollbackToSavepointInv, ReleaseSavepointInv DEF ControlTransaction
<1>4. CASE UNCHANGED vars
  BY <1>4, UnchangedInv DEF vars
<1>5. QED
  BY <1>1, <1>2, <1>3, <1>4 DEF Next

(* The session is well typed, the frames' parts of the log follow one another, *)
(* what lasts differs from what is in force by LOCAL settings only, and every  *)
(* open frame can be undone: in every reachable state.                         *)
THEOREM SessionInvariant == Spec => []SessionInv
<1>1. Init => SessionInv
  BY InitInv
<1>2. SessionInv /\ [Next]_vars => SessionInv'
  BY NextInv
<1>3. QED
  BY <1>1, <1>2, PTL DEF Spec

(* Every handler refreshes the cached search path, and every undo brings back  *)
(* a path that fits the role, the template and the schemas it brings back.     *)
THEOREM PathAlwaysFresh == Spec => []PathIsFresh
<1>1. SessionInv => PathIsFresh
  BY SessionFacts DEF Fresh, PathIsFresh
<1>2. QED
  BY <1>1, SessionInvariant, PTL

(* SET LOCAL and SET LOCAL ROLE never outlive their transaction, however       *)
(* COMMIT, ROLLBACK, savepoints and AND CHAIN end it.                          *)
THEOREM LocalNeverOutlives == Spec => []LocalNeverLasts
<1>1. ASSUME SessionInv, transactions = <<>>
      PROVE  Restorable(session) = Restorable(lasting)
  <2>1. /\ Settled(session) /\ Settled(lasting) /\ SameButLocal(session, lasting)
        /\ IsSession(session) /\ IsSession(lasting) /\ Fresh(session) /\ Fresh(lasting)
        /\ scene \in Scenes
    BY <1>1, SessionFacts
  <2>2. \A f \in Overridable : session[f] = lasting[f]
    <3>1. {"persistent_current_role", "persistent_session_role", "session_search_path_template"}
            \subseteq Fields \ (Overridable \cup {"search_path", "saw_temp_object"} \cup TimeoutSettings)
      BY FieldsFacts DEF Overridable, RoleContext, SearchPath, TimeoutSettings
    <3>2. QED
      BY <2>1, <3>1 DEF Settled, SameButLocal, Overridable
  <2>3. ASSUME NEW f \in TimeoutSettings PROVE session[f] = lasting[f]
    <3> DEFINE a == session[f]
               b == lasting[f]
    <3>1. /\ a \in [session : scene.timeouts, effective : scene.timeouts]
          /\ b \in [session : scene.timeouts, effective : scene.timeouts]
      BY <2>1 DEF IsSession
    <3>2. a.session = b.session /\ a.effective = a.session /\ b.effective = b.session
      BY <2>1 DEF Settled, SameButLocal
    <3> HIDE DEF a, b
    <3>3. a = b
      BY <3>1, <3>2
    <3>4. QED
      BY <3>3 DEF a, b
  <2>4. \A f \in Fields \ {"saw_temp_object", "search_path"} : session[f] = lasting[f]
    BY <2>1, <2>2, <2>3 DEF SameButLocal
  <2>5. \A f \in PathSources : session[f] = lasting[f]
    BY <2>4, FieldsFacts DEF PathSources, RoleContext, SearchPath
  <2>6. WithoutTemp(session["search_path"]) = WithoutTemp(lasting["search_path"])
    BY <2>1, <2>5, SamePath DEF Fresh
  <2>7. QED
    BY <2>4, <2>6, AlikeRestorable DEF Alike
<1>2. SessionInv => LocalNeverLasts
  BY <1>1 DEF LocalNeverLasts, InTransaction
<1>3. QED
  BY <1>2, SessionInvariant, PTL

(* ROLLBACK and ROLLBACK TO give back the session of the frame they go to: no  *)
(* handler changes what it has not saved, the temporary namespace aside.       *)
THEOREM RollbackAlwaysRestores == Spec => []RollbackRestoresSession
<1>1. SessionInv => RollbackRestoresSession
  BY DEF SessionInv
<1>2. QED
  BY <1>1, SessionInvariant, PTL
=============================================================================
