--------------------------- MODULE NameLookupProofs ---------------------------
(***************************************************************************)
(* What the analysis says a name means, for any schemas, tables, columns,  *)
(* search paths, widths of characters and number of statements.  First:    *)
(* with a baseline of every schema no lookup is in doubt.  Then: while     *)
(* every answer was given, the analysis and the server hold the same       *)
(* objects in every schema the analysis knows, so that what it says next   *)
(* is what the server does.                                                *)
(***************************************************************************)
EXTENDS NameLookup, SequenceTheorems, FiniteSetTheorems, TLAPS

------------------------------------------------------------------------------
(* The first of some places.                                               *)

LEMMA LeastPlace ==
    ASSUME NEW T, T \subseteq Nat, T # {}
    PROVE  \E m \in T : \A k \in T : m <= k
<1>1. PICK m \in T : \A k \in T : <<k, m>> \notin OpToRel(<, Nat)
  BY WFMin, NatLessThanWellFounded, Zenon
<1>2. \A k \in T : k \in Nat /\ m \in Nat /\ ~(k < m)
  BY <1>1 DEF OpToRel
<1>3. QED
  BY <1>2

LEMMA FirstIsLeast ==
    ASSUME NEW T, T \subseteq Nat, T # {}
    PROVE  First(T) \in T /\ \A k \in T : First(T) <= k
BY LeastPlace DEF First

LEMMA LeastIsFirst ==
    ASSUME NEW T, T \subseteq Nat, NEW m \in T, \A k \in T : m <= k
    PROVE  First(T) = m
<1>1. First(T) \in T /\ \A k \in T : First(T) <= k
  BY FirstIsLeast
<1>2. First(T) <= m /\ m <= First(T) /\ First(T) \in Nat /\ m \in Nat
  BY <1>1
<1>3. QED
  BY <1>2

------------------------------------------------------------------------------
(* The loop that shortens the names and the fair share.                    *)

LEMMA FairStep ==
    ASSUME NEW b1 \in Nat, NEW b2 \in Nat, NEW available \in Nat, b1 + b2 > available
    PROVE  /\ b1 > b2 => FairShare(b1, b2, available) = FairShare(b1 - 1, b2, available)
           /\ ~(b1 > b2) => FairShare(b1, b2, available) = FairShare(b1, b2 - 1, available)
<1> DEFINE half == available \div 2
<1>1. half \in Nat /\ 2 * half <= available /\ available <= 2 * half + 1
  OBVIOUS
<1>2. \A x, y : FairShare(x, y, available)
                = IF x + y <= available THEN <<x, y>>
                  ELSE IF y <= half THEN <<available - y, y>>
                  ELSE IF x <= available - half THEN <<x, available - x>>
                  ELSE <<available - half, half>>
  BY DEF FairShare
<1> HIDE DEF half
<1>3. ASSUME b1 > b2
      PROVE  FairShare(b1, b2, available) = FairShare(b1 - 1, b2, available)
  BY <1>1, <1>2, <1>3
<1>4. ASSUME ~(b1 > b2)
      PROVE  FairShare(b1, b2, available) = FairShare(b1, b2 - 1, available)
  BY <1>1, <1>2, <1>4
<1>5. QED
  BY <1>3, <1>4

(* Whatever the two names leave of the bytes, the share is theirs and fits. *)
LEMMA FairFits ==
    ASSUME NEW b1 \in Nat, NEW b2 \in Nat, NEW available \in Nat
    PROVE  /\ FairShare(b1, b2, available)[1] \in 0..b1
           /\ FairShare(b1, b2, available)[2] \in 0..b2
           /\ FairShare(b1, b2, available)[1] + FairShare(b1, b2, available)[2] <= available
<1> DEFINE half == available \div 2
<1>1. half \in Nat /\ 2 * half <= available /\ available <= 2 * half + 1
  OBVIOUS
<1>2. FairShare(b1, b2, available)
         = IF b1 + b2 <= available THEN <<b1, b2>>
           ELSE IF b2 <= half THEN <<available - b2, b2>>
           ELSE IF b1 <= available - half THEN <<b1, available - b1>>
           ELSE <<available - half, half>>
  BY DEF FairShare
<1> HIDE DEF half
<1>3. QED
  BY <1>1, <1>2

(* The while loop of postgres_object_name, which takes a byte from the     *)
(* longer name until both fit, ends at the fair share: whole names if they *)
(* fit, else as even a split as the shorter one allows.                    *)
THEOREM ShortenedIsFair ==
    ASSUME NEW bytes1 \in Nat, NEW bytes2 \in Nat, NEW available \in Nat
    PROVE  Shortened(bytes1, bytes2, available) = FairShare(bytes1, bytes2, available)
<1> DEFINE D == (0..bytes1) \X (0..bytes2)
           next(b) == IF b[1] > b[2] THEN <<b[1] - 1, b[2]>> ELSE <<b[1], b[2] - 1>>
           fair(b) == FairShare(b[1], b[2], available)
           Loop(f) == f = [b \in D |-> IF b[1] + b[2] <= available THEN b ELSE f[next(b)]]
           f == CHOOSE g : Loop(g)
           F == [b \in D |-> fair(b)]
<1>1. ASSUME NEW b \in D, b[1] + b[2] > available
      PROVE  /\ next(b) \in D /\ next(b)[1] + next(b)[2] = b[1] + b[2] - 1
             /\ fair(next(b)) = fair(b)
  <2>1. b[1] \in 0..bytes1 /\ b[2] \in 0..bytes2 /\ b = <<b[1], b[2]>>
    OBVIOUS
  <2>2. CASE b[1] > b[2]
    <3>1. next(b) = <<b[1] - 1, b[2]>>
      BY <2>2
    <3>2. b[1] - 1 \in 0..bytes1
      BY <2>1, <2>2
    <3>3. QED
      BY <1>1, <2>1, <2>2, <3>1, <3>2, FairStep
  <2>3. CASE ~(b[1] > b[2])
    <3>1. next(b) = <<b[1], b[2] - 1>>
      BY <2>3
    <3>2. b[2] - 1 \in 0..bytes2
      BY <1>1, <2>1, <2>3
    <3>3. QED
      BY <1>1, <2>1, <2>3, <3>1, <3>2, FairStep
  <2>4. QED
    BY <2>2, <2>3
<1>2. ASSUME NEW b \in D, b[1] + b[2] <= available
      PROVE  fair(b) = b
  BY <1>2 DEF FairShare
<1>a. \A b \in D : b[1] \in Nat /\ b[2] \in Nat
  OBVIOUS
<1> HIDE DEF D, next, fair
<1>3. Loop(F)
  <2>1. ASSUME NEW b \in D
        PROVE  F[b] = IF b[1] + b[2] <= available THEN b ELSE F[next(b)]
    BY <1>1, <1>2, <1>a, <2>1
  <2>2. QED
    BY <2>1
<1>4. Loop(f)
  <2> HIDE DEF Loop
  <2>1. QED
    BY <1>3
<1> HIDE DEF f
<1>5. ASSUME NEW b \in D
      PROVE  f[b] = IF b[1] + b[2] <= available THEN b ELSE f[next(b)]
  BY <1>4
<1> DEFINE Bad == {n \in Nat : \E b \in D : b[1] + b[2] = n /\ f[b] # fair(b)}
<1>6. Bad = {}
  <2> SUFFICES ASSUME Bad # {} PROVE FALSE
    OBVIOUS
  <2>1. PICK n \in Bad : \A k \in Bad : n <= k
    BY LeastPlace
  <2>2. PICK b \in D : b[1] + b[2] = n /\ f[b] # fair(b)
    BY <2>1
  <2>3. b[1] + b[2] > available
    BY <1>2, <1>5, <1>a, <2>2
  <2>a. next(b) \in D /\ next(b)[1] + next(b)[2] = b[1] + b[2] - 1 /\ fair(next(b)) = fair(b)
    BY <1>1, <2>3
  <2>4. next(b) \in D /\ next(b)[1] + next(b)[2] = n - 1 /\ fair(next(b)) = fair(b)
    BY <1>a, <2>2, <2>a
  <2>5. f[next(b)] # fair(next(b))
    BY <1>5, <1>a, <2>2, <2>3, <2>4
  <2>6. n - 1 \in Nat
    BY <1>a, <2>4
  <2>7. n - 1 \in Bad
    BY <2>4, <2>5, <2>6
  <2>8. QED
    BY <2>1, <2>7
<1>7. <<bytes1, bytes2>> \in D /\ fair(<<bytes1, bytes2>>) = FairShare(bytes1, bytes2, available)
  BY DEF D, fair
<1>8. f[<<bytes1, bytes2>>] = fair(<<bytes1, bytes2>>)
  <2>1. bytes1 + bytes2 \in Nat /\ <<bytes1, bytes2>>[1] + <<bytes1, bytes2>>[2] = bytes1 + bytes2
    OBVIOUS
  <2>2. QED
    BY <1>6, <1>7, <2>1
<1>9. Shortened(bytes1, bytes2, available) = f[<<bytes1, bytes2>>]
  BY DEF Shortened, f, Loop, D, next
<1>10. QED
  BY <1>7, <1>8, <1>9

------------------------------------------------------------------------------
(* Bytes of names.                                                         *)

WideAt(name) == {i \in DOMAIN name : name[i] \in Wide}

LEMMA BytesCount ==
    ASSUME NEW S, NEW n \in Seq(S)
    PROVE  /\ IsFiniteSet(WideAt(n)) /\ Cardinality(WideAt(n)) \in 0..Len(n)
           /\ Bytes(n) = Len(n) + Cardinality(WideAt(n)) /\ Bytes(n) \in Nat
<1>1. WideAt(n) \subseteq 1..Len(n) /\ Len(n) \in Nat
  BY DEF WideAt
<1>2. IsFiniteSet(1..Len(n)) /\ Cardinality(1..Len(n)) = Len(n)
  <2>1. Cardinality(1..Len(n)) = IF 1 > Len(n) THEN 0 ELSE Len(n) - 1 + 1
    BY <1>1, FS_Interval
  <2>2. QED
    BY <1>1, <2>1, FS_Interval
<1>3. IsFiniteSet(WideAt(n)) /\ Cardinality(WideAt(n)) <= Len(n)
  BY <1>1, <1>2, FS_Subset
<1>4. Cardinality(WideAt(n)) \in Nat
  BY <1>3, FS_CardinalityType
<1>5. Bytes(n) = Len(n) + Cardinality(WideAt(n))
  BY DEF Bytes, WideAt
<1>6. QED
  BY <1>1, <1>3, <1>4, <1>5

LEMMA BytesOfConcat ==
    ASSUME NEW S, NEW m \in Seq(S), NEW n \in Seq(S)
    PROVE  Bytes(m \o n) = Bytes(m) + Bytes(n)
<1> DEFINE shift(i) == i + Len(m)
           Shifted == {shift(i) : i \in WideAt(n)}
<1>1. m \o n \in Seq(S) /\ Len(m \o n) = Len(m) + Len(n) /\ Len(m) \in Nat /\ Len(n) \in Nat
  OBVIOUS
<1>2. WideAt(m) \cup Shifted = WideAt(m \o n)
  <2>1. ASSUME NEW i \in WideAt(m \o n)
        PROVE  i \in WideAt(m) \cup Shifted
    <3>1. i \in 1..(Len(m) + Len(n)) /\ (m \o n)[i] \in Wide
      BY <1>1 DEF WideAt
    <3>2. CASE i <= Len(m)
      BY <3>1, <3>2 DEF WideAt
    <3>3. CASE i > Len(m)
      <4>1. i - Len(m) \in DOMAIN n /\ (m \o n)[i] = n[i - Len(m)] /\ shift(i - Len(m)) = i
        BY <1>1, <3>1, <3>3
      <4>2. QED
        BY <3>1, <4>1 DEF WideAt
    <3>4. QED
      BY <1>1, <3>1, <3>2, <3>3
  <2>2. ASSUME NEW i \in WideAt(m)
        PROVE  i \in WideAt(m \o n)
    BY <1>1 DEF WideAt
  <2>3. ASSUME NEW i \in WideAt(n)
        PROVE  shift(i) \in WideAt(m \o n)
    BY <1>1 DEF WideAt
  <2>4. QED
    BY <2>1, <2>2, <2>3
<1>3. WideAt(m) \cap Shifted = {}
  BY <1>1 DEF WideAt
<1>4. IsFiniteSet(WideAt(m)) /\ IsFiniteSet(WideAt(n))
  BY BytesCount
<1>5. IsFiniteSet(Shifted) /\ Cardinality(Shifted) = Cardinality(WideAt(n))
  <2> DEFINE f == [i \in WideAt(n) |-> shift(i)]
  <2>1. WideAt(n) \subseteq Nat
    BY DEF WideAt
  <2>2. f \in Bijection(WideAt(n), Shifted)
    <3>1. f \in [WideAt(n) -> Shifted]
      OBVIOUS
    <3>2. \A a, b \in WideAt(n) : f[a] = f[b] => a = b
      BY <1>1, <2>1
    <3>3. \A t \in Shifted : \E a \in WideAt(n) : f[a] = t
      OBVIOUS
    <3> HIDE DEF f, Shifted
    <3>4. QED
      BY <3>1, <3>2, <3>3 DEF Bijection, Injection, Surjection, IsInjective
  <2> HIDE DEF f, Shifted
  <2>3. QED
    BY <1>4, <2>2, FS_Bijection DEF ExistsBijection
<1> HIDE DEF Shifted
<1>6. Cardinality(WideAt(m) \cap Shifted) = 0
  BY <1>3, FS_EmptySet
<1>7. Cardinality(WideAt(m \o n)) = Cardinality(WideAt(m)) + Cardinality(WideAt(n))
  <2>1. Cardinality(WideAt(m) \cup Shifted)
          = Cardinality(WideAt(m)) + Cardinality(Shifted) - Cardinality(WideAt(m) \cap Shifted)
    BY <1>4, <1>5, FS_Union
  <2>2. Cardinality(WideAt(m)) \in Nat /\ Cardinality(WideAt(n)) \in Nat
    BY <1>4, FS_CardinalityType
  <2>3. Cardinality(WideAt(m) \cup Shifted) = Cardinality(WideAt(m)) + Cardinality(WideAt(n)) - 0
    BY <1>5, <1>6, <2>1
  <2>4. Cardinality(WideAt(m \o n)) = Cardinality(WideAt(m) \cup Shifted)
    BY <1>2, Zenon
  <2>5. QED
    BY <2>2, <2>3, <2>4
<1>8. QED
  <2>1. /\ Bytes(m \o n) = Len(m \o n) + Cardinality(WideAt(m \o n))
        /\ Bytes(m) = Len(m) + Cardinality(WideAt(m))
        /\ Bytes(n) = Len(n) + Cardinality(WideAt(n))
    BY <1>1, BytesCount
  <2>2. Cardinality(WideAt(m)) \in Nat /\ Cardinality(WideAt(n)) \in Nat
    BY <1>4, FS_CardinalityType
  <2>3. QED
    BY <1>1, <1>7, <2>1, <2>2

LEMMA BytesOfNarrow ==
    ASSUME NEW n \in Seq(Narrow)
    PROVE  Bytes(n) = Len(n)
<1>1. \A i \in DOMAIN n : n[i] \in Narrow
  OBVIOUS
<1>2. WideAt(n) = {}
  BY <1>1, LimitAssumption DEF WideAt
<1>3. Cardinality(WideAt(n)) = 0
  BY <1>2, FS_EmptySet
<1>4. QED
  BY <1>3, BytesCount

(* A cut falls between characters and keeps within the bytes.              *)
LEMMA TruncateFits ==
    ASSUME NEW S, NEW name \in Seq(S), NEW bytes \in Nat
    PROVE  /\ truncate(name, bytes) \in Seq(S)
           /\ Bytes(truncate(name, bytes)) <= bytes
<1> DEFINE L == Len(name)
           fits(n) == Bytes(SubSeq(name, 1, n)) <= bytes
           cut(n) == fits(n) /\ \A k \in (n + 1)..L : Bytes(SubSeq(name, 1, k)) > bytes
           Left == {d \in 0..L : fits(L - d)}
<1>1. L \in Nat
  OBVIOUS
<1>2. \A n \in 0..L : SubSeq(name, 1, n) \in Seq(S)
  BY <1>1
<1>3. \A n \in 0..L : Bytes(SubSeq(name, 1, n)) \in Nat
  BY <1>2, BytesCount
<1>4. fits(0)
  <2>1. SubSeq(name, 1, 0) = <<>>
    OBVIOUS
  <2>2. Bytes(<<>>) = 0
    <3>1. <<>> \in Seq(Narrow) /\ Len(<<>>) = 0
      OBVIOUS
    <3>2. QED
      BY <3>1, BytesOfNarrow
  <2>3. Bytes(SubSeq(name, 1, 0)) = 0
    BY <2>1, <2>2, Zenon
  <2>4. QED
    BY <2>3
<1>5. \E n \in 0..L : cut(n)
  <2>1. L \in Left
    BY <1>1, <1>4
  <2>2. PICK d \in Left : \A e \in Left : d <= e
    <3>1. Left \subseteq Nat
      BY <1>1
    <3> HIDE DEF Left
    <3>2. QED
      BY <2>1, <3>1, LeastPlace
  <2>3. ASSUME NEW k \in (L - d + 1)..L
        PROVE  Bytes(SubSeq(name, 1, k)) > bytes
    <3>1. L - k \in 0..L /\ L - (L - k) = k /\ L - k < d
      BY <1>1, <2>2
    <3>2. ~fits(k)
      <4> HIDE DEF fits
      <4>1. QED
        BY <1>1, <2>2, <3>1
    <3>3. QED
      BY <1>1, <1>3, <3>1, <3>2
  <2>4. L - d \in 0..L /\ fits(L - d)
    BY <1>1, <2>2
  <2>5. QED
    BY <2>3, <2>4
<1> DEFINE N == CHOOSE n \in 0..L : cut(n)
<1>6. N \in 0..L /\ cut(N)
  <2> HIDE DEF cut
  <2>1. QED
    BY <1>5
<1>7. truncate(name, bytes) = SubSeq(name, 1, N)
  BY DEF truncate
<1> HIDE DEF N
<1>8. QED
  BY <1>2, <1>6, <1>7

------------------------------------------------------------------------------
(* The generated name.                                                     *)

LEMMA SeqWidens ==
    ASSUME NEW S, NEW T, S \subseteq T, NEW n \in Seq(S)
    PROVE  n \in Seq(T)
<1>1. Len(n) \in Nat /\ DOMAIN n = 1..Len(n) /\ \A i \in 1..Len(n) : n[i] \in T
  OBVIOUS
<1>2. n \in [1..Len(n) -> T]
  OBVIOUS
<1>3. QED
  BY <1>1, <1>2, SeqDef

LEMMA ConcatIsSeq ==
    ASSUME NEW S, NEW m \in Seq(S), NEW n \in Seq(S)
    PROVE  m \o n \in Seq(S)
OBVIOUS

LEMMA OneIsSeq ==
    ASSUME NEW S, NEW x \in S
    PROVE  <<x>> \in Seq(S) /\ Len(<<x>>) = 1
OBVIOUS

(* A second name is absent or one name.                                    *)
AtMostOne(S) == {<<>>} \cup {<<c>> : c \in Seq(S)}

(* A label that leaves room for its separators.                            *)
Fitting(label, name2) ==
    label \in Seq(Narrow) /\ Len(label) + Len(name2) + 1 <= MaxIdentifierBytes

(* postgres_object_name makes the name PostgreSQL would, and it fits.      *)
THEOREM ObjectNameIsFair ==
    ASSUME NEW S, Narrow \subseteq S, NEW name1 \in Seq(S), NEW name2 \in AtMostOne(S),
           NEW label, Fitting(label, name2)
    PROVE  /\ postgres_object_name(name1, name2, label) = FairName(name1, name2, label)
           /\ Bytes(postgres_object_name(name1, name2, label)) <= MaxIdentifierBytes
           /\ \E front \in Seq(S) : postgres_object_name(name1, name2, label) = front \o label
<1> DEFINE room == MaxIdentifierBytes - Len(label) - Len(name2) - 1
           b1 == Bytes(name1)
           b2 == IF name2 = <<>> THEN 0 ELSE Bytes(name2[1])
           share == FairShare(b1, b2, room)
           made == postgres_object_name(name1, name2, label)
<1>1. MaxIdentifierBytes \in Nat /\ label \in Seq(Narrow) /\ Len(label) \in Nat
  BY LimitAssumption DEF Fitting
<1>2. Len(name2) \in 0..1 /\ (name2 = <<>> => Len(name2) = 0) /\ (name2 # <<>> => Len(name2) = 1 /\ name2[1] \in Seq(S))
  BY DEF AtMostOne
<1>3. room \in Nat
  BY <1>1, <1>2 DEF Fitting
<1>4. b1 \in Nat
  BY BytesCount
<1>5. b2 \in Nat
  BY <1>2, BytesCount
<1>6. Room(label, IF name2 # <<>> THEN 2 ELSE 1) = room
  <2>1. (IF name2 # <<>> THEN 2 ELSE 1) = Len(name2) + 1
    <3>1. CASE name2 = <<>>
      BY <1>2, <3>1
    <3>2. CASE name2 # <<>>
      <4>1. Len(name2) = 1
        BY <1>2, <3>2, Zenon
      <4>2. QED
        BY <3>2, <4>1
    <3>3. QED
      BY <3>1, <3>2
  <2>2. Room(label, Len(name2) + 1) = room
    BY <1>1, <1>2, <1>3 DEF Room
  <2>3. QED
    BY <2>1, <2>2, Zenon
<1> HIDE DEF room, b1, b2
<1>7. Shortened(b1, b2, room) = share
  BY <1>3, <1>4, <1>5, ShortenedIsFair
<1>8. share[1] \in Nat /\ share[2] \in Nat /\ share[1] + share[2] <= room
  <2>1. share[1] \in 0..b1 /\ share[2] \in 0..b2 /\ share[1] + share[2] <= room
    BY <1>3, <1>4, <1>5, FairFits, Zenon
  <2> HIDE DEF share
  <2>2. QED
    BY <2>1, <1>4, <1>5
<1>9. b2 = IF name2 # <<>> THEN Bytes(name2[1]) ELSE 0
  BY DEF b2
<1>10. made = truncate(name1, share[1])
                \o (IF name2 # <<>> THEN <<"_">> \o truncate(name2[1], share[2]) ELSE <<>>)
                \o <<"_">> \o label
  <2>1. made = LET bytes == Shortened(b1, b2, room)
               IN  truncate(name1, bytes[1])
                   \o (IF name2 # <<>> THEN <<"_">> \o truncate(name2[1], bytes[2]) ELSE <<>>)
                   \o <<"_">> \o label
    BY <1>6, <1>9, Zenon DEF postgres_object_name, b1
  <2>2. QED
    BY <1>7, <2>1, Zenon
<1>11. FairName(name1, name2, label)
         = truncate(name1, share[1])
                \o (IF name2 = <<>> THEN <<>> ELSE <<"_">> \o truncate(name2[1], share[2]))
                \o <<"_">> \o label
  BY Zenon DEF FairName, room, b1, b2
<1> HIDE DEF share, made
<1>12. <<"_">> \in Seq(Narrow) /\ <<"_">> \in Seq(S) /\ label \in Seq(S)
  <2>1. "_" \in Narrow
    BY DEF Narrow
  <2>2. <<"_">> \in Seq(Narrow)
    BY <2>1, OneIsSeq, Zenon
  <2>3. QED
    BY <1>1, <2>2, SeqWidens, Zenon
<1>13. Bytes(<<"_">>) = 1 /\ Bytes(label) = Len(label)
  <2>1. Len(<<"_">>) = 1
    OBVIOUS
  <2>2. QED
    BY <1>1, <1>12, <2>1, BytesOfNarrow
<1>14. truncate(name1, share[1]) \in Seq(S) /\ Bytes(truncate(name1, share[1])) <= share[1]
  BY <1>8, TruncateFits
<1>15. CASE name2 = <<>>
  <2> DEFINE t == truncate(name1, share[1])
  <2> HIDE DEF t
  <2>1. made = t \o <<"_">> \o label
    <3>1. made = t \o <<>> \o <<"_">> \o label
      BY <1>10, <1>15, Zenon DEF t
    <3>2. t \o <<>> = t
      BY <1>14 DEF t
    <3>3. QED
      BY <3>1, <3>2, Zenon
  <2>2. t \in Seq(S) /\ t \o <<"_">> \in Seq(S) /\ Bytes(t) \in Nat /\ Bytes(t) <= share[1]
    <3>1. t \in Seq(S) /\ Bytes(t) <= share[1]
      BY <1>14, Zenon DEF t
    <3>2. Bytes(t) \in Nat
      BY <3>1, BytesCount, Zenon
    <3>3. t \o <<"_">> \in Seq(S)
      BY <1>12, <3>1, ConcatIsSeq, Zenon
    <3>4. QED
      BY <3>1, <3>2, <3>3
  <2>3. Bytes(made) = Bytes(t) + 1 + Len(label)
    <3>1. Bytes(t \o <<"_">>) = Bytes(t) + Bytes(<<"_">>)
      BY <1>12, <2>2, BytesOfConcat
    <3>2. Bytes((t \o <<"_">>) \o label) = Bytes(t \o <<"_">>) + Bytes(label)
      BY <1>12, <2>2, BytesOfConcat
    <3>3. QED
      BY <1>13, <2>1, <3>1, <3>2
  <2>4. Bytes(made) <= MaxIdentifierBytes
    <3>1. Len(name2) = 0
      BY <1>2, <1>15, Zenon
    <3>2. room = MaxIdentifierBytes - Len(label) - 0 - 1
      BY <3>1, Zenon DEF room
    <3>3. share[1] \in Nat /\ share[2] \in Nat /\ share[1] + share[2] <= MaxIdentifierBytes - Len(label) - 0 - 1
      BY <1>8, <3>2, Zenon
    <3>4. Bytes(t) \in Nat /\ Bytes(t) <= share[1]
      BY <2>2, Zenon
    <3>5. QED
      BY <1>1, <2>3, <3>3, <3>4
  <2>5. made = FairName(name1, name2, label)
    BY <1>10, <1>11, <1>15
  <2>6. QED
    BY <1>12, <2>1, <2>2, <2>4, <2>5 DEF made
<1>16. CASE name2 # <<>>
  <2> DEFINE t == truncate(name1, share[1])
             u == truncate(name2[1], share[2])
  <2> HIDE DEF t, u
  <2>1. made = t \o (<<"_">> \o u) \o <<"_">> \o label
    BY <1>10, <1>16, Zenon DEF t, u
  <2>2. t \in Seq(S) /\ Bytes(t) \in Nat /\ Bytes(t) <= share[1]
    BY <1>14, BytesCount DEF t
  <2>3. u \in Seq(S) /\ Bytes(u) \in Nat /\ Bytes(u) <= share[2]
    BY <1>2, <1>8, <1>16, TruncateFits, BytesCount DEF u
  <2>4. <<"_">> \o u \in Seq(S) /\ t \o (<<"_">> \o u) \in Seq(S) /\ t \o (<<"_">> \o u) \o <<"_">> \in Seq(S)
    <3>1. <<"_">> \in Seq(S)
      BY <1>12
    <3>2. <<"_">> \o u \in Seq(S)
      BY <2>3, <3>1, ConcatIsSeq, Zenon
    <3>3. t \o (<<"_">> \o u) \in Seq(S)
      BY <2>2, <3>2, ConcatIsSeq, Zenon
    <3>4. QED
      BY <3>1, <3>2, <3>3, ConcatIsSeq, Zenon
  <2>5. Bytes(made) = Bytes(t) + (1 + Bytes(u)) + 1 + Len(label)
    <3>1. Bytes(<<"_">> \o u) = Bytes(<<"_">>) + Bytes(u)
      BY <1>12, <2>3, BytesOfConcat
    <3>2. Bytes(t \o (<<"_">> \o u)) = Bytes(t) + Bytes(<<"_">> \o u)
      BY <2>2, <2>4, BytesOfConcat
    <3>3. Bytes((t \o (<<"_">> \o u)) \o <<"_">>) = Bytes(t \o (<<"_">> \o u)) + Bytes(<<"_">>)
      BY <1>12, <2>4, BytesOfConcat
    <3>4. Bytes((t \o (<<"_">> \o u) \o <<"_">>) \o label) = Bytes((t \o (<<"_">> \o u)) \o <<"_">>) + Bytes(label)
      BY <1>12, <2>4, BytesOfConcat
    <3>5. QED
      BY <1>13, <2>1, <3>1, <3>2, <3>3, <3>4, Zenon
  <2>6. Bytes(made) <= MaxIdentifierBytes
    <3>1. Len(name2) = 1
      BY <1>2, <1>16, Zenon
    <3>2. room = MaxIdentifierBytes - Len(label) - 1 - 1
      BY <3>1, Zenon DEF room
    <3>3. share[1] \in Nat /\ share[2] \in Nat /\ share[1] + share[2] <= MaxIdentifierBytes - Len(label) - 1 - 1
      BY <1>8, <3>2, Zenon
    <3>4. Bytes(t) \in Nat /\ Bytes(t) <= share[1] /\ Bytes(u) \in Nat /\ Bytes(u) <= share[2]
      BY <2>2, <2>3, Zenon
    <3>5. QED
      BY <1>1, <2>5, <3>3, <3>4
  <2>7. made = FairName(name1, name2, label)
    BY <1>10, <1>11, <1>16, Zenon
  <2>8. QED
    BY <2>1, <2>4, <2>6, <2>7 DEF made
<1>17. QED
  BY <1>15, <1>16

------------------------------------------------------------------------------
(* The candidates: every one fits, and labels keep them apart.             *)

LEMMA NumberedFits ==
    ASSUME NEW label \in Seq(Narrow), NEW i \in 0..9
    PROVE  Numbered(label, i) \in Seq(Narrow) /\ Len(Numbered(label, i)) \in Len(label)..(Len(label) + 1)
<1>1. CASE i = 0
  BY <1>1 DEF Numbered
<1>2. CASE i # 0
  <2>a. i \in 1..9
    BY <1>2
  <2>1. Digit[i] \in Narrow
    BY <2>a, Zenon DEF Narrow
  <2>2. Numbered(label, i) = Append(label, Digit[i])
    BY <1>2 DEF Numbered
  <2> DEFINE d == Digit[i]
  <2> HIDE DEF d
  <2>3. d \in Narrow /\ Numbered(label, i) = Append(label, d)
    BY <2>1, <2>2 DEF d
  <2>4. QED
    BY <2>3
<1>3. QED
  BY <1>1, <1>2

THEOREM CandidatesAreFair ==
    ASSUME NEW S, Narrow \subseteq S, NEW name1 \in Seq(S), NEW name2 \in AtMostOne(S),
           NEW label \in Seq(Narrow), Len(label) + Len(name2) + 2 <= MaxIdentifierBytes
    PROVE  /\ Candidates(name1, name2, label) = FairCandidates(name1, name2, label)
           /\ DOMAIN Candidates(name1, name2, label) = 0..9
           /\ \A i \in 0..9 :
                 /\ Bytes(Candidates(name1, name2, label)[i]) <= MaxIdentifierBytes
                 /\ \E front \in Seq(S) : Candidates(name1, name2, label)[i] = front \o Numbered(label, i)
<1>1. Len(name2) \in Nat /\ MaxIdentifierBytes \in Nat
  BY LimitAssumption DEF AtMostOne
<1>2. ASSUME NEW i \in 0..9
      PROVE  Fitting(Numbered(label, i), name2)
  <2>1. Numbered(label, i) \in Seq(Narrow) /\ Len(Numbered(label, i)) \in Len(label)..(Len(label) + 1)
    BY NumberedFits
  <2>2. Len(label) \in Nat
    OBVIOUS
  <2>3. QED
    BY <1>1, <2>1, <2>2 DEF Fitting
<1>3. ASSUME NEW i \in 0..9
      PROVE  LET made == postgres_object_name(name1, name2, Numbered(label, i))
             IN  /\ made = FairName(name1, name2, Numbered(label, i))
                 /\ Bytes(made) <= MaxIdentifierBytes
                 /\ \E front \in Seq(S) : made = front \o Numbered(label, i)
  BY <1>2, ObjectNameIsFair
<1>4. QED
  BY <1>3 DEF Candidates, FairCandidates

LEMMA LastOf ==
    ASSUME NEW S, NEW f \in Seq(S), NEW l \in Seq(S), Len(l) > 0
    PROVE  /\ f \o l \in Seq(S) /\ Len(f \o l) \in Nat \ {0}
           /\ (f \o l)[Len(f \o l)] = l[Len(l)]
OBVIOUS

LEMMA DigitsDoNotEnd ==
    \A i \in 1..9 : Digit[i] \notin {"q", "y"}
BY DEF Digit

(* Names of different kinds of objects are never the same name: what is    *)
(* before the number, if there is one, tells the labels apart.             *)
LEMMA LabelsApart ==
    ASSUME NEW S, Narrow \subseteq S, NEW f \in Seq(S), NEW g \in Seq(S), NEW i \in 0..9, NEW j \in 0..9,
           NEW l \in Seq(S), Len(l) > 0, l[Len(l)] = "q",
           NEW m \in Seq(S), Len(m) > 0, m[Len(m)] = "y"
    PROVE  f \o Numbered(l, i) # g \o Numbered(m, j)
<1>1. /\ f \o l \in Seq(S) /\ (f \o l)[Len(f \o l)] = "q" /\ Len(f \o l) \in Nat
      /\ g \o m \in Seq(S) /\ (g \o m)[Len(g \o m)] = "y" /\ Len(g \o m) \in Nat
  BY LastOf
<1>2. \A k \in 1..9 : Digit[k] \in S /\ Digit[k] \notin {"q", "y"}
  BY DigitsDoNotEnd DEF Narrow
<1>3. \A k \in 0..9 : k # 0 => k \in 1..9
  OBVIOUS
<1>4. /\ i = 0 => f \o Numbered(l, i) = f \o l
      /\ i # 0 => f \o Numbered(l, i) = Append(f \o l, Digit[i])
  <2>1. CASE i = 0
    BY <2>1 DEF Numbered
  <2>2. CASE i # 0
    <3>1. Digit[i] \in S /\ Numbered(l, i) = Append(l, Digit[i])
      BY <1>2, <1>3, <2>2 DEF Numbered
    <3> DEFINE d == Digit[i]
    <3> HIDE DEF d
    <3>2. d \in S => f \o Append(l, d) = Append(f \o l, d)
      OBVIOUS
    <3>3. QED
      BY <2>2, <3>1, <3>2 DEF d
  <2>3. QED
    BY <2>1, <2>2
<1>5. /\ j = 0 => g \o Numbered(m, j) = g \o m
      /\ j # 0 => g \o Numbered(m, j) = Append(g \o m, Digit[j])
  <2>1. CASE j = 0
    BY <2>1 DEF Numbered
  <2>2. CASE j # 0
    <3>1. Digit[j] \in S /\ Numbered(m, j) = Append(m, Digit[j])
      BY <1>2, <1>3, <2>2 DEF Numbered
    <3> DEFINE d == Digit[j]
    <3> HIDE DEF d
    <3>2. d \in S => g \o Append(m, d) = Append(g \o m, d)
      OBVIOUS
    <3>3. QED
      BY <2>2, <3>1, <3>2 DEF d
  <2>3. QED
    BY <2>1, <2>2
<1>6. ASSUME NEW a \in Seq(S), NEW b \in Seq(S), NEW d \in S, NEW e \in S,
             Append(a, d) = Append(b, e)
      PROVE  a = b /\ d = e
  BY <1>6, AppendInjective
<1>7. ASSUME NEW a \in Seq(S), NEW d \in S
      PROVE  Append(a, d)[Len(Append(a, d))] = d
  OBVIOUS
<1> DEFINE F == f \o l
           G == g \o m
<1> HIDE DEF F, G
<1>8. /\ F \in Seq(S) /\ F[Len(F)] = "q" /\ G \in Seq(S) /\ G[Len(G)] = "y"
      /\ i = 0 => f \o Numbered(l, i) = F
      /\ i # 0 => f \o Numbered(l, i) = Append(F, Digit[i]) /\ Digit[i] \in S /\ Digit[i] \notin {"q", "y"}
      /\ j = 0 => g \o Numbered(m, j) = G
      /\ j # 0 => g \o Numbered(m, j) = Append(G, Digit[j]) /\ Digit[j] \in S /\ Digit[j] \notin {"q", "y"}
  BY <1>1, <1>2, <1>3, <1>4, <1>5, Zenon DEF F, G
<1>9. "q" # "y"
  OBVIOUS
<1>10. CASE i = 0 /\ j = 0
  BY <1>8, <1>9, <1>10, Zenon
<1>11. CASE i = 0 /\ j # 0
  <2>1. Append(G, Digit[j])[Len(Append(G, Digit[j]))] # "q"
    BY <1>7, <1>8, <1>11, Zenon
  <2>2. QED
    BY <1>8, <1>11, <2>1, Zenon
<1>12. CASE i # 0 /\ j = 0
  <2>1. Append(F, Digit[i])[Len(Append(F, Digit[i]))] # "y"
    BY <1>7, <1>8, <1>12, Zenon
  <2>2. QED
    BY <1>8, <1>12, <2>1, Zenon
<1>13. CASE i # 0 /\ j # 0
  <2>1. F # G
    BY <1>8, <1>9, Zenon
  <2>2. Append(F, Digit[i]) # Append(G, Digit[j])
    <3>1. Digit[i] \in S /\ Digit[j] \in S /\ F \in Seq(S) /\ G \in Seq(S)
      BY <1>8, <1>13, Zenon
    <3>2. QED
      BY <1>6, <2>1, <3>1, Zenon
  <2>3. QED
    BY <1>8, <1>13, <2>2, Zenon
<1>14. QED
  BY <1>10, <1>11, <1>12, <1>13

------------------------------------------------------------------------------
(* The first candidate that is free, alone and in turn.                    *)

FreeAt(c, taken) == {i \in DOMAIN c : c[i] \notin taken}

LEMMA FirstFreeIsFree ==
    ASSUME NEW c, DOMAIN c \subseteq Nat, NEW taken, FirstFree(c, taken) # NoName
    PROVE  /\ FirstFree(c, taken) \notin taken
           /\ \E i \in DOMAIN c : FirstFree(c, taken) = c[i]
<1>1. FirstFree(c, taken) = IF FreeAt(c, taken) = {} THEN NoName ELSE c[First(FreeAt(c, taken))]
  BY DEF FirstFree, FreeAt
<1>2. FreeAt(c, taken) # {}
  BY <1>1
<1>3. First(FreeAt(c, taken)) \in FreeAt(c, taken)
  BY <1>2, FirstIsLeast DEF FreeAt
<1>4. QED
  BY <1>1, <1>2, <1>3 DEF FreeAt

(* More names that are taken change nothing, if the one picked is not      *)
(* among them.                                                             *)
LEMMA FirstFreeStays ==
    ASSUME NEW c, DOMAIN c \subseteq Nat, NEW taken, NEW more,
           FirstFree(c, taken) # NoName, FirstFree(c, taken) \notin more
    PROVE  FirstFree(c, taken \cup more) = FirstFree(c, taken)
<1>1. /\ FirstFree(c, taken) = IF FreeAt(c, taken) = {} THEN NoName ELSE c[First(FreeAt(c, taken))]
      /\ FirstFree(c, taken \cup more)
           = IF FreeAt(c, taken \cup more) = {} THEN NoName ELSE c[First(FreeAt(c, taken \cup more))]
  BY DEF FirstFree, FreeAt
<1> DEFINE m == First(FreeAt(c, taken))
<1>2. FreeAt(c, taken) # {} /\ FreeAt(c, taken) \subseteq Nat
  BY <1>1 DEF FreeAt
<1>3. m \in FreeAt(c, taken) /\ \A k \in FreeAt(c, taken) : m <= k
  BY <1>2, FirstIsLeast
<1>4. FirstFree(c, taken) = c[m]
  BY <1>1, <1>2
<1> HIDE DEF m
<1>5. m \in FreeAt(c, taken \cup more)
  BY <1>3, <1>4 DEF FreeAt
<1>6. FreeAt(c, taken \cup more) \subseteq FreeAt(c, taken)
  BY DEF FreeAt
<1>7. First(FreeAt(c, taken \cup more)) = m
  BY <1>2, <1>3, <1>5, <1>6, LeastIsFirst
<1>8. QED
  BY <1>1, <1>4, <1>5, <1>7

(* What next_implicit_sequence_ids picks: each name avoids what is taken   *)
(* and the names picked before it.                                         *)
PickedBefore(name, i) == {name[j] : j \in 1..(i - 1)}

THEOREM InTurnPicks ==
    ASSUME NEW lists, NEW n \in Nat, DOMAIN lists = 1..n, NEW taken
    PROVE  /\ DOMAIN InTurn(lists, taken) = DOMAIN lists
           /\ \A i \in DOMAIN lists :
                 InTurn(lists, taken)[i]
                     = FirstFree(lists[i], taken \cup PickedBefore(InTurn(lists, taken), i))
<1> DEFINE pick(g, i) == FirstFree(lists[i], taken \cup PickedBefore(g, i))
           Upto(g, k) == DOMAIN g = 1..k /\ \A i \in 1..k : g[i] = pick(g, i)
           Bad == {k \in Nat : ~\E g : Upto(g, k)}
           Eqn(g) == g = [i \in 1..n |-> pick(g, i)]
<1>1. Bad = {}
  <2> SUFFICES ASSUME Bad # {} PROVE FALSE
    OBVIOUS
  <2>1. PICK k \in Bad : \A e \in Bad : k <= e
    <3>1. Bad \subseteq Nat
      OBVIOUS
    <3> HIDE DEF Bad
    <3>2. QED
      BY <3>1, LeastPlace
  <2>2. k # 0
    <3>1. 1..0 = {}
      OBVIOUS
    <3>2. Upto([i \in {} |-> 0], 0)
      BY <3>1
    <3> HIDE DEF Upto
    <3>3. QED
      BY <2>1, <3>2
  <2>3. k - 1 \in Nat /\ k - 1 \notin Bad
    <3>1. k \in Nat
      BY <2>1
    <3>2. k - 1 \in Nat /\ ~(k <= k - 1)
      BY <2>2, <3>1
    <3> HIDE DEF Bad
    <3>3. QED
      BY <2>1, <3>2
  <2>4. PICK g : Upto(g, k - 1)
    BY <2>3
  <2> DEFINE h == [i \in 1..k |-> IF i = k THEN pick(g, k) ELSE g[i]]
  <2>5. \A i \in 1..k : PickedBefore(h, i) = PickedBefore(g, i)
    <3>1. ASSUME NEW i \in 1..k, NEW j \in 1..(i - 1)
          PROVE  h[j] = g[j]
      <4>1. j \in 1..k /\ j # k
        BY <2>3
      <4>2. QED
        BY <4>1
    <3> HIDE DEF h
    <3>2. QED
      BY <3>1 DEF PickedBefore
  <2>6. ASSUME NEW i \in 1..k
        PROVE  h[i] = pick(h, i)
    <3>1. pick(h, i) = pick(g, i)
      <4> HIDE DEF h
      <4>1. QED
        BY <2>5
    <3>2. CASE i = k
      BY <3>1, <3>2
    <3>3. CASE i # k
      <4>1. i \in 1..(k - 1)
        BY <2>3, <3>3
      <4>2. g[i] = pick(g, i)
        BY <2>4, <4>1
      <4>3. h[i] = g[i]
        BY <3>3
      <4>4. QED
        BY <3>1, <4>2, <4>3, Zenon
    <3>4. QED
      BY <3>2, <3>3
  <2>7. DOMAIN h = 1..k
    OBVIOUS
  <2> HIDE DEF h
  <2>8. Upto(h, k)
    BY <2>6, <2>7
  <2>9. QED
    BY <2>1, <2>8
<1>2. PICK g : Upto(g, n)
  BY <1>1
<1>3. \E h : Eqn(h)
  <2> DEFINE h == [i \in 1..n |-> g[i]]
  <2>1. \A i \in 1..n : \A j \in 1..(i - 1) : j \in 1..n
    OBVIOUS
  <2>2. \A i \in 1..n : PickedBefore(h, i) = PickedBefore(g, i)
    BY <2>1 DEF PickedBefore
  <2>3. \A i \in 1..n : h[i] = pick(h, i)
    BY <1>2, <2>2
  <2>4. h = [i \in 1..n |-> pick(h, i)]
    <3>1. h = [i \in 1..n |-> h[i]]
      OBVIOUS
    <3> HIDE DEF h
    <3>2. QED
      BY <2>3, <3>1
  <2>5. QED
    BY <2>4
<1> DEFINE name == CHOOSE h : Eqn(h)
<1>4. Eqn(name)
  <2> HIDE DEF Eqn
  <2>1. QED
    BY <1>3
<1>5. InTurn(lists, taken) = name
  BY DEF InTurn, PickedBefore
<1> HIDE DEF name
<1>6. QED
  BY <1>4, <1>5

------------------------------------------------------------------------------
(* With a baseline of every schema.                                        *)

(* A path of one place for each written name holds names of schemas.       *)

LEMMA NameAtIsThere ==
    ASSUME NEW path, DOMAIN path \subseteq Nat, NEW places \in SUBSET DOMAIN path,
           NEW N, \A i \in DOMAIN path : path[i].name \in N
    PROVE  NameAt(path, places) \in N \cup {""}
<1>1. CASE places = {}
  BY <1>1 DEF NameAt
<1>2. CASE places # {}
  <2>1. First(places) \in places
    BY <1>2, FirstIsLeast
  <2>2. QED
    BY <1>2, <2>1 DEF NameAt
<1>3. QED
  BY <1>1, <1>2

(* The schemas are known or not, and the baseline covers all or some.      *)
ToolOk(t) ==
    /\ t = [schemas |-> t.schemas, scope |-> t.scope, relations |-> t.relations, sequences |-> t.sequences,
            indexes |-> t.indexes, aliases |-> t.aliases, temp |-> t.temp]
    /\ t.schemas \in [Schemas -> {"present", "none", "dropped"}]
    /\ t.scope = All \/ t.scope \subseteq Schemas

LookupInv ==
    /\ ToolOk(tool)
    /\ template \in Paths
    /\ FullBaselineDecides

LEMMA PathFacts ==
    ASSUME LookupInv, Full
    PROVE  /\ DOMAIN search_path \subseteq Nat
           /\ \A i \in DOMAIN search_path : search_path[i].name \in Schemas \cup {""}
           /\ Blind(search_path) = {}
<1>1. template \in Seq(Schemas)
  BY NamesAssumption DEF LookupInv
<1>2. Len(template) \in Nat /\ DOMAIN template = 1..Len(template)
      /\ \A i \in 1..Len(template) : template[i] \in Schemas
  BY <1>1
<1>3. DOMAIN search_path = 1..Len(template)
  BY <1>2 DEF search_path
<1>4. ASSUME NEW i \in 1..Len(template)
      PROVE  search_path[i] \in {Searched(template[i]), NoEntry}
  <2>1. template[i] \in tool.scope
    BY <1>2 DEF Full, All
  <2>2. PathEntry(template[i]) \in {Searched(template[i]), NoEntry}
    BY <2>1 DEF PathEntry, schema_absence_is_authoritative
  <2>3. search_path[i] \in {PathEntry(template[i]), NoEntry}
    BY <1>2 DEF search_path
  <2>4. QED
    BY <2>2, <2>3
<1>5. \A i \in 1..Len(template) : search_path[i].name \in Schemas \cup {""}
                                  /\ (search_path[i] # NoEntry => search_path[i].searched)
  <2>1. \A m : Searched(m).name = m /\ Searched(m).searched
    BY DEF Searched
  <2>2. NoEntry.name = ""
    BY DEF NoEntry, Unresolved
  <2>3. QED
    BY <1>2, <1>4, <2>1, <2>2
<1>6. Blind(search_path) = {}
  BY <1>3, <1>5 DEF Blind, Entries
<1>7. QED
  <2>1. 1..Len(template) \subseteq Nat
    BY <1>2
  <2>2. QED
    BY <1>3, <1>5, <1>6, <2>1

LEMMA NothingShadows ==
    ASSUME LookupInv, Full
    PROVE  \A r : ~lookup_shadowed(r)
BY PathFacts DEF lookup_shadowed, path_shadows

(* Every schema a lookup is about is one the baseline covers.              *)
LEMMA ResolvedInScope ==
    ASSUME LookupInv, Full, NEW ref \in Refs
    PROVE  /\ resolve_in_namespace(ref).id[1] \in tool.scope
           /\ resolve_creation_name(ref).id[1] \in tool.scope
<1>0. ref[1] \in Schemas \cup {""} /\ All = tool.scope /\ Schemas \cup {"", Temp} = All
  BY DEF Refs, Full, All
<1>1. CASE ref[1] # ""
  BY <1>0, <1>1 DEF resolve_in_namespace, resolve_creation_name
<1>2. CASE ref[1] = ""
  <2>1. PICK path : /\ path = search_path /\ DOMAIN path \subseteq Nat
                    /\ \A i \in DOMAIN path : path[i].name \in Schemas \cup {""}
    BY PathFacts
  <2>2. creation_schema \in Schemas \cup {""}
    <3> DEFINE found == {i \in DOMAIN search_path : search_path[i].searched}
               at == IF found = {} THEN Entries(search_path) ELSE found
    <3>1. at \in SUBSET DOMAIN search_path
      BY DEF Entries
    <3>2. creation_schema = NameAt(search_path, at)
      BY DEF creation_schema
    <3> HIDE DEF at
    <3>3. QED
      BY <2>1, <3>1, <3>2, NameAtIsThere
  <2>3. /\ DOMAIN relation_search_path \subseteq Nat
        /\ \A i \in DOMAIN relation_search_path : relation_search_path[i].name \in Schemas \cup {"", Temp}
    <3>1. Searched(Temp).name = Temp
      BY DEF Searched
    <3>3. CASE ~temp_namespace_exists
      BY <2>1, <3>3 DEF relation_search_path
    <3>4. CASE temp_namespace_exists
      <4>1. relation_search_path
              = [z \in DOMAIN path \cup {0} |-> IF z = 0 THEN Searched(Temp) ELSE path[z]]
        BY <2>1, <3>4 DEF relation_search_path, With
      <4>2. \A z \in DOMAIN path \cup {0} :
               z \in Nat /\ relation_search_path[z] = IF z = 0 THEN Searched(Temp) ELSE path[z]
        <5>1. DOMAIN path \cup {0} \subseteq Nat
          <6>1. DOMAIN path \subseteq Nat
            BY <2>1, Zenon
          <6>2. QED
            BY <6>1
        <5>2. PICK rsp : rsp = relation_search_path
          OBVIOUS
        <5>3. \A z \in DOMAIN path \cup {0} : rsp[z] = IF z = 0 THEN Searched(Temp) ELSE path[z]
          BY <4>1, <5>2, Zenon
        <5>4. QED
          BY <5>1, <5>2, <5>3, Zenon
      <4>3. DOMAIN relation_search_path = DOMAIN path \cup {0}
        BY <4>1
      <4>4. QED
        BY <2>1, <3>1, <4>2, <4>3
    <3>5. QED
      BY <3>3, <3>4
  <2>4. resolve_in_namespace(ref).id[1] \in Schemas \cup {"", Temp}
    <3> DEFINE all == relation_search_path
               hits == {i \in DOMAIN all : all[i].searched /\ IsTaken(Namespace(tool), <<all[i].name, ref[2]>>)}
               at == IF hits = {} THEN Entries(all) ELSE hits
    <3>1. at \in SUBSET DOMAIN all
      BY DEF Entries
    <3>2. resolve_in_namespace(ref) = [id |-> <<NameAt(all, at), ref[2]>>, inferred |-> TRUE]
      BY <1>2 DEF resolve_in_namespace
    <3> HIDE DEF at, all
    <3>4. NameAt(all, at) \in (Schemas \cup {"", Temp}) \cup {""}
      BY <2>3, <3>1, NameAtIsThere DEF all
    <3>5. resolve_in_namespace(ref).id = <<NameAt(all, at), ref[2]>>
      BY <3>2
    <3>6. resolve_in_namespace(ref).id[1] = NameAt(all, at)
      BY <3>5
    <3>7. QED
      BY <3>4, <3>6
  <2>5. resolve_creation_name(ref).id[1] = creation_schema
    BY <1>2 DEF resolve_creation_name
  <2>6. QED
    BY <1>0, <2>2, <2>4, <2>5
<1>3. QED
  BY <1>1, <1>2

LEMMA SchemaLookupDecides ==
    ASSUME LookupInv, Full, NEW n \in tool.scope
    PROVE  schema_lookup(n) # "unknown"
BY DEF LookupInv, ToolOk, schema_lookup

(* What a statement must bring to keep the invariant: a verdict that is    *)
(* never in doubt under a full baseline, and an effect that leaves the     *)
(* baseline's scope full or partial, whichever it was.                     *)
LEMMA StatementKeeps ==
    ASSUME LookupInv, NEW verdict, NEW outcome, NEW id, NEW excuse, NEW doubt, NEW effect, NEW change,
           Statement(verdict, outcome, id, excuse, doubt, effect, change), template' \in Paths,
           ToolOk(effect), effect.scope = All => Full,
           Full => verdict # "unresolved" /\ excuse \notin {"unresolved", "missed"},
           doubt \notin {"unresolved", "missed"}
    PROVE  LookupInv'
<1>1. tool' \in {tool, effect}
  BY DEF Statement
<1>2. ToolOk(tool')
  BY <1>1 DEF LookupInv
<1>3. Full' => Full
  BY <1>1 DEF Full, All
<1>4. ASSUME Full
      PROVE  answer' \notin {"unresolved", "missed"}
  <2>1. verdict # "unresolved" /\ excuse \notin {"unresolved", "missed"}
    BY <1>4
  <2>2. answer' \in {"agreed", doubt, excuse}
    BY <2>1 DEF Statement
  <2>3. QED
    BY <2>1, <2>2
<1>5. QED
  BY <1>2, <1>3, <1>4 DEF LookupInv, FullBaselineDecides, ToolOk, All

(* All or some of the schemas: no set of schemas has the nameless one.     *)
LEMMA PartialIsNotFull ==
    ASSUME NEW scope, scope \subseteq Schemas
    PROVE  scope # All
BY NamesAssumption DEF All

(* What each statement leaves in the fields of the analysis.               *)
LEMMA FieldsOf ==
    ASSUME NEW u, NEW a, NEW b, NEW c, NEW d, NEW e, NEW f, NEW g,
           u = [schemas |-> a, scope |-> b, relations |-> c, sequences |-> d, indexes |-> e,
                aliases |-> f, temp |-> g]
    PROVE  /\ u.schemas = a /\ u.scope = b /\ u.relations = c /\ u.sequences = d
           /\ u.indexes = e /\ u.aliases = f /\ u.temp = g
           /\ u = [schemas |-> u.schemas, scope |-> u.scope, relations |-> u.relations,
                   sequences |-> u.sequences, indexes |-> u.indexes, aliases |-> u.aliases, temp |-> u.temp]
OBVIOUS

LEMMA ToolIsRecord ==
    ASSUME NEW t, ToolOk(t)
    PROVE  \E a, b, c, d, e, f, g :
              /\ t = [schemas |-> a, scope |-> b, relations |-> c, sequences |-> d, indexes |-> e,
                      aliases |-> f, temp |-> g]
              /\ t.schemas = a /\ t.scope = b /\ t.relations = c /\ t.sequences = d
              /\ t.indexes = e /\ t.aliases = f /\ t.temp = g
BY DEF ToolOk

LEMMA FieldsOk ==
    ASSUME NEW u, NEW a \in [Schemas -> {"present", "none", "dropped"}], NEW b, b = All \/ b \subseteq Schemas,
           NEW c, NEW d, NEW e, NEW f, NEW g,
           u = [schemas |-> a, scope |-> b, relations |-> c, sequences |-> d, indexes |-> e,
                aliases |-> f, temp |-> g]
    PROVE  ToolOk(u)
BY FieldsOf DEF ToolOk

CreatedIndexes(t, id, key) ==
    IF key THEN With(t.indexes, <<id[1], primary_key_name(Namespace(t), id)>>, Object("index", id))
    ELSE t.indexes

LEMMA CreatedFields ==
    ASSUME NEW t, ToolOk(t), NEW id, NEW cols, NEW key, NEW u, u = Created(t, id, cols, key)
    PROVE  /\ ToolOk(u) /\ u.schemas = t.schemas /\ u.scope = t.scope
           /\ u.relations = With(t.relations, id, Object("table", <<>>))
           /\ u.sequences = Over(SequencesOf(id, next_implicit_sequence_ids(Namespace(t), id, cols)), t.sequences)
           /\ u.indexes = CreatedIndexes(t, id, key)
           /\ u.aliases = t.aliases /\ u.temp = t.temp
<1>1. PICK a, b, c, d, e, f, g :
         /\ t = [schemas |-> a, scope |-> b, relations |-> c, sequences |-> d, indexes |-> e,
                 aliases |-> f, temp |-> g]
         /\ t.schemas = a /\ t.scope = b /\ t.relations = c /\ t.sequences = d
         /\ t.indexes = e /\ t.aliases = f /\ t.temp = g
  BY ToolIsRecord
<1>2. PICK names : names = next_implicit_sequence_ids(Namespace(t), id, cols)
  OBVIOUS
<1>3. PICK r, q, i : /\ r = With(c, id, Object("table", <<>>)) /\ q = Over(SequencesOf(id, names), d)
                     /\ i = CreatedIndexes(t, id, key)
  OBVIOUS
<1>4. u = [t EXCEPT !.relations = r, !.sequences = q, !.indexes = i]
  BY <1>1, <1>2, <1>3 DEF Created, CreatedIndexes
<1>5. u = [schemas |-> a, scope |-> b, relations |-> r, sequences |-> q, indexes |-> i, aliases |-> f, temp |-> g]
  BY <1>1, <1>4
<1>6. ToolOk(u)
  BY <1>1, <1>5, FieldsOk DEF ToolOk
<1>7. /\ u.schemas = a /\ u.scope = b /\ u.relations = r /\ u.sequences = q /\ u.indexes = i
      /\ u.aliases = f /\ u.temp = g
  BY <1>5, FieldsOf
<1>8. QED
  BY <1>1, <1>2, <1>3, <1>6, <1>7

LEMMA TempFields ==
    ASSUME NEW t, ToolOk(t), NEW id, NEW u, u = TempCreated(t, id)
    PROVE  /\ ToolOk(u) /\ u.schemas = t.schemas /\ u.scope = t.scope
           /\ u.relations = With(t.relations, id, Object("table", <<>>))
           /\ u.sequences = t.sequences /\ u.indexes = t.indexes
           /\ u.aliases = t.aliases /\ u.temp = TRUE
<1>1. PICK a, b, c, d, e, f, g :
         /\ t = [schemas |-> a, scope |-> b, relations |-> c, sequences |-> d, indexes |-> e,
                 aliases |-> f, temp |-> g]
         /\ t.schemas = a /\ t.scope = b /\ t.relations = c /\ t.sequences = d
         /\ t.indexes = e /\ t.aliases = f /\ t.temp = g
  BY ToolIsRecord
<1>2. PICK r : r = With(c, id, Object("table", <<>>))
  OBVIOUS
<1>3. u = [schemas |-> a, scope |-> b, relations |-> r, sequences |-> d, indexes |-> e, aliases |-> f, temp |-> TRUE]
  BY <1>1, <1>2 DEF TempCreated
<1>4. ToolOk(u)
  BY <1>1, <1>3, FieldsOk DEF ToolOk
<1>5. /\ u.schemas = a /\ u.scope = b /\ u.relations = r /\ u.sequences = d /\ u.indexes = e
      /\ u.aliases = f /\ u.temp = TRUE
  BY <1>3
<1>6. QED
  BY <1>1, <1>2, <1>4, <1>5

Marked(schemas, n, state) == [schemas EXCEPT ![n] = state]

LEMMA SchemaCreatedFields ==
    ASSUME NEW t, ToolOk(t), NEW n \in Schemas, NEW u, u = SchemaCreated(t, n)
    PROVE  /\ ToolOk(u) /\ u.schemas = Marked(t.schemas, n, "present") /\ u.scope = t.scope
           /\ u.relations = t.relations /\ u.sequences = t.sequences /\ u.indexes = t.indexes
           /\ u.aliases = t.aliases /\ u.temp = t.temp
<1>1. PICK a, b, c, d, e, f, g :
         /\ t = [schemas |-> a, scope |-> b, relations |-> c, sequences |-> d, indexes |-> e,
                 aliases |-> f, temp |-> g]
         /\ t.schemas = a /\ t.scope = b /\ t.relations = c /\ t.sequences = d
         /\ t.indexes = e /\ t.aliases = f /\ t.temp = g
  BY ToolIsRecord
<1>2. PICK aa : aa = [a EXCEPT ![n] = "present"]
  OBVIOUS
<1>3. u = [schemas |-> aa, scope |-> b, relations |-> c, sequences |-> d, indexes |-> e, aliases |-> f, temp |-> g]
  BY <1>1, <1>2 DEF SchemaCreated
<1>4. a \in [Schemas -> {"present", "none", "dropped"}] /\ (b = All \/ b \subseteq Schemas)
  BY <1>1 DEF ToolOk
<1>5. aa \in [Schemas -> {"present", "none", "dropped"}]
  BY <1>2, <1>4
<1>6. ToolOk(u)
  BY <1>3, <1>4, <1>5, FieldsOk
<1>7. /\ u.schemas = aa /\ u.scope = b /\ u.relations = c /\ u.sequences = d /\ u.indexes = e
      /\ u.aliases = f /\ u.temp = g
  BY <1>3, FieldsOf
<1>8. QED
  BY <1>1, <1>2, <1>6, <1>7 DEF Marked

(* The sequences and the indexes that go with a table.                     *)
OwnedBy(t, root) == {x \in Live(t.sequences) : Resolved(t, t.sequences[x].of) = root}
IndexesOf(t, root) ==
    {x \in DOMAIN t.indexes : Resolved(t, x) = root \/ Resolved(t, t.indexes[x].of) = root}

LEMMA DroppedFields ==
    ASSUME NEW t, ToolOk(t), NEW root, NEW u, u = Dropped(t, root)
    PROVE  /\ ToolOk(u) /\ u.schemas = t.schemas /\ u.scope = t.scope
           /\ u.relations = With(t.relations, root, Tombstone)
           /\ u.sequences = Bury(t.sequences, OwnedBy(t, root))
           /\ u.indexes = Without(t.indexes, IndexesOf(t, root))
           /\ u.temp = t.temp
<1>1. PICK a, b, c, d, e, f, g :
         /\ t = [schemas |-> a, scope |-> b, relations |-> c, sequences |-> d, indexes |-> e,
                 aliases |-> f, temp |-> g]
         /\ t.schemas = a /\ t.scope = b /\ t.relations = c /\ t.sequences = d
         /\ t.indexes = e /\ t.aliases = f /\ t.temp = g
  BY ToolIsRecord
<1>2. PICK r, q, i : /\ r = With(c, root, Tombstone) /\ q = Bury(d, OwnedBy(t, root))
                     /\ i = Without(e, IndexesOf(t, root))
  OBVIOUS
<1>3. \E l : u = [t EXCEPT !.relations = r, !.sequences = q, !.indexes = i, !.aliases = l]
  BY <1>1, <1>2 DEF Dropped, OwnedBy, IndexesOf
<1>4. PICK l : u = [t EXCEPT !.relations = r, !.sequences = q, !.indexes = i, !.aliases = l]
  BY <1>3
<1>5. u = [schemas |-> a, scope |-> b, relations |-> r, sequences |-> q, indexes |-> i, aliases |-> l, temp |-> g]
  BY <1>1, <1>4
<1>6. ToolOk(u)
  BY <1>1, <1>5, FieldsOk DEF ToolOk
<1>7. /\ u.schemas = a /\ u.scope = b /\ u.relations = r /\ u.sequences = q /\ u.indexes = i
      /\ u.temp = g
  BY <1>5
<1>8. QED
  BY <1>1, <1>2, <1>6, <1>7

(* What goes with a schema.                                                *)
SequencesGone(t, n) ==
    {x \in Live(t.sequences) : x[1] = n \/ Resolved(t, t.sequences[x].of) \in all_dropped(t, n)}
IndexesGone(t, n) == {x \in DOMAIN t.indexes : GoesWith(t, n, x, t.indexes[x].of)}

LEMMA SchemaDroppedFields ==
    ASSUME NEW t, ToolOk(t), NEW n \in Schemas, NEW u, u = SchemaDropped(t, n)
    PROVE  /\ ToolOk(u) /\ u.schemas = Marked(t.schemas, n, "dropped") /\ u.scope = t.scope
           /\ u.relations = Bury(t.relations, all_dropped(t, n) \cap Live(t.relations))
           /\ u.sequences = Bury(t.sequences, SequencesGone(t, n))
           /\ u.indexes = Without(t.indexes, IndexesGone(t, n))
           /\ u.temp = t.temp
<1>1. PICK a, b, c, d, e, f, g :
         /\ t = [schemas |-> a, scope |-> b, relations |-> c, sequences |-> d, indexes |-> e,
                 aliases |-> f, temp |-> g]
         /\ t.schemas = a /\ t.scope = b /\ t.relations = c /\ t.sequences = d
         /\ t.indexes = e /\ t.aliases = f /\ t.temp = g
  BY ToolIsRecord
<1>2. PICK aa, r, q, i :
         /\ aa = [a EXCEPT ![n] = "dropped"]
         /\ r = Bury(c, all_dropped(t, n) \cap Live(c))
         /\ q = Bury(d, SequencesGone(t, n))
         /\ i = Without(e, IndexesGone(t, n))
  OBVIOUS
<1>3. PICK l : u = [t EXCEPT !.schemas[n] = "dropped",
                            !.relations = Bury(@, all_dropped(t, n) \cap Live(@)),
                            !.sequences = Bury(@, SequencesGone(t, n)),
                            !.indexes = Without(@, IndexesGone(t, n)),
                            !.aliases = l]
  <2>1. PICK l : l = (LET Goes(x, y) == GoesWith(t, n, x, y) IN Kept(t.aliases, Goes))
    OBVIOUS
  <2>2. QED
    BY <1>1, <2>1 DEF SchemaDropped, SequencesGone, IndexesGone
<1>4. u = [schemas |-> aa, scope |-> b, relations |-> r, sequences |-> q, indexes |-> i, aliases |-> l, temp |-> g]
  BY <1>1, <1>2, <1>3
<1>5. a \in [Schemas -> {"present", "none", "dropped"}] /\ (b = All \/ b \subseteq Schemas)
  BY <1>1 DEF ToolOk
<1>6. aa \in [Schemas -> {"present", "none", "dropped"}]
  BY <1>2, <1>5
<1>7. ToolOk(u)
  BY <1>4, <1>5, <1>6, FieldsOk
<1>8. /\ u.schemas = aa /\ u.scope = b /\ u.relations = r /\ u.sequences = q /\ u.indexes = i
      /\ u.temp = g
  BY <1>4
<1>9. QED
  BY <1>1, <1>2, <1>7, <1>8 DEF Marked

LEMMA SchemaRenamedFields ==
    ASSUME NEW t, ToolOk(t), NEW old \in Schemas, NEW new \in Schemas, NEW kept,
           NEW u, u = SchemaRenamed(t, old, new, kept)
    PROVE  /\ ToolOk(u) /\ (u.scope = All => t.scope = All) /\ (t.scope = All => u.scope = All)
           /\ u.schemas = Marked(Marked(t.schemas, old, "dropped"), new, "present")
           /\ old \in t.scope /\ t.scope # All => u.scope = (t.scope \ {old}) \cup {new}
           /\ ~(old \in t.scope /\ t.scope # All) => u.scope = t.scope
           /\ u.relations = Remapped(t.relations, old, new, kept.relations)
           /\ u.sequences = Remapped(t.sequences, old, new, kept.sequences)
           /\ u.indexes = Remapped(t.indexes, old, new, {})
           /\ u.temp = t.temp
<1>1. PICK a, b, c, d, e, f, g :
         /\ t = [schemas |-> a, scope |-> b, relations |-> c, sequences |-> d, indexes |-> e,
                 aliases |-> f, temp |-> g]
         /\ t.schemas = a /\ t.scope = b /\ t.relations = c /\ t.sequences = d
         /\ t.indexes = e /\ t.aliases = f /\ t.temp = g
  BY ToolIsRecord
<1>2. PICK aa, bb, r, q, i, l :
         /\ aa = [a EXCEPT ![old] = "dropped", ![new] = "present"]
         /\ bb = (IF old \in b /\ b # All THEN (b \ {old}) \cup {new} ELSE b)
         /\ r = Remapped(c, old, new, kept.relations) /\ q = Remapped(d, old, new, kept.sequences)
         /\ i = Remapped(e, old, new, {}) /\ l = Realiased(t, old, new)
  OBVIOUS
<1>3. u = [t EXCEPT !.schemas = aa, !.scope = bb, !.relations = r, !.sequences = q, !.indexes = i, !.aliases = l]
  BY <1>1, <1>2 DEF SchemaRenamed
<1>4. u = [schemas |-> aa, scope |-> bb, relations |-> r, sequences |-> q, indexes |-> i, aliases |-> l, temp |-> g]
  BY <1>1, <1>3
<1>5. /\ u.schemas = aa /\ u.scope = bb /\ u.relations = r /\ u.sequences = q /\ u.indexes = i
      /\ u.temp = g
  BY <1>4
<1>6. a \in [Schemas -> {"present", "none", "dropped"}] /\ (b = All \/ b \subseteq Schemas)
  BY <1>1 DEF ToolOk
<1>7. aa \in [Schemas -> {"present", "none", "dropped"}]
  BY <1>2, <1>6
<1>8. (bb = All \/ bb \subseteq Schemas) /\ (bb = All <=> b = All)
  <2>1. CASE b = All
    BY <1>2, <2>1
  <2>2. CASE b # All
    <3>1. bb \subseteq Schemas
      BY <1>2, <1>6, <2>2
    <3>2. bb # All
      BY <3>1, PartialIsNotFull
    <3>3. QED
      BY <2>2, <3>1, <3>2
  <2>3. QED
    BY <2>1, <2>2
<1>9. ToolOk(u)
  BY <1>4, <1>7, <1>8, FieldsOk
<1>10. /\ u.scope = All => t.scope = All
       /\ t.scope = All => u.scope = All
       /\ old \in t.scope /\ t.scope # All => u.scope = (t.scope \ {old}) \cup {new}
       /\ ~(old \in t.scope /\ t.scope # All) => u.scope = t.scope
  BY <1>1, <1>2, <1>5, <1>8
<1>11. QED
  BY <1>1, <1>2, <1>5, <1>9, <1>10 DEF Marked

LEMMA SetPathKeeps ==
    ASSUME LookupInv, NEW p \in Paths, SetPath(p)
    PROVE  LookupInv'
<1>1. Statement("ok", Done(<<>>), <<>>, "wrong", "agreed", tool, server) /\ template' \in Paths
  BY DEF SetPath
<1>2. ToolOk(tool) /\ (tool.scope = All => Full)
  BY DEF LookupInv, Full
<1>3. QED
  BY <1>1, <1>2, StatementKeeps

LEMMA CreateTableKeeps ==
    ASSUME LookupInv, NEW ref \in Refs, NEW cols, NEW key, CreateTable(ref, cols, key)
    PROVE  LookupInv'
<1> DEFINE r == resolve_creation_name(ref)
           target == ensure_creation_target(r)
           verdict == IF target = "ok" /\ IsTaken(Namespace(tool), r.id) THEN "conflict" ELSE target
           selfnamed == verdict = "ok" /\ r.id[2] \in PartNames(Namespace(tool), r.id, cols, key)
           effect == Created(tool, r.id, cols, key)
           excuse == IF selfnamed THEN "self-named" ELSE "wrong"
           doubt == IF selfnamed THEN "self-named" ELSE "agreed"
<1>1. /\ \E outcome, change : Statement(verdict, outcome, r.id, excuse, doubt, effect, change)
      /\ template' = template
  BY DEF CreateTable
<1>2. ToolOk(effect) /\ effect.scope = tool.scope
  <2>1. ToolOk(tool)
    BY DEF LookupInv
  <2>2. PICK u, id : u = Created(tool, id, cols, key) /\ u = effect /\ id = r.id
    OBVIOUS
  <2>3. ToolOk(u) /\ u.scope = tool.scope
    BY <2>1, <2>2, CreatedFields
  <2>4. QED
    BY <2>2, <2>3
<1>3. ASSUME Full
      PROVE  verdict # "unresolved"
  <2>1. ~lookup_shadowed(r)
    BY <1>3, NothingShadows
  <2>2. r.id[1] \in tool.scope
    BY <1>3, ResolvedInScope
  <2>3. schema_lookup(r.id[1]) # "unknown"
    BY <1>3, <2>2, SchemaLookupDecides
  <2>4. target # "unresolved"
    BY <2>1, <2>3 DEF ensure_creation_target
  <2>5. QED
    BY <2>4
<1>4. excuse \notin {"unresolved", "missed"} /\ doubt \notin {"unresolved", "missed"}
  OBVIOUS
<1> HIDE DEF verdict, effect, r, excuse, doubt
<1>5. template' \in Paths
  BY <1>1 DEF LookupInv
<1>6. effect.scope = All => Full
  BY <1>2 DEF Full
<1>7. QED
  BY <1>1, <1>2, <1>3, <1>4, <1>5, <1>6, StatementKeeps

LEMMA CreateTempTableKeeps ==
    ASSUME LookupInv, NEW n, CreateTempTable(n)
    PROVE  LookupInv'
<1> DEFINE id == <<Temp, n>>
           verdict == IF IsTaken(Namespace(tool), id) THEN "conflict" ELSE "ok"
           effect == TempCreated(tool, id)
<1>1. /\ \E outcome, change : Statement(verdict, outcome, id, "wrong", "agreed", effect, change)
      /\ template' = template
  BY DEF CreateTempTable
<1>2. ToolOk(effect) /\ effect.scope = tool.scope
  BY TempFields DEF LookupInv
<1>3. verdict # "unresolved"
  OBVIOUS
<1> HIDE DEF verdict, effect, id
<1>4. template' \in Paths
  BY <1>1 DEF LookupInv
<1>5. effect.scope = All => Full
  BY <1>2 DEF Full
<1>6. QED
  BY <1>1, <1>2, <1>3, <1>4, <1>5, StatementKeeps

LEMMA DropTableKeeps ==
    ASSUME LookupInv, NEW ref \in Refs, NEW if_exists \in BOOLEAN, DropTable(ref, if_exists)
    PROVE  LookupInv'
<1> DEFINE r == resolve_in_namespace(ref)
           look == relation_lookup(r)
           verdict == CASE look = "present"    -> "ok"
                        [] look = "wrong kind" -> "conflict"
                        [] look = "unknown"    -> "unresolved"
                        [] OTHER               -> IF if_exists THEN "skip" ELSE "conflict"
           excuse == IF DoubtfulMiss(r, look) THEN "missed"
                     ELSE IF HiddenHit(r, look) THEN "hidden" ELSE "wrong"
           doubt == IF Confused({r.id}) THEN "aliased" ELSE "agreed"
           effect == Dropped(tool, Resolved(tool, r.id))
<1>1. /\ \E outcome, change : Statement(verdict, outcome, r.id, excuse, doubt, effect, change)
      /\ template' = template
  BY DEF DropTable
<1>2. ToolOk(effect) /\ effect.scope = tool.scope
  BY DroppedFields DEF LookupInv
<1>3. ASSUME Full
      PROVE  verdict # "unresolved" /\ excuse \notin {"unresolved", "missed"}
  <2>1. ~lookup_shadowed(r)
    BY <1>3, NothingShadows
  <2>2. r.id[1] \in tool.scope
    BY <1>3, ResolvedInScope
  <2>3. look # "unknown"
    <3> HIDE DEF r
    <3>1. QED
      BY <2>1, <2>2 DEF relation_lookup
  <2>4. Blind(search_path) = {}
    BY <1>3, PathFacts
  <2> HIDE DEF look
  <2>5. verdict # "unresolved"
    BY <2>3
  <2>6. ~DoubtfulMiss(r, look)
    BY <2>4 DEF DoubtfulMiss
  <2>7. QED
    BY <2>5, <2>6
<1>4. doubt \notin {"unresolved", "missed"}
  OBVIOUS
<1> HIDE DEF verdict, effect, r, look, excuse, doubt
<1>5. template' \in Paths
  BY <1>1 DEF LookupInv
<1>6. effect.scope = All => Full
  BY <1>2 DEF Full
<1>7. QED
  BY <1>1, <1>2, <1>3, <1>4, <1>5, <1>6, StatementKeeps

LEMMA CreateSchemaKeeps ==
    ASSUME LookupInv, NEW n \in Schemas, CreateSchema(n)
    PROVE  LookupInv'
<1> DEFINE verdict == OfSchema(schema_lookup(n), FALSE)
           effect == SchemaCreated(tool, n)
<1>1. /\ \E outcome, change : Statement(verdict, outcome, <<>>, "wrong", "agreed", effect, change)
      /\ template' = template
  BY DEF CreateSchema
<1>2. ToolOk(effect) /\ effect.scope = tool.scope
  BY SchemaCreatedFields DEF LookupInv
<1>3. Full => verdict # "unresolved"
  BY SchemaLookupDecides DEF OfSchema, Full, All
<1> HIDE DEF verdict, effect
<1>4. template' \in Paths
  BY <1>1 DEF LookupInv
<1>5. effect.scope = All => Full
  BY <1>2 DEF Full
<1>6. QED
  BY <1>1, <1>2, <1>3, <1>4, <1>5, StatementKeeps

LEMMA DropSchemaKeeps ==
    ASSUME LookupInv, NEW n \in Schemas, DropSchema(n)
    PROVE  LookupInv'
<1> DEFINE verdict == OfSchema(schema_lookup(n), TRUE)
           doubt == IF Confused(Within(Namespace(tool), n)) THEN "aliased" ELSE "agreed"
           effect == SchemaDropped(tool, n)
<1>1. /\ \E outcome, change : Statement(verdict, outcome, <<>>, "wrong", doubt, effect, change)
      /\ template' = template
  BY DEF DropSchema
<1>2. ToolOk(effect) /\ effect.scope = tool.scope
  BY SchemaDroppedFields DEF LookupInv
<1>3. Full => verdict # "unresolved"
  BY SchemaLookupDecides DEF OfSchema, Full, All
<1>4. doubt \notin {"unresolved", "missed"}
  OBVIOUS
<1> HIDE DEF verdict, effect, doubt
<1>5. template' \in Paths
  BY <1>1 DEF LookupInv
<1>6. effect.scope = All => Full
  BY <1>2 DEF Full
<1>7. QED
  BY <1>1, <1>2, <1>3, <1>4, <1>5, <1>6, StatementKeeps

LEMMA RenameSchemaKeeps ==
    ASSUME LookupInv, NEW old \in Schemas, NEW new \in Schemas, RenameSchema(old, new)
    PROVE  LookupInv'
<1> DEFINE found == OfSchema(schema_lookup(old), TRUE)
           verdict == IF found # "ok" THEN found ELSE OfSchema(schema_lookup(new), FALSE)
           doubt == IF Collisions(tool.relations, old, new) \cup Collisions(tool.sequences, old, new) # {}
                    THEN "collided" ELSE "agreed"
<1>1. /\ \E kept, outcome, change :
            Statement(verdict, outcome, <<>>, "wrong", doubt, SchemaRenamed(tool, old, new, kept), change)
      /\ template' = template
  BY DEF RenameSchema
<1>2. PICK kept : \E outcome, change :
            Statement(verdict, outcome, <<>>, "wrong", doubt, SchemaRenamed(tool, old, new, kept), change)
  BY <1>1
<1>3. PICK effect : effect = SchemaRenamed(tool, old, new, kept)
  OBVIOUS
<1>4. ToolOk(effect) /\ (effect.scope = All => tool.scope = All)
  <2>1. ToolOk(tool)
    BY DEF LookupInv
  <2>2. QED
    BY <1>3, <2>1, SchemaRenamedFields
<1>5. Full => verdict # "unresolved"
  BY SchemaLookupDecides DEF OfSchema, Full, All
<1>6. doubt \notin {"unresolved", "missed"}
  OBVIOUS
<1> HIDE DEF verdict, doubt
<1>7. template' \in Paths
  BY <1>1 DEF LookupInv
<1>8. effect.scope = All => Full
  BY <1>4 DEF Full
<1>9. QED
  BY <1>2, <1>3, <1>4, <1>5, <1>6, <1>7, <1>8, StatementKeeps

(* At first the baseline covers all schemas or some, and a schema is       *)
(* present in the overlay or nothing is known of it.                       *)
LEMMA LookupStarts == Init => LookupInv
<1> SUFFICES ASSUME Init PROVE LookupInv
  OBVIOUS
<1>1. PICK scope \in {All} \cup SUBSET Schemas : tool = Baseline(scope)
  BY DEF Init
<1>2. ToolOk(tool)
  BY <1>1 DEF Baseline, ToolOk
<1>3. template \in Paths /\ answer = "agreed"
  BY DEF Init
<1>4. QED
  BY <1>2, <1>3 DEF LookupInv, FullBaselineDecides

LEMMA LookupStep == LookupInv /\ [Next]_vars => LookupInv'
<1> SUFFICES ASSUME LookupInv, [Next]_vars PROVE LookupInv'
  OBVIOUS
<1>1. CASE \E p \in Paths \ {template} : SetPath(p)
  BY <1>1, SetPathKeeps
<1>2. CASE \E ref \in Refs, s \in Shapes : CreateTable(ref, s.cols, s.key)
  BY <1>2, CreateTableKeeps
<1>3. CASE \E n \in Tables : CreateTempTable(n)
  BY <1>3, CreateTempTableKeeps
<1>4. CASE \E ref \in Refs, if_exists \in BOOLEAN : DropTable(ref, if_exists)
  BY <1>4, DropTableKeeps
<1>5. CASE \E n \in Schemas : CreateSchema(n) \/ DropSchema(n)
  BY <1>5, CreateSchemaKeeps, DropSchemaKeeps
<1>6. CASE \E old \in Schemas, new \in Schemas : old # new /\ RenameSchema(old, new)
  BY <1>6, RenameSchemaKeeps
<1>7. CASE UNCHANGED vars
  BY <1>7 DEF vars, LookupInv, ToolOk, FullBaselineDecides, Full, All
<1>8. QED
  BY <1>1, <1>2, <1>3, <1>4, <1>5, <1>6, <1>7 DEF Next

(* With a baseline of every schema the analysis never says that it cannot  *)
(* tell which object a statement is about, and never misses one behind a   *)
(* schema it could not search: not after any number of schemas created,    *)
(* dropped and renamed, for any search path (push_path_entry,              *)
(* schema_absence_is_authoritative, rename_schema's remap of the scope).   *)
THEOREM FullBaselineAlwaysDecides == Spec => []FullBaselineDecides
<1>1. LookupInv => FullBaselineDecides
  BY DEF LookupInv
<1>2. QED
  BY <1>1, LookupStarts, LookupStep, PTL DEF Spec

------------------------------------------------------------------------------
(* The analysis and the server.                                            *)

Table == Object("table", <<>>)

(* What is at an identity, a tombstone being nothing.                      *)
At(rels, id) == IF id \in Live(rels) THEN rels[id] ELSE Tombstone

(* Identities are pairs.  An entry among the relations is in the session's *)
(* schema, or in one that the overlay of schemas knows of; an object is in *)
(* one overlay, the one for its kind.                                      *)
Overlays(t) ==
    /\ \A x \in DOMAIN t.relations \cup DOMAIN t.sequences \cup DOMAIN t.indexes : x = <<x[1], x[2]>>
    /\ \A x \in DOMAIN t.relations :
          \/ x[1] = Temp /\ t.temp
          \/ x[1] \in Schemas /\ t.schemas[x[1]] # "none"
    /\ \A x \in Live(t.relations) :
          t.relations[x] = Table /\ x \notin Live(t.sequences) /\ x \notin DOMAIN t.indexes
    /\ \A x \in Live(t.sequences) : t.sequences[x].kind = "sequence" /\ x \notin DOMAIN t.indexes
    /\ \A x \in DOMAIN t.indexes : t.indexes[x].kind = "index"

(* Identities are pairs, and what a statement generated belongs to a live  *)
(* table of the same schema.                                               *)
WellFormed(rels) ==
    /\ \A id \in DOMAIN rels : id = <<id[1], id[2]>>
    /\ \A id \in Live(rels) :
          \/ rels[id] = Table
          \/ \E kind \in {"sequence", "index"}, of \in Live(rels) :
                rels[id] = Object(kind, of) /\ rels[of] = Table /\ of[1] = id[1]

Fit(rels) ==
    \A id \in Live(rels) : rels[id].kind # "table" => Bytes(id[2]) <= MaxIdentifierBytes

Known(t) == {Temp} \cup {n \in Schemas : t.schemas[n] = "present"}

(* What is live is in a schema that is present.                            *)
Placed(t) == \A id \in Live(Namespace(t)) : id[1] \in Known(t)

ToolInv(t) ==
    ToolOk(t) /\ Overlays(t) /\ WellFormed(Namespace(t)) /\ Fit(Namespace(t)) /\ Placed(t)

ServerOk(s) ==
    /\ s = [schemas |-> s.schemas, rels |-> s.rels, temp |-> s.temp]
    /\ s.schemas \subseteq Schemas
    /\ \A id \in DOMAIN s.rels : /\ id = <<id[1], id[2]>>
                                 /\ s.rels[id].kind # "dropped"
                                 /\ id[1] \in s.schemas \/ (id[1] = Temp /\ s.temp)

(* Nothing is known of the schema: neither an overlay nor the baseline nor *)
(* the record of what existed says whether it is there.                    *)
InDoubt(t, n) == t.schemas[n] = "none" /\ n \notin t.scope /\ ~schema_did_not_exist_at_sync(n)

Agreement(t, s) ==
    /\ ServerOk(s)
    /\ \A n \in Schemas : t.schemas[n] = "present" => n \in s.schemas
    /\ \A n \in s.schemas : t.schemas[n] = "present" \/ InDoubt(t, n)
    /\ \A id \in DOMAIN Namespace(t) \cup DOMAIN s.rels :
          id[1] \in Known(t) => At(Namespace(t), id) = At(s.rels, id)

NameInv ==
    /\ template \in Paths
    /\ AnswersAreRight
    /\ answer = "agreed" => ToolInv(tool) /\ Agreement(tool, server)

LEMMA LiveAt ==
    ASSUME NEW rels, NEW id
    PROVE  /\ id \in Live(rels) <=> id \in DOMAIN rels /\ rels[id].kind # "dropped"
           /\ id \in Live(rels) => At(rels, id) = rels[id]
           /\ id \notin Live(rels) => At(rels, id) = Tombstone
           /\ id \in Live(rels) <=> At(rels, id).kind # "dropped"
           /\ IsTaken(rels, id) <=> id \in Live(rels)
<1>1. Tombstone.kind = "dropped"
  BY DEF Tombstone, Object
<1>2. QED
  BY <1>1 DEF At, Live, IsTaken

LEMMA SameAt ==
    ASSUME NEW r, NEW s, NEW id, At(r, id) = At(s, id)
    PROVE  /\ id \in Live(r) <=> id \in Live(s)
           /\ id \in Live(r) => r[id] = s[id]
BY LiveAt

(* The namespace that the overlays share has each object of theirs.        *)
LEMMA NamespaceAt ==
    ASSUME NEW t, Overlays(t)
    PROVE  /\ DOMAIN Namespace(t) = Live(Namespace(t))
           /\ Namespace(t) = [x \in Live(Namespace(t)) |-> Namespace(t)[x]]
           /\ \A x : /\ x \in Live(Namespace(t)) <=>
                           x \in Live(t.relations) \/ x \in Live(t.sequences) \/ x \in DOMAIN t.indexes
                     /\ x \in Live(t.relations) => Namespace(t)[x] = Table
                     /\ x \in Live(t.sequences) => Namespace(t)[x] = t.sequences[x]
                     /\ x \in DOMAIN t.indexes => Namespace(t)[x] = t.indexes[x]
<1>1. PICK r, s, i : r = t.relations /\ s = t.sequences /\ i = t.indexes
  OBVIOUS
<1>2. PICK p, q : p = Present(r) /\ q = Present(s)
  OBVIOUS
<1>3. DOMAIN p = Live(r) /\ \A x \in Live(r) : p[x] = r[x]
  BY <1>2 DEF Present, Restrict
<1>4. DOMAIN q = Live(s) /\ \A x \in Live(s) : q[x] = s[x]
  BY <1>2 DEF Present, Restrict
<1>5. PICK g : g = Over(q, i)
  OBVIOUS
<1>6. /\ DOMAIN g = DOMAIN i \cup Live(s)
      /\ \A x \in DOMAIN g : g[x] = IF x \in Live(s) THEN s[x] ELSE i[x]
  BY <1>4, <1>5 DEF Over
<1>7. PICK n : n = Namespace(t)
  OBVIOUS
<1>8. n = Over(p, g)
  BY <1>1, <1>2, <1>5, <1>7 DEF Namespace
<1>9. n = [x \in DOMAIN g \cup DOMAIN p |-> IF x \in DOMAIN p THEN p[x] ELSE g[x]]
  BY <1>8 DEF Over
<1>10. /\ DOMAIN n = DOMAIN g \cup Live(r)
       /\ \A x \in DOMAIN n : n[x] = IF x \in Live(r) THEN r[x] ELSE g[x]
       /\ n = [x \in DOMAIN n |-> n[x]]
  BY <1>3, <1>9
<1>11. /\ \A x \in Live(r) : r[x] = Table /\ x \notin Live(s) /\ x \notin DOMAIN i
       /\ \A x \in Live(s) : s[x].kind = "sequence" /\ x \notin DOMAIN i
       /\ \A x \in DOMAIN i : i[x].kind = "index"
  BY <1>1 DEF Overlays
<1>12. \A x : /\ x \in DOMAIN n <=> x \in Live(r) \/ x \in Live(s) \/ x \in DOMAIN i
              /\ x \in Live(r) => n[x] = Table
              /\ x \in Live(s) => n[x] = s[x]
              /\ x \in DOMAIN i => n[x] = i[x]
  BY <1>6, <1>10, <1>11
<1>13. Table.kind = "table"
  BY DEF Table, Object
<1>14. \A x \in DOMAIN n : n[x].kind # "dropped"
  BY <1>11, <1>12, <1>13
<1>15. Live(n) = DOMAIN n
  BY <1>14 DEF Live
<1>16. QED
  BY <1>1, <1>7, <1>10, <1>12, <1>15

LEMMA TablesAreRelations ==
    ASSUME NEW t, Overlays(t), NEW x \in Live(Namespace(t)), Namespace(t)[x] = Table
    PROVE  x \in Live(t.relations)
<1>1. Table.kind = "table"
  BY DEF Table, Object
<1>2. \/ x \in Live(t.relations)
      \/ x \in Live(t.sequences) /\ Namespace(t)[x] = t.sequences[x]
      \/ x \in DOMAIN t.indexes /\ Namespace(t)[x] = t.indexes[x]
  BY NamespaceAt
<1>3. ~(x \in Live(t.sequences) /\ t.sequences[x] = Table)
  BY <1>1 DEF Overlays
<1>4. ~(x \in DOMAIN t.indexes /\ t.indexes[x] = Table)
  BY <1>1 DEF Overlays
<1>5. QED
  BY <1>2, <1>3, <1>4, Zenon

LEMMA AtLive ==
    ASSUME NEW rels, NEW x
    PROVE  /\ x \in Live(rels) => At(rels, x) = rels[x] /\ x \in DOMAIN rels
           /\ x \notin Live(rels) => At(rels, x) = Tombstone
BY DEF At, Live

LEMMA LiveWith ==
    ASSUME NEW rels, NEW x, NEW y, y.kind # "dropped"
    PROVE  \A z : /\ z \in DOMAIN With(rels, x, y) <=> z \in DOMAIN rels \/ z = x
                  /\ z \in Live(With(rels, x, y)) <=> z \in Live(rels) \/ z = x
BY DEF With, Live

LEMMA AtWith ==
    ASSUME NEW rels, NEW x, NEW y, y.kind # "dropped"
    PROVE  \A z : At(With(rels, x, y), z) = IF z = x THEN y ELSE At(rels, z)
BY DEF With, At, Live

LEMMA LiveOver ==
    ASSUME NEW rels, NEW g, \A x \in DOMAIN g : g[x].kind # "dropped"
    PROVE  /\ DOMAIN Over(g, rels) = DOMAIN rels \cup DOMAIN g
           /\ Live(Over(g, rels)) = Live(rels) \cup DOMAIN g
           /\ \A id \in DOMAIN g : Over(g, rels)[id] = g[id]
           /\ \A id \in DOMAIN rels \ DOMAIN g : Over(g, rels)[id] = rels[id]
           /\ \A id : At(Over(g, rels), id) = IF id \in DOMAIN g THEN g[id] ELSE At(rels, id)
<1> DEFINE w == Over(g, rels)
<1>1. w = [x \in DOMAIN rels \cup DOMAIN g |-> IF x \in DOMAIN g THEN g[x] ELSE rels[x]]
  BY DEF Over
<1>2. /\ DOMAIN w = DOMAIN rels \cup DOMAIN g /\ \A id \in DOMAIN g : w[id] = g[id]
      /\ \A id \in DOMAIN rels \ DOMAIN g : w[id] = rels[id]
  BY <1>1
<1> HIDE DEF w
<1>3. Live(w) = Live(rels) \cup DOMAIN g
  BY <1>2 DEF Live
<1>4. ASSUME NEW id
      PROVE  At(w, id) = IF id \in DOMAIN g THEN g[id] ELSE At(rels, id)
  BY <1>2, <1>3 DEF At, Live
<1>5. QED
  BY <1>2, <1>3, <1>4 DEF w

LEMMA LiveBury ==
    ASSUME NEW rels, NEW gone
    PROVE  \A x : /\ x \in Live(Bury(rels, gone)) <=> x \in Live(rels) /\ x \notin gone
                  /\ x \in DOMAIN Bury(rels, gone) <=> x \in DOMAIN rels
                  /\ x \in Live(rels) /\ x \notin gone => Bury(rels, gone)[x] = rels[x]
<1> DEFINE w == Bury(rels, gone)
<1>1. w = [id \in DOMAIN rels |-> IF id \in gone THEN Tombstone ELSE rels[id]]
  BY DEF Bury
<1>2. /\ DOMAIN w = DOMAIN rels /\ \A id \in DOMAIN rels : id \in gone => w[id] = Tombstone
      /\ \A id \in DOMAIN rels : id \notin gone => w[id] = rels[id]
  BY <1>1
<1>3. Tombstone.kind = "dropped"
  BY DEF Tombstone, Object
<1> HIDE DEF w
<1>4. Live(w) = Live(rels) \ gone
  BY <1>2, <1>3 DEF Live
<1>5. \A x \in Live(rels) : x \in DOMAIN rels
  BY DEF Live
<1>6. QED
  BY <1>2, <1>4, <1>5 DEF w

LEMMA LiveRestrict ==
    ASSUME NEW rels, NEW gone, NEW w, w = Without(rels, gone)
    PROVE  \A x : /\ x \in Live(w) <=> x \in Live(rels) /\ x \notin gone
                  /\ x \in DOMAIN w <=> x \in DOMAIN rels /\ x \notin gone
                  /\ x \in DOMAIN w => w[x] = rels[x]
                  /\ At(w, x) = IF x \in gone THEN Tombstone ELSE At(rels, x)
<1>1. DOMAIN w = DOMAIN rels \ gone /\ \A id \in DOMAIN rels \ gone : w[id] = rels[id]
  BY DEF Without, Restrict
<1>2. Live(w) = Live(rels) \ gone
  BY <1>1 DEF Live
<1>3. ASSUME NEW id
      PROVE  At(w, id) = IF id \in gone THEN Tombstone ELSE At(rels, id)
  BY <1>1, <1>2 DEF At, Live
<1>4. QED
  BY <1>1, <1>2, <1>3

LEMMA RenamedIsInjective ==
    ASSUME NEW old, NEW new, NEW ids, \A x \in ids : x = <<x[1], x[2]>> /\ x[1] # new,
           NEW x \in ids, NEW y \in ids, Renamed(x, old, new) = Renamed(y, old, new)
    PROVE  x = y
BY DEF Renamed

LEMMA RemappedAt ==
    ASSUME NEW rels, NEW old, NEW new, old # new,
           \A x \in DOMAIN rels : x = <<x[1], x[2]>> /\ x[1] # new
    PROVE  LET w == Remapped(rels, old, new, {})
           IN  /\ DOMAIN w = {Renamed(x, old, new) : x \in DOMAIN rels}
               /\ \A x \in DOMAIN rels :
                     w[Renamed(x, old, new)] = Object(rels[x].kind, Renamed(rels[x].of, old, new))
<1> DEFINE w == Remapped(rels, old, new, {})
           Source(y) == IF y[1] = new /\ <<old, y[2]>> \in DOMAIN rels THEN <<old, y[2]>> ELSE y
           entry(x) == Object(rels[x].kind, Renamed(rels[x].of, old, new))
<1>1. w = [y \in {Renamed(x, old, new) : x \in DOMAIN rels} |-> entry(Source(y))]
  BY DEF Remapped
<1>2. ASSUME NEW x \in DOMAIN rels
      PROVE  Source(Renamed(x, old, new)) = x
  <2>1. x = <<x[1], x[2]>> /\ x[1] # new /\ x # <<>>
    OBVIOUS
  <2>2. CASE x[1] = old
    <3>1. Renamed(x, old, new) = <<new, x[2]>>
      BY <2>1, <2>2 DEF Renamed
    <3>2. <<old, x[2]>> = x
      BY <2>1, <2>2, Zenon
    <3>3. QED
      BY <3>1, <3>2
  <2>3. CASE x[1] # old
    <3>1. Renamed(x, old, new) = x
      BY <2>3 DEF Renamed
    <3>2. QED
      BY <2>1, <3>1
  <2>4. QED
    BY <2>2, <2>3
<1> HIDE DEF Source, w, entry
<1>3. DOMAIN w = {Renamed(x, old, new) : x \in DOMAIN rels}
  BY <1>1
<1>4. ASSUME NEW x \in DOMAIN rels
      PROVE  w[Renamed(x, old, new)] = entry(x)
  <2>1. Renamed(x, old, new) \in DOMAIN w
    BY <1>3
  <2>2. w[Renamed(x, old, new)] = entry(Source(Renamed(x, old, new)))
    BY <1>1, <1>3, <2>1
  <2>3. QED
    BY <1>2, <2>2
<1>5. QED
  BY <1>3, <1>4 DEF w, entry

LEMMA EntryKinds ==
    /\ \A n : Searched(n).name = n /\ Searched(n).searched /\ Searched(n) # NoEntry
    /\ \A m, n : Searched(m) # Unresolved(n) /\ (Searched(m) = Searched(n) => m = n)
    /\ \A n : ~Unresolved(n).searched /\ Unresolved(n).name = n /\ (n # "" => Unresolved(n) # NoEntry)
    /\ ~NoEntry.searched
<1>1. \A n : Searched(n).name = n /\ Searched(n).searched = TRUE
  BY DEF Searched
<1>2. \A n : Unresolved(n).name = n /\ Unresolved(n).searched = FALSE
  BY DEF Unresolved
<1>3. NoEntry = Unresolved("")
  BY DEF NoEntry
<1>4. TRUE # FALSE
  OBVIOUS
<1>5. QED
  BY <1>1, <1>2, <1>3, <1>4, Zenon

LEMMA Places ==
    ASSUME template \in Paths
    PROVE  /\ DOMAIN search_path = DOMAIN template
           /\ DOMAIN template \subseteq Nat \ {0}
           /\ \A i \in DOMAIN template :
                 /\ template[i] \in Schemas
                 /\ 1..i \subseteq DOMAIN template
                 /\ search_path[i] \in {PathEntry(template[i]), NoEntry}
                 /\ PathEntry(template[i]) # NoEntry =>
                       \E j \in 1..i : search_path[j] = PathEntry(template[i])
<1> DEFINE entry(i) == PathEntry(template[i])
<1>1. template \in Seq(Schemas)
  BY NamesAssumption
<1>2. /\ DOMAIN template \subseteq Nat \ {0}
      /\ \A i \in DOMAIN template : template[i] \in Schemas /\ 1..i \subseteq DOMAIN template
  BY <1>1
<1>3. search_path = [i \in DOMAIN template |->
                        IF \E j \in 1..(i - 1) : entry(j) = entry(i) THEN NoEntry ELSE entry(i)]
  BY DEF search_path
<1> HIDE DEF entry
<1>4. ASSUME NEW i \in DOMAIN template
      PROVE  \E j \in 1..i : search_path[j] = entry(i)
  <2> DEFINE T == {j \in 1..i : entry(j) = entry(i)}
  <2>1. i \in T /\ T \subseteq Nat
    BY <1>2
  <2>2. PICK m \in T : \A k \in T : m <= k
    <3> HIDE DEF T
    <3>1. QED
      BY <2>1, LeastPlace
  <2>3. m \in 1..i /\ m \in DOMAIN template /\ entry(m) = entry(i) /\ i \in Nat
    BY <1>2, <2>2
  <2>4. ~\E j \in 1..(m - 1) : entry(j) = entry(m)
    <3> SUFFICES ASSUME NEW j \in 1..(m - 1), entry(j) = entry(m)
                 PROVE  FALSE
      OBVIOUS
    <3>1. j \in 1..i /\ j < m
      BY <2>3
    <3>2. QED
      BY <2>2, <2>3, <3>1
  <2>5. search_path[m] = entry(m)
    BY <1>3, <2>3, <2>4
  <2>6. QED
    BY <2>3, <2>5
<1>5. \A i \in DOMAIN template : search_path[i] \in {entry(i), NoEntry}
  BY <1>3
<1>6. DOMAIN search_path = DOMAIN template
  BY <1>3
<1>7. QED
  BY <1>2, <1>4, <1>5, <1>6 DEF entry

(* What the path has for a schema says whether the server has it.          *)
LEMMA EntryMeans ==
    ASSUME ToolInv(tool), Agreement(tool, server), NEW n \in Schemas
    PROVE  \/ PathEntry(n) = Searched(n) /\ tool.schemas[n] = "present" /\ n \in server.schemas
           \/ PathEntry(n) = NoEntry /\ tool.schemas[n] # "present" /\ n \notin server.schemas
           \/ PathEntry(n) = Unresolved(n) /\ tool.schemas[n] # "present" /\ PathEntry(n) # NoEntry
<1>1. n # ""
  BY NamesAssumption
<1>2. CASE tool.schemas[n] = "present"
  BY <1>2 DEF PathEntry, Agreement
<1>3. CASE /\ tool.schemas[n] # "present"
           /\ schema_absence_is_authoritative(n) \/ schema_did_not_exist_at_sync(n)
  <2>1. PathEntry(n) = NoEntry
    BY <1>3 DEF PathEntry
  <2>2. tool.schemas[n] \in {"none", "dropped"}
    BY <1>3 DEF ToolInv, ToolOk
  <2>3. ~InDoubt(tool, n)
    BY <1>3, <2>2 DEF InDoubt, schema_absence_is_authoritative
  <2>4. QED
    BY <1>3, <2>1, <2>3 DEF Agreement
<1>4. CASE /\ tool.schemas[n] # "present"
           /\ ~(schema_absence_is_authoritative(n) \/ schema_did_not_exist_at_sync(n))
  BY <1>1, <1>4, EntryKinds DEF PathEntry
<1>5. QED
  BY <1>2, <1>3, <1>4

(* A schema the server searches is searched at the same place or an        *)
(* earlier one, or an entry up to there cannot be searched.                *)
LEMMA SearchedBefore ==
    ASSUME ToolInv(tool), Agreement(tool, server), template \in Paths,
           NEW i \in DOMAIN template, template[i] \in server.schemas
    PROVE  \E j \in 1..i :
              \/ /\ search_path[j] = Searched(template[i]) /\ template[j] = template[i]
                 /\ tool.schemas[template[i]] = "present"
              \/ j \in Blind(search_path)
<1>1. template[i] \in Schemas
  BY Places
<1>2. PathEntry(template[i]) # NoEntry
  BY <1>1, EntryMeans, EntryKinds
<1>3. PICK j \in 1..i : search_path[j] = PathEntry(template[i])
  BY <1>2, Places
<1>4. j \in DOMAIN template /\ j \in DOMAIN search_path /\ template[j] \in Schemas
  BY <1>3, Places
<1>5. CASE PathEntry(template[i]) = Searched(template[i]) /\ tool.schemas[template[i]] = "present"
  <2>1. search_path[j] = PathEntry(template[j])
    BY <1>2, <1>3, <1>4, Places
  <2>2. PathEntry(template[j]) = Searched(template[j])
    <3>1. PathEntry(template[j]) = Searched(template[i])
      BY <1>3, <1>5, <2>1, Zenon
    <3>2. PathEntry(template[j]) \in {Searched(template[j]), NoEntry, Unresolved(template[j])}
      BY <1>4, EntryMeans
    <3>3. QED
      BY <3>1, <3>2, EntryKinds
  <2>3. template[j] = template[i]
    <3>1. Searched(template[j]) = Searched(template[i])
      BY <1>3, <1>5, <2>1, <2>2, Zenon
    <3>2. QED
      BY <3>1, EntryKinds, Zenon
  <2>4. QED
    BY <1>3, <1>5, <2>3
<1>6. CASE PathEntry(template[i]) = Unresolved(template[i])
  <2>1. search_path[j] # NoEntry /\ ~search_path[j].searched
    <3>1. search_path[j] = Unresolved(template[i])
      BY <1>3, <1>6, Zenon
    <3>2. QED
      BY <1>2, <1>3, <3>1, EntryKinds, Zenon
  <2>2. j \in Blind(search_path)
    BY <1>4, <2>1 DEF Blind, Entries
  <2>3. QED
    BY <2>2
<1>7. QED
  BY <1>1, <1>2, <1>5, <1>6, EntryMeans

(* What is searched at a place is the schema written there, a present one. *)
LEMMA SearchedHere ==
    ASSUME ToolInv(tool), Agreement(tool, server), template \in Paths,
           NEW i \in DOMAIN search_path, search_path[i].searched
    PROVE  /\ i \in DOMAIN template /\ search_path[i] = Searched(template[i])
           /\ template[i] \in Schemas /\ template[i] \in server.schemas
           /\ tool.schemas[template[i]] = "present"
<1>1. i \in DOMAIN template /\ template[i] \in Schemas
      /\ search_path[i] \in {PathEntry(template[i]), NoEntry}
  BY Places
<1>2. search_path[i] = PathEntry(template[i])
  BY <1>1, EntryKinds
<1>3. PathEntry(template[i]) = Searched(template[i])
  <2>1. PathEntry(template[i]) \in {Searched(template[i]), NoEntry, Unresolved(template[i])}
    BY <1>1, EntryMeans
  <2>2. PathEntry(template[i]).searched
    BY <1>2, Zenon
  <2>3. QED
    BY <2>1, <2>2, EntryKinds
<1>4. QED
  BY <1>1, <1>2, <1>3, EntryMeans, EntryKinds

(* A schema that nothing shadows has no blind entry up to its first place, *)
(* and none at all if it is nowhere in the path.                           *)
LEMMA NotShadowed ==
    ASSUME template \in Paths, NEW n, ~path_shadows(n)
    PROVE  /\ (\A i \in DOMAIN template : search_path[i] # Searched(n)) => Blind(search_path) = {}
           /\ \A k \in DOMAIN template :
                 search_path[k] = Searched(n) /\ (\A j \in 1..(k - 1) : search_path[j] # Searched(n))
                     => 1..k \cap Blind(search_path) = {}
<1> DEFINE upto == {i \in DOMAIN search_path : search_path[i] = Searched(n)}
           before == IF upto = {} THEN DOMAIN search_path ELSE 1..First(upto)
<1>1. before \cap Blind(search_path) = {}
  BY DEF path_shadows
<1>2. DOMAIN search_path = DOMAIN template /\ Blind(search_path) \subseteq DOMAIN search_path
  BY Places DEF Blind, Entries
<1>3. ASSUME \A i \in DOMAIN template : search_path[i] # Searched(n)
      PROVE  Blind(search_path) = {}
  <2>1. upto = {}
    BY <1>2, <1>3
  <2>2. before = DOMAIN search_path
    BY <2>1
  <2>3. QED
    BY <1>1, <1>2, <2>2
<1>4. ASSUME NEW k \in DOMAIN template, search_path[k] = Searched(n),
             \A j \in 1..(k - 1) : search_path[j] # Searched(n)
      PROVE  1..k \cap Blind(search_path) = {}
  <2>1. k \in upto /\ upto \subseteq Nat \ {0} /\ k \in Nat
    BY <1>2, <1>4, Places
  <2>2. \A i \in upto : k <= i
    <3> SUFFICES ASSUME NEW i \in upto, ~(k <= i)
                 PROVE  FALSE
      OBVIOUS
    <3>1. i \in Nat \ {0}
      BY <2>1
    <3>2. i \in 1..(k - 1)
      BY <2>1, <3>1
    <3>3. QED
      BY <1>4, <3>2
  <2> HIDE DEF upto
  <2>3. First(upto) = k
    BY <2>1, <2>2, LeastIsFirst
  <2>4. before = 1..k
    BY <2>1, <2>3
  <2>5. QED
    BY <1>1, <2>4
<1>5. QED
  BY <1>3, <1>4

------------------------------------------------------------------------------
(* What is at an identity of a schema that is known, or known not to be.   *)

LEMMA KnownAt ==
    ASSUME Agreement(tool, server), NEW id, id[1] \in Known(tool)
    PROVE  /\ At(Namespace(tool), id) = At(server.rels, id)
           /\ id \in Live(Namespace(tool)) <=> id \in DOMAIN server.rels
           /\ id \in Live(server.rels) <=> id \in DOMAIN server.rels
           /\ id \in Live(Namespace(tool)) => server.rels[id] = Namespace(tool)[id]
<1>1. id \in Live(server.rels) <=> id \in DOMAIN server.rels
  BY DEF Agreement, ServerOk, Live
<1>2. id \in Live(Namespace(tool)) => id \in DOMAIN Namespace(tool)
  BY DEF Live
<1>3. At(Namespace(tool), id) = At(server.rels, id)
  <2>1. CASE id \in DOMAIN Namespace(tool) \cup DOMAIN server.rels
    BY <2>1 DEF Agreement
  <2>2. CASE id \notin DOMAIN Namespace(tool) \cup DOMAIN server.rels
    BY <1>1, <1>2, <2>2 DEF At
  <2>3. QED
    BY <2>1, <2>2
<1>4. QED
  BY <1>1, <1>3, SameAt

LEMMA NamedAt ==
    ASSUME ToolInv(tool), Agreement(tool, server), NEW n \in Schemas, NEW x
    PROVE  /\ <<n, x>> \in Live(Namespace(tool)) => n \in Known(tool)
           /\ <<n, x>> \in DOMAIN tool.relations /\ <<n, x>> \notin Live(Namespace(tool))
                 => <<n, x>> \notin DOMAIN server.rels
           /\ <<n, x>> \notin DOMAIN Namespace(tool) /\ n \in tool.scope => <<n, x>> \notin DOMAIN server.rels
<1> DEFINE id == <<n, x>>
<1>1. id[1] = n /\ n # Temp
  BY NamesAssumption DEF Temp
<1> HIDE DEF id
<1>2. id \in Live(Namespace(tool)) => n \in Known(tool)
  BY <1>1 DEF ToolInv, Placed
<1>3. ASSUME id \in DOMAIN server.rels
      PROVE  n \in server.schemas
  BY <1>1, <1>3 DEF Agreement, ServerOk
<1>4. CASE n \in Known(tool)
  <2>1. id \in Live(Namespace(tool)) <=> id \in DOMAIN server.rels
    BY <1>1, <1>4, KnownAt
  <2>2. id \notin DOMAIN Namespace(tool) => id \notin Live(Namespace(tool))
    BY DEF Live
  <2>3. QED
    BY <1>2, <2>1, <2>2 DEF id
<1>5. CASE n \notin Known(tool)
  <2>1. tool.schemas[n] # "present"
    BY <1>5 DEF Known
  <2>2. ASSUME id \in DOMAIN tool.relations
        PROVE  tool.schemas[n] # "none"
    BY <1>1, <2>2 DEF ToolInv, Overlays
  <2>3. ASSUME id \in DOMAIN server.rels
        PROVE  tool.schemas[n] = "none" /\ n \notin tool.scope
    BY <1>3, <2>1, <2>3 DEF Agreement, InDoubt
  <2>4. QED
    BY <1>2, <1>5, <2>2, <2>3 DEF id
<1>6. QED
  BY <1>4, <1>5

LEMMA TempAt ==
    ASSUME ToolInv(tool), Agreement(tool, server), NEW x
    PROVE  /\ <<Temp, x>> \in Live(Namespace(tool)) <=> <<Temp, x>> \in DOMAIN server.rels
           /\ <<Temp, x>> \in Live(Namespace(tool)) => server.temp /\ temp_namespace_exists
<1> DEFINE id == <<Temp, x>>
<1>1. id[1] = Temp /\ Temp \notin Schemas /\ Temp \in Known(tool)
  BY NamesAssumption DEF Temp, Known
<1> HIDE DEF id
<1>2. id \in Live(Namespace(tool)) <=> id \in DOMAIN server.rels
  BY <1>1, KnownAt
<1>3. id \in DOMAIN server.rels => server.temp
  BY <1>1 DEF Agreement, ServerOk
<1>4. ASSUME id \in Live(Namespace(tool))
      PROVE  temp_namespace_exists
  <2>1. PICK of \in Live(Namespace(tool)) : Namespace(tool)[of] = Table /\ of[1] = Temp
    BY <1>1, <1>4 DEF ToolInv, WellFormed
  <2>2. of \in Live(tool.relations)
    BY <2>1, TablesAreRelations DEF ToolInv
  <2>3. of \in DOMAIN tool.relations
    BY <2>2 DEF Live
  <2>4. tool.temp
    BY <1>1, <2>1, <2>3 DEF ToolInv, Overlays
  <2>5. QED
    BY <2>1, <2>3, <2>4 DEF temp_namespace_exists
<1>5. QED
  BY <1>2, <1>3, <1>4 DEF id

(* The places a name is looked for at: the session's schema, then the path. *)
LEMMA RelationPlaces ==
    ASSUME template \in Paths
    PROVE  /\ DOMAIN relation_search_path
                 = DOMAIN template \cup (IF temp_namespace_exists THEN {0} ELSE {})
           /\ \A i \in DOMAIN template : relation_search_path[i] = search_path[i]
           /\ temp_namespace_exists => relation_search_path[0] = Searched(Temp)
           /\ 0 \notin DOMAIN template
<1>1. DOMAIN search_path = DOMAIN template /\ 0 \notin DOMAIN template
  BY Places
<1>2. CASE ~temp_namespace_exists
  BY <1>1, <1>2 DEF relation_search_path
<1>3. CASE temp_namespace_exists
  <2>1. relation_search_path
          = [z \in DOMAIN search_path \cup {0} |-> IF z = 0 THEN Searched(Temp) ELSE search_path[z]]
    BY <1>3 DEF relation_search_path, With
  <2>2. \A z \in DOMAIN template : z # 0
    BY <1>1
  <2>3. QED
    BY <1>1, <1>3, <2>1, <2>2
<1>4. QED
  BY <1>2, <1>3

(* Where the analysis finds an unqualified name.                           *)
HitsOf(x) ==
    {i \in DOMAIN relation_search_path :
        /\ relation_search_path[i].searched
        /\ IsTaken(Namespace(tool), <<relation_search_path[i].name, x>>)}

LEMMA HitsMean ==
    ASSUME ToolInv(tool), Agreement(tool, server), template \in Paths, NEW x
    PROVE  /\ HitsOf(x) \subseteq Nat
           /\ 0 \in HitsOf(x) <=> <<Temp, x>> \in Live(Namespace(tool))
           /\ \A i : i \in HitsOf(x) /\ i # 0 =>
                 /\ i \in DOMAIN template /\ search_path[i] = Searched(template[i])
                 /\ <<template[i], x>> \in Live(Namespace(tool))
           /\ \A i \in DOMAIN template :
                 search_path[i] = Searched(template[i]) /\ <<template[i], x>> \in Live(Namespace(tool))
                     => i \in HitsOf(x)
<1>1. HitsOf(x) \subseteq Nat
  BY RelationPlaces, Places DEF HitsOf
<1>2. 0 \in HitsOf(x) <=> <<Temp, x>> \in Live(Namespace(tool))
  <2>1. ASSUME 0 \in HitsOf(x)
        PROVE  <<Temp, x>> \in Live(Namespace(tool))
    <3>1. temp_namespace_exists /\ relation_search_path[0] = Searched(Temp)
      BY <2>1, RelationPlaces DEF HitsOf
    <3>2. relation_search_path[0].name = Temp
      BY <3>1, EntryKinds, Zenon
    <3>3. IsTaken(Namespace(tool), <<relation_search_path[0].name, x>>)
      BY <2>1 DEF HitsOf
    <3>4. QED
      BY <3>2, <3>3 DEF IsTaken
  <2>2. ASSUME <<Temp, x>> \in Live(Namespace(tool))
        PROVE  0 \in HitsOf(x)
    <3>1. temp_namespace_exists
      BY <2>2, TempAt
    <3>2. 0 \in DOMAIN relation_search_path /\ relation_search_path[0] = Searched(Temp)
      BY <3>1, RelationPlaces
    <3>3. relation_search_path[0].name = Temp /\ relation_search_path[0].searched
      BY <3>2, EntryKinds, Zenon
    <3>4. QED
      BY <2>2, <3>2, <3>3 DEF HitsOf, IsTaken
  <2>3. QED
    BY <2>1, <2>2
<1>3. ASSUME NEW i \in HitsOf(x), i # 0
      PROVE  /\ i \in DOMAIN template /\ search_path[i] = Searched(template[i])
             /\ <<template[i], x>> \in Live(Namespace(tool))
  <2>1. i \in DOMAIN template /\ relation_search_path[i] = search_path[i]
    BY <1>3, RelationPlaces DEF HitsOf
  <2>2. search_path[i].searched /\ <<search_path[i].name, x>> \in Live(Namespace(tool))
    BY <2>1 DEF HitsOf, IsTaken
  <2>3. i \in DOMAIN search_path
    BY <2>1, Places
  <2>4. search_path[i] = Searched(template[i])
    BY <2>2, <2>3, SearchedHere
  <2>5. search_path[i].name = template[i]
    BY <2>4, EntryKinds, Zenon
  <2>6. QED
    BY <2>1, <2>2, <2>4, <2>5
<1>4. ASSUME NEW i \in DOMAIN template, search_path[i] = Searched(template[i]),
             <<template[i], x>> \in Live(Namespace(tool))
      PROVE  i \in HitsOf(x)
  <2>1. i \in DOMAIN relation_search_path /\ relation_search_path[i] = Searched(template[i])
    BY <1>4, RelationPlaces
  <2>2. relation_search_path[i].name = template[i] /\ relation_search_path[i].searched
    BY <2>1, EntryKinds, Zenon
  <2>3. QED
    BY <1>4, <2>1, <2>2 DEF HitsOf, IsTaken
<1>5. QED
  BY <1>1, <1>2, <1>3, <1>4

(* Where the server finds it.                                              *)
ServerHits(x) == {i \in ServerPlaces : <<template[i], x>> \in DOMAIN server.rels}

LEMMA ServerHitIsHit ==
    ASSUME ToolInv(tool), Agreement(tool, server), template \in Paths, NEW x,
           NEW i \in ServerHits(x)
    PROVE  /\ i \in DOMAIN template /\ template[i] \in Schemas
           /\ \E j \in 1..i : \/ j \in HitsOf(x) /\ template[j] = template[i]
                              \/ j \in Blind(search_path)
<1>1. i \in DOMAIN template /\ template[i] \in server.schemas /\ <<template[i], x>> \in DOMAIN server.rels
  BY DEF ServerHits, ServerPlaces
<1>2. template[i] \in Schemas /\ 1..i \subseteq DOMAIN template
  BY <1>1, Places
<1>3. PICK j \in 1..i :
              \/ /\ search_path[j] = Searched(template[i]) /\ template[j] = template[i]
                 /\ tool.schemas[template[i]] = "present"
              \/ j \in Blind(search_path)
  BY <1>1, SearchedBefore
<1>4. CASE j \in Blind(search_path)
  BY <1>1, <1>2, <1>4
<1>5. CASE /\ search_path[j] = Searched(template[i]) /\ template[j] = template[i]
           /\ tool.schemas[template[i]] = "present"
  <2> DEFINE id == <<template[i], x>>
  <2>1. id[1] = template[i] /\ template[i] \in Known(tool)
    BY <1>2, <1>5 DEF Known
  <2> HIDE DEF id
  <2>2. id \in Live(Namespace(tool))
    BY <1>1, <2>1, KnownAt DEF id
  <2>3. j \in DOMAIN template
    BY <1>2
  <2>4. <<template[j], x>> \in Live(Namespace(tool)) /\ search_path[j] = Searched(template[j])
    BY <1>5, <2>2 DEF id
  <2>5. j \in HitsOf(x)
    BY <2>3, <2>4, HitsMean
  <2>6. QED
    BY <1>1, <1>2, <1>5, <2>5
<1>6. QED
  BY <1>3, <1>4, <1>5

LEMMA HitIsServerHit ==
    ASSUME ToolInv(tool), Agreement(tool, server), template \in Paths, NEW x,
           NEW i \in HitsOf(x), i # 0
    PROVE  /\ i \in ServerHits(x) /\ template[i] \in Known(tool)
           /\ <<template[i], x>> \in Live(Namespace(tool))
           /\ search_path[i] = Searched(template[i]) /\ i \in DOMAIN template
<1>1. /\ i \in DOMAIN template /\ search_path[i] = Searched(template[i])
      /\ <<template[i], x>> \in Live(Namespace(tool))
  BY HitsMean
<1>2. search_path[i].searched /\ i \in DOMAIN search_path
  BY <1>1, Places, EntryKinds, Zenon
<1>3. template[i] \in server.schemas /\ template[i] \in Known(tool)
  BY <1>2, SearchedHere DEF Known
<1> DEFINE id == <<template[i], x>>
<1>4. id[1] \in Known(tool)
  BY <1>3
<1> HIDE DEF id
<1>5. id \in DOMAIN server.rels
  BY <1>1, <1>4, KnownAt DEF id
<1>6. QED
  BY <1>1, <1>3, <1>5 DEF ServerHits, ServerPlaces, id

(* A name found where nothing hides it is what the server finds.           *)
LEMMA FoundAgrees ==
    ASSUME ToolInv(tool), Agreement(tool, server), template \in Paths, NEW x,
           HitsOf(x) # {}, ~path_shadows(NameAt(relation_search_path, HitsOf(x)))
    PROVE  LET n == NameAt(relation_search_path, HitsOf(x))
           IN  /\ <<n, x>> \in Live(Namespace(tool)) /\ n \in Known(tool)
               /\ ServerLookup(<<"", x>>) = <<n, x>>
<1> DEFINE k == First(HitsOf(x))
           n == NameAt(relation_search_path, HitsOf(x))
           hits == {i \in ServerPlaces : <<template[i], x>> \in DOMAIN server.rels}
           id == IF server.temp /\ <<Temp, x>> \in DOMAIN server.rels THEN <<Temp, x>>
                 ELSE <<FirstWritten(hits), x>>
<1>1. k \in HitsOf(x) /\ \A i \in HitsOf(x) : k <= i
  BY HitsMean, FirstIsLeast
<1>2. n = relation_search_path[k].name
  BY DEF NameAt
<1>3. ServerLookup(<<"", x>>) = IF id \in DOMAIN server.rels THEN id ELSE <<>>
  BY DEF ServerLookup
<1>4. HitsOf(x) \subseteq Nat /\ k \in Nat
  BY <1>1, HitsMean
<1> HIDE DEF k, n
<1>5. CASE k = 0
  <2>1. <<Temp, x>> \in Live(Namespace(tool))
    BY <1>1, <1>5, HitsMean
  <2>2. <<Temp, x>> \in DOMAIN server.rels /\ server.temp /\ temp_namespace_exists
    BY <2>1, TempAt
  <2>3. n = Temp
    BY <1>2, <1>5, <2>2, RelationPlaces, EntryKinds, Zenon
  <2>4. ServerLookup(<<"", x>>) = <<Temp, x>>
    BY <1>3, <2>2
  <2>5. QED
    BY <2>1, <2>3, <2>4 DEF Known, n
<1>6. CASE k # 0
  <2>1. /\ k \in ServerHits(x) /\ template[k] \in Known(tool) /\ <<template[k], x>> \in Live(Namespace(tool))
        /\ search_path[k] = Searched(template[k]) /\ k \in DOMAIN template
    BY <1>1, <1>6, HitIsServerHit
  <2>2. n = template[k]
    <3>1. relation_search_path[k] = Searched(template[k])
      BY <2>1, RelationPlaces
    <3>2. QED
      BY <1>2, <3>1, EntryKinds, Zenon
  <2>3. ~(server.temp /\ <<Temp, x>> \in DOMAIN server.rels)
    <3>1. 0 \notin HitsOf(x)
      BY <1>1, <1>4, <1>6
    <3>2. QED
      BY <3>1, HitsMean, TempAt
  <2>4. \A j \in 1..(k - 1) : j \notin HitsOf(x)
    BY <1>1, <1>4
  <2>5. \A j \in 1..(k - 1) : search_path[j] # Searched(n)
    <3> SUFFICES ASSUME NEW j \in 1..(k - 1), search_path[j] = Searched(template[k])
                 PROVE  FALSE
      BY <2>2
    <3>1. j \in 1..k
      BY <1>4
    <3>2. j \in DOMAIN template /\ j \in DOMAIN search_path
      BY <2>1, <3>1, Places
    <3>3. search_path[j].searched
      BY EntryKinds, Zenon
    <3>4. search_path[j] = Searched(template[j])
      BY <3>2, <3>3, SearchedHere
    <3>5. template[j] = template[k]
      BY <3>4, EntryKinds, Zenon
    <3>6. j \in HitsOf(x)
      BY <2>1, <3>2, <3>4, <3>5, HitsMean
    <3>7. QED
      BY <2>4, <3>6
  <2>6. 1..k \cap Blind(search_path) = {}
    BY <2>1, <2>2, <2>5, NotShadowed DEF n
  <2>7. \A i \in ServerHits(x) : k <= i
    <3> SUFFICES ASSUME NEW i \in ServerHits(x), ~(k <= i)
                 PROVE  FALSE
      OBVIOUS
    <3>1. i \in Nat \ {0}
      BY ServerHitIsHit, Places
    <3>2. PICK j \in 1..i : j \in HitsOf(x) \/ j \in Blind(search_path)
      BY ServerHitIsHit
    <3>3. j \in 1..(k - 1) /\ j \in 1..k
      BY <1>4, <3>1
    <3>4. QED
      BY <2>4, <2>6, <3>2, <3>3
  <2>8. ServerHits(x) \subseteq Nat
    BY ServerHitIsHit, Places
  <2>9. First(ServerHits(x)) = k
    BY <2>1, <2>7, <2>8, LeastIsFirst
  <2>10. FirstWritten(ServerHits(x)) = template[k]
    BY <2>1, <2>9 DEF FirstWritten
  <2>11. id = <<template[k], x>>
    BY <2>3, <2>10 DEF ServerHits
  <2>12. <<template[k], x>> \in DOMAIN server.rels
    BY <2>1 DEF ServerHits
  <2>13. QED
    BY <1>3, <2>1, <2>2, <2>11, <2>12 DEF n
<1>7. QED
  BY <1>5, <1>6

(* A name found nowhere, with nothing that could not be searched, is not   *)
(* there.                                                                  *)
LEMMA MissAgrees ==
    ASSUME ToolInv(tool), Agreement(tool, server), template \in Paths, NEW x,
           HitsOf(x) = {}, Blind(search_path) = {}
    PROVE  ServerLookup(<<"", x>>) = <<>>
<1> DEFINE hits == {i \in ServerPlaces : <<template[i], x>> \in DOMAIN server.rels}
           id == IF server.temp /\ <<Temp, x>> \in DOMAIN server.rels THEN <<Temp, x>>
                 ELSE <<FirstWritten(hits), x>>
<1>1. ServerLookup(<<"", x>>) = IF id \in DOMAIN server.rels THEN id ELSE <<>>
  BY DEF ServerLookup
<1>2. ~(server.temp /\ <<Temp, x>> \in DOMAIN server.rels)
  BY HitsMean, TempAt
<1>3. hits = {}
  BY ServerHitIsHit DEF ServerHits
<1>4. id = <<"", x>>
  BY <1>2, <1>3 DEF FirstWritten
<1>5. <<"", x>> \notin DOMAIN server.rels
  <2> DEFINE y == <<"", x>>
  <2>1. y[1] = "" /\ "" \notin Schemas /\ "" # Temp
    BY NamesAssumption DEF Temp
  <2> HIDE DEF y
  <2>2. y \notin DOMAIN server.rels
    BY <2>1 DEF Agreement, ServerOk
  <2>3. QED
    BY <2>2 DEF y
<1>6. QED
  BY <1>1, <1>4, <1>5

LEMMA LookSays ==
    ASSUME Overlays(tool), NEW r, NEW look, look = relation_lookup(r)
    PROVE  /\ look \in {"present", "wrong kind", "unknown", "absent", "tombstone"}
           /\ look \in {"present", "wrong kind"} => r.id \in Live(Namespace(tool))
           /\ r.id \in Live(Namespace(tool)) => look \in {"unknown", "present", "wrong kind"} \/ HiddenHit(r, look)
           /\ look = "present" => Namespace(tool)[r.id].kind = "table" /\ r.id \in Live(tool.relations)
           /\ look = "wrong kind" => Namespace(tool)[r.id].kind # "table"
           /\ look = "tombstone" /\ ~HiddenHit(r, look) =>
                 r.id \in DOMAIN tool.relations /\ r.id \notin Live(Namespace(tool))
           /\ look = "absent" => r.id \notin DOMAIN Namespace(tool) /\ r.id[1] \in tool.scope
           /\ look # "unknown" => ~lookup_shadowed(r)
<1>0. PICK n, x : n = Namespace(tool) /\ x = r.id
  OBVIOUS
<1>1. /\ DOMAIN n = Live(n)
      /\ x \in Live(n) <=> x \in Live(tool.relations) \/ x \in Live(tool.sequences) \/ x \in DOMAIN tool.indexes
      /\ x \in Live(tool.relations) => n[x] = Table
      /\ x \in Live(tool.sequences) => n[x] = tool.sequences[x]
      /\ x \in DOMAIN tool.indexes => n[x] = tool.indexes[x]
  BY <1>0, NamespaceAt
<1>2. Table.kind = "table"
  BY DEF Table, Object
<1>3. CASE lookup_shadowed(r)
  <2>1. look = "unknown"
    BY <1>3 DEF relation_lookup
  <2>2. QED
    BY <1>3, <2>1
<1>4. CASE ~lookup_shadowed(r) /\ x \in DOMAIN tool.relations /\ x \in Live(tool.relations)
  <2>1. look = "present"
    BY <1>0, <1>4 DEF relation_lookup
  <2>2. QED
    BY <1>0, <1>1, <1>2, <1>4, <2>1
<1>5. CASE ~lookup_shadowed(r) /\ x \in DOMAIN tool.relations /\ x \notin Live(tool.relations)
  <2>1. look = "tombstone"
    BY <1>0, <1>5 DEF relation_lookup
  <2>2. HiddenHit(r, look) <=> x \in Live(n)
    BY <1>0, <2>1 DEF HiddenHit, IsTaken
  <2>3. QED
    BY <1>0, <1>5, <2>1, <2>2
<1>6. CASE ~lookup_shadowed(r) /\ x \notin DOMAIN tool.relations /\ x \in Live(n)
  <2>1. look = "wrong kind"
    BY <1>0, <1>6 DEF relation_lookup, IsTaken
  <2>2. x \notin Live(tool.relations)
    BY <1>6 DEF Live
  <2>3. n[x].kind # "table"
    BY <1>1, <1>6, <2>2 DEF Overlays
  <2>4. QED
    BY <1>0, <1>6, <2>1, <2>3
<1>7. CASE ~lookup_shadowed(r) /\ x \notin DOMAIN tool.relations /\ x \notin Live(n)
  <2>1. look = IF x[1] \in tool.scope THEN "absent" ELSE "unknown"
    BY <1>0, <1>7 DEF relation_lookup, IsTaken
  <2>2. QED
    BY <1>0, <1>1, <1>7, <2>1
<1>8. QED
  BY <1>3, <1>4, <1>5, <1>6, <1>7

LEMMA PairIsPair ==
    ASSUME NEW A, NEW B, NEW p \in A \X B
    PROVE  p = <<p[1], p[2]>> /\ p[1] \in A /\ p[2] \in B
OBVIOUS

LEMMA RefIsPair ==
    ASSUME NEW ref \in Refs
    PROVE  ref = <<ref[1], ref[2]>> /\ ref[1] \in Schemas \cup {""} /\ ref[2] \in Tables
BY PairIsPair, Zenon DEF Refs

(* The lookup of DROP TABLE: what the analysis finds the server finds, and *)
(* what it does not find is not there, or an entry of the path was blind.  *)
LEMMA LookupAgrees ==
    ASSUME ToolInv(tool), Agreement(tool, server), template \in Paths, NEW ref \in Refs
    PROVE  LET r == resolve_in_namespace(ref)
               look == relation_lookup(r)
               on == ServerLookup(ref)
           IN  /\ look \in {"present", "wrong kind", "unknown", "absent", "tombstone"}
               /\ look \in {"present", "wrong kind"} =>
                     /\ on = r.id /\ r.id[1] \in Known(tool) /\ on # <<>>
                     /\ server.rels[on].kind = "table" <=> look = "present"
               /\ look = "present" => Namespace(tool)[r.id].kind = "table"
               /\ look = "present" => r.id \in Live(tool.relations)
               /\ look \in {"absent", "tombstone"} /\ ~DoubtfulMiss(r, look) /\ ~HiddenHit(r, look)
                     => on = <<>>
<1>0. Overlays(tool)
  BY DEF ToolInv
<1> DEFINE r == resolve_in_namespace(ref)
           look == relation_lookup(r)
           on == ServerLookup(ref)
           x == ref[2]
<1>1. ref = <<ref[1], x>> /\ ref[1] \in Schemas \cup {""}
  BY RefIsPair
<1>2. ASSUME look \in {"present", "wrong kind"}, on = r.id, r.id[1] \in Known(tool), r.id # <<>>
      PROVE  /\ server.rels[on].kind = "table" <=> look = "present"
             /\ look = "present" => Namespace(tool)[r.id].kind = "table" /\ r.id \in Live(tool.relations)
  <2> HIDE DEF r, on, look
  <2>1. r.id \in Live(Namespace(tool))
    BY <1>2, <1>0, LookSays DEF look
  <2>2. server.rels[on] = Namespace(tool)[r.id]
    BY <1>2, <2>1, KnownAt
  <2>3. QED
    BY <1>2, <2>2, <1>0, LookSays DEF look
<1>3. CASE ref[1] # ""
  <2>1. r = [id |-> ref, inferred |-> FALSE]
    BY <1>3 DEF resolve_in_namespace
  <2>2. r.id = ref /\ ~r.inferred
    BY <2>1
  <2>3. on = IF ref \in DOMAIN server.rels THEN ref ELSE <<>>
    <3> DEFINE hits == {i \in ServerPlaces : <<template[i], ref[2]>> \in DOMAIN server.rels}
               id == IF ref[1] # "" THEN ref
                     ELSE IF server.temp /\ <<Temp, ref[2]>> \in DOMAIN server.rels THEN <<Temp, ref[2]>>
                     ELSE <<FirstWritten(hits), ref[2]>>
    <3>1. on = IF id \in DOMAIN server.rels THEN id ELSE <<>>
      BY DEF ServerLookup
    <3> HIDE DEF on
    <3>2. QED
      BY <1>3, <3>1
  <2>4. ref[1] \in Schemas /\ ref # <<>>
    <3>1. \A a, b : <<a, b>> # <<>>
      OBVIOUS
    <3>2. QED
      BY <1>1, <1>3, <3>1, Zenon
  <2> HIDE DEF r, on, look
  <2>5. /\ ref \in Live(Namespace(tool)) => ref[1] \in Known(tool)
        /\ ref \in DOMAIN tool.relations /\ ref \notin Live(Namespace(tool)) => ref \notin DOMAIN server.rels
        /\ ref \notin DOMAIN Namespace(tool) /\ ref[1] \in tool.scope => ref \notin DOMAIN server.rels
    BY <1>1, <2>4, NamedAt
  <2>6. ASSUME look \in {"present", "wrong kind"}
        PROVE  on = r.id /\ r.id[1] \in Known(tool) /\ r.id # <<>>
    <3>1. ref \in Live(Namespace(tool))
      BY <2>2, <2>6, <1>0, LookSays DEF look
    <3>2. ref \in DOMAIN server.rels
      BY <2>5, <3>1, KnownAt
    <3>3. QED
      BY <2>2, <2>3, <2>4, <2>5, <3>1, <3>2
  <2>7. ASSUME look \in {"absent", "tombstone"}, ~HiddenHit(r, look)
        PROVE  on = <<>>
    <3>1. ref \notin DOMAIN server.rels
      BY <2>2, <2>5, <2>7, <1>0, LookSays DEF look
    <3>2. QED
      BY <2>3, <3>1
  <2>8. QED
    BY <1>2, <2>6, <2>7, <1>0, LookSays DEF r, on, look
<1>4. CASE ref[1] = ""
  <2> DEFINE at == IF HitsOf(x) = {} THEN Entries(relation_search_path) ELSE HitsOf(x)
             n == NameAt(relation_search_path, at)
  <2>1. r = [id |-> <<n, x>>, inferred |-> TRUE]
    BY <1>4, Zenon DEF resolve_in_namespace, HitsOf
  <2>2. r.id = <<n, x>> /\ r.id[1] = n /\ r.id # <<>> /\ r.inferred
    BY <2>1
  <2>3. on = ServerLookup(<<"", x>>)
    BY <1>1, <1>4
  <2> HIDE DEF r, on, look, n
  <2>4. ASSUME look # "unknown"
        PROVE  ~path_shadows(n)
    BY <2>2, <2>4, <1>0, LookSays DEF look, lookup_shadowed
  <2>5. CASE HitsOf(x) # {}
    <3>1. n = NameAt(relation_search_path, HitsOf(x))
      BY <2>5 DEF n
    <3>2. ASSUME look # "unknown"
          PROVE  r.id \in Live(Namespace(tool)) /\ n \in Known(tool) /\ on = r.id
      BY <2>2, <2>3, <2>4, <2>5, <3>1, <3>2, FoundAgrees
    <3>3. look \notin {"absent", "tombstone"} \/ HiddenHit(r, look)
      BY <3>2, <1>0, LookSays DEF look
    <3>4. look \in {"present", "wrong kind"} => on = r.id /\ r.id[1] \in Known(tool) /\ r.id # <<>>
      BY <2>2, <3>2
    <3>5. QED
      BY <1>2, <3>3, <3>4, <1>0, LookSays DEF r, on, look
  <2>6. CASE HitsOf(x) = {}
    <3>1. look \notin {"present", "wrong kind"}
      <4> SUFFICES ASSUME look \in {"present", "wrong kind"} PROVE FALSE
        OBVIOUS
      <4>1. <<n, x>> \in Live(Namespace(tool))
        BY <2>2, <1>0, LookSays DEF look
      <4>2. at = Entries(relation_search_path) /\ n = NameAt(relation_search_path, at)
        BY <2>6 DEF n
      <4> DEFINE y == <<n, x>>
      <4>3. y[1] = n /\ y \in Live(Namespace(tool))
        BY <4>1
      <4> HIDE DEF y, at
      <4>4. n # ""
        BY <4>3, NamesAssumption DEF ToolInv, Placed, Known, Temp
      <4>5. at # {}
        BY <4>2, <4>4 DEF NameAt
      <4>6. at \subseteq DOMAIN relation_search_path /\ at \subseteq Nat
        <5>1. DOMAIN relation_search_path \subseteq Nat
          <6>1. DOMAIN template \subseteq Nat
            BY Places
          <6>2. CASE temp_namespace_exists
            <7>1. DOMAIN relation_search_path = DOMAIN template \cup {0}
              BY <6>2, RelationPlaces
            <7>2. DOMAIN template \cup {0} \subseteq Nat
              <8>1. 0 \in Nat
                OBVIOUS
              <8>2. QED
                BY <6>1, <8>1, Zenon
            <7>3. QED
              BY <7>1, <7>2, Zenon
          <6>3. CASE ~temp_namespace_exists
            BY <6>1, <6>3, RelationPlaces
          <6>4. QED
            BY <6>2, <6>3
        <5>2. QED
          BY <4>2, <5>1 DEF Entries
      <4>7. First(at) \in at /\ n = relation_search_path[First(at)].name
        BY <4>2, <4>5, <4>6, FirstIsLeast DEF NameAt
      <4>8. PICK k \in at : n = relation_search_path[k].name
        BY <4>7
      <4>9. CASE relation_search_path[k].searched
        <5>1. k \in HitsOf(x)
          BY <4>1, <4>6, <4>8, <4>9 DEF HitsOf, IsTaken
        <5>2. QED
          BY <2>6, <5>1
      <4>10. CASE ~relation_search_path[k].searched
        <5>1. k # 0
          BY <4>6, <4>10, RelationPlaces, EntryKinds, Zenon
        <5>2. k \in DOMAIN template /\ relation_search_path[k] = search_path[k] /\ k \in DOMAIN search_path
          BY <4>6, <5>1, RelationPlaces, Places
        <5>3. search_path[k] # NoEntry
          BY <4>2, <5>2 DEF Entries
        <5>4. k \in Blind(search_path)
          BY <4>10, <5>2, <5>3 DEF Blind, Entries
        <5>5. ~path_shadows(n)
          BY <2>4
        <5>6. PICK j \in DOMAIN template : search_path[j] = Searched(n)
          BY <5>4, <5>5, NotShadowed
        <5>7. j \in DOMAIN search_path /\ search_path[j].searched
          BY <5>6, Places, EntryKinds, Zenon
        <5>8. search_path[j] = Searched(template[j])
          BY <5>7, SearchedHere
        <5>9. template[j] = n
          BY <5>6, <5>8, EntryKinds, Zenon
        <5>10. j \in HitsOf(x)
          BY <4>1, <5>6, <5>8, <5>9, HitsMean
        <5>11. QED
          BY <2>6, <5>10
      <4>11. QED
        BY <4>9, <4>10
    <3>2. ASSUME look \in {"absent", "tombstone"}, ~DoubtfulMiss(r, look)
          PROVE  on = <<>>
      <4>1. Blind(search_path) = {}
        BY <2>2, <3>2 DEF DoubtfulMiss
      <4>2. QED
        BY <2>3, <2>6, <4>1, MissAgrees
    <3>3. QED
      BY <3>1, <3>2, <1>0, LookSays DEF r, on, look
  <2>7. QED
    BY <2>5, <2>6
<1>5. QED
  BY <1>1, <1>3, <1>4

LEMMA SchemaSays ==
    ASSUME ToolInv(tool), Agreement(tool, server), NEW n \in Schemas
    PROVE  /\ schema_lookup(n) \in {"present", "dropped", "absent", "unknown"}
           /\ schema_lookup(n) = "present" => tool.schemas[n] = "present" /\ n \in server.schemas
           /\ schema_lookup(n) \in {"dropped", "absent"} => tool.schemas[n] # "present" /\ n \notin server.schemas
<1>1. tool.schemas[n] \in {"present", "none", "dropped"}
  BY DEF ToolInv, ToolOk
<1>2. CASE tool.schemas[n] # "none"
  <2>1. schema_lookup(n) = tool.schemas[n]
    BY <1>2 DEF schema_lookup
  <2>2. tool.schemas[n] = "dropped" => ~InDoubt(tool, n)
    BY DEF InDoubt
  <2>3. QED
    BY <1>1, <1>2, <2>1, <2>2 DEF Agreement
<1>3. CASE tool.schemas[n] = "none"
  <2>1. schema_lookup(n) = IF n \in tool.scope THEN "absent" ELSE "unknown"
    BY <1>3 DEF schema_lookup
  <2>2. n \in tool.scope => ~InDoubt(tool, n)
    BY DEF InDoubt
  <2>3. QED
    BY <1>3, <2>1, <2>2 DEF Agreement
<1>4. QED
  BY <1>2, <1>3

LEMMA TargetSays ==
    ASSUME NEW r, NEW target, target = ensure_creation_target(r), r.id[1] # Temp
    PROVE  /\ target = "ok" => ~lookup_shadowed(r) /\ schema_lookup(r.id[1]) = "present"
           /\ target = "conflict" => ~lookup_shadowed(r) /\ schema_lookup(r.id[1]) \notin {"present", "unknown"}
           /\ target \in {"ok", "unresolved", "conflict"}
<1> DEFINE look == schema_lookup(r.id[1])
<1>1. CASE lookup_shadowed(r)
  BY <1>1 DEF ensure_creation_target
<1>2. CASE ~lookup_shadowed(r)
  <2>1. target = CASE look = "present" -> "ok"
                   [] look = "unknown" -> "unresolved"
                   [] OTHER            -> "conflict"
    BY <1>2 DEF ensure_creation_target
  <2> HIDE DEF look
  <2>2. CASE look = "present"
    BY <1>2, <2>1, <2>2 DEF look
  <2>3. CASE look = "unknown"
    BY <1>2, <2>1, <2>3 DEF look
  <2>4. CASE look # "present" /\ look # "unknown"
    BY <1>2, <2>1, <2>4 DEF look
  <2>5. QED
    BY <2>2, <2>3, <2>4
<1>3. QED
  BY <1>1, <1>2

(* The schema of an unqualified new name: the server's, or in doubt.       *)
FoundAt == {i \in DOMAIN search_path : search_path[i].searched}

LEMMA ServerPlaceIsPlace ==
    ASSUME ToolInv(tool), Agreement(tool, server), template \in Paths, NEW i \in ServerPlaces
    PROVE  i \in Nat \ {0} /\ \E j \in 1..i : j \in FoundAt \/ j \in Blind(search_path)
<1>1. i \in DOMAIN template /\ template[i] \in server.schemas
  BY DEF ServerPlaces
<1>2. PICK j \in 1..i : \/ search_path[j] = Searched(template[i])
                        \/ j \in Blind(search_path)
  BY <1>1, SearchedBefore
<1>3. j \in DOMAIN search_path /\ i \in Nat \ {0}
  BY <1>1, <1>2, Places
<1>4. search_path[j] = Searched(template[i]) => search_path[j].searched
  BY EntryKinds, Zenon
<1>5. QED
  BY <1>2, <1>3, <1>4 DEF FoundAt

LEMMA CreationSchema ==
    ASSUME ToolInv(tool), Agreement(tool, server), template \in Paths, ~path_shadows(creation_schema)
    PROVE  \/ /\ creation_schema \in Schemas /\ creation_schema \in server.schemas
              /\ FirstWritten(ServerPlaces) = creation_schema
           \/ creation_schema = "" /\ FirstWritten(ServerPlaces) = ""
<1>1. creation_schema = NameAt(search_path, IF FoundAt = {} THEN Entries(search_path) ELSE FoundAt)
  BY DEF creation_schema, FoundAt
<1>2. DOMAIN search_path = DOMAIN template /\ DOMAIN search_path \subseteq Nat \ {0}
  BY Places
<1>3. Blind(search_path) \subseteq Entries(search_path) /\ Entries(search_path) \subseteq DOMAIN search_path
  BY DEF Blind, Entries
<1>4. CASE FoundAt # {}
  <2> DEFINE k == First(FoundAt)
  <2>1. FoundAt \subseteq Nat
    BY <1>2 DEF FoundAt
  <2>2. k \in FoundAt /\ \A i \in FoundAt : k <= i
    BY <1>4, <2>1, FirstIsLeast
  <2>3. creation_schema = search_path[k].name
    BY <1>1, <1>4 DEF NameAt
  <2> HIDE DEF k
  <2>4. /\ k \in DOMAIN template /\ search_path[k] = Searched(template[k]) /\ template[k] \in Schemas
        /\ template[k] \in server.schemas /\ k \in Nat \ {0}
    BY <1>2, <2>2, SearchedHere DEF FoundAt
  <2>5. creation_schema = template[k]
    BY <2>3, <2>4, EntryKinds, Zenon
  <2>6. \A j \in 1..(k - 1) : j \notin FoundAt
    BY <2>2, <2>4
  <2>7. \A j \in 1..(k - 1) : search_path[j] # Searched(template[k])
    <3> SUFFICES ASSUME NEW j \in 1..(k - 1), search_path[j] = Searched(template[k])
                 PROVE  FALSE
      OBVIOUS
    <3>1. j \in 1..k
      BY <2>4
    <3>2. j \in DOMAIN search_path
      BY <1>2, <2>4, <3>1, Places
    <3>3. search_path[j].searched
      BY EntryKinds, Zenon
    <3>4. QED
      BY <2>6, <3>2, <3>3 DEF FoundAt
  <2>8. 1..k \cap Blind(search_path) = {}
    BY <2>4, <2>5, <2>7, NotShadowed
  <2>9. \A i \in ServerPlaces : k <= i
    <3> SUFFICES ASSUME NEW i \in ServerPlaces, ~(k <= i)
                 PROVE  FALSE
      OBVIOUS
    <3>1. i \in Nat \ {0}
      BY ServerPlaceIsPlace
    <3>2. PICK j \in 1..i : j \in FoundAt \/ j \in Blind(search_path)
      BY ServerPlaceIsPlace
    <3>3. j \in 1..(k - 1) /\ j \in 1..k
      BY <2>4, <3>1
    <3>4. QED
      BY <2>6, <2>8, <3>2, <3>3
  <2>10. k \in ServerPlaces /\ ServerPlaces \subseteq Nat
    BY <2>4, ServerPlaceIsPlace DEF ServerPlaces
  <2>11. First(ServerPlaces) = k
    BY <2>9, <2>10, LeastIsFirst
  <2>12. FirstWritten(ServerPlaces) = template[k]
    BY <2>10, <2>11 DEF FirstWritten
  <2>13. QED
    BY <2>4, <2>5, <2>12
<1>5. CASE FoundAt = {} /\ Entries(search_path) = {}
  <2>1. creation_schema = ""
    BY <1>1, <1>5 DEF NameAt
  <2>2. ServerPlaces = {}
    BY <1>3, <1>5, ServerPlaceIsPlace
  <2>3. QED
    BY <2>1, <2>2 DEF FirstWritten
<1>6. CASE FoundAt = {} /\ Entries(search_path) # {}
  <2>1. \A i \in DOMAIN template : search_path[i] # Searched(creation_schema)
    <3> SUFFICES ASSUME NEW i \in DOMAIN template, search_path[i] = Searched(creation_schema)
                 PROVE  FALSE
      OBVIOUS
    <3>1. search_path[i].searched
      BY EntryKinds, Zenon
    <3>2. QED
      BY <1>2, <1>6, <3>1 DEF FoundAt
  <2>2. Blind(search_path) = {}
    BY <2>1, NotShadowed
  <2>3. PICK i \in Entries(search_path) : TRUE
    BY <1>6
  <2>4. i \in FoundAt
    BY <1>3, <2>2, <2>3 DEF Blind, FoundAt
  <2>5. QED
    BY <1>6, <2>4
<1>7. QED
  BY <1>4, <1>5, <1>6

(* CREATE TABLE: what the analysis may create the server creates there,    *)
(* and what it refuses has no schema on the server.                        *)
LEMMA CreationAgrees ==
    ASSUME ToolInv(tool), Agreement(tool, server), template \in Paths, NEW ref \in Refs
    PROVE  LET r == resolve_creation_name(ref)
               target == ensure_creation_target(r)
               on == ServerTarget(ref)
           IN  /\ target \in {"ok", "unresolved", "conflict"}
               /\ target = "ok" => on = r.id /\ on # <<>>
               /\ target = "conflict" => on = <<>>
<1> DEFINE r == resolve_creation_name(ref)
           target == ensure_creation_target(r)
           on == ServerTarget(ref)
           x == ref[2]
           n == IF ref[1] # "" THEN ref[1] ELSE creation_schema
           m == IF ref[1] # "" THEN ref[1] ELSE FirstWritten(ServerPlaces)
<1>1. ref = <<ref[1], x>> /\ ref[1] \in Schemas \cup {""}
  BY RefIsPair
<1>2. on = IF m \in server.schemas THEN <<m, x>> ELSE <<>>
  BY DEF ServerTarget
<1>3. r.id = <<n, x>> /\ r.id[1] = n /\ (ref[1] = "" => r.inferred)
  <2>1. CASE ref[1] # ""
    <3>1. r = [id |-> ref, inferred |-> FALSE] /\ n = ref[1]
      BY <2>1 DEF resolve_creation_name
    <3>2. QED
      <4> HIDE DEF n, r
      <4>1. r.id = ref
        BY <3>1
      <4>2. r.id = <<n, x>>
        BY <1>1, <3>1, <4>1, Zenon
      <4>3. r.id[1] = n
        BY <4>2
      <4>4. QED
        BY <2>1, <4>2, <4>3
  <2>2. CASE ref[1] = ""
    <3>1. r = [id |-> <<creation_schema, x>>, inferred |-> TRUE] /\ n = creation_schema
      BY <2>2 DEF resolve_creation_name
    <3>2. QED
      <4> HIDE DEF n, r
      <4>1. r.id = <<creation_schema, x>> /\ r.inferred
        BY <3>1
      <4>2. r.id = <<n, x>>
        BY <3>1, <4>1, Zenon
      <4>3. r.id[1] = n
        BY <4>2
      <4>4. QED
        BY <4>1, <4>2, <4>3
  <2>3. QED
    BY <2>1, <2>2
<1>4. "" \notin Schemas /\ Temp \notin Schemas /\ Temp # "" /\ "" \notin server.schemas
  BY NamesAssumption DEF Temp, Agreement, ServerOk
<1>5. \A a, b : <<a, b>> # <<>>
  OBVIOUS
<1>6. ~lookup_shadowed(r) =>
         \/ n \in Schemas /\ m = n
         \/ n = "" /\ m = ""
  <2>1. CASE ref[1] # ""
    BY <1>1, <2>1
  <2>2. CASE ref[1] = ""
    <3>1. n = creation_schema /\ m = FirstWritten(ServerPlaces)
      BY <2>2
    <3>2. ~lookup_shadowed(r) => ~path_shadows(creation_schema)
      BY <1>3, <2>2, <3>1 DEF lookup_shadowed
    <3>3. QED
      BY <3>1, <3>2, CreationSchema
  <2>3. QED
    BY <2>1, <2>2
<1>7. r.id[1] # Temp
  <2>1. CASE ref[1] # ""
    BY <1>1, <1>3, <1>4, <2>1
  <2>2. CASE ref[1] = ""
    <3> DEFINE at == IF FoundAt = {} THEN Entries(search_path) ELSE FoundAt
    <3>1. creation_schema = NameAt(search_path, at)
      BY DEF creation_schema, FoundAt
    <3>2. \A i \in DOMAIN search_path : search_path[i].name \in Schemas \cup {""}
      <4> SUFFICES ASSUME NEW i \in DOMAIN search_path
                   PROVE  search_path[i].name \in Schemas \cup {""}
        OBVIOUS
      <4>1. template[i] \in Schemas /\ search_path[i] \in {PathEntry(template[i]), NoEntry}
        BY Places
      <4>2. PathEntry(template[i]) \in {Searched(template[i]), NoEntry, Unresolved(template[i])}
        BY <4>1, EntryMeans
      <4>3. NoEntry.name = ""
        BY EntryKinds DEF NoEntry
      <4>4. search_path[i].name \in {template[i], ""}
        <5>1. search_path[i] \in {Searched(template[i]), NoEntry, Unresolved(template[i])}
          BY <4>1, <4>2, Zenon
        <5>2. Searched(template[i]).name = template[i] /\ Unresolved(template[i]).name = template[i]
          BY EntryKinds, Zenon
        <5>3. QED
          BY <4>3, <5>1, <5>2, Zenon
      <4>5. QED
        BY <4>1, <4>4
    <3>3. DOMAIN search_path \subseteq Nat /\ at \in SUBSET DOMAIN search_path
      BY Places DEF FoundAt, Entries
    <3> HIDE DEF at
    <3>4. PICK path, places : path = search_path /\ places = at
      OBVIOUS
    <3>5. NameAt(path, places) \in (Schemas \cup {""}) \cup {""}
      BY <3>2, <3>3, <3>4, NameAtIsThere
    <3>6. creation_schema \in Schemas \cup {""}
      BY <3>1, <3>4, <3>5
    <3>7. QED
      BY <1>3, <1>4, <2>2, <3>6
  <2>3. QED
    BY <2>1, <2>2
<1> HIDE DEF r, on, target, n, m
<1>8. target = "ok" => ~lookup_shadowed(r) /\ schema_lookup(n) = "present"
  BY <1>3, <1>7, TargetSays DEF target
<1>9. target = "conflict" => ~lookup_shadowed(r) /\ schema_lookup(n) \notin {"present", "unknown"}
  BY <1>3, <1>7, TargetSays DEF target
<1>10. schema_lookup("") # "present"
  BY <1>4 DEF schema_lookup
<1>11. ASSUME target = "ok"
       PROVE  on = r.id /\ on # <<>>
  <2>1. n \in Schemas /\ m = n
    BY <1>6, <1>8, <1>10, <1>11
  <2>2. n \in server.schemas
    BY <1>8, <1>11, <2>1, SchemaSays
  <2>3. QED
    BY <1>2, <1>3, <1>5, <2>1, <2>2
<1>12. ASSUME target = "conflict"
       PROVE  on = <<>>
  <2>1. CASE n \in Schemas /\ m = n
    <3>1. n \notin server.schemas
      BY <1>9, <1>12, <2>1, SchemaSays
    <3>2. QED
      BY <1>2, <2>1, <3>1
  <2>2. CASE n = "" /\ m = ""
    BY <1>2, <1>4, <2>2
  <2>3. QED
    BY <1>6, <1>9, <1>12, <2>1, <2>2
<1>13. target \in {"ok", "unresolved", "conflict"}
  BY <1>7, TargetSays DEF target
<1>14. QED
  BY <1>11, <1>12, <1>13 DEF r, on, target

------------------------------------------------------------------------------
(* The names a statement generates, on both sides.                         *)

ShapeLetters(s) == UNION {Range(s.cols[i]) : i \in DOMAIN s.cols}

Letters ==
    Narrow \cup (UNION {Range(n) : n \in Tables}) \cup (UNION {ShapeLetters(s) : s \in Shapes})

LEMMA NamesOfLetters ==
    /\ Narrow \subseteq Letters
    /\ \A n \in Tables : n \in Seq(Letters)
    /\ \A s \in Shapes : /\ \E n \in Nat : DOMAIN s.cols = 1..n
                         /\ \A i \in DOMAIN s.cols : s.cols[i] \in Seq(Letters)
    /\ SeqLabel \in Seq(Narrow) /\ Len(SeqLabel) = 3 /\ SeqLabel[3] = "q"
    /\ KeyLabel \in Seq(Narrow) /\ Len(KeyLabel) = 4 /\ KeyLabel[4] = "y"
    /\ SeqLabel \in Seq(Letters) /\ KeyLabel \in Seq(Letters)
<1>1. ASSUME NEW n \in Tables
      PROVE  n \in Seq(Letters)
  <2>1. n \in Seq(Range(n))
    BY NamesAssumption DEF IsSequence
  <2>2. Range(n) \subseteq Letters
    BY DEF Letters
  <2>3. QED
    BY <2>1, <2>2, SeqWidens
<1>2. ASSUME NEW s \in Shapes
      PROVE  /\ \E n \in Nat : DOMAIN s.cols = 1..n
             /\ \A i \in DOMAIN s.cols : s.cols[i] \in Seq(Letters)
  <2>1. s.cols \in Seq(Range(s.cols))
    BY NamesAssumption DEF IsSequence
  <2>2. \E n \in Nat : DOMAIN s.cols = 1..n
    BY <2>1
  <2>3. ASSUME NEW i \in DOMAIN s.cols
        PROVE  s.cols[i] \in Seq(Letters)
    <3>1. s.cols[i] \in Seq(Range(s.cols[i]))
      BY NamesAssumption DEF IsSequence
    <3>2. Range(s.cols[i]) \subseteq Letters
      <4> SUFFICES ASSUME NEW x \in Range(s.cols[i]) PROVE x \in Letters
        OBVIOUS
      <4>1. x \in ShapeLetters(s)
        BY DEF ShapeLetters
      <4>2. QED
        <5>1. x \in UNION {ShapeLetters(t) : t \in Shapes}
          BY <4>1, Zenon
        <5>2. QED
          BY <5>1, Zenon DEF Letters
    <3>3. QED
      BY <3>1, <3>2, SeqWidens
  <2>4. QED
    BY <2>2, <2>3
<1>3. {"s", "e", "q", "p", "k", "y"} \subseteq Narrow
  BY DEF Narrow
<1>4. SeqLabel \in Seq({"s", "e", "q", "p", "k", "y"}) /\ Len(SeqLabel) = 3 /\ SeqLabel[3] = "q"
  BY DEF SeqLabel
<1>5. KeyLabel \in Seq({"s", "e", "q", "p", "k", "y"}) /\ Len(KeyLabel) = 4 /\ KeyLabel[4] = "y"
  BY DEF KeyLabel
<1>6. Narrow \subseteq Letters
  BY DEF Letters
<1>7. SeqLabel \in Seq(Narrow) /\ KeyLabel \in Seq(Narrow)
  BY <1>3, <1>4, <1>5, SeqWidens
<1>8. SeqLabel \in Seq(Letters) /\ KeyLabel \in Seq(Letters)
  BY <1>6, <1>7, SeqWidens
<1>9. QED
  BY <1>1, <1>2, <1>4, <1>5, <1>6, <1>7, <1>8

(* A name made for a sequence or for a key.                                *)
Made(name, label) ==
    /\ Bytes(name) <= MaxIdentifierBytes
    /\ \E front \in Seq(Letters), j \in 0..9 : name = front \o Numbered(label, j)

LEMMA CandidatesMade ==
    ASSUME NEW tn \in Seq(Letters), NEW second \in AtMostOne(Letters), NEW label \in Seq(Narrow),
           Len(label) + Len(second) + 2 <= MaxIdentifierBytes
    PROVE  /\ Candidates(tn, second, label) = FairCandidates(tn, second, label)
           /\ DOMAIN Candidates(tn, second, label) = 0..9
           /\ \A j \in 0..9 : Made(Candidates(tn, second, label)[j], label)
<1>1. Narrow \subseteq Letters
  BY NamesOfLetters
<1>2. /\ Candidates(tn, second, label) = FairCandidates(tn, second, label)
      /\ DOMAIN Candidates(tn, second, label) = 0..9
      /\ \A j \in 0..9 :
             /\ Bytes(Candidates(tn, second, label)[j]) <= MaxIdentifierBytes
             /\ \E front \in Seq(Letters) : Candidates(tn, second, label)[j] = front \o Numbered(label, j)
  BY <1>1, CandidatesAreFair
<1>3. QED
  BY <1>2 DEF Made

SeqSource(tn, c) == <<tn, <<c>>, SeqLabel>>

KeySource(tn) == <<tn, <<>>, KeyLabel>>

LEMMA SeqCandidates ==
    ASSUME NEW tn \in Tables, NEW s \in Shapes, NEW i \in DOMAIN s.cols
    PROVE  LET c == Generated[SeqSource(tn, s.cols[i])]
           IN  /\ c = Expected[SeqSource(tn, s.cols[i])]
               /\ DOMAIN c = 0..9
               /\ \A j \in 0..9 : Made(c[j], SeqLabel)
<1> DEFINE col == s.cols[i]
<1>1. tn \in Seq(Letters) /\ col \in Seq(Letters) /\ SeqLabel \in Seq(Narrow) /\ Len(SeqLabel) = 3
  BY NamesOfLetters
<1>2. <<col>> \in Seconds
  <2>1. col \in Range(s.cols)
    BY DEF Range
  <2>2. QED
    BY <2>1 DEF Seconds
<1>3. SeqSource(tn, col) \in Sources
  BY <1>2 DEF SeqSource, Sources
<1> HIDE DEF col
<1>4. /\ Generated[SeqSource(tn, col)] = Candidates(tn, <<col>>, SeqLabel)
      /\ Expected[SeqSource(tn, col)] = FairCandidates(tn, <<col>>, SeqLabel)
  <2>1. /\ SeqSource(tn, col)[1] = tn /\ SeqSource(tn, col)[2] = <<col>>
        /\ SeqSource(tn, col)[3] = SeqLabel
    BY DEF SeqSource
  <2>2. QED
    BY <1>3, <2>1, Zenon DEF Generated, Expected
<1>5. <<col>> \in AtMostOne(Letters) /\ Len(SeqLabel) + Len(<<col>>) + 2 <= MaxIdentifierBytes
  BY <1>1, LimitAssumption DEF AtMostOne
<1>6. QED
  <2>1. PICK b : b = <<col>>
    OBVIOUS
  <2>2. b \in AtMostOne(Letters) /\ Len(SeqLabel) + Len(b) + 2 <= MaxIdentifierBytes
    BY <1>5, <2>1, Zenon
  <2>3. /\ Candidates(tn, b, SeqLabel) = FairCandidates(tn, b, SeqLabel)
        /\ DOMAIN Candidates(tn, b, SeqLabel) = 0..9
        /\ \A j \in 0..9 : Made(Candidates(tn, b, SeqLabel)[j], SeqLabel)
    BY <1>1, <2>2, CandidatesMade
  <2>4. QED
    BY <1>4, <2>1, <2>3, Zenon DEF col

LEMMA KeyCandidates ==
    ASSUME NEW tn \in Tables
    PROVE  LET c == Generated[KeySource(tn)]
           IN  /\ c = Expected[KeySource(tn)]
               /\ DOMAIN c = 0..9
               /\ \A j \in 0..9 : Made(c[j], KeyLabel)
<1>1. tn \in Seq(Letters) /\ KeyLabel \in Seq(Narrow) /\ Len(KeyLabel) = 4
  BY NamesOfLetters
<1>2. KeySource(tn) \in Sources
  BY DEF KeySource, Sources, Seconds
<1>3. /\ Generated[KeySource(tn)] = Candidates(tn, <<>>, KeyLabel)
      /\ Expected[KeySource(tn)] = FairCandidates(tn, <<>>, KeyLabel)
  <2>1. KeySource(tn)[1] = tn /\ KeySource(tn)[2] = <<>> /\ KeySource(tn)[3] = KeyLabel
    BY DEF KeySource
  <2>2. QED
    BY <1>2, <2>1, Zenon DEF Generated, Expected
<1>4. <<>> \in AtMostOne(Letters) /\ Len(KeyLabel) + Len(<<>>) + 2 <= MaxIdentifierBytes
  BY <1>1, LimitAssumption DEF AtMostOne
<1>5. QED
  BY <1>1, <1>3, <1>4, CandidatesMade, Zenon

(* The labels keep sequences and keys apart.                               *)
LEMMA MadeApart ==
    ASSUME NEW m, NEW n, Made(m, SeqLabel), Made(n, KeyLabel)
    PROVE  m # n
<1>1. PICK f \in Seq(Letters), i \in 0..9 : m = f \o Numbered(SeqLabel, i)
  BY DEF Made
<1>2. PICK g \in Seq(Letters), j \in 0..9 : n = g \o Numbered(KeyLabel, j)
  BY DEF Made
<1>3. Len(SeqLabel) > 0 /\ SeqLabel[Len(SeqLabel)] = "q" /\ Len(KeyLabel) > 0 /\ KeyLabel[Len(KeyLabel)] = "y"
  BY NamesOfLetters
<1>4. QED
  BY <1>1, <1>2, <1>3, NamesOfLetters, LabelsApart, Zenon

LEMMA SequencesPicked ==
    ASSUME NEW tn \in Tables, NEW s \in Shapes, NEW taken
    PROVE  LET names == InTurn(SequenceLists(Generated, tn, s.cols), taken)
           IN  /\ names = InTurn(SequenceLists(Expected, tn, s.cols), taken)
               /\ DOMAIN names = DOMAIN s.cols
               /\ \A i \in DOMAIN names : names[i] # NoName =>
                     names[i] \notin taken /\ Made(names[i], SeqLabel)
<1> DEFINE lists == SequenceLists(Generated, tn, s.cols)
           names == InTurn(lists, taken)
<1>1. PICK n \in Nat : DOMAIN s.cols = 1..n
  BY NamesOfLetters
<1>2. /\ lists = [i \in DOMAIN s.cols |-> Generated[SeqSource(tn, s.cols[i])]]
      /\ SequenceLists(Expected, tn, s.cols) = [i \in DOMAIN s.cols |-> Expected[SeqSource(tn, s.cols[i])]]
  BY DEF SequenceLists, SeqSource
<1>3. \A i \in DOMAIN s.cols : Generated[SeqSource(tn, s.cols[i])] = Expected[SeqSource(tn, s.cols[i])]
  BY SeqCandidates
<1>4. lists = SequenceLists(Expected, tn, s.cols)
  BY <1>2, <1>3
<1>5. DOMAIN lists = 1..n /\ \A i \in 1..n : lists[i] = Generated[SeqSource(tn, s.cols[i])]
  BY <1>1, <1>2
<1> HIDE DEF lists
<1>6. /\ DOMAIN names = 1..n
      /\ \A i \in 1..n : names[i] = FirstFree(lists[i], taken \cup PickedBefore(names, i))
  <2>1. /\ DOMAIN InTurn(lists, taken) = DOMAIN lists
        /\ \A i \in DOMAIN lists : InTurn(lists, taken)[i]
                               = FirstFree(lists[i], taken \cup PickedBefore(InTurn(lists, taken), i))
    BY <1>5, InTurnPicks
  <2>2. QED
    BY <1>5, <2>1, Zenon
<1> HIDE DEF names
<1>7. ASSUME NEW i \in 1..n, names[i] # NoName
      PROVE  names[i] \notin taken /\ Made(names[i], SeqLabel)
  <2> DEFINE c == lists[i]
             T == taken \cup PickedBefore(names, i)
  <2>1. DOMAIN c = 0..9 /\ \A j \in 0..9 : Made(c[j], SeqLabel)
    <3>1. i \in DOMAIN s.cols
      BY <1>1
    <3>2. c = Generated[SeqSource(tn, s.cols[i])]
      BY <1>5
    <3> HIDE DEF c
    <3>3. QED
      BY <3>1, <3>2, SeqCandidates, Zenon
  <2>2. DOMAIN c \subseteq Nat
    BY <2>1
  <2>3. names[i] = FirstFree(c, T)
    BY <1>6
  <2> HIDE DEF c
  <2>4. names[i] \notin T /\ \E j \in DOMAIN c : names[i] = c[j]
    BY <1>7, <2>2, <2>3, FirstFreeIsFree
  <2>5. QED
    BY <2>1, <2>4
<1>8. QED
  BY <1>1, <1>4, <1>6, <1>7 DEF lists, names

LEMMA KeyPicked ==
    ASSUME NEW tn \in Tables, NEW taken, NEW k, k = FirstFree(Generated[KeySource(tn)], taken), k # NoName
    PROVE  /\ k \notin taken /\ Made(k, KeyLabel)
           /\ \A more : k \notin more => FirstFree(Expected[KeySource(tn)], taken \cup more) = k
<1> DEFINE c == Generated[KeySource(tn)]
<1>1. DOMAIN c = 0..9 /\ c = Expected[KeySource(tn)] /\ \A j \in 0..9 : Made(c[j], KeyLabel)
  BY KeyCandidates
<1>2. DOMAIN c \subseteq Nat
  BY <1>1
<1>3. k = FirstFree(c, taken)
  OBVIOUS
<1> HIDE DEF c
<1>4. k \notin taken /\ \E j \in DOMAIN c : k = c[j]
  BY <1>2, <1>3, FirstFreeIsFree
<1>5. \A more : k \notin more => FirstFree(c, taken \cup more) = k
  BY <1>2, <1>3, FirstFreeStays
<1>6. QED
  BY <1>1, <1>4, <1>5

------------------------------------------------------------------------------
(* What CREATE TABLE leaves on both sides.                                 *)

SequencesAt(id, names) == {<<id[1], names[i]>> : i \in DOMAIN names}

LEMMA SequencesOfAt ==
    ASSUME NEW id, NEW names
    PROVE  /\ DOMAIN SequencesOf(id, names) = SequencesAt(id, names)
           /\ \A x \in SequencesAt(id, names) :
                 SequencesOf(id, names)[x] = Object("sequence", id)
BY DEF SequencesOf, SequencesAt

LEMMA Kinds ==
    /\ \A of : /\ Object("sequence", of).kind = "sequence" /\ Object("index", of).kind = "index"
               /\ Object("table", of).kind = "table" /\ Object("dropped", of).kind = "dropped"
    /\ \A kind, of : Object(kind, of).of = of /\ Object(kind, of).kind = kind
    /\ Table.kind = "table" /\ Tombstone.kind = "dropped"
    /\ \A of : Object("sequence", of) # Table /\ Object("index", of) # Table
    /\ Table.of = <<>>
<1>1. \A kind, of : Object(kind, of).of = of /\ Object(kind, of).kind = kind
  BY DEF Object
<1>2. Table.kind = "table" /\ Tombstone.kind = "dropped" /\ Table.of = <<>>
  BY <1>1 DEF Table, Tombstone
<1>3. QED
  BY <1>1, <1>2

(* The sequences the names picked make, the table, and its index.          *)
CreatedAt(rels, id, names, key, k, x) ==
    IF key /\ x = <<id[1], k>> THEN Object("index", id)
    ELSE IF x \in SequencesAt(id, names) THEN Object("sequence", id)
    ELSE IF x = id THEN Table
    ELSE At(rels, x)

(* The names are new, different from the table's, and fit.                 *)
Fresh(rels, id, names, key, k) ==
    /\ \A i \in DOMAIN names : /\ <<id[1], names[i]>> \notin Live(rels)
                               /\ names[i] # id[2] /\ Bytes(names[i]) <= MaxIdentifierBytes
    /\ key => /\ <<id[1], k>> \notin Live(rels)
              /\ k # id[2] /\ Bytes(k) <= MaxIdentifierBytes
              /\ \A i \in DOMAIN names : names[i] # k

(* No name is the table's own, and there is one for every part.            *)
SelfNamed(rels, id, cols, key) == PartNames(rels, id, cols, key) \cap {id[2], NoName} # {}

LEMMA PickedFresh ==
    ASSUME NEW rels, NEW id, id = <<id[1], id[2]>>, id[2] \in Tables, NEW s \in Shapes,
           ~SelfNamed(rels, id, s.cols, s.key)
    PROVE  Fresh(rels, id, next_implicit_sequence_ids(rels, id, s.cols), s.key, primary_key_name(rels, id))
<1> DEFINE names == next_implicit_sequence_ids(rels, id, s.cols)
           k == primary_key_name(rels, id)
           T == NamesIn(rels, id[1])
<1>1. names = InTurn(SequenceLists(Generated, id[2], s.cols), T)
  BY DEF next_implicit_sequence_ids
<1>2. k = FirstFree(Generated[KeySource(id[2])], T)
  BY DEF primary_key_name, KeySource
<1>3. \A i \in DOMAIN names : names[i] # id[2] /\ names[i] # NoName
  <2> HIDE DEF names
  <2>1. \A i \in DOMAIN names : names[i] \in Range(names)
    BY DEF Range
  <2>2. Range(names) \cap {id[2], NoName} = {}
    BY DEF SelfNamed, PartNames, names
  <2>3. QED
    BY <2>1, <2>2
<1>4. s.key => k # id[2] /\ k # NoName
  BY DEF SelfNamed, PartNames
<1> HIDE DEF names, k
<1>5. \A i \in DOMAIN names : names[i] \notin T /\ Made(names[i], SeqLabel)
  BY <1>1, <1>3, SequencesPicked
<1>6. s.key => k \notin T /\ Made(k, KeyLabel)
  BY <1>2, <1>4, KeyPicked
<1>7. \A n : <<id[1], n>> \in Live(rels) => n \in T
  <2> SUFFICES ASSUME NEW n, <<id[1], n>> \in Live(rels) PROVE n \in T
    OBVIOUS
  <2>1. <<id[1], n>>[1] = id[1] /\ <<id[1], n>>[2] = n
    OBVIOUS
  <2>2. QED
    BY <2>1 DEF NamesIn
<1>8. s.key => \A i \in DOMAIN names : names[i] # k
  BY <1>5, <1>6, MadeApart
<1>9. QED
  BY <1>3, <1>4, <1>5, <1>6, <1>7, <1>8 DEF Fresh, Made, names, k

(* A table being created: its serial columns, whether it has a key, and    *)
(* the names the analysis picks for its sequences and its key.             *)
Making(rels, id, cols, key, names, k) ==
    /\ id = <<id[1], id[2]>> /\ id[2] \in Tables
    /\ \E s \in Shapes : s.cols = cols /\ s.key = key
    /\ ~SelfNamed(rels, id, cols, key)
    /\ names = next_implicit_sequence_ids(rels, id, cols)
    /\ k = primary_key_name(rels, id)

SameNamesAt(rels, other, id) == NamesIn(other, id[1]) = NamesIn(rels, id[1])

(* The identities a new table takes.                                       *)
NewAt(id, names, key, k) ==
    {id} \cup SequencesAt(id, names) \cup (IF key THEN {<<id[1], k>>} ELSE {})

(* The identities of the parts are new, and apart from each other.         *)
LEMMA FreshPlaces ==
    ASSUME NEW rels, NEW id, id = <<id[1], id[2]>>, NEW names, NEW key \in BOOLEAN, NEW k,
           Fresh(rels, id, names, key, k), NEW y, y = <<id[1], k>>
    PROVE  /\ \A x \in SequencesAt(id, names) :
                 x \notin Live(rels) /\ x # id /\ x = <<x[1], x[2]>> /\ (key => x # y)
           /\ y = <<y[1], y[2]>>
           /\ key => y \notin Live(rels) /\ y # id
<1>1. \A n : /\ <<id[1], n>>[1] = id[1] /\ <<id[1], n>>[2] = n
             /\ <<id[1], n>> = <<<<id[1], n>>[1], <<id[1], n>>[2]>>
  OBVIOUS
<1>2. \A i \in DOMAIN names : <<id[1], names[i]>> \notin Live(rels) /\ names[i] # id[2]
  BY DEF Fresh
<1>3. key => <<id[1], k>> \notin Live(rels) /\ k # id[2] /\ \A i \in DOMAIN names : names[i] # k
  BY DEF Fresh
<1>4. \A x \in SequencesAt(id, names) :
         x \notin Live(rels) /\ x # id /\ x = <<x[1], x[2]>> /\ (key => x # y)
  <2> SUFFICES ASSUME NEW x \in SequencesAt(id, names)
               PROVE  x \notin Live(rels) /\ x # id /\ x = <<x[1], x[2]>> /\ (key => x # y)
    OBVIOUS
  <2>1. PICK i \in DOMAIN names : x = <<id[1], names[i]>>
    BY DEF SequencesAt
  <2>2. x[2] = names[i] /\ y[2] = k /\ x = <<x[1], x[2]>>
    BY <1>1, <2>1
  <2>3. QED
    BY <1>2, <1>3, <2>1, <2>2
<1>5. QED
  BY <1>1, <1>3, <1>4

LEMMA CreatedIs ==
    ASSUME NEW t, ToolOk(t), Overlays(t), NEW id, NEW cols, NEW key, NEW names, NEW k,
           Making(Namespace(t), id, cols, key, names, k),
           id \notin Live(Namespace(t)), id[1] \in Schemas, t.schemas[id[1]] # "none",
           NEW u, u = Created(t, id, cols, key)
    PROVE  /\ Overlays(u)
           /\ \A x : /\ x \in Live(Namespace(u)) <=> x \in Live(Namespace(t)) \/ x \in NewAt(id, names, key, k)
                     /\ At(Namespace(u), x) = CreatedAt(Namespace(t), id, names, key, k, x)
<1>0. PICK n, r, q, i, S, y :
         /\ n = Namespace(t) /\ r = t.relations /\ q = t.sequences /\ i = t.indexes
         /\ S = SequencesAt(id, names) /\ y = <<id[1], k>>
  OBVIOUS
<1>1. key \in BOOLEAN /\ id = <<id[1], id[2]>> /\ Fresh(n, id, names, key, k)
  <2>1. PICK s \in Shapes : s.cols = cols /\ s.key = key
    BY DEF Making
  <2>2. id = <<id[1], id[2]>> /\ id[2] \in Tables /\ ~SelfNamed(n, id, s.cols, s.key)
    BY <1>0, <2>1 DEF Making
  <2>3. names = next_implicit_sequence_ids(n, id, s.cols) /\ k = primary_key_name(n, id)
    BY <1>0, <2>1 DEF Making
  <2>4. QED
    BY <2>1, <2>2, <2>3, PickedFresh, NamesAssumption
<1>3. PICK r2, q2, i2 : u.relations = r2 /\ u.sequences = q2 /\ u.indexes = i2
  OBVIOUS
<1>4. /\ r2 = With(r, id, Table) /\ q2 = Over(SequencesOf(id, names), q)
      /\ u.schemas = t.schemas /\ u.temp = t.temp
  <2>1. PICK m : m = next_implicit_sequence_ids(Namespace(t), id, cols)
    OBVIOUS
  <2>2. m = names
    BY <2>1 DEF Making
  <2>3. /\ u.relations = With(t.relations, id, Object("table", <<>>))
        /\ u.sequences = Over(SequencesOf(id, m), t.sequences)
        /\ u.schemas = t.schemas /\ u.temp = t.temp
    <3>1. u.relations = With(t.relations, id, Object("table", <<>>))
      BY CreatedFields
    <3>2. u.sequences = Over(SequencesOf(id, m), t.sequences)
      BY <2>1, CreatedFields
    <3>3. u.schemas = t.schemas
      BY CreatedFields
    <3>4. u.temp = t.temp
      BY CreatedFields
    <3>5. QED
      BY <3>1, <3>2, <3>3, <3>4
  <2>4. QED
    BY <1>0, <1>3, <2>2, <2>3 DEF Table
<1>5. i2 = IF key THEN With(i, y, Object("index", id)) ELSE i
  <2>1. i2 = CreatedIndexes(t, id, key)
    BY <1>3, CreatedFields
  <2>2. k = primary_key_name(Namespace(t), id)
    BY DEF Making
  <2>3. QED
    BY <1>0, <2>1, <2>2 DEF CreatedIndexes
<1>6. /\ \A x : /\ x \in DOMAIN r2 <=> x \in DOMAIN r \/ x = id
                /\ x \in Live(r2) <=> x \in Live(r) \/ x = id
                /\ At(r2, x) = IF x = id THEN Table ELSE At(r, x)
  BY <1>4, Kinds, LiveWith, AtWith
<1>7. /\ \A x : /\ x \in DOMAIN q2 <=> x \in DOMAIN q \/ x \in S
                /\ x \in Live(q2) <=> x \in Live(q) \/ x \in S
                /\ At(q2, x) = IF x \in S THEN Object("sequence", id) ELSE At(q, x)
  <2>1. PICK g : g = SequencesOf(id, names)
    OBVIOUS
  <2>2. DOMAIN g = S /\ \A x \in S : g[x] = Object("sequence", id)
    BY <1>0, <2>1, SequencesOfAt
  <2>3. \A x \in DOMAIN g : g[x].kind # "dropped"
    BY <2>2, Kinds
  <2>4. q2 = Over(g, q)
    BY <1>4, <2>1
  <2>5. /\ Live(Over(g, q)) = Live(q) \cup DOMAIN g
        /\ DOMAIN Over(g, q) = DOMAIN q \cup DOMAIN g
        /\ \A x : At(Over(g, q), x) = IF x \in DOMAIN g THEN g[x] ELSE At(q, x)
    BY <2>3, LiveOver
  <2>6. QED
    BY <2>2, <2>4, <2>5
<1>K. PICK K : K = IF key THEN {y} ELSE {}
  OBVIOUS
<1>2. /\ \A x \in S : x \notin Live(n) /\ x # id /\ x = <<x[1], x[2]>> /\ x \notin K
      /\ \A x \in K : x = <<x[1], x[2]>> /\ x \notin Live(n) /\ x # id
  <2>1. /\ \A x \in S : x \notin Live(n) /\ x # id /\ x = <<x[1], x[2]>> /\ (key => x # y)
        /\ y = <<y[1], y[2]>>
        /\ key => y \notin Live(n) /\ y # id
    BY <1>0, <1>1, FreshPlaces
  <2>2. CASE key
    BY <1>K, <2>1, <2>2
  <2>3. CASE ~key
    BY <1>K, <2>1, <2>3
  <2>4. QED
    BY <1>1, <2>2, <2>3
<1>8. \A x : /\ x \in DOMAIN i2 <=> x \in DOMAIN i \/ x \in K
             /\ x \in K => x = y /\ i2[x] = Object("index", id)
             /\ x \notin K /\ x \in DOMAIN i => i2[x] = i[x]
  <2>1. CASE key
    <3>1. i2 = [z \in DOMAIN i \cup {y} |-> IF z = y THEN Object("index", id) ELSE i[z]]
      BY <1>5, <2>1 DEF With
    <3>2. K = {y}
      BY <2>1, <1>K
    <3>3. QED
      BY <3>1, <3>2
  <2>2. CASE ~key
    <3>1. i2 = i /\ K = {}
      BY <1>5, <1>K, <2>2
    <3>2. QED
      BY <3>1
  <2>3. QED
    BY <1>1, <2>1, <2>2
<1>9. /\ DOMAIN n = Live(n) /\ id \notin Live(n)
      /\ \A x : /\ x \in Live(n) <=> x \in Live(r) \/ x \in Live(q) \/ x \in DOMAIN i
                /\ x \in Live(r) => n[x] = Table
                /\ x \in Live(q) => n[x] = q[x]
                /\ x \in DOMAIN i => n[x] = i[x]
  BY <1>0, NamespaceAt
<1>10. Overlays(u)
  <2>1. /\ \A x \in DOMAIN r \cup DOMAIN q \cup DOMAIN i : x = <<x[1], x[2]>>
        /\ \A x \in DOMAIN r : \/ x[1] = Temp /\ t.temp
                               \/ x[1] \in Schemas /\ t.schemas[x[1]] # "none"
        /\ \A x \in Live(r) : r[x] = Table /\ x \notin Live(q) /\ x \notin DOMAIN i
        /\ \A x \in Live(q) : q[x].kind = "sequence" /\ x \notin DOMAIN i
        /\ \A x \in DOMAIN i : i[x].kind = "index"
    BY <1>0 DEF Overlays
  <2>2. \A x \in DOMAIN r2 \cup DOMAIN q2 \cup DOMAIN i2 : x = <<x[1], x[2]>>
    BY <1>1, <1>2, <1>6, <1>7, <1>8, <2>1
  <2>3. \A x \in DOMAIN r2 : \/ x[1] = Temp /\ u.temp
                             \/ x[1] \in Schemas /\ u.schemas[x[1]] # "none"
    BY <1>4, <1>6, <2>1
  <2>4. \A x \in Live(r2) : r2[x] = Table
    <3>1. \A x \in Live(r2) : At(r2, x) = r2[x]
      BY AtLive
    <3>2. \A x \in Live(r) : At(r, x) = r[x]
      BY AtLive
    <3>3. QED
      BY <1>6, <2>1, <3>1, <3>2
  <2>5. \A x \in Live(r2) : x \notin Live(q2) /\ x \notin DOMAIN i2
    BY <1>2, <1>6, <1>7, <1>8, <1>9, <2>1
  <2>6. \A x \in Live(q2) : q2[x].kind = "sequence"
    <3>1. \A x \in Live(q2) : At(q2, x) = q2[x]
      BY AtLive
    <3>2. \A x \in Live(q) : At(q, x) = q[x]
      BY AtLive
    <3>3. \A x \in Live(q2) : q2[x] = Object("sequence", id) \/ (x \in Live(q) /\ q2[x] = q[x])
      BY <1>7, <3>1, <3>2
    <3>4. QED
      BY <2>1, <3>3, Kinds
  <2>7. \A x \in Live(q2) : x \notin DOMAIN i2
    BY <1>2, <1>7, <1>8, <1>9, <2>1
  <2>8. \A x \in DOMAIN i2 : i2[x].kind = "index"
    BY <1>8, <2>1, Kinds
  <2>9. QED
    BY <1>3, <2>2, <2>3, <2>4, <2>5, <2>6, <2>7, <2>8 DEF Overlays
<1>11. PICK m : m = Namespace(u)
  OBVIOUS
<1>12. /\ DOMAIN m = Live(m)
       /\ \A x : /\ x \in Live(m) <=> x \in Live(r2) \/ x \in Live(q2) \/ x \in DOMAIN i2
                 /\ x \in Live(r2) => m[x] = Table
                 /\ x \in Live(q2) => m[x] = q2[x]
                 /\ x \in DOMAIN i2 => m[x] = i2[x]
  BY <1>3, <1>10, <1>11, NamespaceAt
<1>13. \A x : x \in NewAt(id, names, key, k) <=> x = id \/ x \in S \/ x \in K
  BY <1>0, <1>K DEF NewAt
<1>14. ASSUME NEW x
       PROVE  /\ x \in Live(m) <=> x \in Live(n) \/ x \in NewAt(id, names, key, k)
              /\ At(m, x) = CreatedAt(n, id, names, key, k, x)
  <2>1. x \in Live(m) <=> x \in Live(n) \/ x = id \/ x \in S \/ x \in K
    BY <1>6, <1>7, <1>8, <1>9, <1>12
  <2>a. x \in Live(m) <=> x \in Live(n) \/ x \in NewAt(id, names, key, k)
    BY <1>13, <2>1
  <2>2. CreatedAt(n, id, names, key, k, x)
          = IF x \in K THEN Object("index", id)
            ELSE IF x \in S THEN Object("sequence", id)
            ELSE IF x = id THEN Table ELSE At(n, x)
    <3>1. CASE key
      <4>1. K = {y}
        BY <1>K, <3>1
      <4>2. QED
        BY <1>0, <3>1, <4>1 DEF CreatedAt
    <3>2. CASE ~key
      <4>1. K = {}
        BY <1>K, <3>2
      <4>2. QED
        BY <1>0, <3>2, <4>1 DEF CreatedAt
    <3>3. QED
      BY <1>1, <3>1, <3>2
  <2>3. /\ x \in Live(m) => At(m, x) = m[x]
        /\ x \notin Live(m) => At(m, x) = Tombstone
        /\ x \in Live(n) => At(n, x) = n[x]
        /\ x \notin Live(n) => At(n, x) = Tombstone
        /\ x \in Live(q2) => At(q2, x) = q2[x]
        /\ x \in Live(q) => At(q, x) = q[x]
    BY AtLive
  <2>4. CASE x \in K
    BY <1>8, <1>12, <2>1, <2>a, <2>2, <2>3, <2>4
  <2>5. CASE x \notin K /\ x \in S
    BY <1>7, <1>12, <2>1, <2>a, <2>2, <2>3, <2>5
  <2>6. CASE x \notin K /\ x \notin S /\ x = id
    BY <1>6, <1>12, <2>1, <2>a, <2>2, <2>3, <2>6
  <2>7. CASE x \notin K /\ x \notin S /\ x # id /\ x \in Live(n)
    <3>1. m[x] = n[x]
      BY <1>6, <1>7, <1>8, <1>9, <1>12, <2>3, <2>7
    <3>2. QED
      BY <2>1, <2>a, <2>2, <2>3, <2>7, <3>1
  <2>8. CASE x \notin K /\ x \notin S /\ x # id /\ x \notin Live(n)
    BY <2>1, <2>a, <2>2, <2>3, <2>8
  <2>9. QED
    BY <2>1, <2>4, <2>5, <2>6, <2>7, <2>8, <1>13
<1>15. QED
  BY <1>0, <1>10, <1>11, <1>14

LEMMA ServerCreatedIs ==
    ASSUME NEW rels, NEW other, NEW id, NEW cols, NEW key, NEW names, NEW k,
           Making(rels, id, cols, key, names, k), SameNamesAt(rels, other, id),
           NEW made, made = ServerCreated(other, id, cols, key)
    PROVE  \A x : /\ x \in Live(made) <=> x \in Live(other) \/ x \in NewAt(id, names, key, k)
                  /\ x \in DOMAIN made <=> x \in DOMAIN other \/ x \in NewAt(id, names, key, k)
                  /\ At(made, x) = CreatedAt(other, id, names, key, k, x)
<1>0. /\ id = <<id[1], id[2]>> /\ id[2] \in Tables /\ ~SelfNamed(rels, id, cols, key)
      /\ NamesIn(other, id[1]) = NamesIn(rels, id[1])
      /\ names = next_implicit_sequence_ids(rels, id, cols) /\ k = primary_key_name(rels, id)
  BY DEF Making, SameNamesAt
<1>s. PICK s \in Shapes : s.cols = cols /\ s.key = key
  BY DEF Making
<1>b. key \in BOOLEAN
  BY <1>s, NamesAssumption
<1> DEFINE new == NewAt(id, names, key, k)
           base == Over(SequencesOf(id, names), other)
           table == With(base, id, Table)
           index == FirstFree(Expected[KeySource(id[2])], NamesIn(table, id[1]))
           T == NamesIn(rels, id[1])
<1>1. names = InTurn(SequenceLists(Expected, id[2], cols), NamesIn(other, id[1]))
  BY <1>0, <1>s, SequencesPicked DEF next_implicit_sequence_ids
<1>2. made = IF key THEN With(table, <<id[1], index>>, Object("index", id)) ELSE table
  BY <1>1 DEF ServerCreated, KeySource, Table
<1>3. /\ Live(base) = Live(other) \cup SequencesAt(id, names)
      /\ DOMAIN base = DOMAIN other \cup SequencesAt(id, names)
      /\ \A x : At(base, x) = IF x \in SequencesAt(id, names) THEN Object("sequence", id) ELSE At(other, x)
  <2> DEFINE g == SequencesOf(id, names)
  <2>1. DOMAIN g = SequencesAt(id, names) /\ \A x \in DOMAIN g : g[x] = Object("sequence", id)
    BY SequencesOfAt
  <2> HIDE DEF g
  <2>2. \A x \in DOMAIN g : g[x].kind # "dropped"
    BY <2>1, Kinds
  <2>3. /\ Live(Over(g, other)) = Live(other) \cup DOMAIN g
        /\ DOMAIN Over(g, other) = DOMAIN other \cup DOMAIN g
        /\ \A x : At(Over(g, other), x) = IF x \in DOMAIN g THEN g[x] ELSE At(other, x)
    BY <2>2, LiveOver
  <2>4. base = Over(g, other)
    BY DEF g
  <2> HIDE DEF base
  <2>5. QED
    BY <2>1, <2>3, <2>4
<1> HIDE DEF base
<1>4. Fresh(rels, id, names, key, k)
  BY <1>0, <1>s, PickedFresh
<1>5. id \notin SequencesAt(id, names)
  <2>1. \A i \in DOMAIN names : <<id[1], names[i]>>[2] = names[i]
    OBVIOUS
  <2>2. \A i \in DOMAIN names : names[i] # id[2]
    BY <1>4 DEF Fresh
  <2>3. QED
    BY <2>1, <2>2 DEF SequencesAt
<1>6. /\ Live(table) = Live(other) \cup {id} \cup SequencesAt(id, names)
      /\ DOMAIN table = DOMAIN other \cup {id} \cup SequencesAt(id, names)
      /\ \A x : At(table, x) = IF x \in SequencesAt(id, names) THEN Object("sequence", id)
                               ELSE IF x = id THEN Table ELSE At(other, x)
  <2>1. /\ Live(table) = Live(base) \cup {id} /\ DOMAIN table = DOMAIN base \cup {id}
        /\ \A x : At(table, x) = IF x = id THEN Table ELSE At(base, x)
    <3>1. Table.kind # "dropped"
      BY Kinds
    <3>2. Live(table) = Live(base) \cup {id} /\ DOMAIN table = DOMAIN base \cup {id}
      <4>1. \A z : /\ z \in DOMAIN table <=> z \in DOMAIN base \/ z = id
                   /\ z \in Live(table) <=> z \in Live(base) \/ z = id
        BY <3>1, LiveWith
      <4>2. QED
        BY <4>1
    <3>3. \A x : At(table, x) = IF x = id THEN Table ELSE At(base, x)
      BY <3>1, AtWith
    <3>4. QED
      BY <3>2, <3>3
  <2> HIDE DEF table
  <2>2. QED
    BY <1>3, <1>5, <2>1
<1> HIDE DEF table
<1>7. NamesIn(table, id[1]) = T \cup (Range(names) \cup {id[2]})
  <2> DEFINE at(L) == {x[2] : x \in {y \in L : y[1] = id[1]}}
  <2>1. \A x \in SequencesAt(id, names) : x[1] = id[1] /\ x[2] \in Range(names)
    BY DEF SequencesAt, Range
  <2>2. \A n \in Range(names) : \E x \in SequencesAt(id, names) : x[1] = id[1] /\ x[2] = n
    <3> SUFFICES ASSUME NEW n \in Range(names)
                 PROVE  \E x \in SequencesAt(id, names) : x[1] = id[1] /\ x[2] = n
      OBVIOUS
    <3>1. PICK i \in DOMAIN names : n = names[i]
      BY DEF Range
    <3>2. <<id[1], names[i]>> \in SequencesAt(id, names)
      BY DEF SequencesAt
    <3>3. <<id[1], names[i]>>[1] = id[1] /\ <<id[1], names[i]>>[2] = names[i]
      OBVIOUS
    <3>4. QED
      BY <3>1, <3>2, <3>3
  <2>3. at(Live(other)) = T
    BY <1>0 DEF NamesIn
  <2>4. at(Live(other) \cup {id} \cup SequencesAt(id, names)) = at(Live(other)) \cup (Range(names) \cup {id[2]})
    BY <2>1, <2>2
  <2>5. NamesIn(table, id[1]) = at(Live(table))
    BY DEF NamesIn
  <2> HIDE DEF at
  <2>6. QED
    BY <1>6, <2>3, <2>4, <2>5
<1>8. ASSUME key
      PROVE  index = k
  <2>1. k = FirstFree(Generated[KeySource(id[2])], T) /\ k # NoName
    BY <1>0, <1>8 DEF primary_key_name, KeySource, SelfNamed, PartNames
  <2>2. k \notin Range(names) \cup {id[2]}
    <3>1. k # id[2] /\ \A i \in DOMAIN names : names[i] # k
      BY <1>4, <1>8 DEF Fresh
    <3>2. QED
      BY <3>1 DEF Range
  <2>3. FirstFree(Expected[KeySource(id[2])], T \cup (Range(names) \cup {id[2]})) = k
    BY <1>0, <2>1, <2>2, KeyPicked
  <2>4. QED
    BY <1>7, <2>3
<1> HIDE DEF index
<1>9. CASE key
  <2>1. made = With(table, <<id[1], k>>, Object("index", id))
    BY <1>2, <1>8, <1>9
  <2>2. /\ Live(made) = Live(table) \cup {<<id[1], k>>} /\ DOMAIN made = DOMAIN table \cup {<<id[1], k>>}
        /\ \A x : At(made, x) = IF x = <<id[1], k>> THEN Object("index", id) ELSE At(table, x)
    <3>1. PICK y : y = Object("index", id)
      OBVIOUS
    <3>2. y.kind # "dropped"
      <4>1. Object("index", id).kind = "index"
        BY Kinds
      <4>2. QED
        BY <3>1, <4>1
    <3>3. made = With(table, <<id[1], k>>, y)
      BY <2>1, <3>1
    <3>4. /\ Live(made) = Live(table) \cup {<<id[1], k>>}
          /\ DOMAIN made = DOMAIN table \cup {<<id[1], k>>}
      <4>1. \A z : /\ z \in DOMAIN made <=> z \in DOMAIN table \/ z = <<id[1], k>>
                   /\ z \in Live(made) <=> z \in Live(table) \/ z = <<id[1], k>>
        BY <3>2, <3>3, LiveWith
      <4>2. QED
        BY <4>1
    <3>5. \A x : At(made, x) = IF x = <<id[1], k>> THEN y ELSE At(table, x)
      BY <3>2, <3>3, AtWith
    <3>6. QED
      BY <3>1, <3>4, <3>5, Zenon
  <2>3. new = {id} \cup SequencesAt(id, names) \cup {<<id[1], k>>}
    BY <1>9 DEF NewAt
  <2> HIDE DEF new
  <2>4. Live(made) = Live(other) \cup new /\ DOMAIN made = DOMAIN other \cup new
    BY <1>6, <2>2, <2>3
  <2>5. \A x : At(made, x) = CreatedAt(other, id, names, key, k, x)
    BY <1>6, <1>9, <2>2 DEF CreatedAt
  <2>6. QED
    BY <2>4, <2>5 DEF new
<1>10. CASE ~key
  <2>1. made = table
    BY <1>2, <1>10
  <2>2. new = {id} \cup SequencesAt(id, names)
    BY <1>10 DEF NewAt
  <2> HIDE DEF new
  <2>3. Live(made) = Live(other) \cup new /\ DOMAIN made = DOMAIN other \cup new
    BY <1>6, <2>1, <2>2
  <2>4. \A x : At(made, x) = CreatedAt(other, id, names, key, k, x)
    BY <1>6, <1>10, <2>1 DEF CreatedAt
  <2>5. QED
    BY <2>3, <2>4 DEF new
<1>11. QED
  BY <1>b, <1>9, <1>10

LEMMA KnownSchema ==
    ASSUME ToolInv(tool), NEW x \in Live(Namespace(tool))
    PROVE  x[1] \in Known(tool) /\ x = <<x[1], x[2]>> /\ x \in DOMAIN Namespace(tool)
<1>1. x \in DOMAIN Namespace(tool)
  BY DEF Live
<1>2. x[1] \in Known(tool)
  BY DEF ToolInv, Placed
<1>3. x = <<x[1], x[2]>>
  BY <1>1 DEF ToolInv, WellFormed
<1>4. QED
  BY <1>1, <1>2, <1>3

LEMMA ServerFields ==
    ASSUME NEW v, NEW a, NEW c, NEW d, v = [schemas |-> a, rels |-> c, temp |-> d]
    PROVE  v.schemas = a /\ v.rels = c /\ v.temp = d
OBVIOUS

(* A statement that leaves the schemas alone keeps the agreement when it   *)
(* changes the relations of the schemas known alike on both sides.         *)
LEMMA RelsAgree ==
    ASSUME ToolInv(tool), Agreement(tool, server), NEW t, NEW v,
           ToolOk(t), Overlays(t), t.schemas = tool.schemas, t.scope = tool.scope,
           v = [schemas |-> server.schemas, rels |-> v.rels, temp |-> v.temp],
           WellFormed(Namespace(t)), Fit(Namespace(t)), server.temp => v.temp,
           \A id \in Live(Namespace(t)) : id[1] \in Known(tool),
           \A id \in DOMAIN v.rels : /\ id \in Live(v.rels)
                                     /\ \/ id \in DOMAIN server.rels
                                        \/ /\ id = <<id[1], id[2]>>
                                           /\ id[1] \in server.schemas \/ (id[1] = Temp /\ v.temp),
           \A id : id[1] \in Known(tool) => At(Namespace(t), id) = At(v.rels, id)
    PROVE  ToolInv(t) /\ Agreement(t, v)
<1>0. PICK r, s, q : r = Namespace(t) /\ s = v.rels /\ q = v.temp
  OBVIOUS
<1>1. t.schemas = tool.schemas /\ t.scope = tool.scope
  OBVIOUS
<1>2. v.schemas = server.schemas /\ v.rels = s /\ v.temp = q
  BY <1>0, ServerFields
<1>4. Placed(t)
  BY <1>1 DEF Placed, Known
<1>5. ToolInv(t)
  BY <1>4 DEF ToolInv
<1>6. ServerOk(v)
  <2>1. v = [schemas |-> v.schemas, rels |-> v.rels, temp |-> v.temp]
    BY <1>2
  <2>2. ServerOk(server)
    BY DEF Agreement
  <2>3. ASSUME NEW id \in DOMAIN s
        PROVE  /\ id = <<id[1], id[2]>> /\ s[id].kind # "dropped"
               /\ id[1] \in server.schemas \/ (id[1] = Temp /\ q)
    <3>1. s[id].kind # "dropped"
      BY <1>2 DEF Live
    <3>2. CASE id \in DOMAIN server.rels
      BY <1>2, <2>2, <3>1, <3>2 DEF ServerOk
    <3>3. CASE id \notin DOMAIN server.rels
      BY <1>2, <3>1, <3>3
    <3>4. QED
      BY <3>2, <3>3
  <2>4. server.schemas \subseteq Schemas
    BY <2>2 DEF ServerOk
  <2>5. QED
    BY <1>2, <2>1, <2>3, <2>4 DEF ServerOk
<1>7. Known(t) = Known(tool)
  BY <1>1 DEF Known
<1>8. \A n : InDoubt(t, n) <=> InDoubt(tool, n)
  BY <1>1 DEF InDoubt
<1>9. /\ \A n \in Schemas : tool.schemas[n] = "present" => n \in server.schemas
      /\ \A n \in server.schemas : tool.schemas[n] = "present" \/ InDoubt(tool, n)
  BY DEF Agreement
<1>10. \A id \in DOMAIN r \cup DOMAIN s : id[1] \in Known(tool) => At(r, id) = At(s, id)
  BY <1>0
<1> HIDE DEF Known, InDoubt, ToolInv, ServerOk
<1>11. QED
  BY <1>0, <1>1, <1>2, <1>5, <1>6, <1>7, <1>8, <1>9, <1>10 DEF Agreement

(* CREATE TABLE: the names are new, so nothing that was there changes.     *)
LEMMA NewPlaces ==
    ASSUME NEW rels, NEW id, id = <<id[1], id[2]>>, id \notin Live(rels),
           NEW names, NEW key \in BOOLEAN, NEW k, Fresh(rels, id, names, key, k),
           NEW x \in NewAt(id, names, key, k)
    PROVE  /\ x \notin Live(rels) /\ x = <<x[1], x[2]>> /\ x[1] = id[1]
           /\ \/ x = id /\ CreatedAt(rels, id, names, key, k, x) = Table
              \/ /\ x # id /\ Bytes(x[2]) <= MaxIdentifierBytes
                 /\ \E kind \in {"sequence", "index"} :
                       CreatedAt(rels, id, names, key, k, x) = Object(kind, id)
<1>1. \A n : <<id[1], n>>[1] = id[1] /\ <<id[1], n>>[2] = n
  OBVIOUS
<1>2. \A i \in DOMAIN names : /\ <<id[1], names[i]>> \notin Live(rels)
                              /\ names[i] # id[2] /\ Bytes(names[i]) <= MaxIdentifierBytes
  BY DEF Fresh
<1>3. key => /\ <<id[1], k>> \notin Live(rels)
             /\ k # id[2] /\ Bytes(k) <= MaxIdentifierBytes
  BY DEF Fresh
<1>4. CASE key /\ x = <<id[1], k>>
  <2>1. CreatedAt(rels, id, names, key, k, x) = Object("index", id)
    BY <1>4 DEF CreatedAt
  <2>2. x # id /\ x[1] = id[1] /\ x[2] = k
    BY <1>1, <1>3, <1>4
  <2> HIDE DEF CreatedAt
  <2>3. QED
    BY <1>3, <1>4, <2>1, <2>2
<1>5. CASE ~(key /\ x = <<id[1], k>>) /\ x \in SequencesAt(id, names)
  <2>1. CreatedAt(rels, id, names, key, k, x) = Object("sequence", id)
    BY <1>5 DEF CreatedAt
  <2>2. PICK i \in DOMAIN names : x = <<id[1], names[i]>>
    BY <1>5 DEF SequencesAt
  <2>3. x # id /\ x[1] = id[1] /\ x[2] = names[i]
    BY <1>1, <1>2, <2>2
  <2>4. QED
    BY <1>2, <2>1, <2>2, <2>3
<1>6. CASE ~(key /\ x = <<id[1], k>>) /\ x \notin SequencesAt(id, names)
  <2>1. x = id
    BY <1>6 DEF NewAt
  <2>2. CreatedAt(rels, id, names, key, k, x) = Table
    BY <1>6, <2>1 DEF CreatedAt
  <2>3. QED
    BY <2>1, <2>2
<1>7. QED
  BY <1>4, <1>5, <1>6

LEMMA OldPlaces ==
    ASSUME NEW rels, NEW id, NEW names, NEW key \in BOOLEAN, NEW k, NEW x, x \notin NewAt(id, names, key, k)
    PROVE  CreatedAt(rels, id, names, key, k, x) = At(rels, x)
BY DEF CreatedAt, NewAt

LEMMA CreatedWell ==
    ASSUME NEW rels, WellFormed(rels), Fit(rels),
           NEW id, id = <<id[1], id[2]>>, id \notin Live(rels),
           NEW names, NEW key \in BOOLEAN, NEW k, Fresh(rels, id, names, key, k),
           NEW made, Live(made) = Live(rels) \cup NewAt(id, names, key, k),
           DOMAIN made = DOMAIN rels \cup NewAt(id, names, key, k),
           \A x : At(made, x) = CreatedAt(rels, id, names, key, k, x)
    PROVE  WellFormed(made) /\ Fit(made)
<1> DEFINE new == NewAt(id, names, key, k)
<1>1. id \in new
  BY DEF NewAt
<1>2. \A x \in new : /\ x \notin Live(rels) /\ x = <<x[1], x[2]>> /\ x[1] = id[1]
                     /\ \/ x = id /\ CreatedAt(rels, id, names, key, k, x) = Table
                        \/ /\ x # id /\ Bytes(x[2]) <= MaxIdentifierBytes
                           /\ \E kind \in {"sequence", "index"} :
                                 CreatedAt(rels, id, names, key, k, x) = Object(kind, id)
  BY NewPlaces
<1> HIDE DEF new
<1>3. \A x \in new : \/ x = id /\ made[x] = Table
                     \/ /\ x # id /\ Bytes(x[2]) <= MaxIdentifierBytes
                        /\ \E kind \in {"sequence", "index"} : made[x] = Object(kind, id)
  <2> SUFFICES ASSUME NEW x \in new
               PROVE  \/ x = id /\ made[x] = Table
                      \/ /\ x # id /\ Bytes(x[2]) <= MaxIdentifierBytes
                         /\ \E kind \in {"sequence", "index"} : made[x] = Object(kind, id)
    OBVIOUS
  <2>1. x \in Live(made)
    BY DEF new
  <2>2. made[x] = CreatedAt(rels, id, names, key, k, x)
    BY <2>1, AtLive
  <2>3. QED
    BY <1>2, <2>2
<1>4. made[id] = Table
  BY <1>1, <1>3
<1>5. \A x \in Live(rels) : x \in Live(made) /\ x \notin new /\ made[x] = rels[x]
  <2> SUFFICES ASSUME NEW x \in Live(rels)
               PROVE  x \in Live(made) /\ x \notin new /\ made[x] = rels[x]
    OBVIOUS
  <2>1. x \in Live(made) /\ x \notin new
    BY <1>2
  <2>2. made[x] = CreatedAt(rels, id, names, key, k, x)
    BY <2>1, AtLive
  <2>3. CreatedAt(rels, id, names, key, k, x) = At(rels, x)
    BY <2>1, OldPlaces DEF new
  <2>4. QED
    BY <2>1, <2>2, <2>3, AtLive
<1>6. \A x \in DOMAIN made : x = <<x[1], x[2]>>
  BY <1>2 DEF WellFormed, new
<1>7. ASSUME NEW x \in Live(made)
      PROVE  \/ made[x] = Table
             \/ \E kind \in {"sequence", "index"}, of \in Live(made) :
                   made[x] = Object(kind, of) /\ made[of] = Table /\ of[1] = x[1]
  <2>1. CASE x \in new
    <3>1. id \in Live(made)
      BY <1>1 DEF new
    <3>2. x[1] = id[1]
      BY <1>2, <2>1
    <3>3. made[x] = Table \/ \E kind \in {"sequence", "index"} : made[x] = Object(kind, id)
      BY <1>3, <2>1
    <3>4. QED
      BY <1>4, <3>1, <3>2, <3>3
  <2>2. CASE x \in Live(rels)
    <3>1. made[x] = rels[x]
      BY <1>5, <2>2
    <3>2. \/ rels[x] = Table
          \/ \E kind \in {"sequence", "index"}, of \in Live(rels) :
                rels[x] = Object(kind, of) /\ rels[of] = Table /\ of[1] = x[1]
      BY <2>2 DEF WellFormed
    <3>3. QED
      BY <1>5, <3>1, <3>2
  <2>3. QED
    BY <2>1, <2>2 DEF new
<1>8. ASSUME NEW x \in Live(made), made[x].kind # "table"
      PROVE  Bytes(x[2]) <= MaxIdentifierBytes
  <2>1. CASE x \in new
    BY <1>3, <1>8, <2>1, Kinds
  <2>2. CASE x \in Live(rels)
    BY <1>5, <1>8, <2>2 DEF Fit
  <2>3. QED
    BY <2>1, <2>2 DEF new
<1>9. QED
  BY <1>6, <1>7, <1>8 DEF WellFormed, Fit

LEMMA ServerWith ==
    ASSUME ServerOk(server), NEW r, NEW p
    PROVE  /\ [server EXCEPT !.rels = r] = [schemas |-> server.schemas, rels |-> r, temp |-> server.temp]
           /\ [server EXCEPT !.rels = r, !.temp = p] = [schemas |-> server.schemas, rels |-> r, temp |-> p]
<1>1. PICK a, c, d : server = [schemas |-> a, rels |-> c, temp |-> d]
  BY DEF ServerOk
<1>2. server.schemas = a /\ server.temp = d
  BY <1>1
<1>3. [server EXCEPT !.rels = r] = [schemas |-> a, rels |-> r, temp |-> d]
  BY <1>1
<1>4. [server EXCEPT !.rels = r, !.temp = p] = [schemas |-> a, rels |-> r, temp |-> p]
  <2>1. [server EXCEPT !.rels = r, !.temp = p] = [[server EXCEPT !.rels = r] EXCEPT !.temp = p]
    BY <1>1
  <2>2. [[schemas |-> a, rels |-> r, temp |-> d] EXCEPT !.temp = p]
           = [schemas |-> a, rels |-> r, temp |-> p]
    OBVIOUS
  <2>3. QED
    BY <1>3, <2>1, <2>2
<1>5. QED
  BY <1>2, <1>3, <1>4

LEMMA ServerWithSchemas ==
    ASSUME ServerOk(server), NEW s, NEW r
    PROVE  [server EXCEPT !.schemas = s, !.rels = r] = [schemas |-> s, rels |-> r, temp |-> server.temp]
<1>1. PICK a, c, d : server = [schemas |-> a, rels |-> c, temp |-> d]
  BY DEF ServerOk
<1>2. server.temp = d
  BY <1>1
<1>3. PICK t : t = [server EXCEPT !.schemas = s, !.rels = r]
  OBVIOUS
<1>4. t = [schemas |-> s, rels |-> r, temp |-> d]
  BY <1>1, <1>3
<1>5. QED
  BY <1>2, <1>3, <1>4, Zenon

LEMMA SameNames ==
    ASSUME ToolInv(tool), Agreement(tool, server), NEW n \in Known(tool)
    PROVE  NamesIn(server.rels, n) = NamesIn(Namespace(tool), n)
<1>1. \A x : x[1] = n => (x \in Live(Namespace(tool)) <=> x \in Live(server.rels))
  BY KnownAt
<1>2. QED
  BY <1>1 DEF NamesIn

LEMMA TableCreated ==
    ASSUME ToolInv(tool), Agreement(tool, server),
           NEW id, id = <<id[1], id[2]>>, id[1] \in Schemas, tool.schemas[id[1]] = "present",
           id[2] \in Tables, id \notin Live(Namespace(tool)),
           NEW s \in Shapes, ~SelfNamed(Namespace(tool), id, s.cols, s.key),
           NEW t, t = Created(tool, id, s.cols, s.key),
           NEW v, v = [server EXCEPT !.rels = ServerCreated(server.rels, id, s.cols, s.key)]
    PROVE  ToolInv(t) /\ Agreement(t, v)
<1>0. PICK rels, other : rels = Namespace(tool) /\ other = server.rels
  OBVIOUS
<1>1. PICK names, k, key, cols : /\ cols = s.cols /\ key = s.key
                                 /\ names = next_implicit_sequence_ids(rels, id, cols)
                                 /\ k = primary_key_name(rels, id)
  OBVIOUS
<1>2. key \in BOOLEAN /\ Making(rels, id, cols, key, names, k)
  BY <1>0, <1>1, NamesAssumption DEF Making
<1>3. id[1] \in Known(tool)
  BY DEF Known
<1>4. PICK r : r = Namespace(t)
  OBVIOUS
<1>5. PICK o : o = ServerCreated(other, id, cols, key)
  OBVIOUS
<1> DEFINE new == NewAt(id, names, key, k)
<1>6. Fresh(rels, id, names, key, k)
  BY <1>0, <1>1, PickedFresh
<1>a. ToolOk(t) /\ t.schemas = tool.schemas /\ t.scope = tool.scope
  <2>1. ToolOk(tool)
    BY DEF ToolInv
  <2>2. QED
    BY <2>1, CreatedFields
<1>b. Overlays(tool) /\ DOMAIN rels = Live(rels)
  BY <1>0, NamespaceAt DEF ToolInv
<1>c. /\ Overlays(t)
      /\ \A x : /\ x \in Live(r) <=> x \in Live(rels) \/ x \in NewAt(id, names, key, k)
                /\ At(r, x) = CreatedAt(rels, id, names, key, k, x)
  <2>1. t = Created(tool, id, cols, key) /\ ToolOk(tool) /\ tool.schemas[id[1]] # "none"
    BY <1>1 DEF ToolInv
  <2>2. /\ Making(Namespace(tool), id, cols, key, names, k)
        /\ id \notin Live(Namespace(tool))
    BY <1>0, <1>2
  <2>3. /\ Overlays(t)
        /\ \A x : /\ x \in Live(Namespace(t)) <=> x \in Live(Namespace(tool)) \/ x \in NewAt(id, names, key, k)
                  /\ At(Namespace(t), x) = CreatedAt(Namespace(tool), id, names, key, k, x)
    BY <1>b, <2>1, <2>2, CreatedIs
  <2>4. QED
    BY <1>0, <1>4, <2>3
<1>7. /\ Live(r) = Live(rels) \cup new /\ DOMAIN r = DOMAIN rels \cup new
      /\ \A x : At(r, x) = CreatedAt(rels, id, names, key, k, x)
  <2>1. DOMAIN r = Live(r)
    BY <1>4, <1>c, NamespaceAt
  <2>2. Live(r) = Live(rels) \cup new
    BY <1>c
  <2>3. QED
    BY <1>b, <1>c, <2>1, <2>2
<1>8. /\ Live(o) = Live(other) \cup new /\ DOMAIN o = DOMAIN other \cup new
      /\ \A x : At(o, x) = CreatedAt(other, id, names, key, k, x)
  <2>1. SameNamesAt(rels, other, id)
    BY <1>0, <1>3, SameNames DEF SameNamesAt
  <2>2. \A x : /\ x \in Live(o) <=> x \in Live(other) \/ x \in NewAt(id, names, key, k)
               /\ x \in DOMAIN o <=> x \in DOMAIN other \/ x \in NewAt(id, names, key, k)
               /\ At(o, x) = CreatedAt(other, id, names, key, k, x)
    BY <1>2, <1>5, <2>1, ServerCreatedIs
  <2>3. QED
    BY <2>2
<1>9. \A x \in new : x = <<x[1], x[2]>> /\ x[1] = id[1]
  BY <1>0, <1>2, <1>6, NewPlaces
<1>10. WellFormed(r) /\ Fit(r)
  BY <1>0, <1>2, <1>6, <1>7, CreatedWell DEF ToolInv
<1> HIDE DEF new
<1>12. \A x \in Live(r) : x[1] \in Known(tool)
  BY <1>0, <1>3, <1>7, <1>9, KnownSchema
<1>13. \A x \in DOMAIN o : x \in Live(o) /\ (x \in DOMAIN other \/ (x = <<x[1], x[2]>> /\ x[1] \in server.schemas))
  <2>1. id[1] \in server.schemas
    BY DEF Agreement
  <2>2. \A x \in DOMAIN other : x \in Live(other)
    BY <1>0 DEF Agreement, ServerOk, Live
  <2>3. QED
    BY <1>8, <1>9, <2>1, <2>2
<1>14. \A x : x[1] \in Known(tool) => At(r, x) = At(o, x)
  <2> SUFFICES ASSUME NEW x, x[1] \in Known(tool)
               PROVE  At(r, x) = At(o, x)
    OBVIOUS
  <2>1. At(rels, x) = At(other, x)
    BY <1>0, KnownAt
  <2>2. CreatedAt(rels, id, names, key, k, x) = CreatedAt(other, id, names, key, k, x)
    BY <2>1 DEF CreatedAt
  <2>3. QED
    BY <1>7, <1>8, <2>2
<1>16. v = [schemas |-> server.schemas, rels |-> o, temp |-> server.temp]
  <2>1. v = [server EXCEPT !.rels = o] /\ ServerOk(server)
    BY <1>0, <1>1, <1>5 DEF Agreement
  <2>2. QED
    BY <2>1, ServerWith
<1>d. v.schemas = server.schemas /\ v.rels = o /\ v.temp = server.temp
  BY <1>16
<1>17. /\ v.rels = o /\ v = [schemas |-> server.schemas, rels |-> v.rels, temp |-> v.temp]
       /\ server.temp => v.temp
  BY <1>16, <1>d
<1>18. QED
  BY <1>0, <1>4, <1>a, <1>c, <1>10, <1>12, <1>13, <1>14, <1>17, RelsAgree

(* CREATE TEMPORARY TABLE.                                                 *)
LEMMA TempIs ==
    ASSUME NEW t, ToolOk(t), Overlays(t), NEW n, NEW id, id = <<Temp, n>>,
           id \notin Live(Namespace(t)),
           NEW u, u = TempCreated(t, id)
    PROVE  /\ Overlays(u)
           /\ \A x : /\ x \in Live(Namespace(u)) <=> x \in Live(Namespace(t)) \/ x = id
                     /\ At(Namespace(u), x) = IF x = id THEN Table ELSE At(Namespace(t), x)
<1>1. PICK m, w, r, q, i, r2 :
         /\ m = Namespace(t) /\ w = Namespace(u) /\ r = t.relations /\ q = t.sequences
         /\ i = t.indexes /\ r2 = u.relations
  OBVIOUS
<1>2. u.relations = With(t.relations, id, Object("table", <<>>))
  BY TempFields
<1>3. r2 = With(r, id, Table)
  BY <1>1, <1>2 DEF Table
<1>4. u.sequences = t.sequences /\ u.indexes = t.indexes /\ u.schemas = t.schemas
  <2>1. u.sequences = t.sequences
    BY TempFields
  <2>2. u.indexes = t.indexes
    BY TempFields
  <2>3. u.schemas = t.schemas
    BY TempFields
  <2>4. QED
    BY <2>1, <2>2, <2>3
<1>t. u.temp = TRUE
  BY TempFields
<1>5. \A x : /\ x \in DOMAIN r2 <=> x \in DOMAIN r \/ x = id
             /\ x \in Live(r2) <=> x \in Live(r) \/ x = id
             /\ At(r2, x) = IF x = id THEN Table ELSE At(r, x)
  BY <1>3, Kinds, LiveWith, AtWith
<1>6. /\ DOMAIN m = Live(m)
      /\ \A x : /\ x \in Live(m) <=> x \in Live(r) \/ x \in Live(q) \/ x \in DOMAIN i
                /\ x \in Live(r) => m[x] = Table
                /\ x \in Live(q) => m[x] = q[x]
                /\ x \in DOMAIN i => m[x] = i[x]
  BY <1>1, NamespaceAt
<1>7. id = <<id[1], id[2]>> /\ id[1] = Temp /\ id \notin Live(m)
  BY <1>1
<1>8. Overlays(u)
  <2>1. \A x \in DOMAIN r : \/ x[1] = Temp /\ t.temp
                            \/ x[1] \in Schemas /\ t.schemas[x[1]] # "none"
    BY <1>1 DEF Overlays
  <2>2. \A x \in DOMAIN r2 : \/ x[1] = Temp /\ u.temp
                             \/ x[1] \in Schemas /\ u.schemas[x[1]] # "none"
    BY <1>4, <1>t, <1>5, <1>7, <2>1
  <2>3. \A x \in Live(r) : r[x] = Table /\ x \notin Live(q) /\ x \notin DOMAIN i
    BY <1>1 DEF Overlays
  <2>4. \A x \in Live(r2) : r2[x] = Table
    <3>1. \A x \in Live(r2) : At(r2, x) = r2[x]
      BY AtLive
    <3>2. \A x \in Live(r) : At(r, x) = r[x]
      BY AtLive
    <3>3. QED
      BY <1>5, <2>3, <3>1, <3>2
  <2>5. \A x \in Live(r2) : x \notin Live(q) /\ x \notin DOMAIN i
    BY <1>5, <1>6, <1>7, <2>3
  <2>6. \A x \in DOMAIN r2 \cup DOMAIN q \cup DOMAIN i : x = <<x[1], x[2]>>
    BY <1>1, <1>5, <1>7 DEF Overlays
  <2>7. /\ \A x \in Live(q) : q[x].kind = "sequence" /\ x \notin DOMAIN i
        /\ \A x \in DOMAIN i : i[x].kind = "index"
    BY <1>1 DEF Overlays
  <2>8. u.relations = r2 /\ u.sequences = q /\ u.indexes = i
    BY <1>1, <1>4
  <2>9. QED
    BY <2>2, <2>4, <2>5, <2>6, <2>7, <2>8 DEF Overlays
<1>9. /\ DOMAIN w = Live(w)
      /\ \A x : /\ x \in Live(w) <=> x \in Live(r2) \/ x \in Live(q) \/ x \in DOMAIN i
                /\ x \in Live(r2) => w[x] = Table
                /\ x \in Live(q) => w[x] = q[x]
                /\ x \in DOMAIN i => w[x] = i[x]
  BY <1>1, <1>4, <1>8, NamespaceAt
<1>10. ASSUME NEW x
       PROVE  /\ x \in Live(w) <=> x \in Live(m) \/ x = id
              /\ At(w, x) = IF x = id THEN Table ELSE At(m, x)
  <2>1. x \in Live(w) <=> x \in Live(m) \/ x = id
    BY <1>5, <1>6, <1>9
  <2>2. x = id => w[x] = Table
    BY <1>5, <1>9
  <2>3. x # id /\ x \in Live(m) => w[x] = m[x]
    BY <1>5, <1>6, <1>9
  <2>4. QED
    BY <1>7, <2>1, <2>2, <2>3, AtLive
<1>11. QED
  BY <1>1, <1>8, <1>10

LEMMA TempTableAgrees ==
    ASSUME ToolInv(tool), Agreement(tool, server), NEW n, NEW id, id = <<Temp, n>>,
           id \notin Live(Namespace(tool)),
           NEW t, t = TempCreated(tool, id),
           NEW v, v = [schemas |-> server.schemas, rels |-> v.rels, temp |-> v.temp],
           v.rels = With(server.rels, id, Table), v.temp = TRUE
    PROVE  ToolInv(t) /\ Agreement(t, v)
<1>1. PICK rels, other : rels = Namespace(tool) /\ other = server.rels
  OBVIOUS
<1>2. PICK r, o : r = Namespace(t) /\ o = With(other, id, Table)
  OBVIOUS
<1>3. Table.kind # "dropped"
  BY Kinds
<1>a. ToolOk(t) /\ t.schemas = tool.schemas /\ t.scope = tool.scope
  <2>1. ToolOk(tool)
    BY DEF ToolInv
  <2>2. ToolOk(t)
    BY <2>1, TempFields
  <2>3. t.schemas = tool.schemas
    BY <2>1, TempFields
  <2>4. t.scope = tool.scope
    BY <2>1, TempFields
  <2>5. QED
    BY <2>2, <2>3, <2>4
<1>b. /\ Overlays(t)
      /\ \A x : /\ x \in Live(r) <=> x \in Live(rels) \/ x = id
                /\ At(r, x) = IF x = id THEN Table ELSE At(rels, x)
  BY <1>1, <1>2, TempIs DEF ToolInv
<1>4. \A x : /\ x \in DOMAIN r <=> x \in DOMAIN rels \/ x = id
             /\ x \in Live(r) <=> x \in Live(rels) \/ x = id
  <2>1. DOMAIN r = Live(r) /\ DOMAIN rels = Live(rels)
    BY <1>1, <1>2, <1>b, NamespaceAt DEF ToolInv
  <2>2. QED
    BY <1>b, <2>1
<1>5. \A x : /\ x \in DOMAIN o <=> x \in DOMAIN other \/ x = id
             /\ x \in Live(o) <=> x \in Live(other) \/ x = id
  BY <1>2, <1>3, LiveWith
<1>6. \A x : At(r, x) = IF x = id THEN Table ELSE At(rels, x)
  BY <1>b
<1>7. \A x : At(o, x) = IF x = id THEN Table ELSE At(other, x)
  BY <1>2, <1>3, AtWith
<1>8. id = <<id[1], id[2]>> /\ id[1] = Temp /\ id[1] \in Known(tool)
  BY DEF Known
<1>9. \A x \in Live(rels) : x # id /\ x \in Live(r) /\ r[x] = rels[x]
  BY <1>1, <1>4, <1>6, AtLive
<1>10. r[id] = Table
  BY <1>4, <1>6, AtLive
<1>11. WellFormed(r)
  <2>1. WellFormed(rels)
    BY <1>1 DEF ToolInv
  <2>2. \A x \in DOMAIN r : x = <<x[1], x[2]>>
    BY <1>4, <1>8, <2>1 DEF WellFormed
  <2>3. ASSUME NEW x \in Live(r)
        PROVE  \/ r[x] = Table
               \/ \E kind \in {"sequence", "index"}, of \in Live(r) :
                     r[x] = Object(kind, of) /\ r[of] = Table /\ of[1] = x[1]
    <3>1. CASE x = id
      BY <1>10, <3>1
    <3>2. CASE x \in Live(rels)
      <4>1. \/ rels[x] = Table
            \/ \E kind \in {"sequence", "index"}, of \in Live(rels) :
                  rels[x] = Object(kind, of) /\ rels[of] = Table /\ of[1] = x[1]
        BY <2>1, <3>2 DEF WellFormed
      <4>2. QED
        BY <1>9, <3>2, <4>1
    <3>3. QED
      BY <1>4, <3>1, <3>2
  <2>4. QED
    BY <2>2, <2>3 DEF WellFormed
<1>12. Fit(r)
  <2>1. Fit(rels)
    BY <1>1 DEF ToolInv
  <2>2. ASSUME NEW x \in Live(r), r[x].kind # "table"
        PROVE  Bytes(x[2]) <= MaxIdentifierBytes
    <3>1. x \in Live(rels) /\ rels[x].kind # "table"
      BY <1>4, <1>9, <1>10, <2>2, Kinds
    <3>2. QED
      BY <2>1, <3>1 DEF Fit
  <2>3. QED
    BY <2>2 DEF Fit
<1>15. v.rels = o
  BY <1>1, <1>2
<1>18. \A x \in Live(r) : x[1] \in Known(tool)
  BY <1>1, <1>4, <1>8, KnownSchema
<1>19. \A x \in DOMAIN o : /\ x \in Live(o)
                           /\ x \in DOMAIN other \/ (x = <<x[1], x[2]>> /\ x[1] = Temp)
  <2>1. \A x \in DOMAIN other : x \in Live(other)
    BY <1>1 DEF Agreement, ServerOk, Live
  <2>2. QED
    BY <1>5, <1>8, <2>1
<1>20. \A x : x[1] \in Known(tool) => At(r, x) = At(o, x)
  BY <1>1, <1>6, <1>7, KnownAt
<1>21. QED
  BY <1>1, <1>2, <1>a, <1>b, <1>11, <1>12, <1>15, <1>18, <1>19, <1>20, RelsAgree

(* What is left when each overlay loses what is in a set.                  *)
Shrinks(f, g, gone) ==
    /\ DOMAIN g \subseteq DOMAIN f
    /\ \A x : x \in Live(g) <=> x \in Live(f) /\ x \notin gone
    /\ \A x \in Live(g) : g[x] = f[x]

LEMMA ShrunkIs ==
    ASSUME NEW t, Overlays(t), NEW u, NEW gone,
           Shrinks(t.relations, u.relations, gone),
           Shrinks(t.sequences, u.sequences, gone),
           Shrinks(t.indexes, u.indexes, gone), DOMAIN u.indexes = Live(u.indexes),
           \A x \in DOMAIN u.relations : \/ x[1] = Temp /\ u.temp
                                         \/ x[1] \in Schemas /\ u.schemas[x[1]] # "none"
    PROVE  /\ Overlays(u)
           /\ \A x : /\ x \in Live(Namespace(u)) <=> x \in Live(Namespace(t)) /\ x \notin gone
                     /\ At(Namespace(u), x) = IF x \in gone THEN Tombstone ELSE At(Namespace(t), x)
<1>1. PICK m, w, r, q, i, r2, q2, i2 :
         /\ m = Namespace(t) /\ w = Namespace(u) /\ r = t.relations /\ q = t.sequences
         /\ i = t.indexes /\ r2 = u.relations /\ q2 = u.sequences /\ i2 = u.indexes
  OBVIOUS
<1>2. /\ DOMAIN r2 \subseteq DOMAIN r /\ DOMAIN q2 \subseteq DOMAIN q /\ DOMAIN i2 \subseteq DOMAIN i
      /\ \A x : /\ x \in Live(r2) <=> x \in Live(r) /\ x \notin gone
                /\ x \in Live(q2) <=> x \in Live(q) /\ x \notin gone
                /\ x \in Live(i2) <=> x \in Live(i) /\ x \notin gone
      /\ \A x \in Live(r2) : r2[x] = r[x]
      /\ \A x \in Live(q2) : q2[x] = q[x]
      /\ \A x \in Live(i2) : i2[x] = i[x]
      /\ DOMAIN i2 = Live(i2)
  BY <1>1 DEF Shrinks
<1>3. /\ \A x \in DOMAIN r \cup DOMAIN q \cup DOMAIN i : x = <<x[1], x[2]>>
      /\ \A x \in Live(r) : r[x] = Table /\ x \notin Live(q) /\ x \notin DOMAIN i
      /\ \A x \in Live(q) : q[x].kind = "sequence" /\ x \notin DOMAIN i
      /\ \A x \in DOMAIN i : i[x].kind = "index"
  BY <1>1 DEF Overlays
<1>4. Live(i) = DOMAIN i
  BY <1>3 DEF Live
<1>5. Overlays(u)
  <2>1. \A x \in DOMAIN r2 \cup DOMAIN q2 \cup DOMAIN i2 : x = <<x[1], x[2]>>
    BY <1>2, <1>3
  <2>2. \A x \in DOMAIN r2 : \/ x[1] = Temp /\ u.temp
                             \/ x[1] \in Schemas /\ u.schemas[x[1]] # "none"
    BY <1>1
  <2>3. \A x \in Live(r2) : r2[x] = Table /\ x \notin Live(q2) /\ x \notin DOMAIN i2
    BY <1>2, <1>3
  <2>4. \A x \in Live(q2) : q2[x].kind = "sequence" /\ x \notin DOMAIN i2
    BY <1>2, <1>3
  <2>5. \A x \in DOMAIN i2 : i2[x].kind = "index"
    BY <1>2, <1>3
  <2>6. QED
    BY <1>1, <2>1, <2>2, <2>3, <2>4, <2>5 DEF Overlays
<1>6. \A x : /\ x \in Live(m) <=> x \in Live(r) \/ x \in Live(q) \/ x \in DOMAIN i
             /\ x \in Live(r) => m[x] = Table
             /\ x \in Live(q) => m[x] = q[x]
             /\ x \in DOMAIN i => m[x] = i[x]
  BY <1>1, NamespaceAt
<1>7. \A x : /\ x \in Live(w) <=> x \in Live(r2) \/ x \in Live(q2) \/ x \in DOMAIN i2
             /\ x \in Live(r2) => w[x] = Table
             /\ x \in Live(q2) => w[x] = q2[x]
             /\ x \in DOMAIN i2 => w[x] = i2[x]
  BY <1>1, <1>5, NamespaceAt
<1>8. ASSUME NEW x
      PROVE  /\ x \in Live(w) <=> x \in Live(m) /\ x \notin gone
             /\ At(w, x) = IF x \in gone THEN Tombstone ELSE At(m, x)
  <2>1. x \in Live(w) <=> x \in Live(m) /\ x \notin gone
    BY <1>2, <1>4, <1>6, <1>7
  <2>2. x \in Live(w) => w[x] = m[x]
    BY <1>2, <1>4, <1>6, <1>7
  <2>3. QED
    BY <2>1, <2>2, AtLive
<1>9. QED
  BY <1>1, <1>5, <1>8

(* Where no alias is confused with the objects that go.                    *)
LEMMA NotConfused ==
    ASSUME NEW ids, ~Confused(ids), NEW x \in Live(Namespace(tool))
    PROVE  /\ x \in ids => Resolved(tool, x) = x
           /\ Resolved(tool, x) \in ids => Resolved(tool, x) = x
BY DEF Confused

LEMMA DroppedIs ==
    ASSUME ToolInv(tool), NEW id \in Live(tool.relations), ~Confused({id}),
           NEW u, u = Dropped(tool, id), NEW gone, gone = Dependents(Namespace(tool), id)
    PROVE  /\ Overlays(u)
           /\ \A x : /\ x \in Live(Namespace(u)) <=> x \in Live(Namespace(tool)) /\ x \notin gone
                     /\ At(Namespace(u), x) = IF x \in gone THEN Tombstone ELSE At(Namespace(tool), x)
<1>1. PICK t : t = tool
  OBVIOUS
<1>2. PICK m, r, q, i : m = Namespace(t) /\ r = t.relations /\ q = t.sequences /\ i = t.indexes
  OBVIOUS
<1>3. ToolOk(t) /\ Overlays(t) /\ WellFormed(m) /\ id \in Live(r) /\ u = Dropped(t, id)
  BY <1>1, <1>2 DEF ToolInv
<1>4. \A x : /\ x \in Live(m) <=> x \in Live(r) \/ x \in Live(q) \/ x \in DOMAIN i
             /\ x \in Live(r) => m[x] = Table
             /\ x \in Live(q) => m[x] = q[x]
             /\ x \in DOMAIN i => m[x] = i[x]
  BY <1>2, <1>3, NamespaceAt
<1>5. \A x \in Live(m) : /\ x = id => Resolved(t, x) = x
                         /\ Resolved(t, x) = id => Resolved(t, x) = x
  BY <1>1, <1>2, NotConfused
<1>6. \A x \in Live(m) : Resolved(t, x) = id <=> x = id
  BY <1>5
<1>7. /\ \A x \in DOMAIN r : \/ x[1] = Temp /\ t.temp
                             \/ x[1] \in Schemas /\ t.schemas[x[1]] # "none"
      /\ \A x \in Live(r) : r[x] = Table /\ x \notin Live(q) /\ x \notin DOMAIN i
      /\ \A x \in Live(q) : q[x].kind = "sequence" /\ x \notin DOMAIN i
      /\ \A x \in DOMAIN i : i[x].kind = "index"
  BY <1>2, <1>3 DEF Overlays
<1>8. \A x \in Live(q) : q[x].of \in Live(m)
  <2> SUFFICES ASSUME NEW x \in Live(q) PROVE q[x].of \in Live(m)
    OBVIOUS
  <2>1. x \in Live(m) /\ m[x] = q[x] /\ q[x] # Table
    BY <1>4, <1>7, Kinds
  <2>2. PICK kind, of : of \in Live(m) /\ m[x] = Object(kind, of)
    BY <1>3, <2>1 DEF WellFormed
  <2>3. QED
    BY <2>1, <2>2, Kinds
<1>9. \A x \in DOMAIN i : i[x].of \in Live(m)
  <2> SUFFICES ASSUME NEW x \in DOMAIN i PROVE i[x].of \in Live(m)
    OBVIOUS
  <2>1. x \in Live(m) /\ m[x] = i[x] /\ i[x] # Table
    BY <1>4, <1>7, Kinds
  <2>2. PICK kind, of : of \in Live(m) /\ m[x] = Object(kind, of)
    BY <1>3, <2>1 DEF WellFormed
  <2>3. QED
    BY <2>1, <2>2, Kinds
<1>10. \A x : x \in gone <=> x \in Live(m) /\ (x = id \/ m[x].of = id)
  BY <1>1, <1>2 DEF Dependents
<1>11. id # <<>>
  BY <1>1, <1>2, <1>3, <1>4, KnownSchema
<1>12. PICK r2, q2, i2 : r2 = u.relations /\ q2 = u.sequences /\ i2 = u.indexes
  OBVIOUS
<1>13. r2 = With(r, id, Tombstone)
  BY <1>2, <1>3, <1>12, DroppedFields
<1>14. q2 = Bury(q, OwnedBy(t, id))
  BY <1>2, <1>3, <1>12, DroppedFields
<1>15. i2 = Without(i, IndexesOf(t, id))
  BY <1>2, <1>3, <1>12, DroppedFields
<1>16. u.schemas = t.schemas
  BY <1>3, DroppedFields
<1>17. u.temp = t.temp
  BY <1>3, DroppedFields
<1>18. Shrinks(r, r2, gone)
  <2>1. /\ DOMAIN r2 = DOMAIN r \cup {id} /\ r2[id] = Tombstone
        /\ \A x \in DOMAIN r : x # id => r2[x] = r[x]
    BY <1>13 DEF With
  <2>2. id \in DOMAIN r
    BY <1>3, AtLive
  <2>3. \A x : x \in Live(r2) <=> x \in Live(r) /\ x # id
    BY <2>1, <2>2, Kinds DEF Live
  <2>4. \A x \in Live(r) : x \in gone <=> x = id
    BY <1>4, <1>10, <1>11, Kinds
  <2>5. \A x \in Live(r2) : r2[x] = r[x]
    BY <2>1, <2>3, AtLive
  <2>6. QED
    BY <2>1, <2>2, <2>3, <2>4, <2>5 DEF Shrinks
<1>19. Shrinks(q, q2, gone)
  <2>1. \A x \in Live(q) : x \in OwnedBy(t, id) <=> q[x].of = id
    BY <1>2, <1>6, <1>8 DEF OwnedBy
  <2>2. \A x \in Live(q) : x # id
    BY <1>3, <1>7
  <2>3. \A x \in Live(q) : x \in gone <=> q[x].of = id
    BY <1>4, <1>10, <2>2
  <2>4. \A x : /\ x \in Live(q2) <=> x \in Live(q) /\ x \notin OwnedBy(t, id)
               /\ x \in DOMAIN q2 <=> x \in DOMAIN q
               /\ x \in Live(q) /\ x \notin OwnedBy(t, id) => q2[x] = q[x]
    BY <1>14, LiveBury
  <2>5. QED
    BY <2>1, <2>3, <2>4 DEF Shrinks
<1>20. Shrinks(i, i2, gone) /\ DOMAIN i2 = Live(i2)
  <2>1. \A x \in DOMAIN i : x # id /\ x \in Live(m)
    BY <1>3, <1>4, <1>7
  <2>2. \A x \in DOMAIN i : x \in IndexesOf(t, id) <=> i[x].of = id
    BY <1>2, <1>6, <1>9, <2>1 DEF IndexesOf
  <2>3. \A x \in DOMAIN i : x \in gone <=> i[x].of = id
    BY <1>4, <1>10, <2>1
  <2>4. \A x : /\ x \in Live(i2) <=> x \in Live(i) /\ x \notin IndexesOf(t, id)
               /\ x \in DOMAIN i2 <=> x \in DOMAIN i /\ x \notin IndexesOf(t, id)
               /\ x \in DOMAIN i2 => i2[x] = i[x]
    BY <1>15, LiveRestrict
  <2>5. Live(i) = DOMAIN i
    BY <1>7 DEF Live
  <2>6. QED
    BY <2>2, <2>3, <2>4, <2>5 DEF Shrinks
<1>21. \A x \in DOMAIN r2 : \/ x[1] = Temp /\ u.temp
                            \/ x[1] \in Schemas /\ u.schemas[x[1]] # "none"
  BY <1>7, <1>16, <1>17, <1>18 DEF Shrinks
<1>22. /\ Shrinks(t.relations, u.relations, gone) /\ Shrinks(t.sequences, u.sequences, gone)
       /\ Shrinks(t.indexes, u.indexes, gone) /\ DOMAIN u.indexes = Live(u.indexes)
  BY <1>2, <1>12, <1>18, <1>19, <1>20
<1>23. QED
  BY <1>1, <1>3, <1>12, <1>21, <1>22, ShrunkIs

(* DROP TABLE: what goes with the table goes on both sides.                *)
LEMMA TableDropped ==
    ASSUME ToolInv(tool), Agreement(tool, server), NEW id \in Live(tool.relations), ~Confused({id}),
           NEW t, t = Dropped(tool, id),
           NEW v, v = [server EXCEPT !.rels = Without(server.rels, Dependents(server.rels, id))]
    PROVE  ToolInv(t) /\ Agreement(t, v)
<1>1. PICK rels, other : rels = Namespace(tool) /\ other = server.rels
  OBVIOUS
<1>2. PICK gone, lost : gone = Dependents(rels, id) /\ lost = Dependents(other, id)
  OBVIOUS
<1>3. PICK r, o : r = Namespace(t) /\ o = Without(other, lost)
  OBVIOUS
<1>a. ToolOk(t) /\ t.schemas = tool.schemas /\ t.scope = tool.scope
  <2>1. ToolOk(tool)
    BY DEF ToolInv
  <2>2. ToolOk(t)
    BY <2>1, DroppedFields
  <2>3. t.schemas = tool.schemas
    BY <2>1, DroppedFields
  <2>4. t.scope = tool.scope
    BY <2>1, DroppedFields
  <2>5. QED
    BY <2>2, <2>3, <2>4
<1>b. /\ Overlays(t)
      /\ \A x : /\ x \in Live(r) <=> x \in Live(rels) /\ x \notin gone
                /\ At(r, x) = IF x \in gone THEN Tombstone ELSE At(rels, x)
  BY <1>1, <1>2, <1>3, DroppedIs
<1>4. \A x : /\ x \in Live(r) <=> x \in Live(rels) /\ x \notin gone
             /\ x \in DOMAIN r => x \in DOMAIN rels
             /\ At(r, x) = IF x \in gone THEN Tombstone ELSE At(rels, x)
  <2>1. DOMAIN r = Live(r) /\ DOMAIN rels = Live(rels)
    BY <1>1, <1>3, <1>b, NamespaceAt DEF ToolInv
  <2>2. QED
    BY <1>b, <2>1
<1>c. id \in Live(rels)
  BY <1>1, NamespaceAt DEF ToolInv
<1>5. \A x : /\ x \in Live(o) <=> x \in Live(other) /\ x \notin lost
             /\ x \in DOMAIN o <=> x \in DOMAIN other /\ x \notin lost
             /\ At(o, x) = IF x \in lost THEN Tombstone ELSE At(other, x)
  BY <1>3, LiveRestrict
<1>6. \A x : x \in gone <=> x \in Live(rels) /\ (x = id \/ rels[x].of = id)
  BY <1>2 DEF Dependents
<1>7. \A x : x \in lost <=> x \in Live(other) /\ (x = id \/ other[x].of = id)
  BY <1>2 DEF Dependents
<1>8. \A x : x[1] \in Known(tool) => (x \in gone <=> x \in lost)
  <2> SUFFICES ASSUME NEW x, x[1] \in Known(tool)
               PROVE  x \in gone <=> x \in lost
    OBVIOUS
  <2>1. /\ x \in Live(rels) <=> x \in Live(other)
        /\ x \in Live(rels) => other[x] = rels[x]
    BY <1>1, KnownAt
  <2>2. QED
    BY <1>6, <1>7, <2>1
<1>9. \A x \in Live(r) : x \in Live(rels) /\ x \notin gone /\ r[x] = rels[x]
  BY <1>4, AtLive
<1>10. WellFormed(r)
  <2>1. WellFormed(rels)
    BY <1>1 DEF ToolInv
  <2>2. \A x \in DOMAIN r : x = <<x[1], x[2]>>
    BY <1>4, <2>1 DEF WellFormed
  <2>3. ASSUME NEW x \in Live(r)
        PROVE  \/ r[x] = Table
               \/ \E kind \in {"sequence", "index"}, of \in Live(r) :
                     r[x] = Object(kind, of) /\ r[of] = Table /\ of[1] = x[1]
    <3>1. \/ rels[x] = Table
          \/ \E kind \in {"sequence", "index"}, of \in Live(rels) :
                rels[x] = Object(kind, of) /\ rels[of] = Table /\ of[1] = x[1]
      BY <1>9, <2>1 DEF WellFormed
    <3>2. ASSUME NEW kind, NEW of \in Live(rels), rels[x] = Object(kind, of), rels[of] = Table
          PROVE  of \in Live(r) /\ r[of] = Table
      <4>1. rels[x].of = of /\ rels[of].of = <<>>
        BY <3>2, Kinds
      <4>2. of # id
        BY <1>6, <1>9, <4>1
      <4>3. id # <<>>
        BY <1>1, <1>c, KnownSchema
      <4>4. of \notin gone
        BY <1>6, <4>1, <4>2, <4>3
      <4>5. of \in Live(r)
        BY <1>4, <4>4
      <4>6. QED
        BY <1>9, <3>2, <4>5
    <3>3. QED
      BY <1>9, <3>1, <3>2
  <2>4. QED
    BY <2>2, <2>3 DEF WellFormed
<1>11. Fit(r)
  BY <1>1, <1>9 DEF ToolInv, Fit
<1>13. v = [schemas |-> server.schemas, rels |-> o, temp |-> server.temp]
  BY <1>1, <1>2, <1>3, ServerWith DEF Agreement
<1>14. v.schemas = server.schemas /\ v.rels = o /\ v.temp = server.temp
  BY <1>13
<1>15. /\ v = [schemas |-> server.schemas, rels |-> v.rels, temp |-> v.temp]
       /\ server.temp => v.temp
  BY <1>13, <1>14
<1>17. \A x \in Live(r) : x[1] \in Known(tool)
  BY <1>1, <1>9, KnownSchema
<1>18. \A x \in DOMAIN o : x \in Live(o) /\ x \in DOMAIN other
  BY <1>1, <1>5 DEF Agreement, ServerOk, Live
<1>19. \A x : x[1] \in Known(tool) => At(r, x) = At(o, x)
  BY <1>1, <1>4, <1>5, <1>8, KnownAt
<1>20. QED
  BY <1>1, <1>3, <1>a, <1>b, <1>10, <1>11, <1>14, <1>15, <1>17, <1>18, <1>19, RelsAgree

LEMMA NothingInAbsent ==
    ASSUME ToolInv(tool), Agreement(tool, server), NEW n \in Schemas,
           tool.schemas[n] # "present", n \notin server.schemas, NEW x, x[1] = n
    PROVE  x \notin Live(Namespace(tool)) /\ x \notin DOMAIN server.rels
<1>1. n # Temp
  BY NamesAssumption DEF Temp
<1>2. x \notin Live(Namespace(tool))
  BY <1>1 DEF ToolInv, Placed, Known
<1>3. x \notin DOMAIN server.rels
  BY <1>1 DEF Agreement, ServerOk
<1>4. QED
  BY <1>2, <1>3

LEMMA CreatedSchemaAgrees ==
    ASSUME ToolInv(tool), Agreement(tool, server), NEW n \in Schemas,
           tool.schemas[n] # "present", n \notin server.schemas,
           NEW t, t = SchemaCreated(tool, n),
           NEW v, v = [server EXCEPT !.schemas = server.schemas \cup {n}]
    PROVE  ToolInv(t) /\ Agreement(t, v)
<1>0. ToolOk(tool) /\ Overlays(tool)
  BY DEF ToolInv
<1>1. PICK a, aa, c : a = tool.schemas /\ aa = Marked(a, n, "present") /\ c = Namespace(tool)
  OBVIOUS
<1>2. PICK e, f, g : server = [schemas |-> e, rels |-> f, temp |-> g]
  BY DEF Agreement, ServerOk
<1>3. t.relations = tool.relations
  BY <1>0, SchemaCreatedFields
<1>4. t.sequences = tool.sequences
  BY <1>0, SchemaCreatedFields
<1>5. v = [schemas |-> e \cup {n}, rels |-> f, temp |-> g]
  BY <1>2
<1>6. t.indexes = tool.indexes
  BY <1>0, SchemaCreatedFields
<1>7. server.schemas = e /\ server.rels = f /\ server.temp = g
  BY <1>2
<1>8. ToolOk(t)
  BY <1>0, SchemaCreatedFields
<1>9. v.schemas = e \cup {n} /\ v.rels = f /\ v.temp = g
  BY <1>5
<1>10. t.schemas = aa /\ t.scope = tool.scope
  <2>1. t.schemas = Marked(tool.schemas, n, "present")
    BY <1>0, SchemaCreatedFields
  <2>2. t.scope = tool.scope
    BY <1>0, SchemaCreatedFields
  <2>3. QED
    BY <1>1, <2>1, <2>2
<1>a. t.temp = tool.temp
  BY <1>0, SchemaCreatedFields
<1>11. aa[n] = "present" /\ \A m \in Schemas : m # n => aa[m] = a[m]
  BY <1>0, <1>1 DEF ToolOk, Marked
<1>12. Namespace(t) = c
  BY <1>1, <1>3, <1>4, <1>6 DEF Namespace
<1>13. Overlays(t)
  <2>1. ASSUME NEW x \in DOMAIN tool.relations
        PROVE  \/ x[1] = Temp /\ t.temp
               \/ x[1] \in Schemas /\ aa[x[1]] # "none"
    <3>1. \/ x[1] = Temp /\ tool.temp
          \/ x[1] \in Schemas /\ a[x[1]] # "none"
      BY <1>0, <1>1 DEF Overlays
    <3>2. QED
      BY <1>a, <1>11, <3>1
  <2>2. QED
    BY <1>0, <1>3, <1>4, <1>6, <1>10, <2>1 DEF Overlays
<1>14. ToolInv(t)
  <2>1. Placed(t)
    <3>1. \A x \in Live(c) : x[1] \in Known(tool)
      BY <1>1 DEF ToolInv, Placed
    <3>2. Known(tool) \subseteq Known(t)
      BY <1>1, <1>10, <1>11 DEF Known
    <3>3. QED
      BY <1>12, <3>1, <3>2 DEF Placed
  <2>2. WellFormed(c) /\ Fit(c)
    BY <1>1 DEF ToolInv
  <2>3. QED
    BY <1>8, <1>12, <1>13, <2>1, <2>2 DEF ToolInv
<1>15. ServerOk(v)
  <2>1. v = [schemas |-> v.schemas, rels |-> v.rels, temp |-> v.temp]
    BY <1>5, <1>9
  <2>2. \A x \in DOMAIN f : /\ x = <<x[1], x[2]>> /\ f[x].kind # "dropped"
                            /\ x[1] \in e \/ (x[1] = Temp /\ g)
    BY <1>7 DEF Agreement, ServerOk
  <2>3. e \subseteq Schemas
    BY <1>7 DEF Agreement, ServerOk
  <2>4. QED
    BY <1>9, <2>1, <2>2, <2>3 DEF ServerOk
<1>16. \A m \in Schemas : t.schemas[m] = "present" => m \in v.schemas
  BY <1>1, <1>7, <1>9, <1>10, <1>11 DEF Agreement
<1>17. ASSUME NEW m \in v.schemas
       PROVE  t.schemas[m] = "present" \/ InDoubt(t, m)
  <2>1. CASE m = n
    BY <1>10, <1>11, <2>1
  <2>2. CASE m # n
    <3>1. m \in e /\ m \in Schemas
      BY <1>7, <1>9, <2>2 DEF Agreement, ServerOk
    <3>2. a[m] = "present" \/ InDoubt(tool, m)
      BY <1>1, <1>7, <3>1 DEF Agreement
    <3>3. aa[m] = a[m]
      BY <1>11, <2>2, <3>1
    <3>4. QED
      BY <1>1, <1>10, <3>2, <3>3 DEF InDoubt
  <2>3. QED
    BY <2>1, <2>2
<1>18. ASSUME NEW x \in DOMAIN Namespace(t) \cup DOMAIN v.rels, x[1] \in Known(t)
       PROVE  At(Namespace(t), x) = At(v.rels, x)
  <2>1. CASE x[1] = n
    <3>1. x \notin Live(c) /\ x \notin DOMAIN f
      BY <1>1, <1>7, <2>1, NothingInAbsent
    <3>2. x \notin Live(f)
      BY <3>1 DEF Live
    <3>3. QED
      BY <1>9, <1>12, <3>1, <3>2, AtLive
  <2>2. CASE x[1] # n
    <3>1. x[1] \in Known(tool)
      BY <1>1, <1>10, <1>11, <1>18, <2>2 DEF Known
    <3>2. QED
      BY <1>1, <1>7, <1>9, <1>12, <3>1, KnownAt
  <2>3. QED
    BY <2>1, <2>2
<1>19. QED
  BY <1>14, <1>15, <1>16, <1>17, <1>18 DEF Agreement

(* What goes with the schema is what is in it, where no alias is confused. *)
LEMMA SchemaDroppedIs ==
    ASSUME ToolInv(tool), NEW n \in Schemas, NEW gone, gone = Within(Namespace(tool), n), ~Confused(gone),
           NEW u, u = SchemaDropped(tool, n)
    PROVE  /\ Overlays(u)
           /\ \A x : /\ x \in Live(Namespace(u)) <=> x \in Live(Namespace(tool)) /\ x \notin gone
                     /\ At(Namespace(u), x) = IF x \in gone THEN Tombstone ELSE At(Namespace(tool), x)
<1>1. PICK t : t = tool
  OBVIOUS
<1>2. PICK m, r, q, i : m = Namespace(t) /\ r = t.relations /\ q = t.sequences /\ i = t.indexes
  OBVIOUS
<1>3. ToolOk(t) /\ Overlays(t) /\ WellFormed(m) /\ u = SchemaDropped(t, n)
  BY <1>1, <1>2 DEF ToolInv
<1>4. \A x : /\ x \in Live(m) <=> x \in Live(r) \/ x \in Live(q) \/ x \in DOMAIN i
             /\ x \in Live(r) => m[x] = Table
             /\ x \in Live(q) => m[x] = q[x]
             /\ x \in DOMAIN i => m[x] = i[x]
  BY <1>2, <1>3, NamespaceAt
<1>5. \A x \in Live(m) : /\ x \in gone => Resolved(t, x) = x
                         /\ Resolved(t, x) \in gone => Resolved(t, x) = x
  BY <1>1, <1>2, NotConfused
<1>6. \A x : x \in gone <=> x \in Live(m) /\ x[1] = n
  BY <1>1, <1>2 DEF Within
<1>7. /\ \A x \in DOMAIN r : \/ x[1] = Temp /\ t.temp
                             \/ x[1] \in Schemas /\ t.schemas[x[1]] # "none"
      /\ \A x \in Live(r) : r[x] = Table /\ x \notin Live(q) /\ x \notin DOMAIN i
      /\ \A x \in Live(q) : q[x].kind = "sequence" /\ x \notin DOMAIN i
      /\ \A x \in DOMAIN i : i[x].kind = "index"
  BY <1>2, <1>3 DEF Overlays
<1>8. \A x \in Live(q) : q[x].of \in Live(m) /\ q[x].of[1] = x[1]
  <2> SUFFICES ASSUME NEW x \in Live(q) PROVE q[x].of \in Live(m) /\ q[x].of[1] = x[1]
    OBVIOUS
  <2>1. x \in Live(m) /\ m[x] = q[x] /\ q[x] # Table
    BY <1>4, <1>7, Kinds
  <2>2. PICK kind, of : of \in Live(m) /\ m[x] = Object(kind, of) /\ of[1] = x[1]
    BY <1>3, <2>1 DEF WellFormed
  <2>3. QED
    BY <2>1, <2>2, Kinds
<1>9. \A x \in DOMAIN i : i[x].of \in Live(m) /\ i[x].of[1] = x[1]
  <2> SUFFICES ASSUME NEW x \in DOMAIN i PROVE i[x].of \in Live(m) /\ i[x].of[1] = x[1]
    OBVIOUS
  <2>1. x \in Live(m) /\ m[x] = i[x] /\ i[x] # Table
    BY <1>4, <1>7, Kinds
  <2>2. PICK kind, of : of \in Live(m) /\ m[x] = Object(kind, of) /\ of[1] = x[1]
    BY <1>3, <2>1 DEF WellFormed
  <2>3. QED
    BY <2>1, <2>2, Kinds
<1>10. PICK all : all = all_dropped(t, n)
  OBVIOUS
<1>11. \A x : x \in all <=> x \in Live(r) /\ x[1] = n
  <2>1. \A x : x \in Within(r, n) <=> x \in Live(r) /\ x[1] = n
    BY DEF Within
  <2>2. all = {Resolved(t, x) : x \in Within(r, n)}
    BY <1>2, <1>10 DEF all_dropped
  <2>3. \A x \in Within(r, n) : Resolved(t, x) = x
    BY <1>4, <1>5, <1>6, <2>1
  <2>4. all = Within(r, n)
    BY <2>2, <2>3
  <2>5. QED
    BY <2>1, <2>4
<1>12. \A x \in all : x \in gone
  BY <1>4, <1>6, <1>11
<1>13. \A x \in Live(m) : Resolved(t, x) \in all => x[1] = n
  BY <1>5, <1>6, <1>12
<1>14. \A x \in dropped_indexes(t, n) : x \in gone
  <2> SUFFICES ASSUME NEW y \in DOMAIN i, Resolved(t, i[y].of) \in all
               PROVE  Resolved(t, y) \in gone
    BY <1>2, <1>10 DEF dropped_indexes
  <2>1. y[1] = n
    BY <1>9, <1>13
  <2>2. y \in gone
    BY <1>4, <1>6, <2>1
  <2>3. QED
    BY <1>4, <1>5, <2>2
<1>15. PICK r2, q2, i2 : r2 = u.relations /\ q2 = u.sequences /\ i2 = u.indexes
  OBVIOUS
<1>16. r2 = Bury(r, all \cap Live(r))
  BY <1>2, <1>3, <1>10, <1>15, SchemaDroppedFields
<1>17. q2 = Bury(q, SequencesGone(t, n))
  BY <1>2, <1>3, <1>15, SchemaDroppedFields
<1>18. i2 = Without(i, IndexesGone(t, n))
  BY <1>2, <1>3, <1>15, SchemaDroppedFields
<1>19. u.schemas = Marked(t.schemas, n, "dropped")
  BY <1>3, SchemaDroppedFields
<1>20. u.temp = t.temp
  BY <1>3, SchemaDroppedFields
<1>21. Shrinks(r, r2, gone)
  <2>1. \A x : /\ x \in Live(r2) <=> x \in Live(r) /\ x \notin all \cap Live(r)
               /\ x \in DOMAIN r2 <=> x \in DOMAIN r
               /\ x \in Live(r) /\ x \notin all \cap Live(r) => r2[x] = r[x]
    BY <1>16, LiveBury
  <2>2. \A x \in Live(r) : x \in all <=> x \in gone
    BY <1>4, <1>6, <1>11
  <2>3. QED
    BY <2>1, <2>2 DEF Shrinks
<1>22. Shrinks(q, q2, gone)
  <2>1. \A x \in Live(q) : x \in SequencesGone(t, n) <=> x[1] = n
    BY <1>2, <1>8, <1>10, <1>13 DEF SequencesGone
  <2>2. \A x : /\ x \in Live(q2) <=> x \in Live(q) /\ x \notin SequencesGone(t, n)
               /\ x \in DOMAIN q2 <=> x \in DOMAIN q
               /\ x \in Live(q) /\ x \notin SequencesGone(t, n) => q2[x] = q[x]
    BY <1>17, LiveBury
  <2>3. \A x \in Live(q) : x \in gone <=> x[1] = n
    BY <1>4, <1>6
  <2>4. QED
    BY <2>1, <2>2, <2>3 DEF Shrinks
<1>23. Shrinks(i, i2, gone) /\ DOMAIN i2 = Live(i2)
  <2>1. \A x \in DOMAIN i : GoesWith(t, n, x, i[x].of) <=> x[1] = n
    <3> SUFFICES ASSUME NEW x \in DOMAIN i
                 PROVE  GoesWith(t, n, x, i[x].of) <=> x[1] = n
      OBVIOUS
    <3>1. x \in Live(m) /\ i[x].of \in Live(m) /\ i[x].of[1] = x[1]
      BY <1>4, <1>9
    <3>2. Resolved(t, x) \in all \cup dropped_indexes(t, n) => x[1] = n
      BY <1>5, <1>6, <1>12, <1>14, <3>1
    <3>3. Resolved(t, i[x].of) \in all => x[1] = n
      BY <1>13, <3>1
    <3>4. n \in {x[1], i[x].of[1]} <=> x[1] = n
      BY <3>1
    <3>5. QED
      BY <1>10, <3>2, <3>3, <3>4 DEF GoesWith
  <2>2. \A x \in DOMAIN i : x \in IndexesGone(t, n) <=> x \in gone
    BY <1>2, <1>4, <1>6, <2>1 DEF IndexesGone
  <2>3. \A x : /\ x \in Live(i2) <=> x \in Live(i) /\ x \notin IndexesGone(t, n)
               /\ x \in DOMAIN i2 <=> x \in DOMAIN i /\ x \notin IndexesGone(t, n)
               /\ x \in DOMAIN i2 => i2[x] = i[x]
    BY <1>18, LiveRestrict
  <2>4. Live(i) = DOMAIN i
    BY <1>7 DEF Live
  <2>5. QED
    BY <2>2, <2>3, <2>4 DEF Shrinks
<1>24. \A x \in DOMAIN r2 : \/ x[1] = Temp /\ u.temp
                            \/ x[1] \in Schemas /\ u.schemas[x[1]] # "none"
  <2>1. PICK a, aa : a = t.schemas /\ aa = Marked(a, n, "dropped")
    OBVIOUS
  <2>2. aa[n] = "dropped" /\ \A k \in Schemas : k # n => aa[k] = a[k]
    BY <1>3, <2>1 DEF ToolOk, Marked
  <2>3. DOMAIN r2 \subseteq DOMAIN r
    BY <1>21 DEF Shrinks
  <2>4. QED
    BY <1>7, <1>19, <1>20, <2>1, <2>2, <2>3
<1>25. /\ Shrinks(t.relations, u.relations, gone) /\ Shrinks(t.sequences, u.sequences, gone)
       /\ Shrinks(t.indexes, u.indexes, gone) /\ DOMAIN u.indexes = Live(u.indexes)
  BY <1>2, <1>15, <1>21, <1>22, <1>23
<1>26. QED
  BY <1>1, <1>3, <1>15, <1>24, <1>25, ShrunkIs

(* DROP SCHEMA ... CASCADE.                                                *)
LEMMA DroppedSchemaAgrees ==
    ASSUME ToolInv(tool), Agreement(tool, server), NEW n \in Schemas,
           NEW gone, gone = Within(Namespace(tool), n), ~Confused(gone),
           NEW lost, lost = Within(server.rels, n),
           NEW t, t = SchemaDropped(tool, n),
           NEW v, v = [schemas |-> v.schemas, rels |-> v.rels, temp |-> server.temp],
           v.schemas = server.schemas \ {n},
           v.rels = Without(server.rels, lost)
    PROVE  ToolInv(t) /\ Agreement(t, v)
<1>0. ToolOk(tool) /\ Overlays(tool)
  BY DEF ToolInv
<1>1. PICK a, c : a = tool.schemas /\ c = Namespace(tool)
  OBVIOUS
<1>2. PICK e, f, g : e = server.schemas /\ f = server.rels /\ g = server.temp
  OBVIOUS
<1>4. server.schemas = e /\ server.rels = f /\ server.temp = g
  BY <1>2
<1>5. PICK aa, r, o : aa = Marked(a, n, "dropped") /\ r = Namespace(t) /\ o = Without(f, lost)
  OBVIOUS
<1>6. ToolOk(t)
  BY <1>0, SchemaDroppedFields
<1>7. v.temp = server.temp
  OBVIOUS
<1>8. t.schemas = aa /\ t.scope = tool.scope
  <2>1. t.schemas = Marked(tool.schemas, n, "dropped")
    BY <1>0, SchemaDroppedFields
  <2>2. t.scope = tool.scope
    BY <1>0, SchemaDroppedFields
  <2>3. QED
    BY <1>1, <1>5, <2>1, <2>2
<1>9. v.schemas = e \ {n} /\ v.rels = o /\ v.temp = g
  BY <1>4, <1>5, <1>7, Zenon
<1>11. aa[n] = "dropped" /\ \A m \in Schemas : m # n => aa[m] = a[m]
  BY <1>0, <1>1, <1>5 DEF ToolOk, Marked
<1>a. /\ Overlays(t)
      /\ \A x : /\ x \in Live(r) <=> x \in Live(c) /\ x \notin gone
                /\ At(r, x) = IF x \in gone THEN Tombstone ELSE At(c, x)
  BY <1>1, <1>5, SchemaDroppedIs
<1>12. \A x : /\ x \in Live(r) <=> x \in Live(c) /\ x \notin gone
              /\ x \in DOMAIN r => x \in DOMAIN c
              /\ At(r, x) = IF x \in gone THEN Tombstone ELSE At(c, x)
  <2>1. DOMAIN r = Live(r) /\ DOMAIN c = Live(c)
    BY <1>0, <1>1, <1>5, <1>a, NamespaceAt
  <2>2. QED
    BY <1>a, <2>1
<1>13. \A x : /\ x \in Live(o) <=> x \in Live(f) /\ x \notin lost
              /\ x \in DOMAIN o <=> x \in DOMAIN f /\ x \notin lost
              /\ At(o, x) = IF x \in lost THEN Tombstone ELSE At(f, x)
  <2>1. o = Without(f, lost)
    BY <1>5, Zenon
  <2>2. QED
    BY <2>1, LiveRestrict
<1>14. \A x : /\ x \in gone <=> x \in Live(c) /\ x[1] = n
              /\ x \in lost <=> x \in Live(f) /\ x[1] = n
  BY <1>1, <1>4 DEF Within
<1>15. \A x \in Live(r) : x \in Live(c) /\ x[1] # n /\ r[x] = c[x]
  BY <1>12, <1>14, AtLive
<1>16. WellFormed(r)
  <2>1. WellFormed(c)
    BY <1>1 DEF ToolInv
  <2>2. \A x \in DOMAIN r : x = <<x[1], x[2]>>
    BY <1>12, <2>1 DEF WellFormed
  <2>3. ASSUME NEW x \in Live(r)
        PROVE  \/ r[x] = Table
               \/ \E kind \in {"sequence", "index"}, of \in Live(r) :
                     r[x] = Object(kind, of) /\ r[of] = Table /\ of[1] = x[1]
    <3>1. \/ c[x] = Table
          \/ \E kind \in {"sequence", "index"}, of \in Live(c) :
                c[x] = Object(kind, of) /\ c[of] = Table /\ of[1] = x[1]
      BY <1>15, <2>1 DEF WellFormed
    <3>2. ASSUME NEW of \in Live(c), of[1] = x[1]
          PROVE  of \in Live(r) /\ r[of] = c[of]
      <4>1. of \in Live(r)
        BY <1>12, <1>14, <1>15, <3>2
      <4>2. QED
        BY <1>15, <4>1
    <3>3. QED
      BY <1>15, <3>1, <3>2
  <2>4. QED
    BY <2>2, <2>3 DEF WellFormed
<1>17. Fit(r)
  BY <1>1, <1>15 DEF ToolInv, Fit
<1>19. Placed(t)
  <2>1. ASSUME NEW x \in Live(r)
        PROVE  x[1] \in Known(t)
    <3>1. x[1] = Temp \/ (x[1] \in Schemas /\ a[x[1]] = "present")
      BY <1>1, <1>15, KnownSchema DEF Known
    <3>2. QED
      BY <1>8, <1>11, <1>15, <3>1 DEF Known
  <2>2. QED
    BY <1>5, <2>1 DEF Placed
<1>20. ToolInv(t)
  BY <1>5, <1>6, <1>a, <1>16, <1>17, <1>19 DEF ToolInv
<1>21. ServerOk(v)
  <2>1. v = [schemas |-> v.schemas, rels |-> v.rels, temp |-> v.temp]
    BY <1>7, Zenon
  <2>2. \A x \in DOMAIN f : /\ x = <<x[1], x[2]>> /\ x \in Live(f)
                            /\ x[1] \in e \/ (x[1] = Temp /\ g)
    BY <1>4 DEF Agreement, ServerOk, Live
  <2>3. e \subseteq Schemas
    BY <1>4 DEF Agreement, ServerOk
  <2>4. \A x \in DOMAIN o : /\ x = <<x[1], x[2]>> /\ o[x].kind # "dropped"
                            /\ x[1] \in e \ {n} \/ (x[1] = Temp /\ g)
    <3>1. \A x \in DOMAIN o : x \in DOMAIN f /\ x[1] # n /\ x \in Live(o)
      BY <1>13, <1>14, <2>2
    <3>2. QED
      BY <2>2, <3>1 DEF Live
  <2>5. QED
    BY <1>9, <2>1, <2>3, <2>4 DEF ServerOk
<1>22. \A m \in Schemas : t.schemas[m] = "present" => m \in v.schemas
  BY <1>1, <1>4, <1>8, <1>9, <1>11 DEF Agreement
<1>23. ASSUME NEW m \in v.schemas
       PROVE  t.schemas[m] = "present" \/ InDoubt(t, m)
  <2>1. m \in e /\ m \in Schemas /\ m # n
    BY <1>4, <1>9 DEF Agreement, ServerOk
  <2>2. a[m] = "present" \/ InDoubt(tool, m)
    BY <1>1, <1>4, <2>1 DEF Agreement
  <2>3. aa[m] = a[m]
    BY <1>11, <2>1
  <2>4. QED
    BY <1>1, <1>8, <2>2, <2>3 DEF InDoubt
<1>24. ASSUME NEW x \in DOMAIN Namespace(t) \cup DOMAIN v.rels, x[1] \in Known(t)
       PROVE  At(Namespace(t), x) = At(v.rels, x)
  <2>1. x[1] # n
    <3>1. n # Temp
      BY NamesAssumption DEF Temp
    <3>2. QED
      BY <1>8, <1>11, <1>24, <3>1 DEF Known
  <2>2. x[1] \in Known(tool)
    BY <1>1, <1>8, <1>11, <1>24, <2>1 DEF Known
  <2>3. At(c, x) = At(f, x)
    BY <1>1, <1>4, <2>2, KnownAt
  <2>4. x \notin gone /\ x \notin lost
    BY <1>14, <2>1
  <2>5. QED
    BY <1>5, <1>9, <1>12, <1>13, <2>3, <2>4
<1>25. QED
  BY <1>20, <1>21, <1>22, <1>23, <1>24 DEF Agreement

(* RENAME of a schema: what is in it gets the identities of the new name.  *)
NotIn(rels, new) == \A x \in DOMAIN rels : x = <<x[1], x[2]>> /\ x[1] # new

LEMMA RenamedPlaces ==
    ASSUME NEW rels, NEW old, NEW new, old # new, NotIn(rels, new),
           NEW w, w = Remapped(rels, old, new, {})
    PROVE  /\ \A y \in DOMAIN w : \E x \in DOMAIN rels : y = Renamed(x, old, new)
           /\ \A x \in DOMAIN rels :
                 /\ Renamed(x, old, new) \in DOMAIN w
                 /\ w[Renamed(x, old, new)] = Object(rels[x].kind, Renamed(rels[x].of, old, new))
                 /\ Renamed(x, old, new) \in Live(w) <=> x \in Live(rels)
<1>1. \A x \in DOMAIN rels : x = <<x[1], x[2]>> /\ x[1] # new
  BY DEF NotIn
<1>2. DOMAIN w = {Renamed(x, old, new) : x \in DOMAIN rels}
  BY <1>1, RemappedAt
<1>3. \A x \in DOMAIN rels :
         w[Renamed(x, old, new)] = Object(rels[x].kind, Renamed(rels[x].of, old, new))
  BY <1>1, RemappedAt
<1>4. \A x \in DOMAIN rels : w[Renamed(x, old, new)].kind = rels[x].kind
  BY <1>3, Kinds
<1>5. \A x \in DOMAIN rels : Renamed(x, old, new) \in DOMAIN w
  BY <1>2
<1>6. \A x \in DOMAIN rels : Renamed(x, old, new) \in Live(w) <=> x \in Live(rels)
  BY <1>4, <1>5 DEF Live
<1>7. QED
  BY <1>2, <1>3, <1>5, <1>6

LEMMA RenamedPair ==
    ASSUME NEW x, x = <<x[1], x[2]>>, NEW old, NEW new
    PROVE  /\ Renamed(x, old, new) = <<Renamed(x, old, new)[1], Renamed(x, old, new)[2]>>
           /\ Renamed(x, old, new)[2] = x[2]
           /\ x[1] = old => Renamed(x, old, new)[1] = new
           /\ x[1] # old => Renamed(x, old, new) = x
<1>1. x # <<>>
  OBVIOUS
<1>2. CASE x[1] = old
  <2>1. Renamed(x, old, new) = <<new, x[2]>>
    BY <1>1, <1>2 DEF Renamed
  <2>2. <<new, x[2]>>[1] = new /\ <<new, x[2]>>[2] = x[2]
    OBVIOUS
  <2>3. QED
    BY <1>2, <2>1, <2>2, Zenon
<1>3. CASE x[1] # old
  <2>1. Renamed(x, old, new) = x
    BY <1>3 DEF Renamed
  <2>2. QED
    BY <1>3, <2>1, Zenon
<1>4. QED
  BY <1>2, <1>3

LEMMA AtRenamed ==
    ASSUME NEW rels, NEW old, NEW new, old # new, NotIn(rels, new),
           NEW w, w = Remapped(rels, old, new, {}), NEW x, x = <<x[1], x[2]>>, x[1] # new
    PROVE  At(w, Renamed(x, old, new))
              = IF x \in Live(rels) THEN Object(rels[x].kind, Renamed(rels[x].of, old, new)) ELSE Tombstone
<1> DEFINE y == Renamed(x, old, new)
<1>1. CASE x \in DOMAIN rels
  <2>1. /\ w[y] = Object(rels[x].kind, Renamed(rels[x].of, old, new))
        /\ y \in Live(w) <=> x \in Live(rels)
    BY <1>1, RenamedPlaces
  <2> HIDE DEF y
  <2>2. At(w, y) = IF x \in Live(rels) THEN Object(rels[x].kind, Renamed(rels[x].of, old, new)) ELSE Tombstone
    BY <2>1 DEF At
  <2>3. QED
    BY <2>2 DEF y
<1>2. CASE x \notin DOMAIN rels
  <2>1. y \notin DOMAIN w
    <3> SUFFICES ASSUME y \in DOMAIN w
                 PROVE  FALSE
      OBVIOUS
    <3>1. PICK z \in DOMAIN rels : y = Renamed(z, old, new)
      BY RenamedPlaces
    <3>2. PICK ids : ids = DOMAIN rels \cup {x}
      OBVIOUS
    <3>3. x \in ids /\ z \in ids /\ \A u \in ids : u = <<u[1], u[2]>> /\ u[1] # new
      BY <3>2 DEF NotIn
    <3>4. z = x
      BY <3>1, <3>3, RenamedIsInjective
    <3>5. QED
      BY <1>2, <3>4
  <2>2. y \notin Live(w) /\ x \notin Live(rels)
    BY <1>2, <2>1 DEF Live
  <2> HIDE DEF y
  <2>3. At(w, y) = Tombstone
    BY <2>2, AtLive
  <2>4. QED
    BY <2>2, <2>3 DEF y
<1>3. QED
  BY <1>1, <1>2

LEMMA RenamedWell ==
    ASSUME NEW rels, NEW old, NEW new, old # new, NotIn(rels, new), WellFormed(rels), Fit(rels),
           NEW w, w = Remapped(rels, old, new, {})
    PROVE  WellFormed(w) /\ Fit(w)
<1>1. \A x \in DOMAIN rels : x = <<x[1], x[2]>>
  BY DEF WellFormed
<1>2. \A y \in DOMAIN w : \E x \in DOMAIN rels : y = Renamed(x, old, new)
  BY RenamedPlaces
<1>3. \A x \in DOMAIN rels :
         /\ w[Renamed(x, old, new)] = Object(rels[x].kind, Renamed(rels[x].of, old, new))
         /\ Renamed(x, old, new) \in Live(w) <=> x \in Live(rels)
  BY RenamedPlaces
<1>4. \A y \in Live(w) : \E x \in Live(rels) : y = Renamed(x, old, new)
  <2> SUFFICES ASSUME NEW y \in Live(w)
               PROVE  \E x \in Live(rels) : y = Renamed(x, old, new)
    OBVIOUS
  <2>1. y \in DOMAIN w
    BY DEF Live
  <2>2. PICK x \in DOMAIN rels : y = Renamed(x, old, new)
    BY <1>2, <2>1
  <2>3. QED
    BY <1>3, <2>2
<1>5. \A x \in Live(rels) : x \in DOMAIN rels
  BY DEF Live
<1>6. \A x \in Live(rels) : rels[x] = Table => w[Renamed(x, old, new)] = Table
  <2> SUFFICES ASSUME NEW x \in Live(rels), rels[x] = Table
               PROVE  w[Renamed(x, old, new)] = Table
    OBVIOUS
  <2>1. rels[x].kind = "table" /\ rels[x].of = <<>>
    BY Kinds
  <2>2. Renamed(<<>>, old, new) = <<>>
    BY DEF Renamed
  <2>3. w[Renamed(x, old, new)] = Object("table", <<>>)
    BY <1>3, <1>5, <2>1, <2>2
  <2>4. QED
    BY <2>3 DEF Table
<1>7. ASSUME NEW y \in Live(w)
      PROVE  \/ w[y] = Table
             \/ \E kind \in {"sequence", "index"}, of \in Live(w) :
                   w[y] = Object(kind, of) /\ w[of] = Table /\ of[1] = y[1]
  <2>1. PICK x \in Live(rels) : y = Renamed(x, old, new)
    BY <1>4
  <2>2. CASE rels[x] = Table
    BY <1>6, <2>1, <2>2
  <2>3. CASE rels[x] # Table
    <3>1. PICK kind \in {"sequence", "index"}, of \in Live(rels) :
             rels[x] = Object(kind, of) /\ rels[of] = Table /\ of[1] = x[1]
      BY <2>3 DEF WellFormed
    <3>2. rels[x].kind = kind /\ rels[x].of = of
      BY <3>1, Kinds
    <3>3. PICK z : z = Renamed(of, old, new)
      OBVIOUS
    <3>4. w[y] = Object(kind, z)
      BY <1>3, <1>5, <2>1, <3>2, <3>3
    <3>5. z \in Live(w) /\ w[z] = Table
      BY <1>3, <1>5, <1>6, <3>1, <3>3
    <3>6. z[1] = y[1]
      <4>1. of = <<of[1], of[2]>> /\ x = <<x[1], x[2]>>
        BY <1>1, <1>5
      <4>2. CASE x[1] = old
        BY <2>1, <3>1, <3>3, <4>1, <4>2, RenamedPair
      <4>3. CASE x[1] # old
        BY <2>1, <3>1, <3>3, <4>1, <4>3, RenamedPair
      <4>4. QED
        BY <4>2, <4>3
    <3>7. QED
      BY <3>4, <3>5, <3>6
  <2>4. QED
    BY <2>2, <2>3
<1>8. \A y \in DOMAIN w : y = <<y[1], y[2]>>
  <2> SUFFICES ASSUME NEW y \in DOMAIN w
               PROVE  y = <<y[1], y[2]>>
    OBVIOUS
  <2>1. PICK x \in DOMAIN rels : y = Renamed(x, old, new)
    BY <1>2
  <2>2. x = <<x[1], x[2]>>
    BY <1>1
  <2>3. QED
    BY <2>1, <2>2, RenamedPair
<1>9. ASSUME NEW y \in Live(w), w[y].kind # "table"
      PROVE  Bytes(y[2]) <= MaxIdentifierBytes
  <2>1. PICK x \in Live(rels) : y = Renamed(x, old, new)
    BY <1>4
  <2>2. w[y].kind = rels[x].kind
    BY <1>3, <1>5, <2>1, Kinds
  <2>3. y[2] = x[2]
    BY <1>1, <1>5, <2>1, RenamedPair
  <2>4. QED
    BY <1>9, <2>2, <2>3 DEF Fit
<1>10. QED
  BY <1>7, <1>8, <1>9 DEF WellFormed, Fit

(* An overlay whose entries under the new name are tombstones.             *)
LEMMA RemappedLive ==
    ASSUME NEW rels, NEW old, NEW new, old # new, \A x \in DOMAIN rels : x = <<x[1], x[2]>>,
           \A x \in Live(rels) : x[1] # new, NEW w, w = Remapped(rels, old, new, {})
    PROVE  /\ \A y \in DOMAIN w : \E x \in DOMAIN rels : y = Renamed(x, old, new)
           /\ \A y \in Live(w) : \E x \in Live(rels) : y = Renamed(x, old, new)
           /\ \A x \in Live(rels) :
                 /\ Renamed(x, old, new) \in Live(w)
                 /\ w[Renamed(x, old, new)] = Object(rels[x].kind, Renamed(rels[x].of, old, new))
<1> DEFINE Source(y) == IF y[1] = new /\ <<old, y[2]>> \in DOMAIN rels THEN <<old, y[2]>> ELSE y
           entry(x) == Object(rels[x].kind, Renamed(rels[x].of, old, new))
           id(x) == Renamed(x, old, new)
<1>1. w = [y \in {id(x) : x \in DOMAIN rels} |-> entry(Source(y))]
  BY DEF Remapped
<1>2. ASSUME NEW x \in DOMAIN rels, x[1] # new
      PROVE  Source(id(x)) = x
  <2>1. x = <<x[1], x[2]>> /\ x # <<>>
    OBVIOUS
  <2>2. CASE x[1] = old
    <3>1. id(x) = <<new, x[2]>>
      BY <2>1, <2>2 DEF Renamed
    <3>2. <<old, x[2]>> = x
      BY <2>1, <2>2, Zenon
    <3>3. QED
      BY <3>1, <3>2
  <2>3. CASE x[1] # old
    <3>1. id(x) = x
      BY <2>3 DEF Renamed
    <3>2. QED
      BY <1>2, <2>1, <3>1
  <2>4. QED
    BY <2>2, <2>3
<1>3. ASSUME NEW x \in DOMAIN rels, x[1] = new, Source(x) # x
      PROVE  \E z \in DOMAIN rels : z[1] # new /\ Source(x) = z /\ id(z) = x
  <2>1. x = <<new, x[2]>> /\ <<old, x[2]>> \in DOMAIN rels /\ Source(x) = <<old, x[2]>>
    BY <1>3
  <2>2. <<old, x[2]>>[1] = old /\ <<old, x[2]>> # <<>> /\ <<old, x[2]>>[2] = x[2]
    OBVIOUS
  <2>3. id(<<old, x[2]>>) = <<new, x[2]>>
    BY <2>2 DEF Renamed
  <2>4. QED
    BY <2>1, <2>2, <2>3
<1>4. ASSUME NEW x \in DOMAIN rels, x[1] = new
      PROVE  id(x) = x
  BY <1>4 DEF Renamed
<1> HIDE DEF Source, entry, id
<1>5. /\ DOMAIN w = {id(x) : x \in DOMAIN rels}
      /\ \A y \in DOMAIN w : w[y] = entry(Source(y))
  BY <1>1
<1>6. \A x : entry(x).kind = rels[x].kind
  BY Kinds DEF entry
<1>7. ASSUME NEW y \in Live(w)
      PROVE  \E x \in Live(rels) : y = id(x)
  <2>1. y \in DOMAIN w /\ w[y].kind # "dropped"
    BY <1>7 DEF Live
  <2>2. PICK x \in DOMAIN rels : y = id(x)
    BY <1>5, <2>1
  <2>3. rels[Source(y)].kind # "dropped"
    BY <1>5, <1>6, <2>1
  <2>4. CASE x[1] # new
    <3>1. rels[x].kind # "dropped"
      BY <1>2, <2>2, <2>3, <2>4
    <3>2. QED
      BY <2>2, <3>1 DEF Live
  <2>5. CASE x[1] = new
    <3>1. y = x
      BY <1>4, <2>2, <2>5
    <3>2. rels[x].kind = "dropped"
      BY <2>5 DEF Live
    <3>3. Source(x) # x
      BY <2>3, <3>1, <3>2
    <3>4. PICK z \in DOMAIN rels : Source(x) = z /\ id(z) = x
      BY <1>3, <2>5, <3>3
    <3>5. QED
      BY <2>3, <3>1, <3>4 DEF Live
  <2>6. QED
    BY <2>4, <2>5
<1>8. ASSUME NEW x \in Live(rels)
      PROVE  id(x) \in Live(w) /\ w[id(x)] = entry(x)
  <2>1. x \in DOMAIN rels /\ x[1] # new /\ rels[x].kind # "dropped"
    BY <1>8 DEF Live
  <2>2. id(x) \in DOMAIN w /\ w[id(x)] = entry(x)
    BY <1>2, <1>5, <2>1
  <2>3. QED
    BY <1>6, <2>1, <2>2 DEF Live
<1>9. QED
  BY <1>5, <1>7, <1>8 DEF id, entry

LEMMA NothingKept ==
    ASSUME NEW t, ToolOk(t), NEW old, NEW new, NEW kept, kept.relations = {}, kept.sequences = {},
           NEW u, u = SchemaRenamed(t, old, new, kept)
    PROVE  /\ u.relations = Remapped(t.relations, old, new, {})
           /\ u.sequences = Remapped(t.sequences, old, new, {})
<1>1. PICK a, b, c, d, e, f, g :
         /\ t = [schemas |-> a, scope |-> b, relations |-> c, sequences |-> d, indexes |-> e,
                 aliases |-> f, temp |-> g]
         /\ t.schemas = a /\ t.scope = b /\ t.relations = c /\ t.sequences = d
         /\ t.indexes = e /\ t.aliases = f /\ t.temp = g
  BY ToolIsRecord
<1>2. PICK aa, bb, r, q, i, l :
         /\ aa = [a EXCEPT ![old] = "dropped", ![new] = "present"]
         /\ bb = (IF old \in b /\ b # All THEN (b \ {old}) \cup {new} ELSE b)
         /\ r = Remapped(c, old, new, {}) /\ q = Remapped(d, old, new, {})
         /\ i = Remapped(e, old, new, {}) /\ l = Realiased(t, old, new)
  OBVIOUS
<1>3. u = [t EXCEPT !.schemas = aa, !.scope = bb, !.relations = r, !.sequences = q, !.indexes = i, !.aliases = l]
  BY <1>1, <1>2 DEF SchemaRenamed
<1>4. u = [schemas |-> aa, scope |-> bb, relations |-> r, sequences |-> q, indexes |-> i, aliases |-> l, temp |-> g]
  BY <1>1, <1>3
<1>5. u.relations = r /\ u.sequences = q
  BY <1>4
<1>6. QED
  BY <1>1, <1>2, <1>5

(* Renaming the overlays renames the namespace, where no object of an      *)
(* earlier schema of that name is left.                                    *)
LEMMA RenamedIs ==
    ASSUME ToolInv(tool), NEW old \in Schemas, NEW new \in Schemas, old # new,
           \A x \in Live(Namespace(tool)) : x[1] # new,
           NEW kept, kept.relations = {}, kept.sequences = {},
           NEW u, u = SchemaRenamed(tool, old, new, kept)
    PROVE  Overlays(u) /\ Namespace(u) = Remapped(Namespace(tool), old, new, {})
<1> DEFINE id(x) == Renamed(x, old, new)
<1>1. PICK m, r, q, i : m = Namespace(tool) /\ r = tool.relations /\ q = tool.sequences /\ i = tool.indexes
  OBVIOUS
<1>2. PICK r2, q2, i2 : r2 = u.relations /\ q2 = u.sequences /\ i2 = u.indexes
  OBVIOUS
<1>3. ToolOk(tool) /\ Overlays(tool) /\ WellFormed(m)
  BY <1>1 DEF ToolInv
<1>4. r2 = Remapped(r, old, new, {})
  BY <1>1, <1>2, <1>3, NothingKept
<1>5. q2 = Remapped(q, old, new, {})
  BY <1>1, <1>2, <1>3, NothingKept
<1>6. i2 = Remapped(i, old, new, {})
  BY <1>1, <1>2, <1>3, SchemaRenamedFields
<1>7. u.temp = tool.temp
  BY <1>3, SchemaRenamedFields
<1>8. u.schemas = Marked(Marked(tool.schemas, old, "dropped"), new, "present")
  BY <1>3, SchemaRenamedFields
<1>9. /\ DOMAIN m = Live(m)
      /\ \A x : /\ x \in Live(m) <=> x \in Live(r) \/ x \in Live(q) \/ x \in DOMAIN i
                /\ x \in Live(r) => m[x] = Table
                /\ x \in Live(q) => m[x] = q[x]
                /\ x \in DOMAIN i => m[x] = i[x]
  BY <1>1, <1>3, NamespaceAt
<1>10. /\ \A x \in DOMAIN r : x = <<x[1], x[2]>>
       /\ \A x \in DOMAIN q : x = <<x[1], x[2]>>
       /\ \A x \in DOMAIN i : x = <<x[1], x[2]>>
       /\ \A x \in DOMAIN r : \/ x[1] = Temp /\ tool.temp
                              \/ x[1] \in Schemas /\ tool.schemas[x[1]] # "none"
       /\ \A x \in Live(r) : r[x] = Table /\ x \notin Live(q) /\ x \notin DOMAIN i
       /\ \A x \in Live(q) : q[x].kind = "sequence" /\ x \notin DOMAIN i
       /\ \A x \in DOMAIN i : i[x].kind = "index"
  BY <1>1, <1>3 DEF Overlays
<1>11. DOMAIN i = Live(i)
  BY <1>10 DEF Live
<1>12. \A x \in Live(m) : x \in DOMAIN m /\ x = <<x[1], x[2]>> /\ x[1] # new
  BY <1>1, <1>3, <1>9 DEF WellFormed
<1>13. \A x \in Live(m), y \in Live(m) : id(x) = id(y) => x = y
  <2> SUFFICES ASSUME NEW x \in Live(m), NEW y \in Live(m), id(x) = id(y)
               PROVE  x = y
    OBVIOUS
  <2>1. QED
    BY <1>12, RenamedIsInjective
<1> HIDE DEF id
<1>14. /\ \A y \in DOMAIN r2 : \E x \in DOMAIN r : y = id(x)
       /\ \A y \in Live(r2) : \E x \in Live(r) : y = id(x)
       /\ \A x \in Live(r) : id(x) \in Live(r2) /\ r2[id(x)] = Object(r[x].kind, Renamed(r[x].of, old, new))
  BY <1>4, <1>9, <1>10, <1>12, RemappedLive DEF id
<1>15. /\ \A y \in DOMAIN q2 : \E x \in DOMAIN q : y = id(x)
       /\ \A y \in Live(q2) : \E x \in Live(q) : y = id(x)
       /\ \A x \in Live(q) : id(x) \in Live(q2) /\ q2[id(x)] = Object(q[x].kind, Renamed(q[x].of, old, new))
  BY <1>5, <1>9, <1>10, <1>12, RemappedLive DEF id
<1>16. /\ \A y \in DOMAIN i2 : \E x \in DOMAIN i : y = id(x)
       /\ \A y \in Live(i2) : \E x \in Live(i) : y = id(x)
       /\ \A x \in Live(i) : id(x) \in Live(i2) /\ i2[id(x)] = Object(i[x].kind, Renamed(i[x].of, old, new))
  BY <1>6, <1>9, <1>10, <1>11, <1>12, RemappedLive DEF id
<1>17. DOMAIN i2 = Live(i2)
  BY <1>11, <1>16 DEF Live
<1>18. \A x : x = <<x[1], x[2]>> =>
          /\ id(x) = <<id(x)[1], id(x)[2]>>
          /\ x[1] = old => id(x)[1] = new
          /\ x[1] # old => id(x) = x
  BY RenamedPair DEF id
<1>19. \A x \in Live(r) : r2[id(x)] = Table
  <2> SUFFICES ASSUME NEW x \in Live(r) PROVE r2[id(x)] = Table
    OBVIOUS
  <2>1. r[x].kind = "table" /\ r[x].of = <<>>
    BY <1>10, Kinds
  <2>2. Renamed(<<>>, old, new) = <<>>
    BY DEF Renamed
  <2>3. QED
    BY <1>14, <2>1, <2>2 DEF Table
<1>20. Overlays(u)
  <2>1. \A y \in DOMAIN r2 \cup DOMAIN q2 \cup DOMAIN i2 : y = <<y[1], y[2]>>
    BY <1>10, <1>14, <1>15, <1>16, <1>18
  <2>2. ASSUME NEW y \in DOMAIN r2
        PROVE  \/ y[1] = Temp /\ tool.temp
               \/ y[1] \in Schemas /\ u.schemas[y[1]] # "none"
    <3>1. PICK a, b : a = tool.schemas /\ b = u.schemas
      OBVIOUS
    <3>2. /\ b[new] = "present" /\ b[old] = "dropped"
          /\ \A k \in Schemas : k # old /\ k # new => b[k] = a[k]
      BY <1>3, <1>8, <3>1 DEF ToolOk, Marked
    <3>3. PICK x \in DOMAIN r : y = id(x)
      BY <1>14
    <3>4. CASE x[1] = old
      BY <1>10, <1>18, <3>1, <3>2, <3>3, <3>4
    <3>5. CASE x[1] # old
      <4>1. y = x
        BY <1>10, <1>18, <3>3, <3>5
      <4>2. QED
        BY <1>10, <3>1, <3>2, <3>5, <4>1
    <3>6. QED
      BY <3>4, <3>5
  <2>3. ASSUME NEW y \in Live(r2)
        PROVE  r2[y] = Table /\ y \notin Live(q2) /\ y \notin DOMAIN i2
    <3>1. PICK x \in Live(r) : y = id(x)
      BY <1>14
    <3>2. x \in Live(m)
      BY <1>9
    <3>3. y \notin Live(q2)
      <4> SUFFICES ASSUME y \in Live(q2) PROVE FALSE
        OBVIOUS
      <4>1. PICK z \in Live(q) : y = id(z)
        BY <1>15
      <4>2. z = x
        BY <1>9, <1>13, <3>1, <3>2, <4>1
      <4>3. QED
        BY <1>10, <4>2
    <3>4. y \notin DOMAIN i2
      <4> SUFFICES ASSUME y \in DOMAIN i2 PROVE FALSE
        OBVIOUS
      <4>1. PICK z \in DOMAIN i : y = id(z)
        BY <1>16
      <4>2. z = x
        BY <1>9, <1>13, <3>1, <3>2, <4>1
      <4>3. QED
        BY <1>10, <4>2
    <3>5. QED
      BY <1>19, <3>1, <3>3, <3>4
  <2>4. ASSUME NEW y \in Live(q2)
        PROVE  q2[y].kind = "sequence" /\ y \notin DOMAIN i2
    <3>1. PICK x \in Live(q) : y = id(x)
      BY <1>15
    <3>0. x \in Live(m)
      BY <1>9
    <3>2. q2[y].kind = "sequence"
      BY <1>10, <1>15, <3>1, Kinds
    <3>3. y \notin DOMAIN i2
      <4> SUFFICES ASSUME y \in DOMAIN i2 PROVE FALSE
        OBVIOUS
      <4>1. PICK z \in DOMAIN i : y = id(z)
        BY <1>16
      <4>0. z \in Live(m)
        BY <1>9
      <4>2. z = x
        BY <1>13, <3>1, <3>0, <4>0, <4>1
      <4>3. QED
        BY <1>10, <4>2
    <3>4. QED
      BY <3>2, <3>3
  <2>5. ASSUME NEW y \in DOMAIN i2
        PROVE  i2[y].kind = "index"
    <3>1. PICK x \in DOMAIN i : y = id(x)
      BY <1>16
    <3>2. QED
      BY <1>10, <1>11, <1>16, <3>1, Kinds
  <2>6. QED
    BY <1>2, <1>7, <2>1, <2>2, <2>3, <2>4, <2>5 DEF Overlays
<1>21. PICK mu, w : mu = Namespace(u) /\ w = Remapped(m, old, new, {})
  OBVIOUS
<1>22. /\ DOMAIN mu = Live(mu) /\ mu = [x \in Live(mu) |-> mu[x]]
       /\ \A x : /\ x \in Live(mu) <=> x \in Live(r2) \/ x \in Live(q2) \/ x \in DOMAIN i2
                 /\ x \in Live(r2) => mu[x] = Table
                 /\ x \in Live(q2) => mu[x] = q2[x]
                 /\ x \in DOMAIN i2 => mu[x] = i2[x]
  BY <1>2, <1>20, <1>21, NamespaceAt
<1>23. /\ \A y \in DOMAIN w : \E x \in DOMAIN m : y = id(x)
       /\ \A x \in DOMAIN m :
             id(x) \in DOMAIN w /\ w[id(x)] = Object(m[x].kind, Renamed(m[x].of, old, new))
  <2>1. NotIn(m, new)
    BY <1>9, <1>12 DEF NotIn
  <2>2. w = Remapped(m, old, new, {})
    BY <1>21
  <2>3. QED
    BY <2>1, <2>2, RenamedPlaces DEF id
<1>24. w = [y \in DOMAIN w |-> w[y]]
  BY <1>21 DEF Remapped
<1>25. ASSUME NEW x \in DOMAIN m
       PROVE  id(x) \in Live(mu) /\ mu[id(x)] = w[id(x)]
  <2>1. CASE x \in Live(r)
    <3>1. w[id(x)] = Object("table", Renamed(<<>>, old, new))
      BY <1>9, <1>23, <2>1, Kinds
    <3>2. Renamed(<<>>, old, new) = <<>>
      BY DEF Renamed
    <3>3. w[id(x)] = Table
      BY <3>1, <3>2 DEF Table
    <3>4. QED
      BY <1>14, <1>22, <2>1, <3>3
  <2>2. CASE x \in Live(q)
    BY <1>9, <1>15, <1>22, <1>23, <2>2
  <2>3. CASE x \in DOMAIN i
    BY <1>9, <1>11, <1>16, <1>17, <1>22, <1>23, <2>3
  <2>4. QED
    BY <1>9, <2>1, <2>2, <2>3
<1>26. ASSUME NEW y \in DOMAIN mu
       PROVE  y \in DOMAIN w
  <2>1. PICK x \in Live(m) : y = id(x)
    BY <1>9, <1>11, <1>14, <1>15, <1>16, <1>17, <1>22
  <2>2. x \in DOMAIN m
    BY <1>9
  <2>3. QED
    BY <1>23, <2>1, <2>2
<1>27. DOMAIN mu = DOMAIN w
  <2>1. ASSUME NEW y \in DOMAIN w
        PROVE  y \in DOMAIN mu
    <3>1. PICK x \in DOMAIN m : y = id(x)
      BY <1>23
    <3>2. QED
      BY <1>22, <1>25, <3>1
  <2>2. QED
    BY <1>26, <2>1
<1>28. \A y \in DOMAIN w : mu[y] = w[y]
  BY <1>23, <1>25
<1>29. mu = w
  BY <1>22, <1>24, <1>27, <1>28
<1>30. QED
  BY <1>1, <1>20, <1>21, <1>29

(* ALTER SCHEMA ... RENAME.                                                *)
LEMMA RenamedSchemaAgrees ==
    ASSUME ToolInv(tool), Agreement(tool, server), NEW old \in Schemas, NEW new \in Schemas, old # new,
           tool.schemas[old] = "present", tool.schemas[new] # "present", new \notin server.schemas,
           NEW kept, kept.relations = {}, kept.sequences = {},
           NEW t, t = SchemaRenamed(tool, old, new, kept),
           NEW v, v = [schemas |-> v.schemas, rels |-> v.rels, temp |-> server.temp],
           v.schemas = (server.schemas \ {old}) \cup {new}, v.rels = Remapped(server.rels, old, new, {})
    PROVE  ToolInv(t) /\ Agreement(t, v)
<1>0. ToolOk(tool) /\ Overlays(tool)
  BY DEF ToolInv
<1>1. PICK a, b, c : a = tool.schemas /\ b = tool.scope /\ c = Namespace(tool)
  OBVIOUS
<1>2. PICK e, f, g : e = server.schemas /\ f = server.rels /\ g = server.temp
  OBVIOUS
<1>3. tool.schemas = a /\ tool.scope = b /\ Namespace(tool) = c
  BY <1>1
<1>4. server.schemas = e /\ server.rels = f /\ server.temp = g
  BY <1>2
<1>a. \A x \in Live(c) : x \in DOMAIN c /\ x = <<x[1], x[2]>> /\ x[1] # new
  <2> SUFFICES ASSUME NEW x \in Live(c)
               PROVE  x \in DOMAIN c /\ x = <<x[1], x[2]>> /\ x[1] # new
    OBVIOUS
  <2>1. x \in DOMAIN c /\ x = <<x[1], x[2]>>
    BY <1>3, KnownSchema
  <2>2. x[1] # new
    BY <1>3, NothingInAbsent
  <2>3. QED
    BY <2>1, <2>2
<1>b. Overlays(t) /\ Namespace(t) = Remapped(c, old, new, {})
  BY <1>3, <1>a, RenamedIs
<1>c. ToolOk(t)
  BY <1>0, SchemaRenamedFields
<1>5. PICK aa, bb, r, o : /\ aa = t.schemas /\ bb = t.scope
                          /\ r = Remapped(c, old, new, {}) /\ o = Remapped(f, old, new, {})
  OBVIOUS
<1>7. v.temp = server.temp
  OBVIOUS
<1>8. t.schemas = aa /\ t.scope = bb /\ Namespace(t) = r
  BY <1>5, <1>b
<1>9. v.schemas = (e \ {old}) \cup {new} /\ v.rels = o /\ v.temp = g
  BY <1>4, <1>5, <1>7, Zenon
<1>10. a \in [Schemas -> {"present", "none", "dropped"}] /\ (b = All \/ b \subseteq Schemas)
  BY <1>3 DEF ToolInv, ToolOk
<1>11. /\ aa[old] = "dropped" /\ aa[new] = "present"
       /\ \A m \in Schemas : m # old /\ m # new => aa[m] = a[m]
  <2>1. t.schemas = Marked(Marked(tool.schemas, old, "dropped"), new, "present")
    BY <1>0, SchemaRenamedFields
  <2>2. QED
    BY <1>1, <1>5, <1>10, <2>1 DEF Marked
<1>12. \A m : m # new /\ m \notin b => m \notin bb
  <2>1. old \in b /\ b # All => bb = (b \ {old}) \cup {new}
    <3>1. old \in tool.scope /\ tool.scope # All => t.scope = (tool.scope \ {old}) \cup {new}
      BY <1>0, SchemaRenamedFields
    <3>2. QED
      BY <1>3, <1>5, <3>1
  <2>2. ~(old \in b /\ b # All) => bb = b
    <3>1. ~(old \in tool.scope /\ tool.scope # All) => t.scope = tool.scope
      BY <1>0, SchemaRenamedFields
    <3>2. QED
      BY <1>3, <1>5, <3>1
  <2>3. QED
    BY <2>1, <2>2
<1>13. old # Temp /\ new # Temp
  BY NamesAssumption DEF Temp
<1>14. NotIn(c, new)
  <2>1. DOMAIN c = Live(c)
    BY <1>0, <1>3, NamespaceAt
  <2>2. QED
    BY <1>a, <2>1 DEF NotIn
<1>15. \A x \in DOMAIN f : /\ x = <<x[1], x[2]>> /\ x \in Live(f)
                           /\ x[1] \in e \/ (x[1] = Temp /\ g)
  BY <1>4 DEF Agreement, ServerOk, Live
<1>16. NotIn(f, new)
  <2>1. \A x \in DOMAIN f : x[1] # new
    BY <1>4, <1>13, <1>15
  <2>2. QED
    BY <1>15, <2>1 DEF NotIn
<1>17. WellFormed(r) /\ Fit(r)
  BY <1>3, <1>5, <1>14, RenamedWell DEF ToolInv
<1>18. \A y \in DOMAIN r : \E x \in DOMAIN c : y = Renamed(x, old, new)
  BY <1>5, <1>14, RenamedPlaces
<1>19. \A x \in DOMAIN c : Renamed(x, old, new) \in Live(r) <=> x \in Live(c)
  BY <1>5, <1>14, RenamedPlaces
<1>20. \A y \in DOMAIN o : \E x \in DOMAIN f : y = Renamed(x, old, new)
  BY <1>5, <1>16, RenamedPlaces
<1>21. \A x \in DOMAIN f : Renamed(x, old, new) \in Live(o) <=> x \in Live(f)
  BY <1>5, <1>16, RenamedPlaces
<1>23. Placed(t)
  <2>1. ASSUME NEW y \in Live(r)
        PROVE  y[1] = Temp \/ (y[1] \in Schemas /\ aa[y[1]] = "present")
    <3>0. y \in DOMAIN r
      BY DEF Live
    <3>1. PICK x \in DOMAIN c : y = Renamed(x, old, new)
      BY <1>18, <3>0
    <3>2. x = <<x[1], x[2]>> /\ x[1] # new
      BY <1>14 DEF NotIn
    <3>3. x \in Live(c)
      BY <1>19, <3>1
    <3>4. x[1] = Temp \/ (x[1] \in Schemas /\ a[x[1]] = "present")
      BY <1>3, <3>3 DEF ToolInv, Placed, Known
    <3>5. CASE x[1] = old
      <4>1. y[1] = new
        BY <3>1, <3>2, <3>5, RenamedPair
      <4>2. QED
        BY <1>11, <4>1
    <3>6. CASE x[1] # old
      <4>1. y = x
        BY <3>1, <3>2, <3>6, RenamedPair
      <4>2. QED
        BY <1>11, <3>2, <3>4, <3>6, <4>1
    <3>7. QED
      BY <3>5, <3>6
  <2>2. \A y \in Live(r) : y[1] \in Known(t)
    BY <1>8, <2>1 DEF Known
  <2>3. QED
    BY <1>8, <2>2 DEF Placed
<1>24. ToolInv(t)
  BY <1>8, <1>17, <1>23, <1>b, <1>c DEF ToolInv
<1>25. ServerOk(v)
  <2>1. v = [schemas |-> v.schemas, rels |-> v.rels, temp |-> v.temp]
    BY <1>7, Zenon
  <2>2. e \subseteq Schemas
    BY <1>4 DEF Agreement, ServerOk
  <2>3. ASSUME NEW y \in DOMAIN o
        PROVE  /\ y = <<y[1], y[2]>> /\ o[y].kind # "dropped"
               /\ y[1] \in (e \ {old}) \cup {new} \/ (y[1] = Temp /\ g)
    <3>1. PICK x \in DOMAIN f : y = Renamed(x, old, new)
      BY <1>20
    <3>2. x = <<x[1], x[2]>> /\ x \in Live(f) /\ (x[1] \in e \/ (x[1] = Temp /\ g))
      BY <1>15
    <3>3. y \in Live(o)
      BY <1>21, <3>1, <3>2
    <3>4. o[y].kind # "dropped"
      BY <3>3 DEF Live
    <3>5. y = <<y[1], y[2]>> /\ (x[1] = old => y[1] = new) /\ (x[1] # old => y = x)
      BY <3>1, <3>2, RenamedPair
    <3>6. y[1] \in (e \ {old}) \cup {new} \/ (y[1] = Temp /\ g)
      <4>1. CASE x[1] = old
        BY <3>5, <4>1
      <4>2. CASE x[1] # old
        BY <3>2, <3>5, <4>2
      <4>3. QED
        BY <4>1, <4>2
    <3>7. QED
      BY <3>4, <3>5, <3>6
  <2>4. QED
    BY <1>9, <2>1, <2>2, <2>3 DEF ServerOk
<1>26. ASSUME NEW m \in Schemas, t.schemas[m] = "present"
       PROVE  m \in v.schemas
  <2>1. CASE m = new
    BY <1>9, <2>1
  <2>2. CASE m # new
    <3>1. m # old
      BY <1>8, <1>11, <1>26
    <3>2. a[m] = "present"
      BY <1>8, <1>11, <1>26, <2>2, <3>1
    <3>3. m \in e
      BY <1>3, <1>4, <3>2 DEF Agreement
    <3>4. QED
      BY <1>9, <3>1, <3>3
  <2>3. QED
    BY <2>1, <2>2
<1>27. ASSUME NEW m \in v.schemas
       PROVE  t.schemas[m] = "present" \/ InDoubt(t, m)
  <2>1. CASE m = new
    BY <1>8, <1>11, <2>1
  <2>2. CASE m # new
    <3>1. m \in e /\ m \in Schemas /\ m # old
      BY <1>4, <1>9, <2>2 DEF Agreement, ServerOk
    <3>2. a[m] = "present" \/ InDoubt(tool, m)
      BY <1>3, <1>4, <3>1 DEF Agreement
    <3>3. aa[m] = a[m]
      BY <1>11, <2>2, <3>1
    <3>4. QED
      BY <1>3, <1>8, <1>12, <2>2, <3>2, <3>3 DEF InDoubt
  <2>3. QED
    BY <2>1, <2>2
<1>28. ASSUME NEW y \in DOMAIN Namespace(t) \cup DOMAIN v.rels, y[1] \in Known(t)
       PROVE  At(Namespace(t), y) = At(v.rels, y)
  <2>1. PICK x \in DOMAIN c \cup DOMAIN f : y = Renamed(x, old, new)
    BY <1>8, <1>9, <1>18, <1>20
  <2>2. x = <<x[1], x[2]>> /\ x[1] # new
    BY <1>14, <1>16 DEF NotIn
  <2>3. x[1] \in Known(tool)
    <3>1. CASE x[1] = old
      BY <3>1 DEF Known
    <3>2. CASE x[1] # old
      <4>1. y = x
        BY <2>1, <2>2, <3>2, RenamedPair
      <4>2. x[1] = Temp \/ (x[1] \in Schemas /\ aa[x[1]] = "present")
        BY <1>8, <1>28, <4>1 DEF Known
      <4>3. QED
        BY <1>3, <1>11, <2>2, <3>2, <4>2 DEF Known
    <3>3. QED
      BY <3>1, <3>2
  <2>4. /\ x \in Live(c) <=> x \in Live(f)
        /\ x \in Live(c) => c[x] = f[x]
    <3>1. /\ x \in Live(c) <=> x \in DOMAIN f
          /\ x \in Live(f) <=> x \in DOMAIN f
          /\ x \in Live(c) => f[x] = c[x]
      BY <1>3, <1>4, <2>3, KnownAt
    <3>2. QED
      BY <3>1
  <2>5. At(r, y) = IF x \in Live(c) THEN Object(c[x].kind, Renamed(c[x].of, old, new)) ELSE Tombstone
    BY <1>5, <1>14, <2>1, <2>2, AtRenamed
  <2>6. At(o, y) = IF x \in Live(f) THEN Object(f[x].kind, Renamed(f[x].of, old, new)) ELSE Tombstone
    BY <1>5, <1>16, <2>1, <2>2, AtRenamed
  <2>7. QED
    BY <1>8, <1>9, <2>4, <2>5, <2>6
<1>29. QED
  BY <1>24, <1>25, <1>26, <1>27, <1>28 DEF Agreement

LEMMA InvariantMoves ==
    ASSUME NEW t, NEW v, ToolInv(t), Agreement(t, v), tool' = t, server' = v, UNCHANGED existing
    PROVE  ToolInv(tool)' /\ Agreement(tool, server)'
<1>1. ToolInv(tool)'
  BY DEF ToolInv, ToolOk, Overlays, Namespace, WellFormed, Fit, Placed, Known
<1>2. \A n : InDoubt(tool, n)' <=> InDoubt(t, n)
  BY DEF InDoubt, schema_did_not_exist_at_sync
<1>3. Known(tool)' = Known(t)
  BY DEF Known
<1>4. ServerOk(server)'
  BY DEF Agreement, ServerOk
<1>5. Agreement(tool, server)'
  BY <1>2, <1>3, <1>4 DEF Agreement, Namespace
<1>6. QED
  BY <1>1, <1>5

(* What a statement must bring: what is applied is applied by the server,  *)
(* to the same object and with the same effect, and what is refused or     *)
(* skipped is refused or skipped there, unless it is one of the exceptions.*)
LEMMA StatementAgrees ==
    ASSUME NameInv, answer = "agreed",
           NEW verdict \in {"ok", "conflict", "skip", "unresolved"}, NEW outcome, NEW id,
           NEW excuse, excuse # "agreed", NEW doubt, doubt # "wrong",
           NEW effect, NEW change, Statement(verdict, outcome, id, excuse, doubt, effect, change),
           template' \in Paths,
           verdict = "ok" => outcome = Done(id) \/ excuse # "wrong",
           verdict = "ok" /\ outcome = Done(id) /\ doubt = "agreed" =>
               ToolInv(effect) /\ Agreement(effect, change),
           verdict = "conflict" => excuse # "wrong" \/ outcome = Error,
           verdict = "skip" => excuse # "wrong" \/ outcome = Nothing
    PROVE  NameInv'
<1>1. /\ answer' = IF verdict = "unresolved" THEN "unresolved"
                   ELSE IF Agrees(verdict, outcome, id)
                   THEN IF verdict = "ok" THEN doubt ELSE "agreed"
                   ELSE excuse
      /\ tool' = IF verdict = "ok" THEN effect ELSE tool
      /\ server' = IF outcome.result = "ok" THEN change ELSE server
      /\ UNCHANGED existing
  BY DEF Statement
<1>2. ToolInv(tool) /\ Agreement(tool, server)
  BY DEF NameInv
<1>3. Done(id).result = "ok" /\ Error.result = "error" /\ Nothing.result = "skip"
  BY DEF Done, Error, Nothing
<1>4. SUFFICES /\ answer' # "wrong"
               /\ answer' = "agreed" => ToolInv(tool)' /\ Agreement(tool, server)'
  BY DEF NameInv, AnswersAreRight
<1>5. CASE verdict = "unresolved"
  BY <1>1, <1>5
<1>6. CASE verdict # "unresolved" /\ ~Agrees(verdict, outcome, id)
  <2>1. answer' = excuse
    BY <1>1, <1>6
  <2>2. verdict = "ok" => outcome # Done(id)
    BY <1>6 DEF Agrees
  <2>3. verdict = "conflict" => outcome # Error
    BY <1>3, <1>6 DEF Agrees
  <2>4. verdict = "skip" => outcome # Nothing
    BY <1>3, <1>6 DEF Agrees
  <2>5. excuse # "wrong"
    BY <1>6, <2>2, <2>3, <2>4
  <2>6. QED
    BY <2>1, <2>5
<1>7. CASE verdict = "ok" /\ Agrees(verdict, outcome, id)
  <2>1. answer' = doubt /\ outcome = Done(id)
    BY <1>1, <1>7 DEF Agrees
  <2>2. tool' = effect /\ server' = change
    BY <1>1, <1>3, <1>7, <2>1
  <2>3. CASE doubt = "agreed"
    <3>1. ToolInv(effect) /\ Agreement(effect, change)
      BY <1>7, <2>1, <2>3
    <3>2. ToolInv(tool)' /\ Agreement(tool, server)'
      BY <1>1, <2>2, <3>1, InvariantMoves
    <3>3. QED
      BY <2>1, <2>3, <3>2
  <2>4. CASE doubt # "agreed"
    BY <2>1, <2>4
  <2>5. QED
    BY <2>3, <2>4
<1>8. CASE verdict \in {"conflict", "skip"} /\ Agrees(verdict, outcome, id)
  <2>1. answer' = "agreed" /\ tool' = tool
    BY <1>1, <1>8
  <2>2. outcome.result # "ok"
    BY <1>8 DEF Agrees
  <2>3. server' = server
    BY <1>1, <2>2
  <2>4. PICK t, v : t = tool /\ v = server
    OBVIOUS
  <2>5. ToolInv(tool)' /\ Agreement(tool, server)'
    BY <1>1, <1>2, <2>1, <2>3, <2>4, InvariantMoves
  <2>6. QED
    BY <2>1, <2>5
<1>9. QED
  BY <1>5, <1>6, <1>7, <1>8

LEMMA SetPathAgrees ==
    ASSUME NameInv, answer = "agreed", NEW p \in Paths, SetPath(p)
    PROVE  NameInv'
<1>1. Statement("ok", Done(<<>>), <<>>, "wrong", "agreed", tool, server) /\ template' \in Paths
  BY DEF SetPath
<1>2. ToolInv(tool) /\ Agreement(tool, server)
  BY DEF NameInv
<1>3. PICK t, v, d : t = tool /\ v = server /\ d = Done(<<>>)
  OBVIOUS
<1>4. Statement("ok", d, <<>>, "wrong", "agreed", t, v) /\ d = Done(<<>>) /\ ToolInv(t) /\ Agreement(t, v)
  BY <1>1, <1>2, <1>3
<1>5. QED
  BY <1>1, <1>4, StatementAgrees

LEMMA CreationInSchemas ==
    ASSUME template \in Paths
    PROVE  creation_schema \in Schemas \cup {""}
<1>1. DOMAIN search_path = DOMAIN template /\ DOMAIN search_path \subseteq Nat
  BY Places
<1>2. \A i \in DOMAIN search_path : search_path[i].name \in Schemas \cup {""}
  <2> SUFFICES ASSUME NEW i \in DOMAIN search_path
               PROVE  search_path[i].name \in Schemas \cup {""}
    OBVIOUS
  <2>1. template[i] \in Schemas /\ search_path[i] \in {PathEntry(template[i]), NoEntry}
    BY <1>1, Places
  <2>2. PathEntry(template[i]) \in {Searched(template[i]), NoEntry, Unresolved(template[i])}
    BY DEF PathEntry
  <2>3. /\ Searched(template[i]).name = template[i] /\ Unresolved(template[i]).name = template[i]
        /\ NoEntry.name = ""
    BY DEF Searched, Unresolved, NoEntry
  <2>4. QED
    BY <2>1, <2>2, <2>3
<1>3. PICK path : path = search_path
  OBVIOUS
<1> DEFINE found == {i \in DOMAIN path : path[i].searched}
           at == IF found = {} THEN Entries(path) ELSE found
<1>4. at \in SUBSET DOMAIN path
  BY DEF Entries
<1>5. creation_schema = NameAt(path, at)
  BY <1>3 DEF creation_schema
<1> HIDE DEF at
<1>6. QED
  BY <1>1, <1>2, <1>3, <1>4, <1>5, NameAtIsThere

LEMMA CreationTarget ==
    ASSUME ToolInv(tool), Agreement(tool, server), template \in Paths, NEW ref \in Refs,
           NEW r, r = resolve_creation_name(ref), ensure_creation_target(r) = "ok"
    PROVE  /\ r.id = <<r.id[1], r.id[2]>> /\ r.id[1] \in Schemas /\ r.id[2] \in Tables
           /\ tool.schemas[r.id[1]] = "present" /\ r.id[1] \in Known(tool)
<1>1. /\ ref = <<ref[1], ref[2]>> /\ ref[1] \in Schemas \cup {""} /\ ref[2] \in Tables
  BY RefIsPair
<1>2. creation_schema \in Schemas \cup {""}
  BY CreationInSchemas
<1>3. PICK n \in Schemas \cup {""} : r.id = <<n, ref[2]>>
  <2>1. CASE ref[1] # ""
    <3>1. r.id = ref
      BY <2>1 DEF resolve_creation_name
    <3>2. QED
      BY <1>1, <3>1
  <2>2. CASE ref[1] = ""
    <3>1. r.id = <<creation_schema, ref[2]>>
      BY <2>2 DEF resolve_creation_name
    <3>2. QED
      BY <1>2, <3>1
  <2>3. QED
    BY <2>1, <2>2
<1>4. r.id[1] = n /\ r.id[2] = ref[2]
  <2>1. PICK p, m : p = r.id /\ m = ref[2]
    OBVIOUS
  <2>2. p = <<n, m>>
    BY <1>3, <2>1
  <2>3. p[1] = n /\ p[2] = m
    BY <2>2
  <2>4. QED
    BY <2>1, <2>3
<1>5. n # Temp
  BY NamesAssumption DEF Temp
<1>6. schema_lookup(n) = "present"
  BY <1>4, <1>5, TargetSays
<1>7. n \in Schemas /\ tool.schemas[n] = "present"
  BY <1>6 DEF schema_lookup
<1>8. QED
  BY <1>1, <1>3, <1>4, <1>7 DEF Known

(* Where the names generated for a table avoid its own, the server's do.   *)
LEMMA NeverSelfNamed ==
    ASSUME ToolInv(tool), Agreement(tool, server), NEW id, id[1] \in Known(tool), id[2] \in Tables,
           NEW s \in Shapes, NEW names, names = next_implicit_sequence_ids(Namespace(tool), id, s.cols),
           id[2] \notin Range(names)
    PROVE  ~ServerSelfNamed(server.rels, id, s.cols)
<1>1. PICK taken : taken = NamesIn(Namespace(tool), id[1])
  OBVIOUS
<1>2. NamesIn(server.rels, id[1]) = taken
  BY <1>1, SameNames
<1>3. names = InTurn(SequenceLists(Generated, id[2], s.cols), taken)
  BY <1>1 DEF next_implicit_sequence_ids
<1>4. names = InTurn(SequenceLists(Expected, id[2], s.cols), taken)
  BY <1>3, SequencesPicked
<1>5. QED
  BY <1>2, <1>4 DEF ServerSelfNamed

LEMMA CreateTableAgrees ==
    ASSUME NameInv, answer = "agreed", NEW ref \in Refs, NEW s \in Shapes, CreateTable(ref, s.cols, s.key)
    PROVE  NameInv'
<1>1. PICK r, on, target : /\ r = resolve_creation_name(ref)
                           /\ on = ServerTarget(ref) /\ target = ensure_creation_target(r)
  OBVIOUS
<1>2. ToolInv(tool) /\ Agreement(tool, server) /\ template \in Paths
  BY DEF NameInv
<1>3. PICK verdict, outcome, selfnamed, effect, change :
         /\ verdict = IF target = "ok" /\ IsTaken(Namespace(tool), r.id) THEN "conflict" ELSE target
         /\ outcome = IF on = <<>> \/ IsTaken(server.rels, on) \/ ServerSelfNamed(server.rels, on, s.cols)
                      THEN Error ELSE Done(on)
         /\ selfnamed = (verdict = "ok" /\ r.id[2] \in PartNames(Namespace(tool), r.id, s.cols, s.key))
         /\ effect = Created(tool, r.id, s.cols, s.key)
         /\ change = [server EXCEPT !.rels = ServerCreated(@, on, s.cols, s.key)]
  OBVIOUS
<1>4. PICK excuse, doubt : excuse = (IF selfnamed THEN "self-named" ELSE "wrong")
                           /\ doubt = (IF selfnamed THEN "self-named" ELSE "agreed")
  OBVIOUS
<1>5. /\ verdict = "ok" => NoName \notin PartNames(Namespace(tool), r.id, s.cols, s.key)
      /\ Statement(verdict, outcome, r.id, excuse, doubt, effect, change)
      /\ template' = template
  BY <1>1, <1>3, <1>4 DEF CreateTable
<1>6. /\ target \in {"ok", "unresolved", "conflict"}
      /\ target = "ok" => on = r.id /\ on # <<>>
      /\ target = "conflict" => on = <<>>
  BY <1>1, <1>2, CreationAgrees
<1>7. ASSUME target = "ok"
      PROVE  /\ r.id = <<r.id[1], r.id[2]>> /\ r.id[1] \in Schemas /\ r.id[2] \in Tables
             /\ tool.schemas[r.id[1]] = "present" /\ r.id[1] \in Known(tool)
  BY <1>1, <1>2, <1>7, CreationTarget
<1>8. ASSUME target = "ok"
      PROVE  IsTaken(Namespace(tool), r.id) <=> IsTaken(server.rels, on)
  <2>1. r.id \in Live(Namespace(tool)) <=> r.id \in Live(server.rels)
    BY <1>2, <1>7, <1>8, KnownAt
  <2>2. QED
    BY <1>6, <1>8, <2>1 DEF IsTaken
<1>9. verdict \in {"ok", "conflict", "unresolved"}
  BY <1>3, <1>6
<1>10. verdict = "conflict" => outcome = Error
  BY <1>3, <1>6, <1>8
<1>11. ASSUME verdict = "ok", ~selfnamed
       PROVE  outcome = Done(r.id) /\ ToolInv(effect) /\ Agreement(effect, change)
  <2>1. target = "ok" /\ ~IsTaken(Namespace(tool), r.id)
    BY <1>3, <1>6, <1>11
  <2>2. PICK id, parts, names :
           /\ id = r.id /\ parts = PartNames(Namespace(tool), id, s.cols, s.key)
           /\ names = next_implicit_sequence_ids(Namespace(tool), id, s.cols)
    OBVIOUS
  <2>3. /\ id = <<id[1], id[2]>> /\ id[1] \in Schemas /\ id[2] \in Tables /\ id \notin Live(Namespace(tool))
        /\ tool.schemas[id[1]] = "present" /\ id[1] \in Known(tool)
    BY <1>7, <2>1, <2>2 DEF IsTaken
  <2>4. id[2] \notin parts /\ NoName \notin parts
    BY <1>3, <1>5, <1>11, <2>2
  <2>5. ~SelfNamed(Namespace(tool), id, s.cols, s.key)
    BY <2>2, <2>4 DEF SelfNamed
  <2>6. id[2] \notin Range(names)
    BY <2>2, <2>4 DEF PartNames
  <2>7. ~ServerSelfNamed(server.rels, id, s.cols)
    BY <1>2, <2>2, <2>3, <2>6, NeverSelfNamed
  <2>8. outcome = Done(r.id)
    BY <1>3, <1>6, <1>8, <2>1, <2>2, <2>7
  <2>9. effect = Created(tool, id, s.cols, s.key)
    BY <1>3, <2>2
  <2>10. change = [server EXCEPT !.rels = ServerCreated(server.rels, id, s.cols, s.key)]
    BY <1>2, <1>3, <1>6, <2>1, <2>2 DEF Agreement, ServerOk
  <2>11. ToolInv(effect) /\ Agreement(effect, change)
    BY <1>2, <2>3, <2>5, <2>9, <2>10, TableCreated
  <2>12. QED
    BY <2>8, <2>11
<1>12. PICK id : id = r.id
  OBVIOUS
<1>13. Statement(verdict, outcome, id, excuse, doubt, effect, change) /\ template' \in Paths
  BY <1>2, <1>5, <1>12
<1>14. /\ excuse # "agreed" /\ doubt # "wrong"
       /\ excuse = "wrong" => ~selfnamed
       /\ doubt = "agreed" => ~selfnamed
  BY <1>4
<1>15. verdict = "ok" => outcome = Done(id) \/ excuse # "wrong"
  BY <1>11, <1>12, <1>14
<1>16. verdict = "ok" /\ outcome = Done(id) /\ doubt = "agreed" => ToolInv(effect) /\ Agreement(effect, change)
  BY <1>11, <1>14
<1>17. verdict \in {"ok", "conflict", "skip", "unresolved"} /\ verdict # "skip"
  BY <1>9
<1>18. QED
  BY <1>10, <1>13, <1>14, <1>15, <1>16, <1>17, StatementAgrees

LEMMA CreateTempTableAgrees ==
    ASSUME NameInv, answer = "agreed", NEW n, CreateTempTable(n)
    PROVE  NameInv'
<1>1. PICK id : id = <<Temp, n>>
  OBVIOUS
<1>2. ToolInv(tool) /\ Agreement(tool, server) /\ template \in Paths
  BY DEF NameInv
<1>3. PICK verdict, outcome, effect, change :
         /\ verdict = IF IsTaken(Namespace(tool), id) THEN "conflict" ELSE "ok"
         /\ outcome = IF IsTaken(server.rels, id) THEN Error ELSE Done(id)
         /\ effect = TempCreated(tool, id)
         /\ change = [server EXCEPT !.rels = With(@, id, Object("table", <<>>)), !.temp = TRUE]
  OBVIOUS
<1>4. Statement(verdict, outcome, id, "wrong", "agreed", effect, change) /\ template' = template
  BY <1>1, <1>3 DEF CreateTempTable
<1>5. IsTaken(Namespace(tool), id) <=> IsTaken(server.rels, id)
  <2>1. id[1] \in Known(tool)
    BY <1>1 DEF Known
  <2>2. id \in Live(Namespace(tool)) <=> id \in Live(server.rels)
    BY <1>2, <2>1, KnownAt
  <2>3. QED
    BY <2>2 DEF IsTaken
<1>6. verdict = "conflict" => outcome = Error
  BY <1>3, <1>5
<1>7. verdict = "ok" => outcome = Done(id) /\ id \notin Live(Namespace(tool))
  BY <1>3, <1>5 DEF IsTaken
<1>8. ASSUME verdict = "ok"
      PROVE  ToolInv(effect) /\ Agreement(effect, change)
  <2>1. PICK o : o = With(server.rels, id, Table)
    OBVIOUS
  <2>2. change = [server EXCEPT !.rels = o, !.temp = TRUE]
    BY <1>2, <1>3, <2>1 DEF Agreement, ServerOk, Table
  <2>3. change = [schemas |-> server.schemas, rels |-> o, temp |-> TRUE]
    BY <1>2, <2>2, ServerWith DEF Agreement
  <2>4. change.rels = o /\ change.temp = TRUE
    BY <2>3, ServerFields
  <2>5. change = [schemas |-> server.schemas, rels |-> change.rels, temp |-> change.temp]
    BY <2>3, <2>4, Zenon
  <2>6. change.rels = With(server.rels, id, Table)
    BY <2>1, <2>4, Zenon
  <2>7. QED
    BY <1>1, <1>2, <1>3, <1>7, <1>8, <2>4, <2>5, <2>6, TempTableAgrees
<1>9. verdict \in {"ok", "conflict", "skip", "unresolved"} /\ verdict # "skip"
  BY <1>3
<1>10. template' \in Paths
  BY <1>2, <1>4
<1>11. QED
  BY <1>4, <1>6, <1>7, <1>8, <1>9, <1>10, StatementAgrees

LEMMA DropTableAgrees ==
    ASSUME NameInv, answer = "agreed", NEW ref \in Refs, NEW if_exists \in BOOLEAN, DropTable(ref, if_exists)
    PROVE  NameInv'
<1>1. PICK r, look, on : /\ r = resolve_in_namespace(ref) /\ look = relation_lookup(r)
                         /\ on = ServerLookup(ref)
  OBVIOUS
<1>2. ToolInv(tool) /\ Agreement(tool, server) /\ template \in Paths
  BY DEF NameInv
<1>3. PICK verdict, outcome, excuse, doubt, effect, change :
         /\ verdict = CASE look = "present"    -> "ok"
                        [] look = "wrong kind" -> "conflict"
                        [] look = "unknown"    -> "unresolved"
                        [] OTHER               -> IF if_exists THEN "skip" ELSE "conflict"
         /\ outcome = IF on = <<>> THEN IF if_exists THEN Nothing ELSE Error
                      ELSE IF server.rels[on].kind = "table" THEN Done(on) ELSE Error
         /\ excuse = (IF DoubtfulMiss(r, look) THEN "missed"
                      ELSE IF HiddenHit(r, look) THEN "hidden" ELSE "wrong")
         /\ doubt = (IF Confused({r.id}) THEN "aliased" ELSE "agreed")
         /\ effect = Dropped(tool, Resolved(tool, r.id))
         /\ change = [server EXCEPT !.rels = Without(@, Dependents(@, on))]
  OBVIOUS
<1>4. Statement(verdict, outcome, r.id, excuse, doubt, effect, change) /\ template' = template
  BY <1>1, <1>3 DEF DropTable
<1>5. /\ look \in {"present", "wrong kind", "unknown", "absent", "tombstone"}
      /\ look \in {"present", "wrong kind"} =>
            /\ on = r.id /\ r.id[1] \in Known(tool) /\ on # <<>>
            /\ server.rels[on].kind = "table" <=> look = "present"
      /\ look = "present" => r.id \in Live(tool.relations)
      /\ look \in {"absent", "tombstone"} /\ ~DoubtfulMiss(r, look) /\ ~HiddenHit(r, look) => on = <<>>
  BY <1>1, <1>2, LookupAgrees
<1>6. look \in {"absent", "tombstone"} /\ excuse = "wrong" => on = <<>>
  BY <1>3, <1>5
<1>7. PICK id : id = r.id
  OBVIOUS
<1>8. /\ Statement(verdict, outcome, id, excuse, doubt, effect, change) /\ template' \in Paths
      /\ excuse # "agreed" /\ doubt # "wrong"
  BY <1>2, <1>3, <1>4, <1>7
<1>9. CASE look = "present"
  <2>1. verdict = "ok" /\ outcome = Done(id)
    BY <1>3, <1>5, <1>7, <1>9
  <2>2. ASSUME doubt = "agreed"
        PROVE  ToolInv(effect) /\ Agreement(effect, change)
    <3>1. id \in Live(tool.relations) /\ on = id
      BY <1>5, <1>7, <1>9
    <3>2. ~Confused({id})
      BY <1>3, <1>7, <2>2
    <3>3. id \in Live(Namespace(tool))
      BY <1>2, <3>1, NamespaceAt DEF ToolInv
    <3>4. Resolved(tool, id) = id
      BY <3>2, <3>3, NotConfused
    <3>5. effect = Dropped(tool, id)
      BY <1>3, <1>7, <3>4
    <3>6. change = [server EXCEPT !.rels = Without(server.rels, Dependents(server.rels, id))]
      BY <1>2, <1>3, <3>1 DEF Agreement, ServerOk
    <3>7. QED
      BY <1>2, <3>1, <3>2, <3>5, <3>6, TableDropped
  <2>3. QED
    BY <1>8, <2>1, <2>2, StatementAgrees
<1>10. CASE look # "present"
  <2>1. verdict \in {"conflict", "skip", "unresolved"}
    BY <1>3, <1>5, <1>10
  <2>2. verdict = "conflict" => excuse # "wrong" \/ outcome = Error
    BY <1>3, <1>5, <1>6, <1>10
  <2>3. verdict = "skip" => excuse # "wrong" \/ outcome = Nothing
    BY <1>3, <1>5, <1>6, <1>10
  <2>4. verdict \in {"ok", "conflict", "skip", "unresolved"} /\ verdict # "ok"
    BY <2>1
  <2>5. QED
    BY <1>8, <2>2, <2>3, <2>4, StatementAgrees
<1>11. QED
  BY <1>9, <1>10

LEMMA OfSchemaSays ==
    ASSUME ToolInv(tool), Agreement(tool, server), NEW n \in Schemas, NEW wanted \in BOOLEAN,
           NEW verdict, verdict = OfSchema(schema_lookup(n), wanted)
    PROVE  /\ verdict \in {"ok", "conflict", "unresolved"}
           /\ verdict = "ok" => /\ wanted => tool.schemas[n] = "present" /\ n \in server.schemas
                                /\ ~wanted => tool.schemas[n] # "present" /\ n \notin server.schemas
           /\ verdict = "conflict" => /\ wanted => n \notin server.schemas
                                      /\ ~wanted => n \in server.schemas
<1>1. PICK look : look = schema_lookup(n)
  OBVIOUS
<1>2. /\ look \in {"present", "dropped", "absent", "unknown"}
      /\ look = "present" => tool.schemas[n] = "present" /\ n \in server.schemas
      /\ look \in {"dropped", "absent"} => tool.schemas[n] # "present" /\ n \notin server.schemas
  BY <1>1, SchemaSays
<1>3. verdict = IF look = "unknown" THEN "unresolved" ELSE IF (look = "present") = wanted THEN "ok" ELSE "conflict"
  BY <1>1 DEF OfSchema
<1>4. QED
  BY <1>2, <1>3

LEMMA CreateSchemaAgrees ==
    ASSUME NameInv, answer = "agreed", NEW n \in Schemas, CreateSchema(n)
    PROVE  NameInv'
<1>1. ToolInv(tool) /\ Agreement(tool, server) /\ template \in Paths
  BY DEF NameInv
<1>2. PICK verdict, outcome, effect, change :
         /\ verdict = OfSchema(schema_lookup(n), FALSE)
         /\ outcome = IF n \in server.schemas THEN Error ELSE Done(<<>>)
         /\ effect = SchemaCreated(tool, n)
         /\ change = [server EXCEPT !.schemas = @ \cup {n}]
  OBVIOUS
<1>3. Statement(verdict, outcome, <<>>, "wrong", "agreed", effect, change) /\ template' = template
  BY <1>2 DEF CreateSchema
<1>4. /\ verdict \in {"ok", "conflict", "unresolved"}
      /\ verdict = "ok" => tool.schemas[n] # "present" /\ n \notin server.schemas
      /\ verdict = "conflict" => n \in server.schemas
  BY <1>1, <1>2, OfSchemaSays
<1>5. verdict = "conflict" => outcome = Error
  BY <1>2, <1>4
<1>6. ASSUME verdict = "ok"
      PROVE  outcome = Done(<<>>) /\ ToolInv(effect) /\ Agreement(effect, change)
  <2>1. outcome = Done(<<>>) /\ tool.schemas[n] # "present" /\ n \notin server.schemas
    BY <1>2, <1>4, <1>6
  <2>2. change = [server EXCEPT !.schemas = server.schemas \cup {n}]
    BY <1>1, <1>2 DEF Agreement, ServerOk
  <2>3. QED
    BY <1>1, <1>2, <2>1, <2>2, CreatedSchemaAgrees
<1>7. verdict \in {"ok", "conflict", "skip", "unresolved"} /\ verdict # "skip"
  BY <1>4
<1>8. template' \in Paths
  BY <1>1, <1>3
<1>9. QED
  BY <1>3, <1>5, <1>6, <1>7, <1>8, StatementAgrees

LEMMA DropSchemaAgrees ==
    ASSUME NameInv, answer = "agreed", NEW n \in Schemas, DropSchema(n)
    PROVE  NameInv'
<1>1. ToolInv(tool) /\ Agreement(tool, server) /\ template \in Paths
  BY DEF NameInv
<1>2. PICK verdict, outcome, doubt, effect, change :
         /\ verdict = OfSchema(schema_lookup(n), TRUE)
         /\ outcome = IF n \in server.schemas THEN Done(<<>>) ELSE Error
         /\ doubt = (IF Confused(Within(Namespace(tool), n)) THEN "aliased" ELSE "agreed")
         /\ effect = SchemaDropped(tool, n)
         /\ change = [server EXCEPT !.schemas = @ \ {n}, !.rels = Without(@, Within(@, n))]
  OBVIOUS
<1>3. Statement(verdict, outcome, <<>>, "wrong", doubt, effect, change) /\ template' = template
  BY <1>2 DEF DropSchema
<1>4. /\ verdict \in {"ok", "conflict", "unresolved"}
      /\ verdict = "ok" => n \in server.schemas
      /\ verdict = "conflict" => n \notin server.schemas
  BY <1>1, <1>2, OfSchemaSays
<1>5. verdict = "conflict" => outcome = Error
  BY <1>2, <1>4
<1>6. verdict = "ok" => outcome = Done(<<>>)
  BY <1>2, <1>4
<1>7. ASSUME doubt = "agreed"
      PROVE  ToolInv(effect) /\ Agreement(effect, change)
  <2>1. PICK gone, lost : gone = Within(Namespace(tool), n) /\ lost = Within(server.rels, n)
    OBVIOUS
  <2>2. ~Confused(gone)
    BY <1>2, <1>7, <2>1
  <2>3. PICK e, o : e = server.schemas \ {n} /\ o = Without(server.rels, lost)
    OBVIOUS
  <2>4. change = [schemas |-> e, rels |-> o, temp |-> server.temp]
    <3>1. change = [server EXCEPT !.schemas = e, !.rels = o]
      BY <1>1, <1>2, <2>1, <2>3 DEF Agreement, ServerOk
    <3>2. QED
      BY <1>1, <3>1, ServerWithSchemas DEF Agreement
  <2>5. change.schemas = e /\ change.rels = o
    BY <2>4, ServerFields
  <2>6. change = [schemas |-> change.schemas, rels |-> change.rels, temp |-> server.temp]
    BY <2>4, <2>5, Zenon
  <2>7. change.schemas = server.schemas \ {n} /\ change.rels = Without(server.rels, lost)
    BY <2>3, <2>5, Zenon
  <2>8. QED
    BY <1>1, <1>2, <2>1, <2>2, <2>6, <2>7, DroppedSchemaAgrees
<1>8. verdict \in {"ok", "conflict", "skip", "unresolved"} /\ verdict # "skip"
  BY <1>4
<1>9. template' \in Paths /\ doubt # "wrong"
  BY <1>1, <1>2, <1>3
<1>10. QED
  BY <1>3, <1>5, <1>6, <1>7, <1>8, <1>9, StatementAgrees

LEMMA RenameSchemaAgrees ==
    ASSUME NameInv, answer = "agreed", NEW old \in Schemas, NEW new \in Schemas, old # new,
           RenameSchema(old, new)
    PROVE  NameInv'
<1>1. ToolInv(tool) /\ Agreement(tool, server) /\ template \in Paths
  BY DEF NameInv
<1>2. PICK found, free, verdict, outcome, relations, sequences, doubt, change :
         /\ found = OfSchema(schema_lookup(old), TRUE) /\ free = OfSchema(schema_lookup(new), FALSE)
         /\ verdict = IF found # "ok" THEN found ELSE free
         /\ outcome = IF old \in server.schemas /\ new \notin server.schemas THEN Done(<<>>) ELSE Error
         /\ relations = Collisions(tool.relations, old, new)
         /\ sequences = Collisions(tool.sequences, old, new)
         /\ doubt = (IF relations \cup sequences # {} THEN "collided" ELSE "agreed")
         /\ change = [server EXCEPT !.schemas = (@ \ {old}) \cup {new}, !.rels = Remapped(@, old, new, {})]
  OBVIOUS
<1>3. PICK kept \in [relations : SUBSET relations, sequences : SUBSET sequences] :
         /\ Statement(verdict, outcome, <<>>, "wrong", doubt, SchemaRenamed(tool, old, new, kept), change)
         /\ template' = template
  BY <1>2 DEF RenameSchema
<1>4. PICK effect : effect = SchemaRenamed(tool, old, new, kept)
  OBVIOUS
<1>5. /\ found \in {"ok", "conflict", "unresolved"}
      /\ found = "ok" => tool.schemas[old] = "present" /\ old \in server.schemas
      /\ found = "conflict" => old \notin server.schemas
  BY <1>1, <1>2, OfSchemaSays
<1>6. /\ free \in {"ok", "conflict", "unresolved"}
      /\ free = "ok" => tool.schemas[new] # "present" /\ new \notin server.schemas
      /\ free = "conflict" => new \in server.schemas
  BY <1>1, <1>2, OfSchemaSays
<1>7. verdict = "conflict" => outcome = Error
  BY <1>2, <1>5, <1>6
<1>8. verdict = "ok" => found = "ok" /\ free = "ok" /\ outcome = Done(<<>>)
  BY <1>2, <1>5, <1>6
<1>9. ASSUME verdict = "ok", doubt = "agreed"
      PROVE  ToolInv(effect) /\ Agreement(effect, change)
  <2>1. kept.relations = {} /\ kept.sequences = {}
    <3>1. relations = {} /\ sequences = {}
      BY <1>2, <1>9
    <3>2. kept.relations \subseteq relations /\ kept.sequences \subseteq sequences
      BY <1>3
    <3>3. QED
      BY <3>1, <3>2
  <2>2. PICK e, o : e = (server.schemas \ {old}) \cup {new} /\ o = Remapped(server.rels, old, new, {})
    OBVIOUS
  <2>3. change = [schemas |-> e, rels |-> o, temp |-> server.temp]
    <3>1. change = [server EXCEPT !.schemas = e, !.rels = o]
      BY <1>1, <1>2, <2>2 DEF Agreement, ServerOk
    <3>2. QED
      BY <1>1, <3>1, ServerWithSchemas DEF Agreement
  <2>4. change.schemas = e /\ change.rels = o
    BY <2>3, ServerFields
  <2>5. change = [schemas |-> change.schemas, rels |-> change.rels, temp |-> server.temp]
    BY <2>3, <2>4, Zenon
  <2>6. /\ change.schemas = (server.schemas \ {old}) \cup {new}
        /\ change.rels = Remapped(server.rels, old, new, {})
    BY <2>2, <2>4, Zenon
  <2>7. tool.schemas[old] = "present" /\ tool.schemas[new] # "present" /\ new \notin server.schemas
    BY <1>5, <1>6, <1>8, <1>9
  <2>8. QED
    BY <1>1, <1>4, <2>1, <2>5, <2>6, <2>7, RenamedSchemaAgrees
<1>10. verdict \in {"ok", "conflict", "skip", "unresolved"} /\ verdict # "skip"
  BY <1>2, <1>5, <1>6
<1>11. template' \in Paths /\ doubt # "wrong"
  BY <1>1, <1>2, <1>3
<1>12. Statement(verdict, outcome, <<>>, "wrong", doubt, effect, change)
  BY <1>3, <1>4
<1>13. QED
  BY <1>7, <1>8, <1>9, <1>10, <1>11, <1>12, StatementAgrees

LEMMA BaselineAgrees ==
    ASSUME server = [schemas |-> server.schemas, rels |-> server.rels, temp |-> FALSE],
           server.schemas \subseteq Schemas,
           \A id \in DOMAIN server.rels : /\ id = <<id[1], id[2]>> /\ id[1] \in server.schemas
                                          /\ server.rels[id] = Table,
           existing = <<>> \/ existing = <<server.schemas>>,
           NEW scope, scope = All \/ scope \subseteq Schemas, tool = Baseline(scope)
    PROVE  ToolInv(tool) /\ Agreement(tool, server)
<1> PICK S, R, f : S = server.schemas /\ R = DOMAIN f /\ f = server.rels
  OBVIOUS
<1>1. server.schemas = S /\ server.rels = f /\ server.temp = FALSE
  OBVIOUS
<1>2. PICK a, r : /\ a = [n \in Schemas |-> IF n \in scope \cap S THEN "present" ELSE "none"]
                  /\ r = Restrict(f, {id \in DOMAIN f : id[1] \in scope})
  OBVIOUS
<1>3. tool = [schemas |-> a, scope |-> scope, relations |-> r, sequences |-> <<>>, indexes |-> <<>>,
              aliases |-> <<>>, temp |-> FALSE]
  BY <1>1, <1>2 DEF Baseline
<1>4. /\ tool.schemas = a /\ tool.scope = scope /\ tool.relations = r /\ tool.temp = FALSE
      /\ tool.sequences = <<>> /\ tool.indexes = <<>>
  BY <1>3
<1>5. /\ a \in [Schemas -> {"present", "none", "dropped"}]
      /\ \A n \in Schemas : a[n] = IF n \in scope \cap S THEN "present" ELSE "none"
  BY <1>2
<1>6. \A id : /\ id \in DOMAIN r <=> id \in R /\ id[1] \in scope
              /\ id \in DOMAIN r => r[id] = Table
  BY <1>2 DEF Restrict
<1>7. Table.kind = "table"
  BY DEF Table, Object
<1>8. \A id : id \in Live(r) <=> id \in R /\ id[1] \in scope
  BY <1>6, <1>7 DEF Live
<1>9. \A id : id \in Live(f) <=> id \in R
  BY <1>7 DEF Live
<1>10. \A id \in R : id = <<id[1], id[2]>> /\ id[1] \in S /\ id[1] \in Schemas
  OBVIOUS
<1>a. ToolOk(tool)
  BY <1>3, <1>5, FieldsOk
<1>b. Live(<<>>) = {} /\ DOMAIN <<>> = {}
  BY DEF Live
<1>c. Overlays(tool)
  <2>1. \A x \in Live(r) : r[x] = Table
    BY <1>6, <1>8
  <2>2. \A x \in DOMAIN r : x[1] \in Schemas /\ a[x[1]] # "none"
    BY <1>5, <1>6, <1>10
  <2>3. \A x \in DOMAIN r : x = <<x[1], x[2]>>
    BY <1>6, <1>10
  <2>4. QED
    BY <1>4, <1>b, <2>1, <2>2, <2>3 DEF Overlays
<1>d. PICK m : m = Namespace(tool)
  OBVIOUS
<1>e. \A id : /\ id \in Live(m) <=> id \in R /\ id[1] \in scope
              /\ id \in DOMAIN m <=> id \in R /\ id[1] \in scope
              /\ id \in DOMAIN m => m[id] = Table
  <2>1. DOMAIN m = Live(m)
    BY <1>c, <1>d, NamespaceAt
  <2>2. \A x : x \in Live(m) <=> x \in Live(r)
    BY <1>4, <1>b, <1>c, <1>d, NamespaceAt
  <2>3. \A x \in Live(r) : m[x] = Table
    BY <1>4, <1>c, <1>d, NamespaceAt
  <2>4. QED
    BY <1>8, <2>1, <2>2, <2>3
<1>11. ToolInv(tool)
  <2>1. WellFormed(m) /\ Fit(m)
    BY <1>7, <1>10, <1>e DEF WellFormed, Fit
  <2>2. Placed(tool)
    BY <1>4, <1>5, <1>10, <1>d, <1>e DEF Placed, Known
  <2>3. QED
    BY <1>a, <1>c, <1>d, <2>1, <2>2 DEF ToolInv
<1>12. ServerOk(server)
  <2>1. server = [schemas |-> server.schemas, rels |-> server.rels, temp |-> server.temp]
    BY <1>1, Zenon
  <2>2. \A id \in DOMAIN f : /\ id = <<id[1], id[2]>> /\ f[id].kind # "dropped" /\ id[1] \in S
    BY <1>7, <1>10
  <2>3. QED
    BY <1>1, <2>1, <2>2 DEF ServerOk
<1>13. ASSUME NEW n \in S
       PROVE  a[n] = "present" \/ InDoubt(tool, n)
  <2>1. ~schema_did_not_exist_at_sync(n)
    BY DEF schema_did_not_exist_at_sync
  <2>2. QED
    BY <1>4, <1>5, <2>1 DEF InDoubt
<1>14. ASSUME NEW id \in DOMAIN m \cup DOMAIN f, id[1] \in Known(tool)
       PROVE  At(m, id) = At(f, id)
  <2>1. id \in R /\ id[1] \in Schemas
    BY <1>10, <1>e
  <2>2. id[1] \in scope
    <3>1. id[1] # Temp
      BY <2>1, NamesAssumption DEF Temp
    <3>2. QED
      BY <1>4, <1>5, <1>14, <2>1, <3>1 DEF Known
  <2>3. QED
    BY <1>9, <1>e, <2>1, <2>2 DEF At
<1>15. Agreement(tool, server)
  <2>1. \A n \in Schemas : a[n] = "present" => n \in S
    BY <1>5
  <2>2. QED
    BY <1>1, <1>4, <1>12, <1>13, <1>14, <1>d, <2>1 DEF Agreement
<1>16. QED
  BY <1>11, <1>15

LEMMA InitAgrees ==
    ASSUME Init
    PROVE  NameInv
<1>1. \E S \in SUBSET Schemas, R \in SUBSET (Schemas \X Held) :
         server = [schemas |-> S, rels |-> [id \in R |-> Object("table", <<>>)], temp |-> FALSE]
  BY DEF Init
<1>2. PICK S \in SUBSET Schemas, R \in SUBSET (Schemas \X Held) :
         server = [schemas |-> S, rels |-> [id \in R |-> Object("table", <<>>)], temp |-> FALSE]
  BY <1>1
<1>3. PICK f : f = [id \in R |-> Object("table", <<>>)]
  OBVIOUS
<1>4. server = [schemas |-> S, rels |-> f, temp |-> FALSE]
  BY <1>2, <1>3
<1>5. server.schemas = S /\ server.rels = f /\ server.temp = FALSE
  BY <1>4
<1>6. DOMAIN f = R /\ \A id \in R : f[id] = Table
  BY <1>3 DEF Table
<1>7. \A id \in R : id[1] \in S
  <2>1. \A id \in DOMAIN server.rels : id[1] \in server.schemas
    BY DEF Init
  <2>2. QED
    BY <1>5, <1>6, <2>1
<1>8. PICK scope \in {All} \cup SUBSET Schemas : tool = Baseline(scope)
  BY DEF Init
<1>9. existing \in {<<>>, <<S>>}
  BY <1>5 DEF Init
<1>10. \A id \in R : id = <<id[1], id[2]>> /\ id[1] \in S
  BY <1>7
<1>11. /\ server = [schemas |-> server.schemas, rels |-> server.rels, temp |-> FALSE]
       /\ server.schemas \subseteq Schemas
       /\ existing = <<>> \/ existing = <<server.schemas>>
  BY <1>4, <1>5, <1>9
<1>12. \A id \in DOMAIN server.rels : /\ id = <<id[1], id[2]>> /\ id[1] \in server.schemas
                                      /\ server.rels[id] = Table
  BY <1>5, <1>6, <1>10
<1>13. scope = All \/ scope \subseteq Schemas
  OBVIOUS
<1>14. ToolInv(tool) /\ Agreement(tool, server)
  BY <1>8, <1>11, <1>12, <1>13, BaselineAgrees
<1>15. template \in Paths /\ answer = "agreed"
  BY DEF Init
<1>16. QED
  BY <1>14, <1>15 DEF NameInv, AnswersAreRight

LEMMA StepAgrees ==
    ASSUME NameInv, [Next]_vars
    PROVE  NameInv'
<1>1. CASE Next
  <2>1. answer = "agreed"
    BY <1>1 DEF Next
  <2>2. ASSUME NEW p \in Paths \ {template}, SetPath(p)
        PROVE  NameInv'
    BY <2>1, <2>2, SetPathAgrees
  <2>3. ASSUME NEW ref \in Refs, NEW s \in Shapes, CreateTable(ref, s.cols, s.key)
        PROVE  NameInv'
    BY <2>1, <2>3, CreateTableAgrees
  <2>4. ASSUME NEW n \in Tables, CreateTempTable(n)
        PROVE  NameInv'
    BY <2>1, <2>4, CreateTempTableAgrees
  <2>5. ASSUME NEW ref \in Refs, NEW if_exists \in BOOLEAN, DropTable(ref, if_exists)
        PROVE  NameInv'
    BY <2>1, <2>5, DropTableAgrees
  <2>6. ASSUME NEW n \in Schemas, CreateSchema(n)
        PROVE  NameInv'
    BY <2>1, <2>6, CreateSchemaAgrees
  <2>7. ASSUME NEW n \in Schemas, DropSchema(n)
        PROVE  NameInv'
    BY <2>1, <2>7, DropSchemaAgrees
  <2>8. ASSUME NEW old \in Schemas, NEW new \in Schemas, old # new, RenameSchema(old, new)
        PROVE  NameInv'
    BY <2>1, <2>8, RenameSchemaAgrees
  <2>9. QED
    BY <1>1, <2>2, <2>3, <2>4, <2>5, <2>6, <2>7, <2>8 DEF Next
<1>2. CASE UNCHANGED vars
  <2>1. UNCHANGED <<tool, server, template, existing, answer>>
    BY <1>2 DEF vars
  <2>2. (answer = "agreed" => ToolInv(tool))'
    BY <2>1 DEF NameInv, ToolInv, ToolOk, Overlays, Namespace, WellFormed, Fit, Placed, Known
  <2>3. (answer = "agreed" => Agreement(tool, server))'
    BY <2>1, InvariantMoves DEF NameInv
  <2>4. QED
    BY <2>1, <2>2, <2>3 DEF NameInv, AnswersAreRight
<1>3. QED
  BY <1>1, <1>2

LEMMA NamesAgree == Spec => []NameInv
BY InitAgrees, StepAgrees, PTL DEF Spec

(* What the analysis answers with certainty the server does, and to the    *)
(* same object (resolver.rs, lookup.rs, accessors.rs): the verdict on each *)
(* statement of any migration is compared with a server that was known in  *)
(* part only.  Only the exceptions, each an answer of its own, are not     *)
(* covered.                                                                *)
THEOREM AnswersAreAlwaysRight == Spec => []AnswersAreRight
<1>1. NameInv => AnswersAreRight
  BY DEF NameInv
<1>2. QED
  BY <1>1, NamesAgree, PTL

(* As long as every statement got an answer, and none of the exceptions    *)
(* was met, the overlays hold what the server has in the schemas they      *)
(* know: the same tables, and the sequences and indexes that CREATE TABLE  *)
(* generates under the same names (next_implicit_sequence_ids, names.rs;   *)
(* remap_schema_id).                                                       *)
THEOREM CatalogsAlwaysAgree == Spec => []CatalogsAgree
<1>1. NameInv => CatalogsAgree
  <2>1. SUFFICES ASSUME NameInv, answer = "agreed"
                 PROVE  CatalogsAgree
    BY DEF CatalogsAgree
  <2>2. Agreement(tool, server)
    BY <2>1 DEF NameInv
  <2>3. ASSUME NEW n \in Schemas
        PROVE  /\ tool.schemas[n] = "present" => n \in server.schemas
               /\ schema_absence_is_authoritative(n) /\ tool.schemas[n] # "present"
                     => n \notin server.schemas
    <3>1. tool.schemas[n] = "present" => n \in server.schemas
      BY <2>2 DEF Agreement
    <3>2. n \in server.schemas => tool.schemas[n] = "present" \/ InDoubt(tool, n)
      BY <2>2 DEF Agreement
    <3>3. InDoubt(tool, n) => ~schema_absence_is_authoritative(n)
      BY DEF InDoubt, schema_absence_is_authoritative
    <3>4. QED
      BY <3>1, <3>2, <3>3
  <2>4. ASSUME NEW n \in {Temp} \cup {s \in Schemas : tool.schemas[s] = "present"},
               NEW c, NEW s, c = Within(Namespace(tool), n), s = Within(server.rels, n)
        PROVE  Restrict(Namespace(tool), c) = Restrict(server.rels, s)
    <3>1. n \in Known(tool)
      BY DEF Known
    <3>0. \A id : /\ id \in c <=> id \in Live(Namespace(tool)) /\ id[1] = n
                  /\ id \in s <=> id \in Live(server.rels) /\ id[1] = n
      BY <2>4 DEF Within
    <3>2. ASSUME NEW id, id[1] = n
          PROVE  /\ id \in Live(Namespace(tool)) <=> id \in Live(server.rels)
                 /\ id \in Live(Namespace(tool)) => Namespace(tool)[id] = server.rels[id]
      BY <2>1, <2>2, <3>1, <3>2, KnownAt, SameAt
    <3>3. \A id : id \in c <=> id \in s
      BY <3>0, <3>2
    <3>4. c = s
      BY <3>3, Zenon
    <3>5. \A id \in c : Namespace(tool)[id] = server.rels[id]
      BY <3>0, <3>2
    <3>6. QED
      BY <3>4, <3>5 DEF Restrict
  <2>5. QED
    BY <2>3, <2>4 DEF CatalogsAgree, SameCatalogs
<1>2. QED
  BY <1>1, NamesAgree, PTL

(* A name generated for a sequence or an index fits in an identifier,      *)
(* however long the names it is made from and whatever their characters,   *)
(* and its object goes with a table that is there: no drop or rename takes *)
(* one without the other (names.rs, drop.rs, schemas.rs).                  *)
THEOREM GeneratedNamesAlwaysFit == Spec => []GeneratedNamesFit
<1>1. NameInv => GeneratedNamesFit
  <2>1. SUFFICES ASSUME NameInv, answer = "agreed", NEW rels, rels = Namespace(tool),
                        NEW id \in DOMAIN rels, rels[id].kind # "table"
                 PROVE  /\ Bytes(id[2]) <= MaxIdentifierBytes
                        /\ rels[id].of \in DOMAIN rels /\ rels[rels[id].of].kind = "table"
    BY DEF GeneratedNamesFit
  <2>2. Overlays(tool) /\ WellFormed(rels) /\ Fit(rels)
    BY <2>1 DEF NameInv, ToolInv
  <2>3. DOMAIN rels = Live(rels)
    BY <2>1, <2>2, NamespaceAt
  <2>4. Bytes(id[2]) <= MaxIdentifierBytes
    BY <2>1, <2>2, <2>3 DEF Fit
  <2>5. rels[id] # Table
    BY <2>1, Kinds
  <2>6. PICK kind \in {"sequence", "index"}, of \in Live(rels) :
           rels[id] = Object(kind, of) /\ rels[of] = Table
    BY <2>1, <2>2, <2>3, <2>5 DEF WellFormed
  <2>7. rels[id].of = of /\ rels[of].kind = "table"
    BY <2>6, Kinds
  <2>8. QED
    BY <2>3, <2>4, <2>7
<1>2. QED
  BY <1>1, NamesAgree, PTL
==============================================================================
