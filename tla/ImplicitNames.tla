---------------------------- MODULE ImplicitNames ----------------------------
(***************************************************************************)
(* The names PostgreSQL gives to objects a statement does not name         *)
(* (analysis/state/names.rs).  A name is a sequence of characters, and a   *)
(* character has a width in bytes: the limit is in bytes, a cut may only   *)
(* fall between characters, and two long names may become one.             *)
(***************************************************************************)
EXTENDS Integers, Sequences, FiniteSets

CONSTANTS
    MaxIdentifierBytes,
    Wide                 \* the characters of two bytes; the others have one

Digit == <<"1", "2", "3", "4", "5", "6", "7", "8", "9">>
Narrow == {Digit[i] : i \in 1..9} \cup {"_", "s", "e", "q", "p", "k", "y"}

(* The code has 63 bytes; six hold a label, its number and the separators. *)
ASSUME LimitAssumption ==
    MaxIdentifierBytes \in Nat /\ MaxIdentifierBytes >= 6 /\ Narrow \cap Wide = {}

Bytes(name) == Len(name) + Cardinality({i \in DOMAIN name : name[i] \in Wide})

(* truncate: the longest prefix of whole characters within the bytes.      *)
truncate(name, bytes) ==
    SubSeq(name, 1, CHOOSE n \in 0..Len(name) :
                        /\ Bytes(SubSeq(name, 1, n)) <= bytes
                        /\ \A k \in (n + 1)..Len(name) : Bytes(SubSeq(name, 1, k)) > bytes)

(* The loop that shortens the longer of the two names, the second when     *)
(* they are equally long, until both fit.                                  *)
Shortened(bytes1, bytes2, available) ==
    LET f[b \in (0..bytes1) \X (0..bytes2)] ==
            IF b[1] + b[2] <= available THEN b
            ELSE f[IF b[1] > b[2] THEN <<b[1] - 1, b[2]>> ELSE <<b[1], b[2] - 1>>]
    IN  f[<<bytes1, bytes2>>]

(* Mutant: the separators are not counted.                                 *)
RoomWithoutSeparators(label, separators) ==
    IF Len(label) > MaxIdentifierBytes THEN 0 ELSE MaxIdentifierBytes - Len(label)

Room(label, separators) ==
    IF Len(label) + separators > MaxIdentifierBytes THEN 0
    ELSE MaxIdentifierBytes - (Len(label) + separators)

(* The second name is a sequence of at most one name.                      *)
postgres_object_name(name1, name2, label) ==
    LET second == name2 # <<>>
        bytes == Shortened(Bytes(name1), IF second THEN Bytes(name2[1]) ELSE 0,
                           Room(label, IF second THEN 2 ELSE 1))
    IN  truncate(name1, bytes[1])
            \o (IF second THEN <<"_">> \o truncate(name2[1], bytes[2]) ELSE <<>>)
            \o <<"_">> \o label

(* The label with the number of a candidate; the first has none.           *)
Numbered(label, i) == IF i = 0 THEN label ELSE Append(label, Digit[i])

(* Bound: at most one digit, far more than the names in use.               *)
Candidates(name1, name2, label) ==
    [i \in 0..9 |-> postgres_object_name(name1, name2, Numbered(label, i))]

First(S) == CHOOSE i \in S : \A j \in S : i <= j
NoName == <<>>    \* where the bound leaves no candidate

FirstFree(candidates, taken) ==
    LET free == {i \in DOMAIN candidates : candidates[i] \notin taken}
    IN  IF free = {} THEN NoName ELSE candidates[First(free)]

(* Names for several objects in turn, each avoiding the ones before it.    *)
InTurn(lists, taken) ==
    LET name[i \in DOMAIN lists] ==
            FirstFree(lists[i], taken \cup {name[j] : j \in 1..(i - 1)})
    IN  name

(***************************************************************************)
(* What a generated name should be, without a loop: both names whole if    *)
(* they fit, else the bytes shared as evenly as the shorter name allows.   *)
(***************************************************************************)
FairShare(b1, b2, available) ==
    LET half == available \div 2
    IN  IF b1 + b2 <= available THEN <<b1, b2>>
        ELSE IF b2 <= half THEN <<available - b2, b2>>
        ELSE IF b1 <= available - half THEN <<b1, available - b1>>
        ELSE <<available - half, half>>

FairName(name1, name2, label) ==
    LET share == FairShare(Bytes(name1), IF name2 = <<>> THEN 0 ELSE Bytes(name2[1]),
                           MaxIdentifierBytes - Len(label) - Len(name2) - 1)
    IN  truncate(name1, share[1])
            \o (IF name2 = <<>> THEN <<>> ELSE <<"_">> \o truncate(name2[1], share[2]))
            \o <<"_">> \o label

FairCandidates(name1, name2, label) ==
    [i \in 0..9 |-> FairName(name1, name2, Numbered(label, i))]
==============================================================================
