----------------------------- MODULE MCNameLookup -----------------------------
(* Instance of NameLookup for TLC.  Nine bytes hold what 63 do: the table  *)
(* and the columns keep the same characters when they are cut, the other   *)
(* table has the name that is generated for a sequence, its own included.  *)
(* Few names that are used again and again, and four statements.           *)
EXTENDS NameLookup, TLC

CONSTANTS s, t

Long == <<"w", "w", "a">>
Taken == <<"w", "_", "d", "d", "_", "s", "e", "q">>
Column1 == <<"d", "d", "d">>
Column2 == <<"d", "d", "w">>

TableNames == {Long, Taken}
HeldNames == {Taken}
TableShapes == {[cols |-> <<>>, key |-> FALSE], [cols |-> <<Column1, Column2>>, key |-> TRUE]}
SearchPaths == {<<>>, <<s, t>>, <<t, s>>}
SchemaSymmetry == Permutations({s, t})
==============================================================================
