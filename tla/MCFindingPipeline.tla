------------------------- MODULE MCFindingPipeline -------------------------
(* FindingPipeline on small instances: a rule reports a keyed finding that    *)
(* advises or one without a key that blocks.                                  *)
EXTENDS FindingPipeline

MCFound == [key : Keys, tier : {3}] \cup [key : {NoKey}, tier : {1}]
=============================================================================
