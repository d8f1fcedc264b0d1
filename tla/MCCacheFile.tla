---------------------------- MODULE MCCacheFile ----------------------------
EXTENDS CacheFile, TLC

Symmetry == Permutations(Processes)
=============================================================================
