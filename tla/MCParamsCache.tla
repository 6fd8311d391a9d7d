--------------------------- MODULE MCParamsCache ----------------------------
EXTENDS ParamsCache, TLC

Symmetry == Permutations(Requests)
=============================================================================
