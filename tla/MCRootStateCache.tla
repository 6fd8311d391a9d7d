-------------------------- MODULE MCRootStateCache --------------------------
EXTENDS RootStateCache, TLC

Symmetry == Permutations(Requests)
=============================================================================
