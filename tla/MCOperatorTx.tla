---------------------------- MODULE MCOperatorTx ----------------------------
EXTENDS OperatorTx, TLC

Symmetry == Permutations(Callers)
=============================================================================
