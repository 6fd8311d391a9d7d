----------------------------- MODULE MCReadPath -----------------------------
EXTENDS ReadPath, TLC

CONSTANTS a, b, r1

\* Two credentials of one root: one of the first epoch that outlives the clock,
\* one of the second that expires on the way.
MCExpires == (a :> 9) @@ (b :> 2)
MCRootOf  == (a :> [root |-> r1, epoch |-> 0]) @@ (b :> [root |-> r1, epoch |-> 1])

Symmetry == Permutations(Requests)
=============================================================================
