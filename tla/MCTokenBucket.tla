--------------------------- MODULE MCTokenBucket ---------------------------
\* Model checking TokenBucket: requests are only compared for equality.
EXTENDS TokenBucket, TLC

Symmetry == Permutations(Reqs)
=============================================================================
