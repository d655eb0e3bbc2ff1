----------------------------- MODULE MCSessions -----------------------------
\* Model checking Sessions: tokens and requests are only compared for equality.
EXTENDS Sessions, TLC

Symmetry == Permutations(Tokens) \cup Permutations(Reqs) \cup Permutations(Logouts)
=============================================================================
