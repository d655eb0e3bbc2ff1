--------------------------- MODULE MCRepositories ---------------------------
\* Model checking Repositories: two keys that callers ask for alone, in either order, or
\* with a key that has no limit.
EXTENDS Repositories, TLC

CONSTANTS ip, email, bad

MCLimit == (ip :> 2) @@ (email :> 1) @@ (bad :> 0)
MCWindow == (ip :> 2) @@ (email :> 1) @@ (bad :> 2)
MCTiers == {<<ip>>, <<email, ip>>, <<ip, bad>>, <<>>}

\* The callers of the windows and of the accounts are the same values: only one of the
\* repositories is used in a behaviour.
Symmetry == Permutations(Callers) \cup Permutations(Reqs)
=============================================================================
