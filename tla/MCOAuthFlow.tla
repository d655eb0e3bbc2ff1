---------------------------- MODULE MCOAuthFlow ----------------------------
\* Model checking OAuthFlow: browsers, flows and callbacks are only compared.
EXTENDS OAuthFlow, TLC

Symmetry == Permutations(Browsers) \cup Permutations(Flows) \cup Permutations(Callbacks)
=============================================================================
