----------------------------- MODULE MCOTPAuth -----------------------------
\* Model checking OTPAuth.  Requests, codes and addresses are only compared for
\* equality, so permuting them permutes the behaviours.
EXTENDS OTPAuth, TLC

Symmetry == Permutations(Sends) \cup Permutations(Verifies) \cup Permutations(Codes) \cup Permutations(Emails)
=============================================================================
