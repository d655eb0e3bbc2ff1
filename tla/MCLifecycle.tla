---------------------------- MODULE MCLifecycle ----------------------------
(* Lifecycle, for both executables, with two requests in flight.           *)
EXTENDS Lifecycle
=============================================================================
