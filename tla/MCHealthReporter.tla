-------------------------- MODULE MCHealthReporter --------------------------
(* HealthReporter with two concurrent callers of Shutdown.                 *)
EXTENDS HealthReporter
=============================================================================
