--------------------------- MODULE MCClientStream ---------------------------
(* ClientStream for TLC: the calls are independent but for the gauge, so   *)
(* two of every kind show what two streams can do to it.                   *)
EXTENDS ClientStream
=============================================================================
