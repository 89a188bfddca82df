--------------------------- MODULE MCEventStream ---------------------------
(* The instance of EventStream that TLC checks.                            *)
EXTENDS EventStream
=============================================================================
