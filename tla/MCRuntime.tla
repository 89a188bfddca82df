------------------------------ MODULE MCRuntime ------------------------------
(* One agent of either backend: runs share nothing but maps keyed by handle. *)
EXTENDS Runtime
=============================================================================
