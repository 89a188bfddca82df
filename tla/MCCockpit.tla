------------------------------ MODULE MCCockpit ------------------------------
(* Cockpit under the bounds of its configurations.                            *)
EXTENDS Cockpit
=============================================================================
