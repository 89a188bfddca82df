------------------------------ MODULE MCConsole ------------------------------
(* Bounds for Console: a cockpit, an operator and one seat.                 *)
EXTENDS Console
PrefixOf == [r \in Repos |-> IF r = CHOOSE s \in Repos : TRUE THEN 2 ELSE 1]
=============================================================================
