------------------------- MODULE MCInstanceRegistry -------------------------
(* InstanceRegistry with as many ids as make the limit bite, two requests   *)
(* that may work on the same instance, and two workspaces.                  *)
EXTENDS InstanceRegistry, TLC

Symmetry == Permutations(Ids) \cup Permutations(Requests) \cup Permutations(Workspaces)
=============================================================================
