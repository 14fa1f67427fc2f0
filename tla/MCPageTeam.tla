------------------------------- MODULE MCPageTeam -------------------------------
(* PageTeam for TLC: fetches under way bear no order.                          *)
EXTENDS PageTeam, TLC

Symmetry == Permutations(Fetches)
===============================================================================
