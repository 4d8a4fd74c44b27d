------------------------- MODULE MCGrantAutomation -------------------------
(* Two interchangeable machines for TLC.                                   *)
EXTENDS GrantAutomation, TLC

CONSTANTS n1, n2

Machines == {n1, n2}
Interchangeable == Permutations(Machines)
=============================================================================
