------------------------- MODULE MCWaveAssignment -------------------------
(* Every plan over three machines.                                         *)
EXTENDS WaveAssignment

CONSTANTS n1, n2, n3

Machines == {n1, n2, n3}
Order == [n \in Machines |-> IF n = n1 THEN 1 ELSE IF n = n2 THEN 2 ELSE 3]
=============================================================================
