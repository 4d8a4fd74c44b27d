--------------------------- MODULE MCDeployment ---------------------------
(* Small fleets for TLC.                                                   *)
EXTENDS Deployment

CONSTANTS n1, n2, n3

TwoNodes == {n1, n2}
TwoRanks == [n \in TwoNodes |-> IF n = n1 THEN 1 ELSE 2]
ThreeNodes == {n1, n2, n3}
ThreeRanks == [n \in ThreeNodes |-> IF n = n1 THEN 1 ELSE IF n = n2 THEN 2 ELSE 3]
NoReferences == {}
Reference == {<<n1, n2>>}   \* n1 dials a listener of n2
=============================================================================
