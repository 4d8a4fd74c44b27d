--------------------------- MODULE MCSpoolDelivery ---------------------------
(* The kinds of queues the agent has, two lines deep.                      *)
EXTENDS SpoolDelivery

Usage == [max |-> 2, keeps |-> TRUE, terminal |-> FALSE, unique |-> FALSE]
Load == [max |-> 2, keeps |-> FALSE, terminal |-> TRUE, unique |-> FALSE]
Observation == [max |-> 2, keeps |-> FALSE, terminal |-> TRUE, unique |-> TRUE]
Kinds == {Usage, Load, Observation}
=============================================================================
