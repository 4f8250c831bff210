----------------------------- MODULE MCTopology -----------------------------
(* TLC instance of Topology alone: two consumers bind the routing key.     *)
EXTENDS Topology

CONSTANTS r1    \* model value

One       == {r1}
TwoQueues == {"notification", "crm"}
=============================================================================
