-------------------------------- MODULE MCOrders --------------------------------
(***************************************************************************)
(* Small instances of Orders.                                              *)
(***************************************************************************)
EXTENDS Orders, TLC

CONSTANTS p1, s1, l1, l2, m1, m2

MCPurchaseOrderOf == [l \in {l1, l2} |-> p1]
MCSalesOrderOf == [m \in {m1, m2} |-> s1]

Symmetric == Permutations({l1, l2}) \cup Permutations({m1, m2})
===============================================================================
