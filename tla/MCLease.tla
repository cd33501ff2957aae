------------------------------ MODULE MCLease ------------------------------
(* Two nodes that share Redis, one of them a third of a second ahead, and  *)
(* a node, also ahead, that could not reach Redis when it started and      *)
(* keeps leases in memory.                                                 *)
EXTENDS Lease, TLC

TheStores == [n \in Nodes |-> IF n = "m" THEN "mem" ELSE "redis"]
TheDrift  == [n \in Nodes |-> IF n = "a" THEN 0 ELSE 1]
Routes    == [r \in Requests |-> IF r = "c1" THEN {"a"} ELSE IF r = "c2" THEN {"a", "m"} ELSE {"b", "m"}]
Symmetry  == Permutations(Reattaches)
=============================================================================
