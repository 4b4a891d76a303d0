------------------------------ MODULE MCOrders ------------------------------
(* Values for the constants of Orders.  The prices and the ceiling are such *)
(* that a second approval may or may not fit beside the first.              *)
EXTENDS Orders, TLC

CONSTANTS p1, p2, w1, w2, o1, o2, cones, vanilla

OneSession == [w \in Work |-> "chat"]
Interchangeable ==
    Permutations(Worker) \cup Permutations(Order) \cup Permutations(Product)
=============================================================================
