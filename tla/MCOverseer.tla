------------------------------ MODULE MCOverseer -------------------------------
(* Instances of Overseer for TLC. *)
EXTENDS Overseer, TLC
Allocate(n, q) == [amount |-> n, quantity |-> q]
OneOrTwo == {Allocate(1, 1), Allocate(2, 2)}
Order(n, u) == [amount |-> n, units |-> u]
SmallOrders == {Order(1, 1)}
Bound(spend, units) == [listed |-> TRUE, spend |-> spend, quantity |-> units, rate |-> 0]
Wide == Bound(2, 2)
Narrow == Bound(1, 1)
Silent == [listed |-> FALSE, spend |-> 0, quantity |-> 0, rate |-> 0]
Moves == {Wide, Narrow, Silent}
CellSymmetry == Permutations(Cells)
================================================================================
