----------------------------------- MODULE Sums ----------------------------------
(***************************************************************************)
(* The sum of a function into the naturals, as the number of units it counts.   *)
(* Said without recursion, so that Sums_proofs can prove what one step does to  *)
(* a sum over however many cells, tickets and processes there are.            *)
(***************************************************************************)
EXTENDS Integers, FiniteSets

UnitsOf(f, x) == {x} \X (1..f[x])
AllUnits(f)   == UNION {UnitsOf(f, x) : x \in DOMAIN f}
Total(f)      == Cardinality(AllUnits(f))
================================================================================
