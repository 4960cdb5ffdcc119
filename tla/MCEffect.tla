------------------------------- MODULE MCEffect --------------------------------
(***************************************************************************)
(* Small instances of EffectProtocol for TLC.                               *)
(***************************************************************************)
EXTENDS EffectMoney, TLC

(* Every process runs the one cell; every process runs a cell of its own. *)
OneCell == [p \in Procs |-> CHOOSE c \in Cells : TRUE]
OwnCell == CHOOSE f \in [Procs -> Cells] : \A p, q \in Procs : f[p] = f[q] => p = q

(* The processes of one cell are interchangeable. *)
Interchangeable == Permutations(Procs)

Money(n) == [amount |-> n, quantity |-> 0, spent |-> 0, ordered |-> 0,
             reserved |-> 0, reservedUnits |-> 0]

Leases3 == [c \in Cells |-> Money(3)]

Cap(spend, units, rate) == [listed |-> TRUE, spend |-> spend, quantity |-> units, rate |-> rate]
Unbounded == Cap(0, 0, 0)
Roomy     == Cap(3, 2, 2)
Tight     == Cap(1, 1, 2)
Movable   == {Tight}

Quote(n, u) == [amount |-> n, units |-> u]
OneQuote    == {Quote(1, 1)}
FreeAndOne  == {Quote(0, 0), Quote(1, 1)}
================================================================================
