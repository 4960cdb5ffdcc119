------------------------------ MODULE MCAttempts -------------------------------
(* Instances of Attempts for TLC. *)
EXTENDS Attempts, TLC

CONSTANTS Busy,   \* the cell that several processes work for
          Pair    \* those processes

(* The processes of Pair share a cell; every other cell has one of its own. *)
PairAtBusy ==
  CHOOSE f \in [Procs -> Cells] :
    /\ \A p \in Procs : f[p] = Busy <=> p \in Pair
    /\ \A c \in Cells : \E p \in Procs : f[p] = c
(* Busy meets nobody by itself; the others come to it. *)
ToBusy == [c \in Cells |-> IF c = Busy THEN {} ELSE {Busy}]
ViaHub == [c \in Cells |-> Hubs]

(* Busy can run every check, the others none. *)
AllAtBusy == [c \in Cells |-> IF c = Busy THEN Checks ELSE {}]

(* The processes of Pair differ in nothing. *)
PairSymmetry == Permutations(Pair)

(* Where nobody yields, nobody reads a claim: states that differ in claims alone    *)
(* go on alike.                                                                 *)
ClaimsUnread ==
  <<needs, tickets, refs, evidence, commits, faults, [p \in Procs |-> [proc[p] EXCEPT !.seen = NoClaims]]>>
================================================================================
