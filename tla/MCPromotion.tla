------------------------------ MODULE MCPromotion ------------------------------
(***************************************************************************)
(* Small instances of Promotion for TLC.                                    *)
(***************************************************************************)
EXTENDS Promotion

TwoAttempts == {1, 2}
OneAttempt  == {1}
None        == 0

(* One attempt is a peer's and one is Home's. *)
PeerThenHome == [a \in Attempts |-> IF a = 1 THEN CHOOSE c \in Cells : c # Home ELSE Home]

AllSame  == [c \in Cells |-> "same"]
HomeSame == [c \in Cells |-> IF c = Home THEN "same" ELSE "cross"]

Gated      == [mode |-> "gated", enabled |-> FALSE]
Autonomous == [mode |-> "autonomous", enabled |-> TRUE]
EitherMode == {Gated, Autonomous}
On         == {Autonomous}

Earned == [observations |-> 2, agreements |-> 2]
================================================================================
