----------------------------- MODULE AttemptBoard ------------------------------
(***************************************************************************)
(* What attempt refs promise, whoever writes and replicates them: each      *)
(* author has a board per ticket on which attempts are numbered from one,   *)
(* posted in order and never taken down or changed, and every replica knows *)
(* a part of the boards that only grows.                                    *)
(***************************************************************************)
EXTENDS Integers

CONSTANTS Authors, Tickets, Replicas, Changes, MaxAttempts

VARIABLES posted,  \* the attempts somebody has made
          knows    \* the attempts each replica has heard of
vars == <<posted, knows>>

Attempt == [cell : Authors, task : Tickets, n : 1..MaxAttempts, change : Changes]

Numbers(c, t) == {a.n : a \in {b \in posted : b.cell = c /\ b.task = t}}

(* Somebody posts the next attempt of a board. *)
Post ==
  \E a \in posted' :
    /\ a \in Attempt
    /\ a.n \notin Numbers(a.cell, a.task)
    /\ \A m \in 1..(a.n - 1) : m \in Numbers(a.cell, a.task)
    /\ posted' = posted \cup {a}

(* A replica hears of attempts that were posted; it forgets none. *)
Learn ==
  /\ \A r \in Replicas : knows[r] \subseteq knows'[r] /\ knows'[r] \subseteq posted'
  /\ DOMAIN knows' = Replicas

Init == posted = {} /\ knows = [r \in Replicas |-> {}]
Next == /\ Post \/ UNCHANGED posted
        /\ Learn
Spec == Init /\ [][Next]_vars
================================================================================
