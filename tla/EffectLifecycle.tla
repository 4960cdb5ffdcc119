---------------------------- MODULE EffectLifecycle ----------------------------
(***************************************************************************)
(* What a reservation promises, with no leases, processes or connectors:    *)
(* an action is offered, taken once by someone who may then perform it      *)
(* once, and settled only when nobody may perform it any more, as done      *)
(* exactly when it was performed.  A principal's ruling is the exception:   *)
(* it closes a taken action at any time and either way, and says so for     *)
(* good.  A key is never freed: no step leads back towards "none".          *)
(***************************************************************************)
EXTENDS Naturals

CONSTANTS Actions   \* the idempotency keys

VARIABLES
  state,   \* state[a]: the reservation's state
  orders,  \* orders[a]: how often the far end performed a
  live,    \* live[a]: somebody may still perform a
  ruled    \* ruled[a]: a principal settled the record

vars == <<state, orders, live, ruled>>

Init == /\ state = [a \in Actions |-> "none"]
        /\ orders = [a \in Actions |-> 0]
        /\ live = [a \in Actions |-> FALSE]
        /\ ruled = [a \in Actions |-> FALSE]

Offer(a) == /\ state[a] = "none"
            /\ state' = [state EXCEPT ![a] = "offered"]
            /\ UNCHANGED <<orders, live, ruled>>

Take(a) == /\ state[a] = "offered"
           /\ state' = [state EXCEPT ![a] = "pending"]
           /\ live' = [live EXCEPT ![a] = TRUE]
           /\ UNCHANGED <<orders, ruled>>

Perform(a) == /\ live[a] /\ orders[a] = 0
              /\ orders' = [orders EXCEPT ![a] = 1]
              /\ live' = [live EXCEPT ![a] = FALSE]
              /\ UNCHANGED <<state, ruled>>

(* Rejected, lost, or the holder is gone. *)
GiveUp(a) == /\ live[a]
             /\ live' = [live EXCEPT ![a] = FALSE]
             /\ UNCHANGED <<state, orders, ruled>>

Report(a) == /\ state[a] = "pending" /\ ~live[a]
             /\ state' = [state EXCEPT ![a] = "reported"]
             /\ UNCHANGED <<orders, live, ruled>>

Settle(a) == /\ state[a] \in {"pending", "reported"} /\ ~live[a]
             /\ state' = [state EXCEPT ![a] = IF orders[a] = 1 THEN "done" ELSE "failed"]
             /\ UNCHANGED <<orders, live, ruled>>

Rule(a) == /\ state[a] \notin {"none", "offered"}
           /\ \E outcome \in {"done", "failed"} : state' = [state EXCEPT ![a] = outcome]
           /\ ruled' = [ruled EXCEPT ![a] = TRUE]
           /\ UNCHANGED <<orders, live>>

Next == \E a \in Actions : \/ Offer(a) \/ Take(a) \/ Perform(a) \/ GiveUp(a)
                          \/ Report(a) \/ Settle(a) \/ Rule(a)

Spec == Init /\ [][Next]_vars
================================================================================
