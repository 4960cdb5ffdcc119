------------------------------- MODULE Authority -------------------------------
(***************************************************************************)
(* The arithmetic of authority/: what a lease holds, what an envelope       *)
(* bounds, and how a reservation moves money between them.  A lease is one  *)
(* cell's exclusive allocation of one capability; an envelope ceiling is    *)
(* what the overseer's owner allows for that capability.                    *)
(*                                                                         *)
(* Amounts are integers in minor units of one currency: the unit checks of  *)
(* the code compare two spellings of that one unit and are left out, and    *)
(* int64 overflow is out of the model.  Zero means "no bound" in the fields *)
(* where the code reads it so (quantity, and every dimension of a ceiling). *)
(***************************************************************************)
EXTENDS Integers

Lease == [amount : Nat, quantity : Nat, spent : Nat, ordered : Nat,
          reserved : Nat, reservedUnits : Nat]

(* "listed" is the boolean Envelope.Ceiling returns beside the ceiling: an  *)
(* envelope that does not name the capability does not allow it.            *)
Ceiling == [listed : BOOLEAN, spend : Nat, quantity : Nat, rate : Nat]

Larger(a, b) == IF a >= b THEN a ELSE b

--------------------------------------------------------------------------------
(* What a lease has left. *)

Committed(l)      == l.spent + l.reserved
CommittedUnits(l) == l.ordered + l.reservedUnits

Headroom(l) == IF Committed(l) < l.amount THEN l.amount - Committed(l) ELSE 0

Unlimited == -1
QuantityHeadroom(l) ==
  IF l.quantity <= 0 THEN Unlimited
  ELSE IF CommittedUnits(l) < l.quantity THEN l.quantity - CommittedUnits(l) ELSE 0

Exhausted(l) == \/ l.amount > 0 /\ Headroom(l) <= 0
                \/ l.quantity > 0 /\ QuantityHeadroom(l) <= 0

ValidLease(l) ==
  /\ \A f \in {"amount", "quantity", "spent", "ordered", "reserved", "reservedUnits"} : l[f] >= 0
  /\ l.spent <= l.amount
  /\ l.quantity > 0 => l.ordered <= l.quantity
  /\ l.amount > 0 => Committed(l) <= l.amount
  /\ l.quantity > 0 => CommittedUnits(l) <= l.quantity

--------------------------------------------------------------------------------
(* The three moves of a hold.  Each CanX is the code's error check and X the *)
(* lease it returns when there is no error.                                 *)

CanHold(l, amount, units) ==
  /\ amount >= 0 /\ units >= 0
  /\ amount > 0 => amount <= Headroom(l)
  /\ units > 0 /\ QuantityHeadroom(l) >= 0 => units <= QuantityHeadroom(l)
Hold(l, amount, units) ==
  [l EXCEPT !.reserved = @ + amount, !.reservedUnits = @ + units]

(* Mutant: a release is not compared with what is held. *)
CanReleaseUnheld(l, amount, units) == amount >= 0 /\ units >= 0
CanRelease(l, amount, units) ==
  /\ amount >= 0 /\ units >= 0
  /\ amount <= l.reserved /\ units <= l.reservedUnits
(* Mutant: the units stay held. *)
ReleaseMoneyOnly(l, amount, units) == [l EXCEPT !.reserved = @ - amount]
Release(l, amount, units) ==
  [l EXCEPT !.reserved = @ - amount, !.reservedUnits = @ - units]

Charge(l, amount, units) ==
  [l EXCEPT !.spent = @ + amount, !.ordered = @ + units]

(* Mutants: the quote is charged whatever the invoice says; the hold is charged *)
(* as well as the invoice.                                                  *)
ConvertAtQuote(l, held, actual, heldUnits, actualUnits) ==
  Charge(Release(l, held, heldUnits), held, actualUnits)
ConvertHoldToo(l, held, actual, heldUnits, actualUnits) ==
  Charge(Release(l, held, heldUnits), held + actual, actualUnits)

Convert(l, held, actual, heldUnits, actualUnits) ==
  Charge(Release(l, held, heldUnits), actual, actualUnits)
CanConvert(l, held, actual, heldUnits, actualUnits) ==
  /\ CanRelease(l, held, heldUnits)
  /\ actual >= 0 /\ actualUnits >= 0
  /\ ValidLease(Convert(l, held, actual, heldUnits, actualUnits))

--------------------------------------------------------------------------------
(* The envelope. *)

(* The lease as the envelope now bounds it.  Tightening never reaches below  *)
(* what is already committed.                                               *)
(* Mutant: a lease that bounds no units stays unbounded. *)
ConstrainMoneyOnly(l, c) ==
  [l EXCEPT
     !.amount   = IF c.spend > 0 /\ c.spend < l.amount
                  THEN Larger(c.spend, Committed(l)) ELSE @,
     !.quantity = IF c.quantity > 0 /\ c.quantity < l.quantity
                  THEN Larger(c.quantity, CommittedUnits(l)) ELSE @]
Constrain(l, c) ==
  [l EXCEPT
     !.amount   = IF c.spend > 0 /\ c.spend < l.amount
                  THEN Larger(c.spend, Committed(l)) ELSE @,
     !.quantity = IF c.quantity > 0 /\ (l.quantity <= 0 \/ c.quantity < l.quantity)
                  THEN Larger(c.quantity, CommittedUnits(l)) ELSE @]

PermitCeiling(c, amount, units, actionsToday) ==
  /\ c.listed
  /\ c.spend > 0 => amount <= c.spend
  /\ c.quantity > 0 => units <= c.quantity
  /\ c.rate > 0 => actionsToday < c.rate

(* PermitSpend on a fresh replica: an exhausted lease permits nothing. *)
PermitSpend(l, amount, units) ==
  /\ ValidLease(l)
  /\ ~Exhausted(l)
  /\ amount > 0 /\ l.amount > 0 => amount <= Headroom(l)
  /\ units > 0 /\ QuantityHeadroom(l) >= 0 => units <= QuantityHeadroom(l)
================================================================================
