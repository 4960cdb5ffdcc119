------------------------------ MODULE EffectMoney ------------------------------
(***************************************************************************)
(* What the leases of EffectProtocol say against what the reservations and  *)
(* the far end say.  The two writes of a settlement go to two repositories, *)
(* so each relation here is one an ill-timed step could break.  Everything   *)
(* is said in two dimensions at once, the money and the units of an action.  *)
(***************************************************************************)
EXTENDS EffectProtocol, Sums

ASSUME FiniteAssumption ==
  IsFiniteSet(Tickets) /\ IsFiniteSet(Procs) /\ IsFiniteSet(Principals) /\ IsFiniteSet(Cells)

Dimensions == {"amount", "units"}
Spent(l, d)    == IF d = "amount" THEN l.spent ELSE l.ordered
Reserved(l, d) == IF d = "amount" THEN l.reserved ELSE l.reservedUnits

(* What a reservation takes from its lease when it is settled at a cost. *)
Takes(r, cost, d) == IF d = "amount" THEN Cost(r, cost) ELSE r.units

--------------------------------------------------------------------------------
(* What the lease of c has to have paid for: the actions whose record says they  *)
(* are settled, at their invoice, or at the quote if a principal resolved them. *)
RecordedFor(c, t, d) ==
  LET r == resv[c][t] IN
  IF Priced(t) /\ r.state = "done" THEN Takes(r, IF r.resolved THEN 0 ELSE r.actual, d) ELSE 0
Recorded(c, d) == [t \in Tickets |-> RecordedFor(c, t, d)]

(* The one state never reachable: a reservation that says an irreversible       *)
(* action is settled, against a lease that has not recorded paying for it     *)
(* (effect/reservation.go:231).                                             *)
SettledIsPaid == \A c \in Cells, d \in Dimensions : Total(Recorded(c, d)) <= Spent(lease[c], d)

(* What makes it inductive: the lease has also paid for the actions whose record *)
(* is still to be written, by a pass or by a principal; and what they write is  *)
(* what it paid, because an outcome nobody has reported carries no cost yet.   *)
Paying(r) == r.step = "mark" /\ Priced(r.task) /\ r.happened

PassPaid(c, p, d) ==
  IF CellOf[p] = c /\ Paying(proc[p]) THEN Takes(proc[p].resv, proc[p].actual, d) ELSE 0
RulingPaid(c, j, d) ==
  IF judge[j].cell = c /\ Paying(judge[j]) THEN Takes(judge[j].resv, 0, d) ELSE 0
PaidByPasses(c, d) == [p \in Procs |-> PassPaid(c, p, d)]
PaidByRulings(c, d) == [j \in Principals |-> RulingPaid(c, j, d)]

PaidAhead ==
  \A c \in Cells, d \in Dimensions :
    Total(Recorded(c, d)) + Total(PaidByPasses(c, d)) + Total(PaidByRulings(c, d)) <= Spent(lease[c], d)

Costless(r) == /\ r.state \in {"none", "offered", "pending"} => r.actual = 0
               /\ r.state \notin {"done", "failed"} => ~r.resolved
PassKnowsCost(r) ==
  /\ r.step = "execute" => r.resv.state = "pending"
  /\ r.step \in {"execute", "settle", "mark"} =>
       /\ r.resv.state \in {"pending", "reported"} /\ Costless(r.resv)
       /\ r.resv.actual \in {0, r.actual}
SweepKnowsCost(r)  == \A t \in Tickets : r.list[t].state # "done" /\ Costless(r.list[t])

CostsAreReported ==
  /\ \A c \in Cells, t \in Tickets : Costless(resv[c][t])
  /\ \A p \in Procs : PassKnowsCost(proc[p])
  /\ \A s \in Sweepers : SweepKnowsCost(sweep[s])

--------------------------------------------------------------------------------
(* What the lease of c has to hold: the open reservations it has not closed yet,  *)
(* by ticket, and the holds of passes that have not claimed their key, by pass. *)
Closing(c, t) == \E p \in Procs : CellOf[p] = c /\ proc[p].task = t /\ proc[p].step = "mark"

Holds(c, t)   == Priced(t) /\ Open(resv[c][t]) /\ ~resv[c][t].released /\ ~Closing(c, t)
Keyless(c, p) == CellOf[p] = c /\ proc[p].step \in {"reserve", "unhold"} /\ Priced(proc[p].task)

HeldFor(c, t, d)   == IF Holds(c, t) THEN resv[c][t][d] ELSE 0
ComingFor(c, p, d) == IF Keyless(c, p) THEN proc[p][d] ELSE 0
Held(c, d)         == [t \in Tickets |-> HeldFor(c, t, d)]
Coming(c, d)       == [p \in Procs |-> ComingFor(c, p, d)]

(* While nothing disturbs the accounts, a lease holds exactly what its open       *)
(* reservations hold, whatever connectors do and whenever the overseer moves    *)
(* the lease: no headroom leaks and no hold is consumed twice (Reserve, Settle, *)
(* Fail).                                                                   *)
HoldsAccounted ==
  \A c \in Cells, d \in Dimensions : Reserved(lease[c], d) = Total(Held(c, d)) + Total(Coming(c, d))

(* A lease never records more spend than the far end charged: "settling again       *)
(* would spend the lease twice" and is refused (effect/reservation.go:395, Settle).  *)
(* A crash between the two writes of a settlement makes it false, and so does a   *)
(* principal who rules on what has been settled meanwhile.                     *)
NothingSpentTwice == \A c \in Cells : lease[c].spent <= Total(charged[c])

(* Once everything a cell started is closed, the lease has paid exactly what    *)
(* the far end charged and holds nothing (Settle, Fail, SettleReported).      *)
AccountsBalance ==
  \A c \in Cells :
    /\ \A t \in Tickets : ~Open(resv[c][t])
    /\ \A p \in Procs : proc[p].step = "idle"
    => /\ lease[c].spent = Total(charged[c])
       /\ lease[c].reserved = 0 /\ lease[c].reservedUnits = 0

(* What disturbs them, each with a counterexample of its own: a process that stops *)
(* or a sweep between the two writes of a settlement, two processes on one cell, *)
(* and a principal, who may resolve what a process or a connector is closing.   *)
(* No sweep runs in the built binary and no command resolves an action there;    *)
(* a lease is issued with nothing spent or held.                              *)
Undisturbed ==
  /\ Sweepers = {} /\ Principals = {} /\ MaxCrashes = 0
  /\ \A p, q \in Procs : CellOf[p] = CellOf[q] => p = q
  /\ \A c \in Cells : InitLease[c].spent = 0 /\ InitLease[c].reserved = 0 /\ InitLease[c].reservedUnits = 0

(* What makes them inductive.  An action that is being closed is attended to by    *)
(* one actor, who knows its record; nothing open has been released; a pass that *)
(* has not claimed its key is the only one that could.                        *)
Settles(p, c, t) == proc[p].step \in {"execute", "settle", "mark"} /\ CellOf[p] = c /\ proc[p].task = t
Works(k, c, t)   == conn[k].step # "idle" /\ conn[k].cell = c /\ conn[k].task = t

ClosedByOne(c, t) ==
  /\ \A p \in Procs : Settles(p, c, t) =>
       proc[p].resv = resv[c][t] /\ \A k \in Connectors : ~Works(k, c, t)
  /\ \A k \in Connectors : Works(k, c, t) => resv[c][t].state = "pending" /\ resv[c][t].takenBy = k
  /\ Open(resv[c][t]) => ~resv[c][t].released
OneCloser == \A c \in Cells, t \in Tickets : ClosedByOne(c, t)

OwnsKey(p) ==
  /\ proc[p].step \in {"claim", "authorize", "look", "hold", "reserve"} =>
       resv[CellOf[p]][proc[p].task].state = "none"
  /\ proc[p].step = "hold" => Priced(proc[p].task)
  /\ proc[p].step # "unhold"
KeysAreOwn == \A p \in Procs : OwnsKey(p)

(* The far end charged nothing for what it did not perform, and whoever closes an   *)
(* action knows what it charged.                                             *)
PassCharge(p) ==
  proc[p].step \in {"settle", "mark"} /\ proc[p].happened =>
    charged[CellOf[p]][proc[p].task] = Charges(proc[p].task, proc[p].resv, proc[p].actual)
ReportCharge(k) ==
  LET c == conn[k].cell t == conn[k].task IN
  conn[k].step = "report" /\ conn[k].happened =>
    charged[c][t] = Charges(t, resv[c][t], conn[k].actual)
RecordCharge(c, t) ==
  LET r == resv[c][t] IN
  /\ placed[c][t] = 0 => charged[c][t] = 0
  /\ r.state = "reported" /\ r.happened => charged[c][t] = Charges(t, r, r.actual)

ChargesKnown ==
  /\ \A p \in Procs : PassCharge(p)
  /\ \A k \in Connectors : ReportCharge(k)
  /\ \A c \in Cells, t \in Tickets : RecordCharge(c, t)

(* And what the far end charged is what the lease has paid and what it is yet to    *)
(* pay, for actions that are not closed.                                     *)
OwedFor(c, t) == IF Holds(c, t) THEN charged[c][t] ELSE 0
Owed(c)       == [t \in Tickets |-> OwedFor(c, t)]
ChargesOwed   == \A c \in Cells : Total(charged[c]) = lease[c].spent + Total(Owed(c))

(* Two cells acting on one ticket place one order between them: "two cells       *)
(* racing on the same key produce one winner and one ErrAlreadyReserved       *)
(* rather than two orders" (effect/reservation.go:242).                       *)
OneOrderPerTicket == \A t \in Tickets : Total([c \in Cells |-> placed[c][t]]) <= 1
================================================================================
