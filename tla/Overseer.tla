-------------------------------- MODULE Overseer ---------------------------------
(***************************************************************************)
(* The overseer's side of one capability: an owner moves the ceiling of the   *)
(* envelope, a clerk allocates leases under it, cells spend them while nobody  *)
(* watches, leases are reclaimed, and `varvig-factory authority` reports what  *)
(* is outstanding (authority/store.go, Envelope and CheckExclusive of         *)
(* authority.go, cmd/varvig-factory/main.go).                                *)
(*                                                                         *)
(* The envelope and the leases are refs of the coordination repository, and    *)
(* every write is a compare-and-swap with the content the writer read.  No     *)
(* command of the repository issues a lease: whoever does reads the one it      *)
(* replaces and publishes another, as the simulator and the tests do, and       *)
(* nothing on that path adds the leases up.  A cell's reservations are          *)
(* EffectProtocol; here a cell has one action at a time, and a vendor charges  *)
(* what it quoted.                                                           *)
(***************************************************************************)
EXTENDS Authority, Sums

CONSTANTS
  Cells,
  Allocations,      \* what a lease may be issued with: [amount, quantity]
  Timeouts,         \* its reclaim_after; 0 is none
  Orders,           \* what an action may cost: [amount, units]
  Ceilings, InitCeiling,
  MaxIssues, MaxNow \* bounds

ASSUME OverseerAssumption ==
  /\ IsFiniteSet(Cells)
  /\ Allocations \subseteq [amount : Nat, quantity : Nat]
  /\ Orders \subseteq [amount : Nat, units : Nat]
  /\ Timeouts \subseteq Nat
  /\ Ceilings \subseteq Ceiling /\ InitCeiling \in Ceiling /\ InitCeiling.listed
  /\ MaxIssues \in Nat /\ MaxNow \in Nat

VARIABLES
  ceiling,   \* of the capability, in the overseer's envelope
  lease,     \* [Cells -> Lease or NoLease]: refs/factory/leases
  due,       \* [Cells -> Nat]: a lease's ReclaimAfter
  now,
  clerk, actor,
  paid, ordered,  \* [Cells -> Nat]: what the world charged and delivered
  orphaned,  \* what reclaimed leases still held: [amount, units]
  report,    \* the last report of the authority command, until a lease is issued
  issues

world == <<paid, ordered>>
vars == <<ceiling, lease, due, now, clerk, actor, world, orphaned, report, issues>>

--------------------------------------------------------------------------------
NoLease == [amount |-> -1]
Exists(l) == l # NoLease

Holders(ls) == {c \in Cells : Exists(ls[c])}

(* What a lease adds to a sum over the leases. *)
AmountOf(l)   == IF Exists(l) THEN l.amount ELSE 0
QuantityOf(l) == IF Exists(l) THEN l.quantity ELSE 0
HeadroomOf(l) == IF Exists(l) THEN Headroom(l) ELSE 0
Amounts(ls)    == [c \in Cells |-> AmountOf(ls[c])]
Quantities(ls) == [c \in Cells |-> QuantityOf(ls[c])]
Headrooms(ls)  == [c \in Cells |-> HeadroomOf(ls[c])]

(* Exposure: what can still be spent without issuing anything further.         *)

(* Mutant: the leases as tightened, which a partitioned cell has not heard of. *)
ExposureAsTightened(ls) ==
  Total([c \in Cells |-> IF Exists(ls[c]) THEN Headroom(Constrain(ls[c], ceiling)) ELSE 0])
Exposure(ls) == Total(Headrooms(ls))

(* CheckExclusive: leases are exclusive by the names of their refs; what they     *)
(* allocate is summed.                                                       *)

(* Mutant: each lease is under the ceiling. *)
CheckExclusiveEach(k, ls) ==
  \A c \in Holders(ls) :
    /\ ValidLease(ls[c])
    /\ k.listed
    /\ k.spend > 0 => ls[c].amount <= k.spend
    /\ k.quantity > 0 => ls[c].quantity <= k.quantity
CheckExclusive(k, ls) ==
  /\ \A c \in Holders(ls) : ValidLease(ls[c])
  /\ Holders(ls) # {} =>
       /\ k.listed
       /\ k.spend > 0 => Total(Amounts(ls)) <= k.spend
       /\ k.quantity > 0 => Total(Quantities(ls)) <= k.quantity

(* What Reclaim asks of a lease.                                              *)

(* Mutant: whatever was spent. *)
CollectableUnspent(l, dueAt) == dueAt > 0 => now >= dueAt
Collectable(l, dueAt) ==
  /\ l.spent = 0 /\ l.ordered = 0
  /\ dueAt > 0 => now >= dueAt

--------------------------------------------------------------------------------
(* The owner and the clerk. *)

PublishEnvelope ==
  \E k \in Ceilings :
    /\ ceiling' = k
    /\ UNCHANGED <<lease, due, now, clerk, actor, world, orphaned, report, issues>>

IdleClerk == [step |-> "idle", seen |-> NoLease]

(* The lease there is, or its absence, and the hash it is read at. *)
LoadLease(c) ==
  /\ clerk.step = "idle" /\ issues < MaxIssues
  /\ clerk' = [step |-> "ready", cell |-> c, seen |-> lease[c]]
  /\ UNCHANGED <<ceiling, lease, due, now, actor, world, orphaned, report, issues>>

Fresh(a) == [amount |-> a.amount, quantity |-> a.quantity, spent |-> 0, ordered |-> 0,
             reserved |-> 0, reservedUnits |-> 0]

(* Mutant: what was spent and held is forgotten. *)
ReplenishedAfresh(l, a) == Fresh(a)
Replenished(l, a) ==
  IF Exists(l) THEN [l EXCEPT !.amount = a.amount, !.quantity = a.quantity] ELSE Fresh(a)

(* What a report says: the headroom it lists, and the ceiling it finds the listing    *)
(* within, if it does.  What was charged or in flight when it listed is kept beside it. *)
NoVerdict == [listed |-> FALSE, spend |-> 0, quantity |-> 0, rate |-> 0]
NoListing == [c \in Cells |-> NoLease]
NoReport  == [holds |-> FALSE, judged |-> FALSE, seen |-> NoListing, printed |-> 0, before |-> 0,
              within |-> NoVerdict]

(* A new lease, or more for one that exists; the swap fails if the lease moved. *)
PublishLease(c) ==
  \E a \in Allocations, t \in Timeouts :
    LET new  == Replenished(clerk.seen, a)
        goes == ValidLease(new) /\ lease[c] = clerk.seen
    IN /\ clerk.step = "ready" /\ clerk.cell = c
       /\ clerk' = IdleClerk
       /\ issues' = issues + 1
       /\ lease' = IF goes THEN [lease EXCEPT ![c] = new] ELSE lease
       /\ due' = IF goes THEN [due EXCEPT ![c] = t] ELSE due
       /\ report' = IF goes THEN NoReport ELSE report
       /\ UNCHANGED <<ceiling, now, actor, world, orphaned>>

Reclaim(c) ==
  /\ Exists(lease[c]) /\ Collectable(lease[c], due[c])
  /\ lease' = [lease EXCEPT ![c] = NoLease]
  /\ orphaned' = [amount |-> orphaned.amount + lease[c].reserved,
                  units |-> orphaned.units + lease[c].reservedUnits]
  /\ UNCHANGED <<ceiling, due, now, clerk, actor, world, report, issues>>

(* The authority command lists the leases and adds up their headroom.  A hold is not  *)
(* headroom, yet one that is given back is spent after all.                        *)
InFlight(c) == IF actor[c].step \in {"acting", "refused"} THEN actor[c].order.amount ELSE 0
InFlights   == [c \in Cells |-> InFlight(c)]
Report ==
  /\ report' = [NoReport EXCEPT !.holds = TRUE, !.seen = lease, !.printed = Exposure(lease),
                                !.before = Total(paid) + Total(InFlights)]
  /\ UNCHANGED <<ceiling, lease, due, now, clerk, actor, world, orphaned, issues>>

(* Then, if there are any, it loads the envelope and checks the listing against it. *)
Judge ==
  /\ report.holds /\ ~report.judged /\ Holders(report.seen) # {}
  /\ report' = [report EXCEPT !.judged = TRUE, !.seen = NoListing,
                              !.within = IF CheckExclusive(ceiling, report.seen) THEN ceiling ELSE NoVerdict]
  /\ UNCHANGED <<ceiling, lease, due, now, clerk, actor, world, orphaned, issues>>

Tick ==
  /\ now < MaxNow /\ now' = now + 1
  /\ UNCHANGED <<ceiling, lease, due, clerk, actor, world, orphaned, report, issues>>

--------------------------------------------------------------------------------
(* A cell's action. *)

IdleActor == [step |-> "idle", lease |-> NoLease, order |-> [amount |-> 0, units |-> 0]]

Become(c, r) == actor' = [actor EXCEPT ![c] = r]
Swap(c, old, new) == /\ lease[c] = old /\ lease' = [lease EXCEPT ![c] = new]

Granted(l, o) ==
  LET bounded == Constrain(l, ceiling)
  IN /\ PermitCeiling(ceiling, o.amount, o.units, 0)
     /\ PermitSpend(bounded, o.amount, o.units)
     /\ CanHold(bounded, o.amount, o.units) /\ CanHold(l, o.amount, o.units)

(* The lease and the envelope are read. *)
Grant(c) ==
  \E o \in Orders :
    /\ actor[c].step = "idle" /\ Exists(lease[c]) /\ Granted(lease[c], o)
    /\ Become(c, [step |-> "granted", lease |-> lease[c], order |-> o])
    /\ UNCHANGED <<ceiling, lease, due, now, clerk, world, orphaned, report, issues>>

(* Reserve holds the headroom, unless the lease has moved. *)
Reserve(c) ==
  LET a == actor[c]
  IN /\ a.step = "granted"
     /\ \/ /\ Swap(c, a.lease, Hold(a.lease, a.order.amount, a.order.units))
           /\ Become(c, [a EXCEPT !.step = "acting", !.lease = NoLease])
        \/ /\ lease[c] # a.lease /\ UNCHANGED lease
           /\ Become(c, IdleActor)
     /\ UNCHANGED <<ceiling, due, now, clerk, world, orphaned, report, issues>>

(* Once the headroom is held, nothing is read again before the vendor acts. *)
Act(c) ==
  /\ actor[c].step = "acting"
  /\ \/ /\ Become(c, [actor[c] EXCEPT !.step = "acted"])
        /\ paid' = [paid EXCEPT ![c] = @ + actor[c].order.amount]
        /\ ordered' = [ordered EXCEPT ![c] = @ + actor[c].order.units]
     \/ /\ Become(c, [actor[c] EXCEPT !.step = "refused"])
        /\ UNCHANGED world
  /\ UNCHANGED <<ceiling, lease, due, now, clerk, orphaned, report, issues>>

(* The answer reaches the lease there is, if that holds for it. *)
Settle(c) ==
  LET o == actor[c].order
  IN /\ Exists(lease[c])
     /\ \/ /\ actor[c].step = "acted"
           /\ CanConvert(lease[c], o.amount, o.amount, o.units, o.units)
           /\ lease' = [lease EXCEPT ![c] = Convert(@, o.amount, o.amount, o.units, o.units)]
        \/ /\ actor[c].step = "refused"
           /\ CanRelease(lease[c], o.amount, o.units)
           /\ lease' = [lease EXCEPT ![c] = Release(@, o.amount, o.units)]
     /\ Become(c, IdleActor)
     /\ UNCHANGED <<ceiling, due, now, clerk, world, orphaned, report, issues>>

--------------------------------------------------------------------------------
Init ==
  /\ ceiling = InitCeiling
  /\ lease = [c \in Cells |-> NoLease] /\ due = [c \in Cells |-> 0]
  /\ now = 0
  /\ clerk = IdleClerk
  /\ actor = [c \in Cells |-> IdleActor]
  /\ paid = [c \in Cells |-> 0] /\ ordered = [c \in Cells |-> 0]
  /\ orphaned = [amount |-> 0, units |-> 0]
  /\ report = NoReport
  /\ issues = 0

Next ==
  \/ PublishEnvelope \/ Report \/ Judge \/ Tick
  \/ \E c \in Cells : \/ LoadLease(c) \/ PublishLease(c) \/ Reclaim(c)
                      \/ Grant(c) \/ Reserve(c) \/ Act(c) \/ Settle(c)

Spec == Init /\ [][Next]_vars

--------------------------------------------------------------------------------
ActorState == [step : {"idle", "granted", "acting", "acted", "refused"},
               lease : Lease \cup {NoLease}, order : Orders \cup {IdleActor.order}]

ReadyClerk == [step : {"ready"}, cell : Cells, seen : Lease \cup {NoLease}]
ReportState == [holds : BOOLEAN, judged : BOOLEAN, seen : [Cells -> Lease \cup {NoLease}],
                printed : Nat, before : Nat, within : Ceilings \cup {InitCeiling, NoVerdict}]

(* Every variable has its type: among other things neither a lease nor a hold ever   *)
(* goes below zero, although leases move under the cells that settle (Settle).       *)
TypeOK ==
  /\ ceiling \in Ceilings \cup {InitCeiling}
  /\ lease \in [Cells -> Lease \cup {NoLease}]
  /\ due \in [Cells -> Timeouts \cup {0}] /\ now \in 0..MaxNow
  /\ clerk \in {IdleClerk} \cup ReadyClerk
  /\ actor \in [Cells -> ActorState]
  /\ paid \in [Cells -> Nat] /\ ordered \in [Cells -> Nat]
  /\ orphaned \in [amount : Nat, units : Nat]
  /\ report \in ReportState
  /\ issues \in 0..MaxIssues

(* Whatever is issued and tightened, and however cells spend, settle and lose leases,   *)
(* the world charges no more than the leases there are allocate and what was in flight  *)
(* on reclaimed ones (PublishLease, Reserve, Settle, Reclaim).  It holds of money where   *)
(* every lease allocates money, and of units where every lease bounds its units:        *)
(* ValidLease compares what is held with neither at zero.                             *)
SpendStaysAllocated ==
  /\ (\A a \in Allocations : a.amount > 0) =>
       Total(paid) <= Total(Amounts(lease)) + orphaned.amount
  /\ (\A a \in Allocations : a.quantity > 0) =>
       Total(ordered) <= Total(Quantities(lease)) + orphaned.units

(* "leases are exclusive and within the ceiling": once the authority command has said so, *)
(* the world charges no more than that ceiling until a lease is issued, although the       *)
(* command read the leases before the envelope and cells spend meanwhile (cmdAuthority,  *)
(* CheckExclusive), under the same two conditions.                                   *)
VerdictStands ==
  report.holds =>
    /\ (\A a \in Allocations : a.amount > 0) /\ report.within.spend > 0 =>
         Total(paid) <= report.within.spend + orphaned.amount
    /\ (\A a \in Allocations : a.quantity > 0) /\ report.within.quantity > 0 =>
         Total(ordered) <= report.within.quantity + orphaned.units

Recorded(l) == IF Exists(l) THEN l.spent ELSE 0
RecordedUnits(l) == IF Exists(l) THEN l.ordered ELSE 0

(* Settled spend is never forgotten: not by a clerk who replenishes from an old         *)
(* listing, and not by a reclaim (PublishLease, Reclaim, Settle).                     *)
SpendIsKept ==
  [][\A c \in Cells : /\ Recorded(lease[c]) <= Recorded(lease'[c])
                      /\ RecordedUnits(lease[c]) <= RecordedUnits(lease'[c])]_vars

(* The exposure a report prints is all that can be spent until something is issued, beside *)
(* what was charged, or held by an action in flight, when it listed the leases; it counts  *)
(* them as issued because a cell may not have heard of a tightening (Exposure,          *)
(* cmdAuthority).                                                                  *)
ReportBoundsSpending == report.holds => Total(paid) <= report.before + report.printed

(* What Reclaim's refusal is for: nothing is spent twice, so where the authority command  *)
(* found every lease within the ceiling, no more than that is charged.                *)
NoDoubleSpend == report.holds /\ report.within.spend > 0 => Total(paid) <= report.within.spend

(* "Leases never overlap and never sum past their ceiling" (CELL.md:838).            *)
LeasesWithinEnvelope == ceiling.spend > 0 => Total(Amounts(lease)) <= ceiling.spend
================================================================================
