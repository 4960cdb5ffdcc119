---------------------------- MODULE Overseer_proofs ----------------------------
(***************************************************************************)
(* Proofs about Overseer, for any cells, allocations, timeouts, orders and     *)
(* ceilings: types, that settled spend is never forgotten, that spending stays   *)
(* within the leases, and that a report and its verdict bound what follows.      *)
(***************************************************************************)
EXTENDS Overseer, Sums_proofs

(* All of TypeOK but the number the report computes. *)
IInv ==
  /\ ceiling \in Ceilings \cup {InitCeiling}
  /\ lease \in [Cells -> Lease \cup {NoLease}]
  /\ clerk \in {IdleClerk} \cup ReadyClerk
  /\ actor \in [Cells -> ActorState]
  /\ \A c \in Cells : actor[c].step = "granted" => actor[c].lease \in Lease
  /\ paid \in [Cells -> Nat] /\ ordered \in [Cells -> Nat]

KeptBy(old, new) == Recorded(old) <= Recorded(new) /\ RecordedUnits(old) <= RecordedUnits(new)

(* What SpendIsKept says of a step. *)
Kept == \A c \in Cells : KeptBy(lease[c], lease'[c])

--------------------------------------------------------------------------------
(* Leases. *)

LEMMA LeaseExists ==
  ASSUME NEW l \in Lease \cup {NoLease}
  PROVE  /\ Exists(l) <=> l \in Lease
         /\ Recorded(l) \in Nat /\ RecordedUnits(l) \in Nat
         /\ Exists(l) => Recorded(l) = l.spent /\ RecordedUnits(l) = l.ordered
         /\ ~Exists(l) => Recorded(l) = 0 /\ RecordedUnits(l) = 0
<1>1. CASE l \in Lease
  <2>1. l.amount \in Nat /\ l.spent \in Nat /\ l.ordered \in Nat
    BY <1>1 DEF Lease
  <2>2. NoLease.amount = -1
    BY DEF NoLease
  <2>3. l # NoLease
    BY <2>1, <2>2
  <2> QED BY <1>1, <2>1, <2>3 DEF Exists, Recorded, RecordedUnits
<1>2. CASE l = NoLease
  <2>1. NoLease \notin Lease
    BY DEF NoLease, Lease
  <2> QED BY <1>2, <2>1 DEF Exists, Recorded, RecordedUnits
<1> QED BY <1>1, <1>2

LEMMA SameKept ==
  ASSUME NEW l \in Lease \cup {NoLease}
  PROVE  KeptBy(l, l)
BY LeaseExists DEF KeptBy

LEMMA OrderTyped ==
  ASSUME NEW c \in Cells, actor \in [Cells -> ActorState]
  PROVE  actor[c].order.amount \in Nat /\ actor[c].order.units \in Nat
<1>1. actor[c].order \in Orders \cup {IdleActor.order}
  BY DEF ActorState
<1>2. IdleActor.order \in [amount : Nat, units : Nat]
  BY DEF IdleActor
<1>3. PICK o : o = actor[c].order
  OBVIOUS
<1>4. o \in [amount : Nat, units : Nat]
  BY <1>1, <1>2, <1>3, OverseerAssumption
<1>5. o.amount \in Nat /\ o.units \in Nat
  BY <1>4
<1> QED BY <1>3, <1>5

LEMMA HeldTyped ==
  ASSUME NEW l \in Lease, NEW m \in Nat, NEW u \in Nat
  PROVE  Hold(l, m, u) \in Lease /\ KeptBy(l, Hold(l, m, u))
<1>1. Hold(l, m, u) \in Lease /\ Hold(l, m, u).spent = l.spent /\ Hold(l, m, u).ordered = l.ordered
  <2>1. l.reserved + m \in Nat /\ l.reservedUnits + u \in Nat
    BY DEF Lease
  <2>2. Hold(l, m, u) = [l EXCEPT !.reserved = l.reserved + m,
                                  !.reservedUnits = l.reservedUnits + u]
    BY DEF Hold, Lease
  <2> QED BY <2>1, <2>2 DEF Lease
<1> HIDE DEF Hold
<1> QED BY <1>1, LeaseExists DEF KeptBy

LEMMA ReleasedTyped ==
  ASSUME NEW l \in Lease, NEW m \in Nat, NEW u \in Nat, CanRelease(l, m, u)
  PROVE  Release(l, m, u) \in Lease /\ KeptBy(l, Release(l, m, u))
<1>1. l.reserved - m \in Nat /\ l.reservedUnits - u \in Nat
  BY DEF CanRelease, Lease
<1>2. /\ Release(l, m, u) \in Lease
      /\ Release(l, m, u).spent = l.spent /\ Release(l, m, u).ordered = l.ordered
  <2>1. Release(l, m, u) = [l EXCEPT !.reserved = l.reserved - m,
                                     !.reservedUnits = l.reservedUnits - u]
    BY DEF Release, Lease
  <2> QED BY <1>1, <2>1 DEF Lease
<1> HIDE DEF Release
<1> QED BY <1>2, LeaseExists DEF KeptBy

LEMMA ConvertedTyped ==
  ASSUME NEW l \in Lease, NEW m \in Nat, NEW u \in Nat, CanConvert(l, m, m, u, u)
  PROVE  Convert(l, m, m, u, u) \in Lease /\ KeptBy(l, Convert(l, m, m, u, u))
<1> DEFINE r == Release(l, m, u)
           x == Charge(r, m, u)
<1>1. r \in Lease /\ KeptBy(l, r)
  BY ReleasedTyped DEF CanConvert
<1> HIDE DEF r
<1>2. r.spent \in Nat /\ r.ordered \in Nat
  BY <1>1 DEF Lease
<1>3. x \in Lease /\ x.spent = r.spent + m /\ x.ordered = r.ordered + u
  <2>1. x = [r EXCEPT !.spent = r.spent + m, !.ordered = r.ordered + u]
    BY <1>1 DEF Charge, Lease
  <2>2. r.spent + m \in Nat /\ r.ordered + u \in Nat
    BY <1>2
  <2> QED BY <1>1, <2>1, <2>2 DEF Lease
<1> HIDE DEF x
<1>4. KeptBy(l, x)
  BY <1>1, <1>2, <1>3, LeaseExists DEF KeptBy
<1>5. Convert(l, m, m, u, u) = x
  BY DEF Convert, r, x
<1> QED BY <1>3, <1>4, <1>5

--------------------------------------------------------------------------------
(* A step that changes the lease of one cell. *)

LEMMA LeaseStep ==
  ASSUME IInv, NEW c \in Cells, NEW l \in Lease \cup {NoLease},
         lease' = [lease EXCEPT ![c] = l], KeptBy(lease[c], l)
  PROVE  lease' \in [Cells -> Lease \cup {NoLease}] /\ Kept
<1>1. /\ lease' \in [Cells -> Lease \cup {NoLease}] /\ lease'[c] = l
      /\ \A d \in Cells : d # c => lease'[d] = lease[d]
  BY DEF IInv
<1>2. ASSUME NEW d \in Cells PROVE KeptBy(lease[d], lease'[d])
  <2>1. lease[d] \in Lease \cup {NoLease}
    BY DEF IInv
  <2> QED BY <1>1, <2>1, SameKept
<1> QED BY <1>1, <1>2 DEF Kept

LEMMA NoLeaseStep ==
  ASSUME IInv, lease' = lease
  PROVE  lease' \in [Cells -> Lease \cup {NoLease}] /\ Kept
BY SameKept DEF IInv, Kept

LEMMA ActorStep ==
  ASSUME IInv, NEW c \in Cells, NEW r \in ActorState, Become(c, r),
         r.step = "granted" => r.lease \in Lease
  PROVE  /\ actor' \in [Cells -> ActorState]
         /\ \A d \in Cells : actor'[d].step = "granted" => actor'[d].lease \in Lease
BY DEF IInv, Become

LEMMA IdleActorTyped == IdleActor \in ActorState /\ IdleActor.step = "idle"
BY DEF IdleActor, ActorState

(* A clerk who replenishes takes over what the lease it read had spent, and the swap    *)
(* makes sure that this is the lease there is.                                     *)
LEMMA PublishLeaseKeeps ==
  ASSUME IInv, NEW c \in Cells, PublishLease(c)
  PROVE  IInv' /\ Kept
<1>1. PICK a \in Allocations, t \in Timeouts :
        LET new  == Replenished(clerk.seen, a)
            goes == ValidLease(new) /\ lease[c] = clerk.seen
        IN /\ clerk.step = "ready" /\ clerk' = IdleClerk
           /\ lease' = IF goes THEN [lease EXCEPT ![c] = new] ELSE lease
           /\ UNCHANGED <<ceiling, actor, world>>
  BY DEF PublishLease
<1> DEFINE new == Replenished(clerk.seen, a)
<1>2. clerk' \in {IdleClerk} \cup ReadyClerk
  BY <1>1
<1>3. lease' = lease \/ (lease' = [lease EXCEPT ![c] = new] /\ lease[c] = clerk.seen)
  BY <1>1
<1>4. clerk.seen \in Lease \cup {NoLease} /\ a.amount \in Nat /\ a.quantity \in Nat
  BY <1>1, OverseerAssumption DEF IInv, IdleClerk, ReadyClerk
<1>5. new \in Lease /\ KeptBy(clerk.seen, new)
  <2>1. CASE Exists(clerk.seen)
    <3>1. clerk.seen \in Lease
      BY <1>4, <2>1, LeaseExists
    <3>2. new = [clerk.seen EXCEPT !.amount = a.amount, !.quantity = a.quantity]
      BY <2>1 DEF Replenished
    <3>3. new \in Lease /\ new.spent = clerk.seen.spent /\ new.ordered = clerk.seen.ordered
      BY <1>4, <3>1, <3>2 DEF Lease
    <3> HIDE DEF new
    <3> QED BY <3>1, <3>3, LeaseExists DEF KeptBy
  <2>2. CASE ~Exists(clerk.seen)
    <3>1. new = Fresh(a)
      BY <2>2 DEF Replenished
    <3>2. new \in Lease
      BY <1>4, <3>1 DEF Fresh, Lease
    <3> HIDE DEF new
    <3> QED BY <1>4, <2>2, <3>2, LeaseExists DEF KeptBy
  <2> QED BY <2>1, <2>2
<1> HIDE DEF new
<1>6. lease' \in [Cells -> Lease \cup {NoLease}] /\ Kept
  BY <1>3, <1>5, LeaseStep, NoLeaseStep
<1> QED BY <1>1, <1>2, <1>6 DEF IInv, world

(* What is reclaimed had spent nothing. *)
LEMMA ReclaimKeeps ==
  ASSUME IInv, NEW c \in Cells, Reclaim(c)
  PROVE  IInv' /\ Kept
<1>1. /\ Exists(lease[c]) /\ lease[c].spent = 0 /\ lease[c].ordered = 0
      /\ lease' = [lease EXCEPT ![c] = NoLease]
      /\ UNCHANGED <<ceiling, clerk, actor, world>>
  BY DEF Reclaim, Collectable
<1>2. lease[c] \in Lease \cup {NoLease}
  BY DEF IInv
<1>3. KeptBy(lease[c], NoLease)
  BY <1>1, <1>2, LeaseExists DEF KeptBy
<1>4. lease' \in [Cells -> Lease \cup {NoLease}] /\ Kept
  BY <1>1, <1>3, LeaseStep
<1> QED BY <1>1, <1>4 DEF IInv, world

LEMMA GrantKeeps ==
  ASSUME IInv, NEW c \in Cells, Grant(c)
  PROVE  IInv' /\ Kept
<1>1. PICK o \in Orders :
        /\ Exists(lease[c])
        /\ Become(c, [step |-> "granted", lease |-> lease[c], order |-> o])
        /\ UNCHANGED <<ceiling, lease, clerk, world>>
  BY DEF Grant
<1> DEFINE r == [step |-> "granted", lease |-> lease[c], order |-> o]
<1>2. r \in ActorState /\ r.lease \in Lease
  <2>1. lease[c] \in Lease
    BY <1>1, LeaseExists DEF IInv
  <2> QED BY <2>1 DEF ActorState
<1> HIDE DEF r
<1>3. /\ actor' \in [Cells -> ActorState]
      /\ \A d \in Cells : actor'[d].step = "granted" => actor'[d].lease \in Lease
  BY <1>1, <1>2, ActorStep DEF r
<1>4. Kept
  BY <1>1, NoLeaseStep
<1> QED BY <1>1, <1>3, <1>4 DEF IInv, world

LEMMA ReserveKeeps ==
  ASSUME IInv, NEW c \in Cells, Reserve(c)
  PROVE  IInv' /\ Kept
<1> DEFINE a == actor[c]
           o == actor[c].order
           r == [a EXCEPT !.step = "acting", !.lease = NoLease]
<1>1. a.step = "granted" /\ UNCHANGED <<ceiling, clerk, world>>
  BY DEF Reserve
<1>2. a \in ActorState /\ o.amount \in Nat /\ o.units \in Nat
      /\ lease[c] \in Lease \cup {NoLease}
  BY OrderTyped DEF IInv
<1>3. CASE lease[c] # a.lease /\ UNCHANGED lease /\ Become(c, IdleActor)
  <2>1. /\ actor' \in [Cells -> ActorState]
        /\ \A d \in Cells : actor'[d].step = "granted" => actor'[d].lease \in Lease
        /\ Kept
    BY <1>3, IdleActorTyped, ActorStep, NoLeaseStep
  <2> QED BY <1>1, <1>3, <2>1 DEF IInv, world
<1>4. CASE Swap(c, a.lease, Hold(a.lease, o.amount, o.units)) /\ Become(c, r)
  <2>1. r \in ActorState /\ r.step = "acting"
    BY <1>2 DEF ActorState
  <2> HIDE DEF r
  <2>2. lease[c] = a.lease /\ lease' = [lease EXCEPT ![c] = Hold(lease[c], o.amount, o.units)]
    BY <1>4 DEF Swap
  <2>3. /\ actor' \in [Cells -> ActorState]
        /\ \A d \in Cells : actor'[d].step = "granted" => actor'[d].lease \in Lease
    BY <1>4, <2>1, ActorStep
  <2>4. lease[c] \in Lease
    BY <1>1, <2>2 DEF IInv
  <2>5. Hold(lease[c], o.amount, o.units) \in Lease
        /\ KeptBy(lease[c], Hold(lease[c], o.amount, o.units))
    BY <1>2, <2>4, HeldTyped
  <2>6. lease' \in [Cells -> Lease \cup {NoLease}] /\ Kept
    BY <2>2, <2>5, LeaseStep
  <2> QED BY <1>1, <2>3, <2>6 DEF IInv, world
<1> QED BY <1>3, <1>4 DEF Reserve

LEMMA ActKeeps ==
  ASSUME IInv, NEW c \in Cells, Act(c)
  PROVE  IInv' /\ Kept
<1>1. actor[c] \in ActorState /\ actor[c].order.amount \in Nat /\ actor[c].order.units \in Nat
  BY OrderTyped DEF IInv
<1>2. UNCHANGED <<ceiling, lease, clerk>>
  BY DEF Act
<1>3. paid' \in [Cells -> Nat] /\ ordered' \in [Cells -> Nat]
  BY <1>1 DEF Act, IInv, world
<1>4. \A s \in {"acted", "refused"} :
        LET r == [actor[c] EXCEPT !.step = s] IN r \in ActorState /\ r.step = s
  BY <1>1 DEF ActorState
<1>5. /\ actor' \in [Cells -> ActorState]
      /\ \A d \in Cells : actor'[d].step = "granted" => actor'[d].lease \in Lease
  <2>1. PICK s \in {"acted", "refused"} : Become(c, [actor[c] EXCEPT !.step = s])
    BY DEF Act
  <2>2. PICK r : r = [actor[c] EXCEPT !.step = s]
    OBVIOUS
  <2>3. r \in ActorState /\ r.step = s /\ Become(c, r)
    BY <1>4, <2>1, <2>2
  <2> QED BY <2>3, ActorStep
<1>6. Kept
  BY <1>2, NoLeaseStep
<1> QED BY <1>2, <1>3, <1>5, <1>6 DEF IInv

(* The answer adds to the spend of the lease there is, or gives its hold back. *)
LEMMA SettleKeeps ==
  ASSUME IInv, NEW c \in Cells, Settle(c)
  PROVE  IInv' /\ Kept
<1> DEFINE o == actor[c].order
<1>1. /\ Exists(lease[c]) /\ Become(c, IdleActor)
      /\ UNCHANGED <<ceiling, clerk, world>>
  BY DEF Settle
<1>2. o.amount \in Nat /\ o.units \in Nat /\ lease[c] \in Lease
  BY <1>1, OrderTyped, LeaseExists DEF IInv
<1>3. \/ /\ CanConvert(lease[c], o.amount, o.amount, o.units, o.units)
         /\ lease' = [lease EXCEPT ![c] = Convert(@, o.amount, o.amount, o.units, o.units)]
      \/ /\ CanRelease(lease[c], o.amount, o.units)
         /\ lease' = [lease EXCEPT ![c] = Release(@, o.amount, o.units)]
  BY DEF Settle
<1> HIDE DEF o
<1>4. \E l \in Lease : KeptBy(lease[c], l) /\ lease' = [lease EXCEPT ![c] = l]
  <2>1. CASE /\ CanConvert(lease[c], o.amount, o.amount, o.units, o.units)
             /\ lease' = [lease EXCEPT ![c] = Convert(@, o.amount, o.amount, o.units, o.units)]
    BY <1>2, <2>1, ConvertedTyped
  <2>2. CASE /\ CanRelease(lease[c], o.amount, o.units)
             /\ lease' = [lease EXCEPT ![c] = Release(@, o.amount, o.units)]
    BY <1>2, <2>2, ReleasedTyped
  <2> QED BY <1>3, <2>1, <2>2
<1>5. lease' \in [Cells -> Lease \cup {NoLease}] /\ Kept
  BY <1>4, LeaseStep
<1>6. /\ actor' \in [Cells -> ActorState]
      /\ \A d \in Cells : actor'[d].step = "granted" => actor'[d].lease \in Lease
  BY <1>1, IdleActorTyped, ActorStep
<1> QED BY <1>1, <1>5, <1>6 DEF IInv, world

(* The owner, the clerk while it reads, and the authority command. *)
Reads == PublishEnvelope \/ Report \/ Judge \/ Tick \/ \E c \in Cells : LoadLease(c)

LEMMA ReadKeeps ==
  ASSUME IInv, Reads
  PROVE  IInv' /\ Kept
<1>1. lease' = lease /\ actor' = actor /\ paid' = paid /\ ordered' = ordered
  BY DEF Reads, PublishEnvelope, LoadLease, Report, Judge, Tick, world
<1>2. ceiling' \in Ceilings \cup {InitCeiling}
  BY DEF IInv, Reads, PublishEnvelope, LoadLease, Report, Judge, Tick
<1>3. clerk' \in {IdleClerk} \cup ReadyClerk
  <2>1. ASSUME NEW c \in Cells, LoadLease(c) PROVE clerk' \in ReadyClerk
    BY <2>1 DEF LoadLease, ReadyClerk, IInv
  <2> QED BY <2>1 DEF IInv, Reads, PublishEnvelope, Report, Judge, Tick
<1>4. Kept
  BY <1>1, NoLeaseStep
<1> QED BY <1>1, <1>2, <1>3, <1>4 DEF IInv

--------------------------------------------------------------------------------
LEMMA InitInv == Init => IInv
<1> SUFFICES ASSUME Init PROVE IInv
  OBVIOUS
<1>1. clerk \in {IdleClerk} \cup ReadyClerk
  BY DEF Init
<1>2. /\ actor \in [Cells -> ActorState]
      /\ \A c \in Cells : actor[c].step = "idle"
  BY IdleActorTyped DEF Init
<1> QED BY <1>1, <1>2 DEF Init, IInv

LEMMA NextInv ==
  ASSUME IInv, [Next]_vars
  PROVE  IInv' /\ Kept
<1>1. CASE UNCHANGED vars
  <2>1. Kept
    BY <1>1, NoLeaseStep DEF vars
  <2> QED BY <1>1, <2>1 DEF vars, world, IInv
<1>2. CASE Reads
  BY <1>2, ReadKeeps
<1>3. ASSUME NEW c \in Cells,
             \/ PublishLease(c) \/ Reclaim(c)
             \/ Grant(c) \/ Reserve(c) \/ Act(c) \/ Settle(c)
      PROVE  IInv' /\ Kept
  BY <1>3, PublishLeaseKeeps, ReclaimKeeps, GrantKeeps, ReserveKeeps, ActKeeps, SettleKeeps
<1> QED BY <1>1, <1>2, <1>3 DEF Next, Reads

(* Whatever lease a clerk has read, whatever is reclaimed and however answers cross     *)
(* with both, the spend and the units settled on a cell's lease never go down             *)
(* (PublishLease's swap, Reclaim's check, Settle).                                  *)
THEOREM SpendKept == Spec => SpendIsKept
<1>1. IInv /\ [Next]_vars => IInv'
  BY NextInv
<1>2. IInv /\ [Next]_vars =>
        [\A c \in Cells : /\ Recorded(lease[c]) <= Recorded(lease'[c])
                          /\ RecordedUnits(lease[c]) <= RecordedUnits(lease'[c])]_vars
  BY NextInv DEF Kept, KeptBy
<1> QED BY <1>1, <1>2, InitInv, PTL DEF Spec, SpendIsKept

--------------------------------------------------------------------------------
(* What a lease bounds, has settled and holds, and what the world has delivered,    *)
(* in each of the two dimensions of an action.                                 *)
Dimensions == {"amount", "units"}
Bounded(l, d) == IF d = "amount" THEN AmountOf(l) ELSE QuantityOf(l)
Settled(l, d) == IF d = "amount" THEN Recorded(l) ELSE RecordedUnits(l)
Held(l, d) == IF ~Exists(l) THEN 0 ELSE IF d = "amount" THEN l.reserved ELSE l.reservedUnits
Done(d)    == IF d = "amount" THEN paid ELSE ordered
Limit(k, d) == IF d = "amount" THEN k.spend ELSE k.quantity
Allotted(ls, d) == IF d = "amount" THEN Amounts(ls) ELSE Quantities(ls)
Metered(d) == \A a \in Allocations : (IF d = "amount" THEN a.amount ELSE a.quantity) > 0

(* The part of a cell's action that its lease has to hold; the lease holds no more,  *)
(* and less only when the lease that held it was reclaimed.                       *)
InHand(c, d) == IF actor[c].step \in {"acting", "acted", "refused"} THEN actor[c].order[d] ELSE 0
Acted(c, d)  == IF actor[c].step = "acted" THEN actor[c].order[d] ELSE 0
Lost(c, d)   == InHand(c, d) - Held(lease[c], d)
Losses(d)    == [c \in Cells |-> Lost(c, d)]

CellAccounted(c, d) ==
  /\ Held(lease[c], d) <= InHand(c, d)
  /\ Done(d)[c] = Settled(lease[c], d) + Acted(c, d)
  /\ Metered(d) => /\ Settled(lease[c], d) + Held(lease[c], d) <= Bounded(lease[c], d)
                   /\ Exists(lease[c]) => Bounded(lease[c], d) > 0
Accounted      == \A c \in Cells, d \in Dimensions : CellAccounted(c, d)
OrphansCounted == \A d \in Dimensions : Total(Losses(d)) <= orphaned[d]

(* What a cell was granted fits the lease it read. *)
GrantsFit == \A c \in Cells :
  actor[c].step = "granted" => CanHold(actor[c].lease, actor[c].order.amount, actor[c].order.units)

(* What a report says of the leases there are, until one is issued: they allocate no    *)
(* more than the listing it is about to check, and than the ceiling it found that within. *)
Within(k, ls) == \A d \in Dimensions : Limit(k, d) > 0 => Total(Allotted(ls, d)) <= Limit(k, d)
Allocated     == report.holds => Within(report.within, lease)
ListingCovers == report.holds /\ ~report.judged =>
  \A c \in Cells, d \in Dimensions : Bounded(lease[c], d) <= Bounded(report.seen[c], d)

EnvelopeInv == Accounted /\ OrphansCounted /\ GrantsFit /\ Allocated /\ ListingCovers

(* What is outstanding never grows but by an issue. *)
ReportStands ==
  report.holds => Total(paid) + Total(InFlights) + Exposure(lease) <= report.before + report.printed

(* The rest of TypeOK: IInv and Rest make it up. *)
Rest == /\ due \in [Cells -> Timeouts \cup {0}] /\ now \in 0..MaxNow
        /\ orphaned \in [amount : Nat, units : Nat]
        /\ report \in ReportState
        /\ issues \in 0..MaxIssues
        /\ clerk.step = "ready" => issues < MaxIssues

(* A step of one cell leaves the others as they are. *)
OthersStand(c) == \A e \in Cells \ {c} :
  lease'[e] = lease[e] /\ actor'[e] = actor[e] /\ paid'[e] = paid[e] /\ ordered'[e] = ordered[e]

--------------------------------------------------------------------------------
(* What the moves of a lease do to these numbers. *)

LEMMA NumbersTyped ==
  ASSUME NEW l \in Lease \cup {NoLease}, NEW d \in Dimensions
  PROVE  /\ Bounded(l, d) \in Nat /\ Settled(l, d) \in Nat /\ Held(l, d) \in Nat
         /\ HeadroomOf(l) \in Nat
<1>1. CASE Exists(l)
  <2>1. l \in Lease
    BY <1>1, LeaseExists
  <2>2. Headroom(l) \in Nat
    BY <2>1 DEF Headroom, Committed, Lease
  <2> QED BY <1>1, <2>1, <2>2, LeaseExists
          DEF Bounded, Settled, Held, HeadroomOf, AmountOf, QuantityOf, Lease
<1>2. CASE ~Exists(l)
  BY <1>2, LeaseExists DEF Bounded, Settled, Held, HeadroomOf, AmountOf, QuantityOf
<1> QED BY <1>1, <1>2

LEMMA NumbersOf ==
  ASSUME NEW l \in Lease
  PROVE  /\ Bounded(l, "amount") = l.amount /\ Bounded(l, "units") = l.quantity
         /\ Settled(l, "amount") = l.spent /\ Settled(l, "units") = l.ordered
         /\ Held(l, "amount") = l.reserved /\ Held(l, "units") = l.reservedUnits
         /\ HeadroomOf(l) = Headroom(l)
BY LeaseExists DEF Bounded, Settled, Held, HeadroomOf, AmountOf, QuantityOf

LEMMA NumbersOfNone ==
  ASSUME NEW l, ~Exists(l), NEW d \in Dimensions
  PROVE  Bounded(l, d) = 0 /\ Settled(l, d) = 0 /\ Held(l, d) = 0 /\ HeadroomOf(l) = 0
BY DEF Bounded, Settled, Held, HeadroomOf, AmountOf, QuantityOf, Recorded, RecordedUnits

Amount == [amount : Nat, units : Nat]

LEMMA HoldNumbers ==
  ASSUME NEW l \in Lease, NEW o \in Amount, CanHold(l, o.amount, o.units)
  PROVE  LET x == Hold(l, o.amount, o.units)
         IN  /\ x \in Lease
             /\ \A d \in Dimensions :
                  /\ Bounded(x, d) = Bounded(l, d) /\ Settled(x, d) = Settled(l, d)
                  /\ Held(x, d) = Held(l, d) + o[d]
                  /\ Bounded(l, d) > 0 /\ Settled(l, d) + Held(l, d) <= Bounded(l, d)
                       => Settled(x, d) + Held(x, d) <= Bounded(x, d)
             /\ HeadroomOf(x) + o.amount <= HeadroomOf(l)
<1> DEFINE x == Hold(l, o.amount, o.units)
<1>1. o.amount \in Nat /\ o.units \in Nat
  BY DEF Amount
<1>2. x \in Lease
  BY <1>1, HeldTyped
<1>3. /\ x.amount = l.amount /\ x.quantity = l.quantity /\ x.spent = l.spent /\ x.ordered = l.ordered
      /\ x.reserved = l.reserved + o.amount /\ x.reservedUnits = l.reservedUnits + o.units
  BY DEF Hold, Lease
<1>4. /\ l.amount \in Nat /\ l.quantity \in Nat /\ l.spent \in Nat /\ l.ordered \in Nat
      /\ l.reserved \in Nat /\ l.reservedUnits \in Nat
  BY DEF Lease
<1> HIDE DEF x
<1>5. Headroom(x) + o.amount <= Headroom(l)
  BY <1>1, <1>3, <1>4 DEF Headroom, Committed, CanHold
<1>6. l.amount > 0 /\ l.spent + l.reserved <= l.amount => x.spent + x.reserved <= x.amount
  BY <1>1, <1>3, <1>4 DEF Headroom, Committed, CanHold
<1>7. l.quantity > 0 /\ l.ordered + l.reservedUnits <= l.quantity
        => x.ordered + x.reservedUnits <= x.quantity
  BY <1>1, <1>3, <1>4 DEF QuantityHeadroom, CommittedUnits, CanHold, Unlimited
<1> QED BY <1>2, <1>3, <1>5, <1>6, <1>7, NumbersOf DEF x, Dimensions

LEMMA ReleaseNumbers ==
  ASSUME NEW l \in Lease, NEW o \in Amount, CanRelease(l, o.amount, o.units)
  PROVE  LET x == Release(l, o.amount, o.units)
         IN  /\ x \in Lease
             /\ \A d \in Dimensions :
                  /\ Bounded(x, d) = Bounded(l, d) /\ Settled(x, d) = Settled(l, d)
                  /\ o[d] <= Held(l, d) /\ Held(x, d) = Held(l, d) - o[d]
             /\ HeadroomOf(x) <= HeadroomOf(l) + o.amount
<1> DEFINE x == Release(l, o.amount, o.units)
<1>1. o.amount \in Nat /\ o.units \in Nat
  BY DEF Amount
<1>2. x \in Lease
  BY <1>1, ReleasedTyped
<1>3. /\ x.amount = l.amount /\ x.quantity = l.quantity /\ x.spent = l.spent /\ x.ordered = l.ordered
      /\ x.reserved = l.reserved - o.amount /\ x.reservedUnits = l.reservedUnits - o.units
  BY DEF Release, Lease
<1>4. l.amount \in Nat /\ l.spent \in Nat /\ l.reserved \in Nat
      /\ o.amount <= l.reserved /\ o.units <= l.reservedUnits
  BY DEF Lease, CanRelease
<1> HIDE DEF x
<1>5. Headroom(x) <= Headroom(l) + o.amount
  BY <1>1, <1>3, <1>4 DEF Headroom, Committed
<1> QED BY <1>2, <1>3, <1>4, <1>5, NumbersOf DEF x, Dimensions

LEMMA ConvertNumbers ==
  ASSUME NEW l \in Lease, NEW o \in Amount,
         CanConvert(l, o.amount, o.amount, o.units, o.units)
  PROVE  LET x == Convert(l, o.amount, o.amount, o.units, o.units)
         IN  /\ x \in Lease
             /\ \A d \in Dimensions :
                  /\ Bounded(x, d) = Bounded(l, d) /\ Settled(x, d) = Settled(l, d) + o[d]
                  /\ o[d] <= Held(l, d) /\ Held(x, d) = Held(l, d) - o[d]
             /\ HeadroomOf(x) = HeadroomOf(l)
<1> DEFINE r == Release(l, o.amount, o.units)
           x == Convert(l, o.amount, o.amount, o.units, o.units)
<1>1. o.amount \in Nat /\ o.units \in Nat /\ CanRelease(l, o.amount, o.units)
  BY DEF Amount, CanConvert
<1>2. x \in Lease
  BY <1>1, ConvertedTyped
<1>3. /\ r \in Lease /\ HeadroomOf(r) <= HeadroomOf(l) + o.amount
      /\ \A d \in Dimensions :
           /\ Bounded(r, d) = Bounded(l, d) /\ Settled(r, d) = Settled(l, d)
           /\ o[d] <= Held(l, d) /\ Held(r, d) = Held(l, d) - o[d]
  BY <1>1, ReleaseNumbers
<1>4. x = Charge(r, o.amount, o.units)
  BY DEF Convert
<1> HIDE DEF r
<1>5. /\ x.amount = r.amount /\ x.quantity = r.quantity
      /\ x.spent = r.spent + o.amount /\ x.ordered = r.ordered + o.units
      /\ x.reserved = r.reserved /\ x.reservedUnits = r.reservedUnits
  BY <1>3, <1>4 DEF Charge, Lease
<1> HIDE DEF x
<1>6. \A d \in Dimensions : Bounded(x, d) = Bounded(r, d) /\ Settled(x, d) = Settled(r, d) + o[d]
                            /\ Held(x, d) = Held(r, d)
  BY <1>2, <1>3, <1>5, NumbersOf DEF Dimensions
<1>7. r.amount = l.amount /\ r.spent = l.spent /\ r.reserved = l.reserved - o.amount
  BY <1>3, NumbersOf DEF Dimensions
<1>8. l.spent \in Nat /\ l.reserved \in Nat
  BY DEF Lease
<1>9. x.amount = l.amount /\ x.spent + x.reserved = l.spent + l.reserved
  BY <1>1, <1>5, <1>7, <1>8
<1>10. Headroom(x) = Headroom(l)
  BY <1>9 DEF Headroom, Committed
<1> QED BY <1>2, <1>3, <1>6, <1>10, NumbersOf DEF x

--------------------------------------------------------------------------------
(* One cell at a time. *)

(* The sums are sums of natural numbers. *)
SumsOK ==
  /\ \A c \in Cells : actor[c].order \in Amount /\ InFlight(c) \in Nat
  /\ \A c \in Cells, d \in Dimensions : InHand(c, d) \in Nat /\ Acted(c, d) \in Nat
  /\ \A d \in Dimensions : /\ Allotted(lease, d) \in [Cells -> Nat]
                           /\ \A c \in Cells : Allotted(lease, d)[c] = Bounded(lease[c], d)
  /\ InFlights \in [Cells -> Nat] /\ Headrooms(lease) \in [Cells -> Nat] /\ paid \in [Cells -> Nat]
  /\ Total(paid) \in Nat /\ Total(InFlights) \in Nat /\ Exposure(lease) \in Nat

LEMMA SumsTyped == IInv => SumsOK
<1> SUFFICES ASSUME IInv PROVE SumsOK
  OBVIOUS
<1>1. ASSUME NEW c \in Cells
      PROVE  /\ actor[c].order \in Amount /\ InFlight(c) \in Nat
             /\ \A d \in Dimensions : InHand(c, d) \in Nat /\ Acted(c, d) \in Nat
  <2>1. actor[c].order \in Orders \cup {IdleActor.order}
    BY DEF IInv, ActorState
  <2>2. IdleActor.order \in Amount
    BY DEF IdleActor, Amount
  <2>3. PICK o : o = actor[c].order
    OBVIOUS
  <2>4. o \in Amount
    BY <2>1, <2>2, <2>3, OverseerAssumption DEF Amount
  <2>5. o.amount \in Nat /\ o.units \in Nat
    BY <2>4 DEF Amount
  <2> QED BY <2>3, <2>4, <2>5 DEF InHand, Acted, InFlight, Dimensions
<1>2. \A c \in Cells : HeadroomOf(lease[c]) \in Nat
                       /\ \A d \in Dimensions : Bounded(lease[c], d) \in Nat
  <2>1. \A c \in Cells : lease[c] \in Lease \cup {NoLease}
    BY DEF IInv
  <2> QED BY <2>1, NumbersTyped DEF Dimensions
<1>3. \A d \in Dimensions : /\ Allotted(lease, d) \in [Cells -> Nat]
                            /\ \A c \in Cells : Allotted(lease, d)[c] = Bounded(lease[c], d)
  BY <1>2 DEF Allotted, Amounts, Quantities, Bounded, Dimensions
<1>4. InFlights \in [Cells -> Nat] /\ Headrooms(lease) \in [Cells -> Nat] /\ paid \in [Cells -> Nat]
  BY <1>1, <1>2 DEF InFlights, Headrooms, IInv
<1>5. Total(paid) \in Nat /\ Total(InFlights) \in Nat /\ Total(Headrooms(lease)) \in Nat
  BY <1>4, TotalIsNat, OverseerAssumption
<1> QED BY <1>1, <1>3, <1>4, <1>5 DEF Exposure, SumsOK

LEMMA SumsTypedNext == IInv' => SumsOK'
BY SumsTyped, PTL

LossesOK == \A d \in Dimensions :
  Losses(d) \in [Cells -> Nat] /\ \A c \in Cells : Losses(d)[c] = Lost(c, d)

LEMMA LossesTyped == IInv /\ Accounted => LossesOK
<1> SUFFICES ASSUME IInv, Accounted, NEW d \in Dimensions
             PROVE  Losses(d) \in [Cells -> Nat] /\ \A c \in Cells : Losses(d)[c] = Lost(c, d)
  BY DEF LossesOK
<1>1. ASSUME NEW c \in Cells PROVE Lost(c, d) \in Nat
  <2>1. InHand(c, d) \in Nat
    BY SumsTyped DEF SumsOK
  <2>2. Held(lease[c], d) \in Nat
    BY NumbersTyped DEF IInv
  <2>3. Held(lease[c], d) <= InHand(c, d)
    BY DEF Accounted, CellAccounted
  <2> QED BY <2>1, <2>2, <2>3 DEF Lost
<1> QED BY <1>1 DEF Losses

LEMMA LossesTypedNext == IInv' /\ Accounted' => LossesOK'
BY LossesTyped, PTL

LEMMA CellStep ==
  ASSUME Accounted, NEW c \in Cells, OthersStand(c), \A d \in Dimensions : CellAccounted(c, d)'
  PROVE  Accounted'
<1> SUFFICES ASSUME NEW e \in Cells, NEW d \in Dimensions, e # c PROVE CellAccounted(e, d)'
  BY DEF Accounted
<1>1. lease'[e] = lease[e] /\ actor'[e] = actor[e] /\ paid'[e] = paid[e] /\ ordered'[e] = ordered[e]
  BY DEF OthersStand
<1>2. CellAccounted(e, d)
  BY DEF Accounted
<1>3. Done(d)'[e] = Done(d)[e] /\ InHand(e, d)' = InHand(e, d) /\ Acted(e, d)' = Acted(e, d)
  BY <1>1 DEF Done, InHand, Acted
<1> QED BY <1>1, <1>2, <1>3 DEF CellAccounted, Metered

LEMMA OrphanStep ==
  ASSUME IInv, IInv', Rest, Rest', Accounted, Accounted', OrphansCounted,
         NEW c \in Cells, OthersStand(c),
         \A d \in Dimensions : orphaned[d] + Lost(c, d)' <= orphaned'[d] + Lost(c, d)
  PROVE  OrphansCounted'
<1> SUFFICES ASSUME NEW d \in Dimensions PROVE Total(Losses(d)') <= orphaned'[d]
  BY DEF OrphansCounted
<1>1. /\ Losses(d) \in [Cells -> Nat] /\ Losses(d)[c] = Lost(c, d)
      /\ Losses(d)' \in [Cells -> Nat] /\ Losses(d)'[c] = Lost(c, d)'
  BY LossesTyped, LossesTypedNext DEF LossesOK
<1>2. \A e \in Cells \ {c} : Losses(d)'[e] = Losses(d)[e]
  BY DEF Losses, Lost, InHand, OthersStand
<1>3. Total(Losses(d)') - Losses(d)'[c] = Total(Losses(d)) - Losses(d)[c]
  BY <1>1, <1>2, TotalChangesByOne, OverseerAssumption
<1>4. Total(Losses(d)) \in Nat /\ Total(Losses(d)') \in Nat
  BY <1>1, TotalIsNat, OverseerAssumption
<1>5. orphaned[d] \in Nat /\ orphaned'[d] \in Nat
  BY DEF Rest, Dimensions
<1>6. Total(Losses(d)) <= orphaned[d]
  BY DEF OrphansCounted
<1>7. Lost(c, d) \in Nat /\ Lost(c, d)' \in Nat
  BY <1>1
<1>8. orphaned[d] + Lost(c, d)' <= orphaned'[d] + Lost(c, d)
  OBVIOUS
<1> QED BY <1>1, <1>3, <1>4, <1>5, <1>6, <1>7, <1>8

LEMMA AllottedNext ==
  ASSUME IInv', NEW d \in Dimensions
  PROVE  /\ Allotted(lease', d) \in [Cells -> Nat]
         /\ \A c \in Cells : Allotted(lease', d)[c] = Bounded(lease'[c], d)
<1>1. Allotted(lease, d)' = Allotted(lease', d)
  BY DEF Allotted, Amounts, Quantities
<1>2. \A c \in Cells : Bounded(lease[c], d)' = Bounded(lease'[c], d)
  BY DEF Bounded
<1> QED BY <1>1, <1>2, SumsTypedNext DEF SumsOK

(* No lease bounds more than it did. *)
NoIssue == \A c \in Cells, d \in Dimensions : Bounded(lease'[c], d) <= Bounded(lease[c], d)

VerdictOK ==
  report.within \in Ceiling /\ report.seen \in [Cells -> Lease \cup {NoLease}]

LEMMA VerdictTyped == Rest => VerdictOK
<1> SUFFICES ASSUME Rest PROVE VerdictOK
  OBVIOUS
<1>1. report.within \in Ceilings \cup {InitCeiling, NoVerdict}
      /\ report.seen \in [Cells -> Lease \cup {NoLease}]
  BY DEF Rest, ReportState
<1>2. NoVerdict \in Ceiling
  BY DEF NoVerdict, Ceiling
<1> QED BY <1>1, <1>2, OverseerAssumption DEF VerdictOK

LEMMA VerdictTypedNext == Rest' => VerdictOK'
BY VerdictTyped, PTL

LEMMA AllocationStands ==
  ASSUME IInv, IInv', Rest, Allocated, report' = report, NoIssue
  PROVE  Allocated'
<1> DEFINE k == report.within
<1>1. report.holds => Within(k, lease)
  BY DEF Allocated
<1>2. ASSUME NEW d \in Dimensions PROVE Total(Allotted(lease', d)) <= Total(Allotted(lease, d))
  <2>1. Allotted(lease, d) \in [Cells -> Nat] /\ \A c \in Cells : Allotted(lease, d)[c] = Bounded(lease[c], d)
    BY SumsTyped DEF SumsOK
  <2>2. /\ Allotted(lease', d) \in [Cells -> Nat]
        /\ \A c \in Cells : Allotted(lease', d)[c] = Bounded(lease'[c], d)
    BY AllottedNext
  <2>3. \A c \in Cells : Allotted(lease', d)[c] <= Allotted(lease, d)[c]
    BY <2>1, <2>2 DEF NoIssue
  <2> QED BY <2>1, <2>2, <2>3, TotalIsMonotone, OverseerAssumption
<1>3. \A d \in Dimensions : Total(Allotted(lease, d)) \in Nat /\ Total(Allotted(lease', d)) \in Nat
  BY AllottedNext, SumsTyped, TotalIsNat, OverseerAssumption DEF SumsOK
<1>4. k \in Ceiling
  BY VerdictTyped DEF VerdictOK
<1> HIDE DEF k
<1>5. \A d \in Dimensions : Limit(k, d) \in Nat
  BY <1>4 DEF Limit, Ceiling
<1>6. report.holds => Within(k, lease')
  BY <1>1, <1>2, <1>3, <1>5 DEF Within
<1> QED BY <1>6 DEF Allocated, Within, Allotted, Amounts, Quantities, k

--------------------------------------------------------------------------------
(* What a step of one cell has to show, and that it is enough. *)
CellMoves(c) ==
  /\ OthersStand(c)
  /\ UNCHANGED <<ceiling, clerk, report>>
  /\ \A d \in Dimensions :
       /\ CellAccounted(c, d)'
       /\ orphaned[d] + Lost(c, d)' <= orphaned'[d] + Lost(c, d)
       /\ Bounded(lease'[c], d) <= Bounded(lease[c], d)
  /\ actor'[c].step = "granted" =>
       CanHold(actor'[c].lease, actor'[c].order.amount, actor'[c].order.units)
  /\ paid'[c] + InFlight(c)' + HeadroomOf(lease'[c]) <= paid[c] + InFlight(c) + HeadroomOf(lease[c])

LEMMA ListingStands ==
  ASSUME IInv, IInv', Rest, ListingCovers, report' = report, NoIssue
  PROVE  ListingCovers'
<1> SUFFICES ASSUME report.holds, ~report.judged, NEW c \in Cells, NEW d \in Dimensions
             PROVE  Bounded(lease'[c], d) <= Bounded(report.seen[c], d)
  BY DEF ListingCovers, Bounded
<1>1. /\ lease[c] \in Lease \cup {NoLease} /\ lease'[c] \in Lease \cup {NoLease}
      /\ report.seen[c] \in Lease \cup {NoLease}
  BY DEF IInv, Rest, ReportState
<1>2. /\ Bounded(lease[c], d) \in Nat /\ Bounded(lease'[c], d) \in Nat
      /\ Bounded(report.seen[c], d) \in Nat
  BY <1>1, NumbersTyped
<1>3. Bounded(lease'[c], d) <= Bounded(lease[c], d) /\ Bounded(lease[c], d) <= Bounded(report.seen[c], d)
  BY DEF NoIssue, ListingCovers
<1> QED BY <1>2, <1>3

LEMMA OutstandingStep ==
  ASSUME IInv, IInv', Rest, Rest', ReportStands, NEW c \in Cells, OthersStand(c), report' = report,
         paid'[c] + InFlight(c)' + HeadroomOf(lease'[c]) <= paid[c] + InFlight(c) + HeadroomOf(lease[c])
  PROVE  ReportStands'
<1> SUFFICES ASSUME report.holds
             PROVE  Total(paid') + Total(InFlights') + Exposure(lease') <= report.before + report.printed
  BY DEF ReportStands, Exposure, Headrooms
<1>1. SumsOK /\ SumsOK'
  BY SumsTyped, SumsTypedNext
<1>2. /\ paid \in [Cells -> Nat] /\ InFlights \in [Cells -> Nat] /\ Headrooms(lease) \in [Cells -> Nat]
      /\ paid' \in [Cells -> Nat] /\ InFlights' \in [Cells -> Nat] /\ Headrooms(lease') \in [Cells -> Nat]
  <2>1. Headrooms(lease)' = Headrooms(lease')
    BY DEF Headrooms
  <2> QED BY <1>1, <2>1 DEF SumsOK
<1>3. \A e \in Cells \ {c} : /\ paid'[e] = paid[e] /\ InFlights'[e] = InFlights[e]
                             /\ Headrooms(lease')[e] = Headrooms(lease)[e]
  BY DEF OthersStand, InFlights, InFlight, Headrooms
<1>4. /\ Total(paid') - paid'[c] = Total(paid) - paid[c]
      /\ Total(InFlights') - InFlights'[c] = Total(InFlights) - InFlights[c]
      /\ Total(Headrooms(lease')) - Headrooms(lease')[c] = Total(Headrooms(lease)) - Headrooms(lease)[c]
  BY <1>2, <1>3, TotalChangesByOne, OverseerAssumption
<1>5. /\ Total(paid) \in Nat /\ Total(InFlights) \in Nat /\ Total(Headrooms(lease)) \in Nat
      /\ Total(paid') \in Nat /\ Total(InFlights') \in Nat /\ Total(Headrooms(lease')) \in Nat
  BY <1>2, TotalIsNat, OverseerAssumption
<1>6. /\ InFlights[c] = InFlight(c) /\ InFlights'[c] = InFlight(c)'
      /\ Headrooms(lease)[c] = HeadroomOf(lease[c]) /\ Headrooms(lease')[c] = HeadroomOf(lease'[c])
  BY DEF InFlights, Headrooms
<1>7. /\ paid[c] \in Nat /\ InFlights[c] \in Nat /\ Headrooms(lease)[c] \in Nat
      /\ paid'[c] \in Nat /\ InFlights'[c] \in Nat /\ Headrooms(lease')[c] \in Nat
  BY <1>2
<1>8. paid'[c] + InFlights'[c] + Headrooms(lease')[c] <= paid[c] + InFlights[c] + Headrooms(lease)[c]
  BY <1>6
<1>9. Total(paid) + Total(InFlights) + Total(Headrooms(lease)) <= report.before + report.printed
      /\ report.before \in Nat /\ report.printed \in Nat
  BY DEF ReportStands, Exposure, Rest, ReportState
<1>10. Total(paid') + Total(InFlights') + Total(Headrooms(lease')) <= report.before + report.printed
  BY <1>4, <1>5, <1>7, <1>8, <1>9
<1> QED BY <1>10 DEF Exposure

LEMMA CellMovesKeep ==
  ASSUME IInv, IInv', Rest, Rest', EnvelopeInv, NEW c \in Cells, CellMoves(c)
  PROVE  EnvelopeInv' /\ (ReportStands => ReportStands')
<1>1. Accounted'
  BY CellStep DEF EnvelopeInv, CellMoves
<1>2. OrphansCounted'
  BY <1>1, OrphanStep DEF EnvelopeInv, CellMoves
<1>3. GrantsFit'
  BY DEF EnvelopeInv, CellMoves, GrantsFit, OthersStand
<1>4. NoIssue
  <2>1. \A e \in Cells, d \in Dimensions : Bounded(lease[e], d) \in Nat
    BY NumbersTyped DEF IInv
  <2> QED BY <2>1 DEF NoIssue, CellMoves, OthersStand
<1>5. Allocated' /\ ListingCovers'
  BY <1>4, AllocationStands, ListingStands DEF EnvelopeInv, CellMoves
<1>6. ReportStands => ReportStands'
  BY OutstandingStep DEF CellMoves
<1> QED BY <1>1, <1>2, <1>3, <1>5, <1>6 DEF EnvelopeInv

LEMMA CellNumbers ==
  ASSUME IInv, NEW c \in Cells
  PROVE  /\ lease[c] \in Lease \cup {NoLease} /\ actor[c] \in ActorState
         /\ actor[c].order \in Amount /\ actor[c].order.amount \in Nat /\ actor[c].order.units \in Nat
         /\ paid[c] \in Nat /\ ordered[c] \in Nat /\ HeadroomOf(lease[c]) \in Nat
         /\ \A d \in Dimensions :
              /\ actor[c].order[d] \in Nat /\ Done(d)[c] \in Nat
              /\ Bounded(lease[c], d) \in Nat /\ Settled(lease[c], d) \in Nat /\ Held(lease[c], d) \in Nat
              /\ InHand(c, d) \in Nat /\ Acted(c, d) \in Nat
<1>1. /\ lease[c] \in Lease \cup {NoLease} /\ actor[c] \in ActorState
      /\ paid[c] \in Nat /\ ordered[c] \in Nat
  BY DEF IInv
<1>2. actor[c].order \in Amount
  BY SumsTyped DEF SumsOK
<1>3. PICK o : o = actor[c].order
  OBVIOUS
<1>4. o.amount \in Nat /\ o.units \in Nat /\ \A d \in Dimensions : o[d] \in Nat
  BY <1>2, <1>3 DEF Amount, Dimensions
<1>5. HeadroomOf(lease[c]) \in Nat
      /\ \A d \in Dimensions : Bounded(lease[c], d) \in Nat /\ Settled(lease[c], d) \in Nat
                               /\ Held(lease[c], d) \in Nat
  BY <1>1, NumbersTyped DEF Dimensions
<1>6. \A d \in Dimensions : Done(d)[c] \in Nat /\ InHand(c, d) \in Nat /\ Acted(c, d) \in Nat
  BY <1>1, SumsTyped DEF SumsOK, Done
<1> QED BY <1>1, <1>2, <1>3, <1>4, <1>5, <1>6

--------------------------------------------------------------------------------
(* The actions of a cell. *)

LEMMA OneOthersStand ==
  ASSUME IInv, NEW c \in Cells,
         lease' = lease \/ \E l : lease' = [lease EXCEPT ![c] = l],
         actor' = actor \/ \E r : actor' = [actor EXCEPT ![c] = r],
         paid' = paid \/ \E n : paid' = [paid EXCEPT ![c] = n],
         ordered' = ordered \/ \E n : ordered' = [ordered EXCEPT ![c] = n]
  PROVE  OthersStand(c)
BY DEF IInv, OthersStand

(* What is reclaimed was not spent, so only what it held is lost. *)
LEMMA ReclaimMoves ==
  ASSUME IInv, Rest, EnvelopeInv, NEW c \in Cells, Reclaim(c)
  PROVE  CellMoves(c)
<1> DEFINE l == lease[c]
<1>1. /\ Exists(l) /\ l.spent = 0 /\ l.ordered = 0
      /\ lease' = [lease EXCEPT ![c] = NoLease]
      /\ orphaned' = [amount |-> orphaned.amount + l.reserved, units |-> orphaned.units + l.reservedUnits]
      /\ actor' = actor /\ paid' = paid /\ ordered' = ordered
      /\ UNCHANGED <<ceiling, clerk, report>>
  BY DEF Reclaim, Collectable, world
<1>2. l \in Lease /\ lease'[c] = NoLease /\ ~Exists(NoLease)
  BY <1>1, LeaseExists DEF IInv, Exists
<1>3. OthersStand(c)
  BY <1>1, OneOthersStand
<1>4. /\ HeadroomOf(NoLease) = 0
      /\ \A d \in Dimensions : Bounded(NoLease, d) = 0 /\ Settled(NoLease, d) = 0 /\ Held(NoLease, d) = 0
  BY <1>2, NumbersOfNone DEF Dimensions
<1>5. \A d \in Dimensions : /\ orphaned'[d] = orphaned[d] + Held(l, d) /\ orphaned[d] \in Nat
                            /\ Settled(l, d) = 0
  BY <1>1, <1>2, NumbersOf DEF Dimensions, Rest
<1> HIDE DEF l
<1>6. /\ InFlight(c)' = InFlight(c)
      /\ \A d \in Dimensions : /\ InHand(c, d)' = InHand(c, d) /\ Acted(c, d)' = Acted(c, d)
                               /\ Done(d)' = Done(d)
  BY <1>1 DEF InFlight, InHand, Acted, Done
<1>7. ASSUME NEW d \in Dimensions
      PROVE  /\ CellAccounted(c, d)' /\ Bounded(lease'[c], d) <= Bounded(lease[c], d)
             /\ orphaned[d] + Lost(c, d)' <= orphaned'[d] + Lost(c, d)
  <2>1. CellAccounted(c, d)
    BY DEF EnvelopeInv, Accounted
  <2>2. /\ Held(lease'[c], d) = 0 /\ Settled(lease'[c], d) = 0 /\ Bounded(lease'[c], d) = 0
        /\ ~Exists(lease'[c])
    BY <1>2, <1>4
  <2>3. CellAccounted(c, d)'
    BY <1>5, <1>6, <2>1, <2>2, CellNumbers DEF CellAccounted, Metered, l
  <2>4. Lost(c, d) = InHand(c, d) - Held(l, d) /\ Lost(c, d)' = InHand(c, d)
    BY <1>6, <2>2, CellNumbers DEF Lost, l
  <2> QED BY <1>5, <2>2, <2>3, <2>4, CellNumbers DEF l
<1>8. actor'[c].step = "granted" => CanHold(actor'[c].lease, actor'[c].order.amount, actor'[c].order.units)
  BY <1>1 DEF EnvelopeInv, GrantsFit
<1>9. paid'[c] + InFlight(c)' + HeadroomOf(lease'[c]) <= paid[c] + InFlight(c) + HeadroomOf(lease[c])
  <2>1. InFlight(c) \in Nat
    BY SumsTyped DEF SumsOK
  <2> QED BY <1>1, <1>2, <1>4, <1>6, <2>1, CellNumbers
<1> QED BY <1>1, <1>3, <1>7, <1>8, <1>9 DEF CellMoves

(* A step that changes neither a lease, nor what a cell has in hand, nor the world. *)
LEMMA PassiveMoves ==
  ASSUME IInv, Rest, EnvelopeInv, NEW c \in Cells, NEW r,
         Become(c, r), r.step \in {"idle", "granted"}, actor[c].step \in {"idle", "granted"},
         r.step = "granted" => CanHold(r.lease, r.order.amount, r.order.units),
         UNCHANGED <<lease, paid, ordered, orphaned, ceiling, clerk, report>>
  PROVE  CellMoves(c)
<1>1. OthersStand(c)
  BY OneOthersStand DEF Become
<1>2. actor'[c] = r
  BY DEF IInv, Become
<1>3. /\ InFlight(c)' = 0 /\ InFlight(c) = 0
      /\ \A d \in Dimensions : /\ InHand(c, d)' = 0 /\ Acted(c, d)' = 0 /\ InHand(c, d) = 0 /\ Acted(c, d) = 0
                               /\ Done(d)' = Done(d)
  BY <1>2 DEF InFlight, InHand, Acted, Done
<1>4. ASSUME NEW d \in Dimensions
      PROVE  /\ CellAccounted(c, d)' /\ Bounded(lease'[c], d) <= Bounded(lease[c], d)
             /\ orphaned[d] + Lost(c, d)' <= orphaned'[d] + Lost(c, d)
  <2>1. CellAccounted(c, d)
    BY DEF EnvelopeInv, Accounted
  <2>2. CellAccounted(c, d)'
    BY <1>3, <2>1 DEF CellAccounted, Metered
  <2>3. Lost(c, d)' = Lost(c, d)
    BY <1>3 DEF Lost
  <2>4. orphaned[d] \in Nat /\ Lost(c, d) \in Int
    BY CellNumbers DEF Rest, Dimensions, Lost
  <2> QED BY <2>2, <2>3, <2>4, CellNumbers
<1>5. paid'[c] + InFlight(c)' + HeadroomOf(lease'[c]) <= paid[c] + InFlight(c) + HeadroomOf(lease[c])
  BY <1>3, CellNumbers
<1> QED BY <1>1, <1>2, <1>4, <1>5 DEF CellMoves

LEMMA GrantMoves ==
  ASSUME IInv, Rest, EnvelopeInv, NEW c \in Cells, Grant(c)
  PROVE  CellMoves(c)
<1>1. PICK o \in Orders :
        /\ actor[c].step = "idle" /\ Granted(lease[c], o)
        /\ Become(c, [step |-> "granted", lease |-> lease[c], order |-> o])
        /\ UNCHANGED <<lease, paid, ordered, orphaned, ceiling, clerk, report>>
  BY DEF Grant, world
<1> DEFINE r == [step |-> "granted", lease |-> lease[c], order |-> o]
<1>2. r.step = "granted" /\ CanHold(r.lease, r.order.amount, r.order.units)
  BY <1>1 DEF Granted
<1> HIDE DEF r
<1>3. Become(c, r)
  BY <1>1 DEF r
<1> QED BY <1>1, <1>2, <1>3, PassiveMoves

(* Reserve holds on the lease that was read what it was granted. *)
LEMMA ReserveMoves ==
  ASSUME IInv, Rest, EnvelopeInv, NEW c \in Cells, Reserve(c)
  PROVE  CellMoves(c)
<1> DEFINE a == actor[c]
           o == actor[c].order
           r == [a EXCEPT !.step = "acting", !.lease = NoLease]
           l == lease[c]
           x == Hold(l, o.amount, o.units)
<1>1. /\ a.step = "granted" /\ paid' = paid /\ ordered' = ordered
      /\ UNCHANGED <<orphaned, ceiling, clerk, report>>
  BY DEF Reserve, world
<1>2. CASE UNCHANGED lease /\ Become(c, IdleActor)
  BY <1>1, <1>2, IdleActorTyped, PassiveMoves
<1>3. CASE Swap(c, a.lease, Hold(a.lease, o.amount, o.units)) /\ Become(c, r)
  <2>1. l = a.lease /\ lease' = [lease EXCEPT ![c] = x]
    BY <1>3 DEF Swap
  <2>2. l \in Lease /\ CanHold(l, o.amount, o.units)
    BY <1>1, <2>1 DEF IInv, EnvelopeInv, GrantsFit
  <2>3. /\ x \in Lease /\ HeadroomOf(x) + o.amount <= HeadroomOf(l)
        /\ \A d \in Dimensions :
             /\ Bounded(x, d) = Bounded(l, d) /\ Settled(x, d) = Settled(l, d)
             /\ Held(x, d) = Held(l, d) + o[d]
             /\ Bounded(l, d) > 0 /\ Settled(l, d) + Held(l, d) <= Bounded(l, d)
                  => Settled(x, d) + Held(x, d) <= Bounded(x, d)
    BY <2>2, HoldNumbers, CellNumbers
  <2>4. lease'[c] = x
    BY <2>1 DEF IInv
  <2>5. actor'[c].step = "acting" /\ actor'[c].order = o
    BY <1>3 DEF IInv, Become, ActorState
  <2>6. OthersStand(c)
    BY <1>1, <1>3, <2>1, OneOthersStand DEF Become
  <2>7. /\ InFlight(c)' = o.amount /\ InFlight(c) = 0
        /\ \A d \in Dimensions : /\ InHand(c, d)' = o[d] /\ InHand(c, d) = 0
                                 /\ Acted(c, d)' = 0 /\ Acted(c, d) = 0 /\ Done(d)' = Done(d)
    BY <1>1, <2>5 DEF InFlight, InHand, Acted, Done
  <2>8. HeadroomOf(x) \in Nat
    BY <2>3, NumbersTyped DEF Dimensions
  <2>9. Exists(l)
    BY <2>2, LeaseExists
  <2> HIDE DEF a, o, r, l, x
  <2>10. ASSUME NEW d \in Dimensions
         PROVE  /\ CellAccounted(c, d)' /\ Bounded(lease'[c], d) <= Bounded(lease[c], d)
                /\ orphaned[d] + Lost(c, d)' <= orphaned'[d] + Lost(c, d)
    <3>1. CellAccounted(c, d)
      BY DEF EnvelopeInv, Accounted
    <3>2. Held(l, d) = 0
      BY <2>7, <3>1, CellNumbers DEF CellAccounted, l
    <3>3. o[d] \in Nat
      BY CellNumbers DEF o
    <3>4. Held(lease'[c], d) = o[d]
      BY <2>3, <2>4, <3>2, <3>3
    <3>5. Metered(d) => /\ Settled(lease'[c], d) + Held(lease'[c], d) <= Bounded(lease'[c], d)
                        /\ Bounded(lease'[c], d) > 0
      BY <2>3, <2>4, <2>9, <3>1 DEF CellAccounted, l
    <3>6. Settled(lease'[c], d) = Settled(l, d)
      BY <2>3, <2>4
    <3>7. Done(d)'[c] = Settled(lease'[c], d) + Acted(c, d)'
      BY <2>7, <3>1, <3>6 DEF CellAccounted, l
    <3>8. Held(lease'[c], d) <= InHand(c, d)'
      BY <2>7, <3>3, <3>4
    <3>9. CellAccounted(c, d)'
      BY <3>5, <3>7, <3>8 DEF CellAccounted, Metered
    <3>10. Lost(c, d)' = 0 /\ Lost(c, d) = 0
      BY <2>7, <3>2, <3>3, <3>4 DEF Lost, l
    <3>11. orphaned[d] \in Nat
      BY DEF Rest, Dimensions
    <3> QED BY <1>1, <2>3, <2>4, <3>9, <3>10, <3>11, CellNumbers DEF l
  <2>11. paid'[c] + InFlight(c)' + HeadroomOf(lease'[c]) <= paid[c] + InFlight(c) + HeadroomOf(lease[c])
    BY <1>1, <2>3, <2>4, <2>7, <2>8, CellNumbers DEF l, o
  <2> QED BY <1>1, <2>5, <2>6, <2>10, <2>11 DEF CellMoves
<1> QED BY <1>2, <1>3 DEF Reserve

(* The vendor acts, or does not: what is in hand becomes what is done. *)
LEMMA ActMoves ==
  ASSUME IInv, Rest, EnvelopeInv, NEW c \in Cells, Act(c)
  PROVE  CellMoves(c)
<1> DEFINE o == actor[c].order
<1>1. /\ actor[c].step = "acting" /\ lease' = lease
      /\ UNCHANGED <<orphaned, ceiling, clerk, report>>
  BY DEF Act
<1>2. PICK s \in {"acted", "refused"} :
        /\ Become(c, [actor[c] EXCEPT !.step = s])
        /\ s = "acted" => /\ paid' = [paid EXCEPT ![c] = @ + o.amount]
                          /\ ordered' = [ordered EXCEPT ![c] = @ + o.units]
        /\ s = "refused" => paid' = paid /\ ordered' = ordered
  BY DEF Act, world
<1>3. actor'[c].step = s /\ actor'[c].order = o
  BY <1>2 DEF IInv, Become, ActorState
<1>4. OthersStand(c)
  BY <1>1, <1>2, OneOthersStand DEF Become
<1>5. /\ s = "acted" => paid'[c] = paid[c] + o.amount /\ ordered'[c] = ordered[c] + o.units
      /\ s = "refused" => paid'[c] = paid[c] /\ ordered'[c] = ordered[c]
  BY <1>2 DEF IInv
<1>6. \A d \in Dimensions : Done(d)'[c] = Done(d)[c] + (IF s = "acted" THEN o[d] ELSE 0)
  BY <1>5, CellNumbers DEF Done, Dimensions
<1> HIDE DEF o
<1>7. /\ InFlight(c)' = (IF s = "acted" THEN 0 ELSE o.amount) /\ InFlight(c) = o.amount
      /\ \A d \in Dimensions : /\ InHand(c, d)' = o[d] /\ InHand(c, d) = o[d]
                               /\ Acted(c, d)' = (IF s = "acted" THEN o[d] ELSE 0) /\ Acted(c, d) = 0
  BY <1>1, <1>3 DEF InFlight, InHand, Acted, o
<1>8. ASSUME NEW d \in Dimensions
      PROVE  /\ CellAccounted(c, d)' /\ Bounded(lease'[c], d) <= Bounded(lease[c], d)
             /\ orphaned[d] + Lost(c, d)' <= orphaned'[d] + Lost(c, d)
  <2>1. CellAccounted(c, d)
    BY DEF EnvelopeInv, Accounted
  <2>2. o[d] \in Nat /\ orphaned[d] \in Nat
    BY CellNumbers DEF o, Rest, Dimensions
  <2>3. Done(d)'[c] = Settled(lease'[c], d) + Acted(c, d)'
    BY <1>1, <1>6, <1>7, <2>1, <2>2, CellNumbers DEF CellAccounted
  <2>4. CellAccounted(c, d)'
    BY <1>1, <1>7, <2>1, <2>3 DEF CellAccounted, Metered
  <2>5. Lost(c, d)' = Lost(c, d) /\ Lost(c, d) \in Int
    BY <1>1, <1>7, <2>2, CellNumbers DEF Lost
  <2> QED BY <1>1, <2>2, <2>4, <2>5, CellNumbers
<1>9. paid'[c] + InFlight(c)' + HeadroomOf(lease'[c]) <= paid[c] + InFlight(c) + HeadroomOf(lease[c])
  BY <1>1, <1>5, <1>7, CellNumbers DEF o
<1> QED BY <1>1, <1>3, <1>4, <1>8, <1>9 DEF CellMoves

(* The answer finds what is in hand on the lease, and takes it off.  A lease issued   *)
(* after the one that held it was reclaimed holds nothing, so it can take off only an   *)
(* action that cost nothing.                                                     *)
LEMMA SettleMoves ==
  ASSUME IInv, Rest, EnvelopeInv, NEW c \in Cells, Settle(c)
  PROVE  CellMoves(c)
<1> DEFINE o == actor[c].order
           l == lease[c]
<1>1. /\ Exists(l) /\ Become(c, IdleActor) /\ paid' = paid /\ ordered' = ordered
      /\ UNCHANGED <<orphaned, ceiling, clerk, report>>
      /\ actor[c].step \in {"acted", "refused"}
  BY DEF Settle, world
<1>2. l \in Lease /\ o \in Amount
  BY <1>1, CellNumbers, LeaseExists
<1>3. PICK x \in Lease :
        /\ lease' = [lease EXCEPT ![c] = x]
        /\ \A d \in Dimensions :
             /\ Bounded(x, d) = Bounded(l, d)
             /\ Settled(x, d) = Settled(l, d) + (IF actor[c].step = "acted" THEN o[d] ELSE 0)
             /\ o[d] <= Held(l, d) /\ Held(x, d) = Held(l, d) - o[d]
        /\ HeadroomOf(x) <= HeadroomOf(l) + (IF actor[c].step = "acted" THEN 0 ELSE o.amount)
  <2>1. CASE /\ actor[c].step = "acted"
             /\ CanConvert(l, o.amount, o.amount, o.units, o.units)
             /\ lease' = [lease EXCEPT ![c] = Convert(@, o.amount, o.amount, o.units, o.units)]
    <3>1. PICK x : x = Convert(l, o.amount, o.amount, o.units, o.units)
      OBVIOUS
    <3>2. /\ x \in Lease
          /\ \A d \in Dimensions :
               /\ Bounded(x, d) = Bounded(l, d) /\ Settled(x, d) = Settled(l, d) + o[d]
               /\ o[d] <= Held(l, d) /\ Held(x, d) = Held(l, d) - o[d]
          /\ HeadroomOf(x) = HeadroomOf(l)
      BY <1>2, <2>1, <3>1, ConvertNumbers
    <3>3. lease' = [lease EXCEPT ![c] = x]
      BY <2>1, <3>1 DEF IInv
    <3>4. HeadroomOf(x) <= HeadroomOf(l) + 0
      BY <3>2, CellNumbers
    <3> QED BY <2>1, <3>2, <3>3, <3>4
  <2>2. CASE /\ actor[c].step = "refused"
             /\ CanRelease(l, o.amount, o.units)
             /\ lease' = [lease EXCEPT ![c] = Release(@, o.amount, o.units)]
    <3>1. PICK x : x = Release(l, o.amount, o.units)
      OBVIOUS
    <3>2. /\ x \in Lease
          /\ \A d \in Dimensions :
               /\ Bounded(x, d) = Bounded(l, d) /\ Settled(x, d) = Settled(l, d)
               /\ o[d] <= Held(l, d) /\ Held(x, d) = Held(l, d) - o[d]
          /\ HeadroomOf(x) <= HeadroomOf(l) + o.amount
      BY <1>2, <2>2, <3>1, ReleaseNumbers
    <3>3. lease' = [lease EXCEPT ![c] = x]
      BY <2>2, <3>1 DEF IInv
    <3>4. \A d \in Dimensions : Settled(x, d) = Settled(l, d) + 0
      BY <3>2, CellNumbers
    <3> QED BY <2>2, <3>2, <3>3, <3>4
  <2> QED BY <2>1, <2>2 DEF Settle
<1>4. lease'[c] = x
  BY <1>3 DEF IInv
<1>5. actor'[c].step = "idle"
  BY <1>1, IdleActorTyped DEF IInv, Become
<1>6. OthersStand(c)
  BY <1>1, <1>3, OneOthersStand DEF Become
<1>7. Exists(x) /\ HeadroomOf(x) \in Nat
  BY LeaseExists, NumbersTyped DEF Dimensions
<1> HIDE DEF o, l
<1>8. /\ InFlight(c)' = 0 /\ InFlight(c) = (IF actor[c].step = "acted" THEN 0 ELSE o.amount)
      /\ \A d \in Dimensions :
           /\ InHand(c, d)' = 0 /\ InHand(c, d) = o[d] /\ Acted(c, d)' = 0
           /\ Acted(c, d) = (IF actor[c].step = "acted" THEN o[d] ELSE 0)
           /\ Done(d)' = Done(d)
  BY <1>1, <1>5 DEF InFlight, InHand, Acted, Done, o
<1>9. ASSUME NEW d \in Dimensions
      PROVE  /\ CellAccounted(c, d)' /\ Bounded(lease'[c], d) <= Bounded(lease[c], d)
             /\ orphaned[d] + Lost(c, d)' <= orphaned'[d] + Lost(c, d)
  <2>1. CellAccounted(c, d)
    BY DEF EnvelopeInv, Accounted
  <2>2. o[d] \in Nat /\ orphaned[d] \in Nat
    BY CellNumbers DEF o, Rest, Dimensions
  <2>3. Held(l, d) = o[d] /\ Held(x, d) = 0
    BY <1>3, <1>8, <2>1, <2>2, CellNumbers DEF CellAccounted, l
  <2>4. Done(d)'[c] = Settled(lease'[c], d) + Acted(c, d)'
    BY <1>3, <1>4, <1>8, <2>1, <2>2, CellNumbers DEF CellAccounted, l
  <2>5. Settled(x, d) + Held(x, d) <= Settled(l, d) + Held(l, d)
    BY <1>3, <2>2, <2>3, CellNumbers DEF l
  <2>6. Metered(d) => /\ Settled(lease'[c], d) + Held(lease'[c], d) <= Bounded(lease'[c], d)
                      /\ Bounded(lease'[c], d) > 0
    <3>1. Settled(x, d) \in Nat /\ Held(x, d) \in Nat
      BY NumbersTyped
    <3> QED BY <1>1, <1>3, <1>4, <2>1, <2>5, <3>1, CellNumbers DEF CellAccounted, l
  <2>7. CellAccounted(c, d)'
    BY <1>4, <1>8, <2>3, <2>4, <2>6 DEF CellAccounted, Metered
  <2>8. Lost(c, d)' = 0 /\ Lost(c, d) = 0
    BY <1>4, <1>8, <2>2, <2>3 DEF Lost, l
  <2> QED BY <1>1, <1>3, <1>4, <2>2, <2>7, <2>8, CellNumbers DEF l
<1>10. paid'[c] + InFlight(c)' + HeadroomOf(lease'[c]) <= paid[c] + InFlight(c) + HeadroomOf(lease[c])
  BY <1>1, <1>3, <1>4, <1>7, <1>8, CellNumbers DEF l, o
<1> QED BY <1>1, <1>5, <1>6, <1>9, <1>10 DEF CellMoves

--------------------------------------------------------------------------------
(* The clerk and the owner. *)

LEMMA AllottedTyped ==
  ASSUME NEW ls \in [Cells -> Lease \cup {NoLease}], NEW d \in Dimensions
  PROVE  /\ Allotted(ls, d) \in [Cells -> Nat] /\ Total(Allotted(ls, d)) \in Nat
         /\ \A c \in Cells : Allotted(ls, d)[c] = Bounded(ls[c], d)
<1>1. \A c \in Cells : Bounded(ls[c], d) \in Nat
  BY NumbersTyped
<1>2. Allotted(ls, d) \in [Cells -> Nat] /\ \A c \in Cells : Allotted(ls, d)[c] = Bounded(ls[c], d)
  BY <1>1 DEF Allotted, Amounts, Quantities, Bounded, Dimensions
<1> QED BY <1>2, TotalIsNat, OverseerAssumption

(* A new lease starts with nothing settled or held; one that exists keeps both. *)
LEMMA ReplenishNumbers ==
  ASSUME NEW l \in Lease \cup {NoLease}, NEW a \in Allocations
  PROVE  LET x == Replenished(l, a)
         IN  /\ x \in Lease
             /\ \A d \in Dimensions : /\ Settled(x, d) = Settled(l, d) /\ Held(x, d) = Held(l, d)
                                      /\ Metered(d) => Bounded(x, d) > 0
<1> DEFINE x == Replenished(l, a)
<1>1. a.amount \in Nat /\ a.quantity \in Nat
  BY OverseerAssumption
<1>2. x \in Lease /\ x.amount = a.amount /\ x.quantity = a.quantity
      /\ \A d \in Dimensions : Settled(x, d) = Settled(l, d) /\ Held(x, d) = Held(l, d)
  <2>1. CASE Exists(l)
    <3>1. l \in Lease
      BY <2>1, LeaseExists
    <3>2. x = [l EXCEPT !.amount = a.amount, !.quantity = a.quantity]
      BY <2>1 DEF Replenished
    <3>3. /\ x \in Lease /\ x.amount = a.amount /\ x.quantity = a.quantity
          /\ x.spent = l.spent /\ x.ordered = l.ordered
          /\ x.reserved = l.reserved /\ x.reservedUnits = l.reservedUnits
      BY <1>1, <3>1, <3>2 DEF Lease
    <3> HIDE DEF x
    <3> QED BY <3>1, <3>3, NumbersOf DEF Dimensions
  <2>2. CASE ~Exists(l)
    <3>1. x = Fresh(a)
      BY <2>2 DEF Replenished
    <3>2. /\ x \in Lease /\ x.amount = a.amount /\ x.quantity = a.quantity
          /\ x.spent = 0 /\ x.ordered = 0 /\ x.reserved = 0 /\ x.reservedUnits = 0
      BY <1>1, <3>1 DEF Fresh, Lease
    <3> HIDE DEF x
    <3> QED BY <2>2, <3>2, NumbersOf, NumbersOfNone DEF Dimensions
  <2> QED BY <2>1, <2>2
<1> HIDE DEF x
<1>3. \A d \in Dimensions : Metered(d) => Bounded(x, d) > 0
  BY <1>2, NumbersOf DEF Dimensions, Metered
<1> QED BY <1>2, <1>3 DEF x

LEMMA ValidFits ==
  ASSUME NEW l \in Lease, ValidLease(l), NEW d \in Dimensions, Bounded(l, d) > 0
  PROVE  Settled(l, d) + Held(l, d) <= Bounded(l, d)
BY NumbersOf DEF Dimensions, ValidLease, Committed, CommittedUnits

LEMMA SameStep ==
  ASSUME IInv, IInv', Rest, EnvelopeInv, UNCHANGED <<lease, actor, paid, ordered, orphaned>>
  PROVE  /\ Accounted' /\ OrphansCounted' /\ GrantsFit'
         /\ report' = report => /\ Allocated' /\ ListingCovers'
                                /\ ReportStands => ReportStands'
<1>1. Accounted'
  BY DEF EnvelopeInv, Accounted, CellAccounted, Metered, Done, InHand, Acted
<1>2. OrphansCounted'
  BY DEF EnvelopeInv, OrphansCounted, Losses, Lost, InHand
<1>3. GrantsFit'
  BY DEF EnvelopeInv, GrantsFit
<1>4. NoIssue
  <2>1. \A c \in Cells, d \in Dimensions : Bounded(lease[c], d) \in Nat
    BY NumbersTyped DEF IInv
  <2> QED BY <2>1 DEF NoIssue
<1>5. report' = report => Allocated' /\ ListingCovers'
  BY <1>4, AllocationStands, ListingStands DEF EnvelopeInv
<1>6. report' = report /\ ReportStands => ReportStands'
  BY DEF ReportStands, InFlights, InFlight
<1> QED BY <1>1, <1>2, <1>3, <1>5, <1>6

(* Nobody adds the leases up: an issue only keeps what the replaced lease had recorded,  *)
(* fits it, and puts an end to what reports said.                                    *)
LEMMA PublishKeepsEnvelope ==
  ASSUME IInv, IInv', Rest, Rest', EnvelopeInv, NEW c \in Cells, PublishLease(c)
  PROVE  EnvelopeInv' /\ (ReportStands => ReportStands')
<1>1. PICK a \in Allocations, t \in Timeouts :
        LET new  == Replenished(clerk.seen, a)
            goes == ValidLease(new) /\ lease[c] = clerk.seen
        IN /\ lease' = IF goes THEN [lease EXCEPT ![c] = new] ELSE lease
           /\ report' = IF goes THEN NoReport ELSE report
           /\ UNCHANGED <<actor, paid, ordered, orphaned>>
  BY DEF PublishLease, world
<1> DEFINE new == Replenished(clerk.seen, a)
<1>2. CASE lease' = lease /\ report' = report
  BY <1>1, <1>2, SameStep DEF EnvelopeInv
<1>3. CASE /\ ValidLease(new) /\ lease[c] = clerk.seen
           /\ lease' = [lease EXCEPT ![c] = new] /\ report' = NoReport
  <2>1. clerk.seen \in Lease \cup {NoLease}
    BY <1>3 DEF IInv
  <2>2. /\ new \in Lease
        /\ \A d \in Dimensions : /\ Settled(new, d) = Settled(lease[c], d) /\ Held(new, d) = Held(lease[c], d)
                                 /\ Metered(d) => Bounded(new, d) > 0
    BY <1>3, <2>1, ReplenishNumbers
  <2>3. ValidLease(new)
    BY <1>3
  <2> HIDE DEF new
  <2>4. lease'[c] = new /\ \A e \in Cells \ {c} : lease'[e] = lease[e]
    BY <1>3 DEF IInv
  <2>5. OthersStand(c)
    BY <1>1, <2>4 DEF OthersStand
  <2>6. ASSUME NEW d \in Dimensions
        PROVE  CellAccounted(c, d)' /\ Lost(c, d)' = Lost(c, d)
    <3>1. CellAccounted(c, d)
      BY DEF EnvelopeInv, Accounted
    <3>2. /\ InHand(c, d)' = InHand(c, d) /\ Acted(c, d)' = Acted(c, d) /\ Done(d)' = Done(d)
      BY <1>1 DEF InHand, Acted, Done
    <3>3. Metered(d) => Settled(new, d) + Held(new, d) <= Bounded(new, d) /\ Bounded(new, d) > 0
      BY <2>2, <2>3, ValidFits
    <3> QED BY <2>2, <2>4, <3>1, <3>2, <3>3 DEF CellAccounted, Metered, Lost
  <2>7. Accounted'
    BY <2>5, <2>6, CellStep DEF EnvelopeInv
  <2>8. OrphansCounted'
    <3>1. \A d \in Dimensions : orphaned[d] + Lost(c, d)' <= orphaned'[d] + Lost(c, d)
      <4>1. \A d \in Dimensions : Lost(c, d) \in Int /\ orphaned[d] \in Nat
        BY CellNumbers DEF Lost, Rest, Dimensions
      <4> QED BY <1>1, <2>6, <4>1
    <3> QED BY <2>5, <2>7, <3>1, OrphanStep DEF EnvelopeInv
  <2>9. GrantsFit'
    BY <1>1 DEF EnvelopeInv, GrantsFit
  <2>10. ~report'.holds
    BY <1>3 DEF NoReport
  <2> QED BY <2>7, <2>8, <2>9, <2>10 DEF EnvelopeInv, Allocated, ListingCovers, ReportStands
<1> QED BY <1>1, <1>2, <1>3

(* A report starts with what there is, and its verdict is about a listing that says no   *)
(* less than the leases there are by then.                                          *)
LEMMA ReportKeepsEnvelope ==
  ASSUME IInv, IInv', Rest, Rest', EnvelopeInv, Report
  PROVE  EnvelopeInv' /\ ReportStands'
<1>1. /\ UNCHANGED <<lease, actor, paid, ordered, orphaned>> /\ report'.seen = lease
      /\ report'.within = NoVerdict
      /\ report'.printed = Exposure(lease) /\ report'.before = Total(paid) + Total(InFlights)
  BY DEF Report, NoReport, world
<1>2. Accounted' /\ OrphansCounted' /\ GrantsFit'
  BY <1>1, SameStep
<1>3. ListingCovers'
  <2>1. \A c \in Cells, d \in Dimensions : Bounded(lease[c], d) \in Nat
    BY NumbersTyped DEF IInv
  <2> QED BY <1>1, <2>1 DEF ListingCovers
<1>4. Allocated'
  BY <1>1 DEF Allocated, Within, Limit, NoVerdict
<1>5. ReportStands'
  <2>1. Total(paid) \in Nat /\ Total(InFlights) \in Nat /\ Exposure(lease) \in Nat
    BY SumsTyped DEF SumsOK
  <2>2. InFlights' = InFlights
    BY <1>1 DEF InFlights, InFlight
  <2> QED BY <1>1, <2>1, <2>2 DEF ReportStands
<1> QED BY <1>2, <1>3, <1>4, <1>5 DEF EnvelopeInv

LEMMA JudgeKeepsEnvelope ==
  ASSUME IInv, IInv', Rest, Rest', EnvelopeInv, Judge
  PROVE  EnvelopeInv' /\ (ReportStands => ReportStands')
<1> DEFINE k == report'.within
           ls == report.seen
<1>1. /\ UNCHANGED <<lease, actor, paid, ordered, orphaned>>
      /\ report.holds /\ ~report.judged /\ Holders(ls) # {}
      /\ report'.judged /\ report'.before = report.before /\ report'.printed = report.printed
      /\ k = NoVerdict \/ CheckExclusive(k, ls)
  BY DEF Judge, Rest, ReportState, world
<1>2. Accounted' /\ OrphansCounted' /\ GrantsFit'
  BY <1>1, SameStep
<1>3. ListingCovers'
  BY <1>1 DEF ListingCovers
<1>4. k \in Ceiling /\ ls \in [Cells -> Lease \cup {NoLease}]
  BY VerdictTyped, VerdictTypedNext DEF VerdictOK
<1> HIDE DEF k, ls
<1>5. ASSUME NEW d \in Dimensions, Limit(k, d) > 0
      PROVE  Total(Allotted(lease, d)) <= Limit(k, d)
  <2>1. Total(Allotted(ls, d)) <= Limit(k, d)
    BY <1>1, <1>5 DEF CheckExclusive, Limit, Allotted, Dimensions, NoVerdict
  <2>2. \A c \in Cells : Bounded(lease[c], d) <= Bounded(ls[c], d)
    BY <1>1 DEF EnvelopeInv, ListingCovers, ls
  <2>3. /\ Allotted(lease, d) \in [Cells -> Nat] /\ Total(Allotted(lease, d)) \in Nat
        /\ \A c \in Cells : Allotted(lease, d)[c] = Bounded(lease[c], d)
    BY AllottedTyped DEF IInv
  <2>4. /\ Allotted(ls, d) \in [Cells -> Nat] /\ Total(Allotted(ls, d)) \in Nat
        /\ \A c \in Cells : Allotted(ls, d)[c] = Bounded(ls[c], d)
    BY <1>4, AllottedTyped
  <2>5. Total(Allotted(lease, d)) <= Total(Allotted(ls, d))
    BY <2>2, <2>3, <2>4, TotalIsMonotone, OverseerAssumption
  <2>6. Limit(k, d) \in Nat
    BY <1>4 DEF Limit, Ceiling
  <2> QED BY <2>1, <2>3, <2>4, <2>5, <2>6
<1>6. Allocated'
  <2>1. \A d \in Dimensions : Allotted(lease, d)' = Allotted(lease, d)
    BY <1>1 DEF Allotted, Amounts, Quantities
  <2> QED BY <1>5, <2>1 DEF Allocated, Within, k
<1>7. ReportStands => ReportStands'
  BY <1>1 DEF ReportStands, InFlights, InFlight
<1> QED BY <1>2, <1>3, <1>6, <1>7 DEF EnvelopeInv

LEMMA ReadKeepsEnvelope ==
  ASSUME IInv, IInv', Rest, Rest', EnvelopeInv, Reads
  PROVE  EnvelopeInv' /\ (ReportStands => ReportStands')
<1>1. CASE PublishEnvelope \/ Tick \/ \E c \in Cells : LoadLease(c)
  <2>1. UNCHANGED <<lease, actor, paid, ordered, orphaned, report>>
    BY <1>1 DEF PublishEnvelope, LoadLease, Tick, world
  <2> QED BY <2>1, SameStep DEF EnvelopeInv
<1> QED BY <1>1, ReportKeepsEnvelope, JudgeKeepsEnvelope DEF Reads

--------------------------------------------------------------------------------
(* The rest of the type invariant. *)
LEMMA NoReportTyped == NoReport \in ReportState
BY DEF NoReport, ReportState, NoListing

LEMMA RestKept ==
  ASSUME IInv, Rest, [Next]_vars
  PROVE  Rest'
<1>1. CASE UNCHANGED vars
  BY <1>1 DEF vars, Rest
<1>2. CASE PublishEnvelope
  BY <1>2 DEF PublishEnvelope, Rest
<1>3. ASSUME NEW c \in Cells, LoadLease(c) PROVE Rest'
  BY <1>3 DEF LoadLease, Rest
<1>4. CASE Judge
  <2>1. report' \in ReportState
    <3>1. NoListing \in [Cells -> Lease \cup {NoLease}]
      BY DEF NoListing
    <3>2. report'.within = report'.within /\ ceiling \in Ceilings \cup {InitCeiling}
      BY DEF IInv
    <3> QED BY <1>4, <3>1, <3>2 DEF Judge, Rest, ReportState
  <2> QED BY <1>4, <2>1 DEF Judge, Rest
<1>5. CASE Tick
  BY <1>5, OverseerAssumption DEF Tick, Rest
<1>6. CASE Report
  <2>1. Total(paid) \in Nat /\ Total(InFlights) \in Nat /\ Exposure(lease) \in Nat
    BY SumsTyped DEF SumsOK
  <2>2. report' \in ReportState
    <3>1. report' = [holds |-> TRUE, judged |-> FALSE, seen |-> lease, printed |-> Exposure(lease),
                     before |-> Total(paid) + Total(InFlights), within |-> NoVerdict]
      BY <1>6 DEF Report, NoReport
    <3>2. Total(paid) + Total(InFlights) \in Nat
      BY <2>1
    <3> QED BY <2>1, <3>1, <3>2 DEF ReportState, IInv
  <2> QED BY <1>6, <2>2 DEF Report, Rest
<1>7. ASSUME NEW c \in Cells, PublishLease(c) PROVE Rest'
  <2>1. PICK a \in Allocations, t \in Timeouts :
          /\ clerk.step = "ready" /\ clerk' = IdleClerk /\ issues' = issues + 1
          /\ due' = due \/ due' = [due EXCEPT ![c] = t]
          /\ report' = report \/ report' = NoReport
          /\ UNCHANGED <<now, orphaned>>
    BY <1>7 DEF PublishLease
  <2>2. due' \in [Cells -> Timeouts \cup {0}] /\ report' \in ReportState
    BY <2>1, NoReportTyped DEF Rest
  <2>3. issues' \in 0..MaxIssues
    BY <2>1, OverseerAssumption DEF Rest
  <2> QED BY <2>1, <2>2, <2>3 DEF Rest, IdleClerk
<1>8. ASSUME NEW c \in Cells, Reclaim(c) PROVE Rest'
  <2>1. lease[c] \in Lease
    BY <1>8, LeaseExists DEF Reclaim, IInv
  <2>2. orphaned' \in [amount : Nat, units : Nat]
    BY <1>8, <2>1 DEF Reclaim, Rest, Lease
  <2> QED BY <1>8, <2>2 DEF Reclaim, Rest
<1>9. ASSUME NEW c \in Cells, Grant(c) \/ Reserve(c) \/ Act(c) \/ Settle(c) PROVE Rest'
  BY <1>9 DEF Grant, Reserve, Act, Settle, Rest
<1> QED BY <1>1, <1>2, <1>3, <1>4, <1>5, <1>6, <1>7, <1>8, <1>9 DEF Next

OverseerInv == IInv /\ Rest /\ EnvelopeInv /\ ReportStands

LEMMA InitKeepsEnvelope == Init => OverseerInv
<1> SUFFICES ASSUME Init PROVE OverseerInv
  OBVIOUS
<1>1. IInv
  BY InitInv
<1>2. Rest
  BY OverseerAssumption, NoReportTyped DEF Init, Rest, IdleClerk
<1>3. \A c \in Cells : lease[c] = NoLease /\ actor[c].step = "idle"
  BY IdleActorTyped DEF Init
<1>4. \A c \in Cells, d \in Dimensions :
        /\ Bounded(lease[c], d) = 0 /\ Settled(lease[c], d) = 0 /\ Held(lease[c], d) = 0
        /\ ~Exists(lease[c]) /\ InHand(c, d) = 0 /\ Acted(c, d) = 0 /\ Done(d)[c] = 0
  BY <1>3, NumbersOfNone DEF Exists, InHand, Acted, Done, Init
<1>5. Accounted
  BY <1>4 DEF Accounted, CellAccounted
<1>6. OrphansCounted
  <2> SUFFICES ASSUME NEW d \in Dimensions PROVE Total(Losses(d)) <= orphaned[d]
    BY DEF OrphansCounted
  <2>1. Losses(d) \in [Cells -> Nat] /\ \A c \in Cells : Losses(d)[c] = 0
    BY <1>4 DEF Losses, Lost
  <2>2. Total(Losses(d)) = 0
    BY <2>1, TotalOfZeros
  <2> QED BY <2>2 DEF Init, Dimensions
<1>7. GrantsFit
  BY <1>3 DEF GrantsFit
<1>8. Allocated /\ ListingCovers /\ ReportStands
  BY DEF Init, NoReport, Allocated, ListingCovers, ReportStands
<1> QED BY <1>1, <1>2, <1>5, <1>6, <1>7, <1>8 DEF OverseerInv, EnvelopeInv

LEMMA NextKeepsEnvelope == OverseerInv /\ [Next]_vars => OverseerInv'
<1> SUFFICES ASSUME OverseerInv, [Next]_vars PROVE OverseerInv'
  OBVIOUS
<1>1. IInv' /\ Rest'
  BY NextInv, RestKept DEF OverseerInv
<1>2. CASE UNCHANGED vars
  <2>1. UNCHANGED <<lease, actor, paid, ordered, orphaned, report>>
    BY <1>2 DEF vars, world
  <2> QED BY <1>1, <2>1, SameStep DEF OverseerInv, EnvelopeInv
<1>3. CASE Reads
  BY <1>1, <1>3, ReadKeepsEnvelope DEF OverseerInv
<1>4. ASSUME NEW c \in Cells, PublishLease(c) PROVE OverseerInv'
  BY <1>1, <1>4, PublishKeepsEnvelope DEF OverseerInv
<1>5. ASSUME NEW c \in Cells, Reclaim(c) \/ Grant(c) \/ Reserve(c) \/ Act(c) \/ Settle(c)
      PROVE  OverseerInv'
  <2>1. CellMoves(c)
    BY <1>5, ReclaimMoves, GrantMoves, ReserveMoves, ActMoves, SettleMoves DEF OverseerInv
  <2> QED BY <1>1, <2>1, CellMovesKeep DEF OverseerInv
<1> QED BY <1>2, <1>3, <1>4, <1>5 DEF Next, Reads

LEMMA OverseerInvariant == Spec => []OverseerInv
BY InitKeepsEnvelope, NextKeepsEnvelope, PTL DEF Spec

(* No number the accounts keep goes below zero: a lease that is settled holds what it     *)
(* settles (CanRelease, CanConvert), and what the report computes   *)
(* is a number (Exposure).                                                            *)
THEOREM TypeCorrect == Spec => []TypeOK
<1>1. OverseerInv => TypeOK
  BY DEF OverseerInv, IInv, Rest, TypeOK
<1> QED BY <1>1, OverseerInvariant, PTL

(* What the cells have been charged is what their leases bound and what reclaimed leases  *)
(* still held.                                                                    *)
LEMMA DoneIsAllotted ==
  ASSUME IInv, Rest, EnvelopeInv, NEW d \in Dimensions, Metered(d)
  PROVE  /\ Total(Done(d)) \in Nat /\ Total(Allotted(lease, d)) \in Nat /\ orphaned[d] \in Nat
         /\ Total(Done(d)) <= Total(Allotted(lease, d)) + orphaned[d]
<1> DEFINE b == Allotted(lease, d)
           s == Losses(d)
           h == [c \in Cells |-> Bounded(lease[c], d) + Lost(c, d)]
<1>1. /\ b \in [Cells -> Nat] /\ \A c \in Cells : b[c] = Bounded(lease[c], d)
      /\ s \in [Cells -> Nat] /\ \A c \in Cells : s[c] = Lost(c, d)
  BY SumsTyped, LossesTyped DEF SumsOK, LossesOK, EnvelopeInv
<1>2. Done(d) \in [Cells -> Nat]
  BY DEF Done, IInv
<1>3. h \in [Cells -> Nat] /\ \A c \in Cells : h[c] = b[c] + s[c]
  BY <1>1
<1>4. ASSUME NEW c \in Cells PROVE Done(d)[c] <= h[c]
  <2>1. CellAccounted(c, d)
    BY DEF EnvelopeInv, Accounted
  <2>2. Acted(c, d) <= InHand(c, d)
    BY CellNumbers DEF Acted, InHand
  <2>3. h[c] = Bounded(lease[c], d) + (InHand(c, d) - Held(lease[c], d))
    BY DEF Lost
  <2> QED BY <2>1, <2>2, <2>3, CellNumbers DEF CellAccounted
<1> HIDE DEF b, s, h
<1>5. Total(Done(d)) <= Total(h) /\ Total(h) = Total(b) + Total(s)
  BY <1>1, <1>2, <1>3, <1>4, TotalIsMonotone, TotalsAdd, OverseerAssumption
<1>6. Total(b) \in Nat /\ Total(s) \in Nat /\ Total(Done(d)) \in Nat
  BY <1>1, <1>2, TotalIsNat, OverseerAssumption
<1>7. Total(s) <= orphaned[d] /\ orphaned[d] \in Nat
  BY DEF EnvelopeInv, OrphansCounted, Rest, Dimensions, s
<1> QED BY <1>5, <1>6, <1>7 DEF b

(* The leases' promise, for any number of cells: whatever is issued and tightened, and     *)
(* however cells spend unwatched, settle and lose leases, what the world delivers is       *)
(* allocated by the leases there are, or was in flight on reclaimed ones (PublishLease,    *)
(* Reserve, Settle, Reclaim).                                                       *)
THEOREM SpendingIsAllocated == Spec => []SpendStaysAllocated
<1>1. OverseerInv => SpendStaysAllocated
  <2> SUFFICES ASSUME OverseerInv PROVE SpendStaysAllocated
    OBVIOUS
  <2>1. \A d \in Dimensions : Metered(d) => Total(Done(d)) <= Total(Allotted(lease, d)) + orphaned[d]
    BY DoneIsAllotted DEF OverseerInv
  <2>2. (\A a \in Allocations : a.amount > 0) => Total(paid) <= Total(Amounts(lease)) + orphaned["amount"]
    BY <2>1 DEF Dimensions, Metered, Allotted, Done
  <2>3. (\A a \in Allocations : a.quantity > 0) =>
          Total(ordered) <= Total(Quantities(lease)) + orphaned["units"]
    BY <2>1 DEF Dimensions, Metered, Allotted, Done
  <2> QED BY <2>2, <2>3 DEF SpendStaysAllocated
<1> QED BY <1>1, OverseerInvariant, PTL

(* And once the authority command has found the leases within a ceiling, what the world     *)
(* delivers stays under that ceiling until a lease is issued, although it read the leases   *)
(* before the envelope, beside what was in flight on reclaimed leases (cmdAuthority,       *)
(* CheckExclusive).                                                                *)
THEOREM VerdictsHold == Spec => []VerdictStands
<1>1. OverseerInv => VerdictStands
  <2> SUFFICES ASSUME OverseerInv, report.holds PROVE VerdictStands
    BY DEF VerdictStands
  <2> DEFINE k == report.within
  <2>1. k \in Ceiling
    BY VerdictTyped DEF OverseerInv, VerdictOK
  <2>2. Within(k, lease)
    BY DEF OverseerInv, EnvelopeInv, Allocated
  <2> HIDE DEF k
  <2>3. ASSUME NEW d \in Dimensions, Metered(d), Limit(k, d) > 0
        PROVE  Total(Done(d)) <= Limit(k, d) + orphaned[d]
    <3>1. Limit(k, d) \in Nat
      BY <2>1 DEF Limit, Ceiling
    <3>2. Total(Allotted(lease, d)) <= Limit(k, d)
      BY <2>2, <2>3 DEF Within
    <3>3. /\ Total(Done(d)) \in Nat /\ Total(Allotted(lease, d)) \in Nat /\ orphaned[d] \in Nat
          /\ Total(Done(d)) <= Total(Allotted(lease, d)) + orphaned[d]
      BY <2>3, DoneIsAllotted DEF OverseerInv
    <3> QED BY <3>1, <3>2, <3>3
  <2>4. (\A a \in Allocations : a.amount > 0) /\ k.spend > 0 =>
          Total(paid) <= k.spend + orphaned["amount"]
    BY <2>3 DEF Dimensions, Metered, Limit, Done
  <2>5. (\A a \in Allocations : a.quantity > 0) /\ k.quantity > 0 =>
          Total(ordered) <= k.quantity + orphaned["units"]
    BY <2>3 DEF Dimensions, Metered, Limit, Done
  <2> QED BY <2>4, <2>5 DEF VerdictStands, k
<1> QED BY <1>1, OverseerInvariant, PTL

(* Until something is issued, all that the cells are charged stays within the exposure the *)
(* last report printed and what was charged or in flight when it listed the leases: no      *)
(* move of a hold creates headroom that it did not count (Exposure, Hold, Release,        *)
(* Convert).                                                                       *)
THEOREM ReportsHold == Spec => []ReportBoundsSpending
<1>1. OverseerInv => ReportBoundsSpending
  <2>1. OverseerInv => Total(paid) \in Nat /\ Total(InFlights) \in Nat /\ Exposure(lease) \in Nat
                       /\ report.before \in Nat /\ report.printed \in Nat
    BY SumsTyped DEF OverseerInv, SumsOK, Rest, ReportState
  <2> QED BY <2>1 DEF OverseerInv, ReportStands, ReportBoundsSpending
<1> QED BY <1>1, OverseerInvariant, PTL
================================================================================
