----------------------------- MODULE Effect_proofs ------------------------------
(***************************************************************************)
(* Proofs about EffectProtocol and EffectMoney, for any number of cells,     *)
(* processes, tickets, connectors and principals.                           *)
(***************************************************************************)
EXTENDS EffectMoney, Sums_proofs

(* The moves of a hold keep a lease a lease. *)
LEMMA SetHeldTyped ==
  ASSUME NEW l \in Lease, NEW x \in Nat, NEW y \in Nat
  PROVE  /\ [l EXCEPT !.reserved = x, !.reservedUnits = y] \in Lease
         /\ [l EXCEPT !.spent = x, !.ordered = y] \in Lease
         /\ [l EXCEPT !.amount = x] \in Lease
BY Zenon DEF Lease

LEMMA HoldTyped ==
  ASSUME NEW l \in Lease, NEW a \in Nat, NEW u \in Nat
  PROVE  Hold(l, a, u) \in Lease
<1>1. l.reserved + a \in Nat /\ l.reservedUnits + u \in Nat
  BY DEF Lease
<1> QED BY Zenon, <1>1, SetHeldTyped DEF Hold

LEMMA ReleaseTyped ==
  ASSUME NEW l \in Lease, NEW a \in Nat, NEW u \in Nat, CanRelease(l, a, u)
  PROVE  Release(l, a, u) \in Lease
<1>1. l.reserved - a \in Nat /\ l.reservedUnits - u \in Nat
  BY DEF Lease, CanRelease
<1> QED BY Zenon, <1>1, SetHeldTyped DEF Release

LEMMA ChargeTyped ==
  ASSUME NEW l \in Lease, NEW a \in Nat, NEW u \in Nat
  PROVE  Charge(l, a, u) \in Lease
<1>1. l.spent + a \in Nat /\ l.ordered + u \in Nat
  BY DEF Lease
<1> QED BY Zenon, <1>1, SetHeldTyped DEF Charge

LEMMA ConvertTyped ==
  ASSUME NEW l \in Lease, NEW held \in Nat, NEW cost \in Nat, NEW u \in Nat, NEW v \in Nat,
         CanConvert(l, held, cost, u, v)
  PROVE  Convert(l, held, cost, u, v) \in Lease
BY ReleaseTyped, ChargeTyped DEF Convert, CanConvert

--------------------------------------------------------------------------------
(* Every definition a step uses to build a record yields one of its type. *)

LEMMA RecordsTyped ==
  /\ NoResv \in Reservation /\ NoLease \in Lease /\ NoCeiling \in Ceiling
  /\ IdleProc \in ProcState /\ IdleConn \in ConnState /\ IdleJudge \in JudgeState
  /\ IdleSweep \in SweepState
BY DEF NoResv, Reservation, States, Holders, NoLease, Lease, NoCeiling, Ceiling,
       IdleProc, ProcState, ProcSteps, IdleConn, ConnState, IdleJudge, JudgeState,
       IdleSweep, SweepState

LEMMA ReservationsTyped ==
  /\ \A a, u \in Nat : Offered(a, u) \in Reservation
  /\ \A r \in Reservation, h \in Holders : Taken(r, h) \in Reservation
  /\ \A r \in Reservation, yes \in BOOLEAN, cost \in Nat :
       /\ Reported(r, yes, cost) \in Reservation
       /\ Cost(r, cost) \in Nat
       /\ Settled(r, cost) \in Reservation
  /\ \A r \in Reservation, t \in Tickets : Refused(r, t) \in Reservation
  /\ \A r \in Reservation, t \in Tickets, yes \in BOOLEAN : Resolved(r, t, yes) \in Reservation
<1>1. \A a, u \in Nat : Offered(a, u) \in Reservation
  BY Zenon DEF NoResv, Reservation, States, Holders, Offered
<1>2. \A r \in Reservation, h \in Holders : Taken(r, h) \in Reservation
  BY Zenon DEF Reservation, States, Taken
<1>3. ASSUME NEW r \in Reservation, NEW yes \in BOOLEAN, NEW cost \in Nat
      PROVE  Reported(r, yes, cost) \in Reservation /\ Cost(r, cost) \in Nat
  BY Zenon DEF Reservation, States, Reported, Cost
<1>4. ASSUME NEW r \in Reservation, NEW cost \in Nat
      PROVE  Settled(r, cost) \in Reservation
  BY Zenon DEF Reservation, States, Settled
<1>5. ASSUME NEW r \in Reservation, NEW t \in Tickets
      PROVE  Refused(r, t) \in Reservation
  BY Zenon DEF Reservation, States, Refused, Priced
<1>6. ASSUME NEW r \in Reservation, NEW t \in Tickets, NEW yes \in BOOLEAN
      PROVE  Resolved(r, t, yes) \in Reservation
  <2> DEFINE state == IF yes THEN "done" ELSE "failed"
             released == Priced(t) \/ r.released
  <2>1. state \in States /\ released \in BOOLEAN
    BY Zenon DEF States, Priced, Reservation
  <2>2. Resolved(r, t, yes) = [r EXCEPT !.state = state, !.released = released, !.resolved = TRUE]
    BY DEF Resolved
  <2> HIDE DEF state, released
  <2> QED BY Zenon, <2>1, <2>2 DEF Reservation
<1> QED BY Zenon, <1>1, <1>2, <1>3, <1>4, <1>5, <1>6

(* A process's state stays one, for the same ticket, when the fields its steps   *)
(* set are typed.                                                            *)
LEMMA ProcStepField ==
  ASSUME NEW r \in ProcState, NEW step \in ProcSteps
  PROVE  [r EXCEPT !.step = step] \in ProcState /\ [r EXCEPT !.step = step].task = r.task
BY DEF ProcState

LEMMA ProcLeaseField ==
  ASSUME NEW r \in ProcState, NEW l \in Lease, NEW step \in ProcSteps
  PROVE  [r EXCEPT !.step = step, !.lease = l] \in ProcState /\ [r EXCEPT !.step = step, !.lease = l].task = r.task
BY Zenon DEF ProcState

LEMMA ProcTaskField ==
  ASSUME NEW r \in ProcState, NEW t \in Tickets, NEW step \in ProcSteps
  PROVE  [r EXCEPT !.step = step, !.task = t] \in ProcState /\ [r EXCEPT !.step = step, !.task = t].task = t
BY Zenon DEF ProcState

(* So a step that leaves a process idle or with a ticket keeps the types.       *)
LEMMA BecomeTyped ==
  ASSUME TypeOK, NEW p \in Procs, NEW r \in ProcState,
         proc' = [proc EXCEPT ![p] = r],
         r.step # "idle" => r.task \in Tickets
  PROVE  /\ proc' \in [Procs -> ProcState]
         /\ \A q \in Procs : proc'[q].step # "idle" => proc'[q].task \in Tickets
BY DEF TypeOK

(* What a step of a process leaves alone is typed; what it writes must be.       *)
LEMMA ProcStepTyped ==
  ASSUME TypeOK, NEW p \in Procs, NEW r \in ProcState,
         proc' = [proc EXCEPT ![p] = r],
         r.step # "idle" => r.task \in Tickets,
         lease' \in [Cells -> Lease], claims' \in [Cells -> SUBSET Tickets],
         resv' \in [Cells -> [Tickets -> Reservation]],
         placed' \in [Cells -> [Tickets -> Nat]], charged' \in [Cells -> [Tickets -> Nat]],
         crashes' \in 0..MaxCrashes, UNCHANGED <<ceiling, conn, judge, sweep, rulings>>
  PROVE  TypeOK'
BY BecomeTyped DEF TypeOK

LEMMA WritesTyped ==
  ASSUME TypeOK, NEW c \in Cells, NEW t \in Tickets
  PROVE  /\ \A l \in Lease : [lease EXCEPT ![c] = l] \in [Cells -> Lease]
         /\ \A r \in Reservation : SetResv(c, t, r) => resv' \in [Cells -> [Tickets -> Reservation]]
         /\ [claims EXCEPT ![c] = @ \cup {t}] \in [Cells -> SUBSET Tickets]
         /\ [claims EXCEPT ![c] = @ \ {t}] \in [Cells -> SUBSET Tickets]
         /\ lease[c] \in Lease /\ resv[c][t] \in Reservation
<1>1. /\ lease \in [Cells -> Lease] /\ claims \in [Cells -> SUBSET Tickets]
      /\ resv \in [Cells -> [Tickets -> Reservation]]
  BY DEF TypeOK
<1>2. ASSUME NEW r \in Reservation
      PROVE  [resv EXCEPT ![c][t] = r] \in [Cells -> [Tickets -> Reservation]]
  BY <1>1
<1>3. [claims EXCEPT ![c] = @ \cup {t}] \in [Cells -> SUBSET Tickets]
  BY <1>1
<1>4. [claims EXCEPT ![c] = @ \ {t}] \in [Cells -> SUBSET Tickets]
  BY <1>1
<1> QED BY <1>1, <1>2, <1>3, <1>4 DEF SetResv

LEMMA PerformTyped ==
  ASSUME TypeOK, NEW c \in Cells, NEW t \in Tickets, NEW r \in Reservation, NEW cost \in Nat,
         Perform(c, t, r, cost)
  PROVE  placed' \in [Cells -> [Tickets -> Nat]] /\ charged' \in [Cells -> [Tickets -> Nat]]
<1>1. Charges(t, r, cost) \in Nat
  BY Zenon, ReservationsTyped DEF Charges
<1>2. placed[c][t] + 1 \in Nat /\ charged[c][t] + Charges(t, r, cost) \in Nat
  BY <1>1 DEF TypeOK
<1> QED BY <1>2 DEF TypeOK, Perform

(* What a process holds, read off its state. *)
LEMMA ProcFields ==
  ASSUME TypeOK, NEW p \in Procs
  PROVE  /\ CellOf[p] \in Cells /\ proc[p] \in ProcState
         /\ proc[p].step # "idle" => proc[p].task \in Tickets
         /\ proc[p].lease \in Lease /\ proc[p].ceiling \in Ceiling
         /\ proc[p].amount \in Nat /\ proc[p].units \in Nat
         /\ proc[p].resv \in Reservation /\ proc[p].happened \in BOOLEAN
         /\ proc[p].actual \in Nat
<1>1. CellOf[p] \in Cells
  BY ActorAssumption
<1>2. proc[p] \in ProcState /\ (proc[p].step # "idle" => proc[p].task \in Tickets)
  BY DEF TypeOK
<1> QED BY <1>1, <1>2 DEF ProcState

LEMMA ResvFields ==
  ASSUME NEW r \in Reservation
  PROVE  /\ r.amount \in Nat /\ r.units \in Nat /\ r.actual \in Nat
         /\ r.released \in BOOLEAN /\ r.happened \in BOOLEAN /\ r.resolved \in BOOLEAN
BY DEF Reservation

LEMMA StepNames ==
  /\ {"idle", "claim", "authorize", "look", "hold", "reserve", "unhold",
      "offer", "take", "execute", "settle", "mark"} \subseteq ProcSteps
  /\ \A t \in Tickets : Priced(t) \in BOOLEAN
  /\ IdleProc \in ProcState /\ IdleProc.step = "idle"
BY RecordsTyped DEF ProcSteps, Priced, IdleProc

(* Stopping, and moving on without touching anything else, keep the types. *)
LEMMA StopGoTyped ==
  ASSUME TypeOK, NEW p \in Procs, NEW step \in ProcSteps, proc[p].step # "idle",
         Stop(p) \/ Go(p, step),
         lease' \in [Cells -> Lease], claims' \in [Cells -> SUBSET Tickets],
         resv' \in [Cells -> [Tickets -> Reservation]],
         placed' \in [Cells -> [Tickets -> Nat]], charged' \in [Cells -> [Tickets -> Nat]],
         crashes' \in 0..MaxCrashes, UNCHANGED <<ceiling, conn, judge, sweep, rulings>>
  PROVE  TypeOK'
<1>1. CASE Stop(p)
  BY Zenon, <1>1, ProcStepTyped, StepNames DEF Stop, Become
<1>2. CASE Go(p, step)
  <2> DEFINE s == [proc[p] EXCEPT !.step = step]
  <2>1. proc[p] \in ProcState /\ proc[p].task \in Tickets
    BY ProcFields
  <2>2. s \in ProcState /\ s.task \in Tickets
    BY <2>1, ProcStepField
  <2>3. proc' = [proc EXCEPT ![p] = s]
    BY <1>2 DEF Go, Become
  <2> HIDE DEF s
  <2> QED BY Zenon, <2>2, <2>3, ProcStepTyped
<1> QED BY <1>1, <1>2

--------------------------------------------------------------------------------
(* The steps of a process, one lemma each. *)

LEMMA EvaluateTyped ==
  ASSUME TypeOK, NEW p \in Procs, NEW t \in Tickets, Evaluate(p, t)
  PROVE  TypeOK'
<1> DEFINE s == [IdleProc EXCEPT !.step = "claim", !.task = t]
<1>1. s \in ProcState /\ s.task \in Tickets
  BY Zenon, ProcTaskField, StepNames
<1>2. proc' = [proc EXCEPT ![p] = s] /\ UNCHANGED <<lease, ceiling, claims, resv, placed, charged, conn, judge, sweep, crashes, rulings>>
  BY DEF Evaluate, Become
<1> HIDE DEF s
<1> QED BY <1>1, <1>2, ProcStepTyped DEF TypeOK

LEMMA ClaimTyped ==
  ASSUME TypeOK, NEW p \in Procs, Claim(p)
  PROVE  TypeOK'
<1> DEFINE l == IF Priced(proc[p].task) THEN lease[CellOf[p]] ELSE proc[p].lease
           e == IF Priced(proc[p].task) THEN ceiling ELSE proc[p].ceiling
           s == [proc[p] EXCEPT !.step = "authorize", !.lease = l, !.ceiling = e]
<1>1. proc[p] \in ProcState /\ CellOf[p] \in Cells /\ proc[p].task \in Tickets
  BY ProcFields DEF Claim
<1>2. l \in Lease /\ e \in Ceiling
  BY <1>1, ProcFields, WritesTyped DEF TypeOK
<1>3. /\ proc' = [proc EXCEPT ![p] = s] /\ claims' = [claims EXCEPT ![CellOf[p]] = @ \cup {proc[p].task}]
      /\ UNCHANGED <<lease, ceiling, resv, placed, charged, conn, judge, sweep, crashes, rulings>>
  BY DEF Claim, Become
<1>4. s \in ProcState /\ s.task \in Tickets
  <2> HIDE DEF l, e
  <2> QED BY Zenon, <1>1, <1>2 DEF ProcState, ProcSteps
<1>5. claims' \in [Cells -> SUBSET Tickets]
  BY <1>1, <1>3, WritesTyped
<1> HIDE DEF s
<1> QED BY <1>3, <1>4, <1>5, ProcStepTyped DEF TypeOK

LEMMA AuthorizeTyped ==
  ASSUME TypeOK, NEW p \in Procs, Authorize(p)
  PROVE  TypeOK'
<1>1. proc[p] \in ProcState /\ proc[p].task \in Tickets
  BY ProcFields DEF Authorize
<1>2. PICK q \in Quotes : IF Allowed(p, q)
                          THEN Become(p, [proc[p] EXCEPT !.step = "look", !.amount = q.amount, !.units = q.units])
                          ELSE Stop(p)
  BY Zenon DEF Authorize
<1>3. UNCHANGED <<lease, ceiling, claims, resv, placed, charged, conn, judge, sweep, crashes, rulings>>
  BY DEF Authorize
<1>4. CASE Stop(p)
  BY <1>3, <1>4, ProcStepTyped, StepNames DEF Stop, Become, TypeOK
<1>5. CASE Become(p, [proc[p] EXCEPT !.step = "look", !.amount = q.amount, !.units = q.units])
  <2> DEFINE s == [proc[p] EXCEPT !.step = "look", !.amount = q.amount, !.units = q.units]
  <2>1. q.amount \in Nat /\ q.units \in Nat
    BY AmountAssumption
  <2>2. s \in ProcState /\ s.task \in Tickets
    BY Zenon, <1>1, <2>1 DEF ProcState, ProcSteps
  <2>3. proc' = [proc EXCEPT ![p] = s]
    BY <1>5 DEF Become
  <2> HIDE DEF s
  <2> QED BY <1>3, <2>2, <2>3, ProcStepTyped DEF TypeOK
<1> QED BY <1>2, <1>4, <1>5

LEMMA LookTyped ==
  ASSUME TypeOK, NEW p \in Procs, Look(p)
  PROVE  TypeOK'
<1>1. proc[p].step # "idle"
      /\ UNCHANGED <<lease, ceiling, claims, resv, placed, charged, conn, judge, sweep, crashes, rulings>>
  BY DEF Look
<1>2. Stop(p) \/ Go(p, "hold") \/ Go(p, "reserve")
  BY DEF Look
<1> QED BY Zenon, <1>1, <1>2, StopGoTyped, StepNames DEF TypeOK

LEMMA TakeHoldTyped ==
  ASSUME TypeOK, NEW p \in Procs, TakeHold(p)
  PROVE  TypeOK'
<1> DEFINE held == Hold(proc[p].lease, proc[p].amount, proc[p].units)
           s == [proc[p] EXCEPT !.step = "reserve", !.lease = held]
<1>1. /\ proc[p] \in ProcState /\ proc[p].task \in Tickets /\ CellOf[p] \in Cells
      /\ held \in Lease /\ proc[p].step # "idle"
  BY ProcFields, HoldTyped DEF TakeHold
<1>2. \/ lease' = [lease EXCEPT ![CellOf[p]] = held] /\ proc' = [proc EXCEPT ![p] = s]
      \/ Stop(p) /\ UNCHANGED lease
  BY DEF TakeHold, Become
<1>3. UNCHANGED <<ceiling, claims, resv, placed, charged, conn, judge, sweep, crashes, rulings>>
  BY DEF TakeHold
<1> HIDE DEF held
<1>4. s \in ProcState /\ s.task \in Tickets
  BY Zenon, <1>1, ProcLeaseField, StepNames
<1>5. lease' \in [Cells -> Lease]
  BY <1>1, <1>2, WritesTyped DEF TypeOK
<1> HIDE DEF s
<1>6. CASE proc' = [proc EXCEPT ![p] = s]
  BY <1>3, <1>4, <1>5, <1>6, ProcStepTyped DEF TypeOK
<1>7. CASE Stop(p)
  BY Zenon, <1>1, <1>3, <1>5, <1>7, StopGoTyped, StepNames DEF TypeOK
<1> QED BY <1>2, <1>6, <1>7

LEMMA ClaimKeyTyped ==
  ASSUME TypeOK, NEW p \in Procs, ClaimKey(p)
  PROVE  TypeOK'
<1> DEFINE r == Offered(proc[p].amount, proc[p].units)
           next == IF proc[p].task \in Served THEN "offer" ELSE "take"
           s == [proc[p] EXCEPT !.step = next, !.resv = r]
<1>1. /\ proc[p] \in ProcState /\ proc[p].task \in Tickets /\ CellOf[p] \in Cells
      /\ proc[p].step # "idle" /\ r \in Reservation /\ next \in ProcSteps
  BY ProcFields, ReservationsTyped, StepNames DEF ClaimKey
<1>2. \/ SetResv(CellOf[p], proc[p].task, r) /\ proc' = [proc EXCEPT ![p] = s]
      \/ UNCHANGED resv /\ (Stop(p) \/ Go(p, "unhold"))
  BY DEF ClaimKey, Become
<1>3. UNCHANGED <<lease, ceiling, claims, placed, charged, conn, judge, sweep, crashes, rulings>>
  BY DEF ClaimKey
<1> HIDE DEF r, next
<1>4. s \in ProcState /\ s.task \in Tickets
  BY Zenon, <1>1 DEF ProcState
<1> HIDE DEF s
<1>5. resv' \in [Cells -> [Tickets -> Reservation]]
  BY <1>1, <1>2, WritesTyped DEF TypeOK
<1>6. CASE proc' = [proc EXCEPT ![p] = s]
  BY <1>3, <1>4, <1>5, <1>6, ProcStepTyped DEF TypeOK
<1>7. CASE Stop(p) \/ Go(p, "unhold")
  BY Zenon, <1>1, <1>3, <1>5, <1>7, StopGoTyped, StepNames DEF TypeOK
<1> QED BY <1>2, <1>6, <1>7

LEMMA UnholdTyped ==
  ASSUME TypeOK, NEW p \in Procs, Unhold(p)
  PROVE  TypeOK'
<1> DEFINE back == Release(proc[p].lease, proc[p].amount, proc[p].units)
<1>1. proc[p].step # "idle" /\ CellOf[p] \in Cells
  BY ProcFields DEF Unhold
<1>2. \/ back \in Lease /\ lease' = [lease EXCEPT ![CellOf[p]] = back]
      \/ UNCHANGED lease
  BY ProcFields, ReleaseTyped DEF Unhold
<1>3. Stop(p) /\ UNCHANGED <<ceiling, claims, resv, placed, charged, conn, judge, sweep, crashes, rulings>>
  BY DEF Unhold
<1> HIDE DEF back
<1>4. lease' \in [Cells -> Lease]
  <2>1. lease \in [Cells -> Lease]
    BY DEF TypeOK
  <2> QED BY <1>1, <1>2, <2>1
<1> QED BY Zenon, <1>1, <1>3, <1>4, StopGoTyped, StepNames DEF TypeOK

LEMMA OfferTyped ==
  ASSUME TypeOK, NEW p \in Procs, Offer(p)
  PROVE  TypeOK'
<1> DEFINE r == [proc[p].resv EXCEPT !.posted = TRUE]
<1>1. /\ proc[p].step # "idle" /\ CellOf[p] \in Cells /\ proc[p].task \in Tickets
      /\ r \in Reservation
  BY Zenon, ProcFields DEF Offer, Reservation
<1>2. SetResv(CellOf[p], proc[p].task, r) \/ UNCHANGED resv
  BY DEF Offer
<1>3. Stop(p) /\ UNCHANGED <<lease, ceiling, claims, placed, charged, conn, judge, sweep, crashes, rulings>>
  BY DEF Offer
<1> HIDE DEF r
<1>4. resv' \in [Cells -> [Tickets -> Reservation]]
  BY <1>1, <1>2, WritesTyped DEF TypeOK
<1> QED BY Zenon, <1>1, <1>3, <1>4, StopGoTyped, StepNames DEF TypeOK

LEMMA TakeSelfTyped ==
  ASSUME TypeOK, NEW p \in Procs, TakeSelf(p)
  PROVE  TypeOK'
<1> DEFINE r == Taken(resv[CellOf[p]][proc[p].task], CellOf[p])
           s == [proc[p] EXCEPT !.step = "execute", !.resv = r]
<1>1. /\ proc[p] \in ProcState /\ proc[p].task \in Tickets /\ CellOf[p] \in Cells
      /\ proc[p].step # "idle"
  BY ProcFields DEF TakeSelf
<1>2. r \in Reservation
  BY <1>1, WritesTyped, ReservationsTyped DEF Holders
<1>3. \/ SetResv(CellOf[p], proc[p].task, r) /\ proc' = [proc EXCEPT ![p] = s]
      \/ UNCHANGED resv /\ Stop(p)
  BY DEF TakeSelf, Become
<1>4. UNCHANGED <<lease, ceiling, claims, placed, charged, conn, judge, sweep, crashes, rulings>>
  BY DEF TakeSelf
<1> HIDE DEF r
<1>5. s \in ProcState /\ s.task \in Tickets
  BY Zenon, <1>1, <1>2 DEF ProcState, ProcSteps
<1> HIDE DEF s
<1>6. resv' \in [Cells -> [Tickets -> Reservation]]
  BY <1>1, <1>2, <1>3, WritesTyped DEF TypeOK
<1>7. CASE proc' = [proc EXCEPT ![p] = s]
  BY <1>4, <1>5, <1>6, <1>7, ProcStepTyped DEF TypeOK
<1>8. CASE Stop(p)
  BY Zenon, <1>1, <1>4, <1>6, <1>8, StopGoTyped, StepNames DEF TypeOK
<1> QED BY <1>3, <1>7, <1>8

LEMMA ExecuteDoneTyped ==
  ASSUME TypeOK, NEW p \in Procs, ExecuteDone(p)
  PROVE  TypeOK'
<1>1. PICK cost \in Actuals :
        /\ Perform(CellOf[p], proc[p].task, proc[p].resv, cost)
        /\ proc' = [proc EXCEPT ![p] = [proc[p] EXCEPT !.step = "settle", !.happened = TRUE, !.actual = cost]]
  BY Zenon DEF ExecuteDone, Become
<1>2. UNCHANGED <<lease, ceiling, claims, resv, conn, judge, sweep, crashes, rulings>>
  BY DEF ExecuteDone
<1> DEFINE s == [proc[p] EXCEPT !.step = "settle", !.happened = TRUE, !.actual = cost]
<1>3. /\ proc[p] \in ProcState /\ proc[p].task \in Tickets /\ CellOf[p] \in Cells
      /\ proc[p].resv \in Reservation /\ cost \in Nat
  BY ProcFields, AmountAssumption DEF ExecuteDone
<1>4. s \in ProcState /\ s.task \in Tickets
  BY Zenon, <1>3 DEF ProcState, ProcSteps
<1>5. placed' \in [Cells -> [Tickets -> Nat]] /\ charged' \in [Cells -> [Tickets -> Nat]]
  BY <1>1, <1>3, PerformTyped
<1>6. proc' = [proc EXCEPT ![p] = s]
  BY <1>1
<1> HIDE DEF s
<1> QED BY <1>2, <1>4, <1>5, <1>6, ProcStepTyped DEF TypeOK

LEMMA ExecuteRejectedTyped ==
  ASSUME TypeOK, NEW p \in Procs, ExecuteRejected(p)
  PROVE  TypeOK'
<1> DEFINE s == [proc[p] EXCEPT !.step = "settle", !.happened = FALSE]
<1>1. proc[p] \in ProcState /\ proc[p].task \in Tickets
  BY ProcFields DEF ExecuteRejected
<1>2. s \in ProcState /\ s.task \in Tickets
  BY Zenon, <1>1 DEF ProcState, ProcSteps
<1>3. /\ proc' = [proc EXCEPT ![p] = s]
      /\ UNCHANGED <<lease, ceiling, claims, resv, placed, charged, conn, judge, sweep, crashes, rulings>>
  BY DEF ExecuteRejected, Become
<1> HIDE DEF s
<1> QED BY <1>2, <1>3, ProcStepTyped DEF TypeOK

LEMMA ExecuteUnknownTyped ==
  ASSUME TypeOK, NEW p \in Procs, ExecuteUnknown(p)
  PROVE  TypeOK'
<1>1. /\ proc[p].step # "idle" /\ proc[p].task \in Tickets /\ CellOf[p] \in Cells
      /\ proc[p].resv \in Reservation
  BY ProcFields DEF ExecuteUnknown
<1>2. /\ Perform(CellOf[p], proc[p].task, proc[p].resv, 0) \/ UNCHANGED <<placed, charged>>
      /\ Stop(p) /\ UNCHANGED <<lease, ceiling, claims, resv, conn, judge, sweep, crashes, rulings>>
  BY DEF ExecuteUnknown
<1>3. placed' \in [Cells -> [Tickets -> Nat]] /\ charged' \in [Cells -> [Tickets -> Nat]]
  BY <1>1, <1>2, PerformTyped DEF TypeOK
<1> QED BY Zenon, <1>1, <1>2, <1>3, StopGoTyped, StepNames DEF TypeOK

LEMMA LoadReportTyped ==
  ASSUME TypeOK, NEW p \in Procs, NEW t \in Tickets, LoadReport(p, t)
  PROVE  TypeOK'
<1> DEFINE r == resv[CellOf[p]][t]
           l == lease[CellOf[p]]
           s == [IdleProc EXCEPT !.step = "settle", !.task = t, !.lease = l,
                                 !.resv = r, !.happened = r.happened, !.actual = r.actual]
<1>1. /\ proc' = [proc EXCEPT ![p] = s]
      /\ UNCHANGED <<lease, ceiling, claims, resv, placed, charged, conn, judge, sweep, crashes, rulings>>
  BY DEF LoadReport, Become
<1>2. r \in Reservation /\ l \in Lease
  BY ProcFields, WritesTyped
<1> HIDE DEF r, l
<1>3. s \in ProcState /\ s.task \in Tickets
  BY Zenon, <1>2, ResvFields, RecordsTyped DEF ProcState, ProcSteps
<1> HIDE DEF s
<1> QED BY <1>1, <1>3, ProcStepTyped DEF TypeOK

LEMMA SettleLeaseTyped ==
  ASSUME TypeOK, NEW p \in Procs, SettleLease(p)
  PROVE  TypeOK'
<1> DEFINE r == proc[p].resv
           cost == Cost(r, proc[p].actual)
           paid == Convert(proc[p].lease, r.amount, cost, r.units, r.units)
           back == Release(proc[p].lease, r.amount, r.units)
<1>1. /\ proc[p].step # "idle" /\ CellOf[p] \in Cells /\ proc[p].lease \in Lease
      /\ r.amount \in Nat /\ r.units \in Nat /\ cost \in Nat
  BY Zenon, ProcFields, ResvFields, ReservationsTyped DEF SettleLease
<1>2. \/ UNCHANGED lease
      \/ /\ CanConvert(proc[p].lease, r.amount, cost, r.units, r.units)
         /\ lease' = [lease EXCEPT ![CellOf[p]] = paid]
      \/ /\ CanRelease(proc[p].lease, r.amount, r.units)
         /\ lease' = [lease EXCEPT ![CellOf[p]] = back]
  BY DEF SettleLease
<1>3. /\ Stop(p) \/ Go(p, "mark")
      /\ UNCHANGED <<ceiling, claims, resv, placed, charged, conn, judge, sweep, crashes, rulings>>
  BY DEF SettleLease
<1> HIDE DEF cost
<1>4. /\ CanConvert(proc[p].lease, r.amount, cost, r.units, r.units) => paid \in Lease
      /\ CanRelease(proc[p].lease, r.amount, r.units) => back \in Lease
  BY <1>1, ConvertTyped, ReleaseTyped
<1> HIDE DEF paid, back
<1>5. lease' \in [Cells -> Lease]
  <2>1. lease \in [Cells -> Lease]
    BY DEF TypeOK
  <2> QED BY <1>1, <1>2, <1>4, <2>1
<1> QED BY Zenon, <1>1, <1>3, <1>5, StopGoTyped, StepNames DEF TypeOK

LEMMA MarkTyped ==
  ASSUME TypeOK, NEW p \in Procs, Mark(p)
  PROVE  TypeOK'
<1> DEFINE r == IF proc[p].happened THEN Settled(proc[p].resv, proc[p].actual)
                                    ELSE Refused(proc[p].resv, proc[p].task)
<1>1. /\ proc[p].step # "idle" /\ CellOf[p] \in Cells /\ proc[p].task \in Tickets
      /\ r \in Reservation
  BY Zenon, ProcFields, ReservationsTyped DEF Mark
<1>2. SetResv(CellOf[p], proc[p].task, r) \/ UNCHANGED resv
  BY DEF Mark
<1>3. Stop(p) /\ UNCHANGED <<lease, ceiling, claims, placed, charged, conn, judge, sweep, crashes, rulings>>
  BY DEF Mark
<1> HIDE DEF r
<1>4. resv' \in [Cells -> [Tickets -> Reservation]]
  BY <1>1, <1>2, WritesTyped DEF TypeOK
<1> QED BY Zenon, <1>1, <1>3, <1>4, StopGoTyped, StepNames DEF TypeOK

LEMMA CrashTyped ==
  ASSUME TypeOK, NEW p \in Procs, Crash(p)
  PROVE  TypeOK'
<1>1. crashes' \in 0..MaxCrashes
  BY AmountAssumption DEF Crash, TypeOK
<1>2. proc[p].step # "idle" /\ Stop(p)
      /\ UNCHANGED <<lease, ceiling, claims, resv, placed, charged, conn, judge, sweep, rulings>>
  BY DEF Crash
<1> QED BY Zenon, <1>1, <1>2, StopGoTyped, StepNames DEF TypeOK

LEMMA LapseClaimTyped ==
  ASSUME TypeOK, NEW c \in Cells, NEW t \in Tickets, LapseClaim(c, t)
  PROVE  TypeOK'
<1>1. claims' \in [Cells -> SUBSET Tickets]
  BY WritesTyped DEF LapseClaim
<1> QED BY <1>1 DEF LapseClaim, TypeOK

--------------------------------------------------------------------------------
(* The steps of connectors, principals, sweeps and the overseer.               *)

(* What a connector writes must be typed; it leaves the leases alone.           *)
LEMMA ConnStepTyped ==
  ASSUME TypeOK, NEW k \in Connectors, NEW r \in ConnState,
         conn' = [conn EXCEPT ![k] = r],
         r.step # "idle" => r.cell \in Cells /\ r.task \in Tickets,
         resv' \in [Cells -> [Tickets -> Reservation]],
         placed' \in [Cells -> [Tickets -> Nat]], charged' \in [Cells -> [Tickets -> Nat]],
         crashes' \in 0..MaxCrashes,
         UNCHANGED <<lease, ceiling, claims, proc, judge, sweep, rulings>>
  PROVE  TypeOK'
<1>1. /\ conn' \in [Connectors -> ConnState]
      /\ \A m \in Connectors : conn'[m].step # "idle" => conn'[m].cell \in Cells /\ conn'[m].task \in Tickets
  BY DEF TypeOK
<1> QED BY <1>1 DEF TypeOK

LEMMA ConnFields ==
  ASSUME TypeOK, NEW k \in Connectors
  PROVE  /\ conn[k] \in ConnState
         /\ conn[k].step # "idle" => conn[k].cell \in Cells /\ conn[k].task \in Tickets
         /\ conn[k].happened \in BOOLEAN /\ conn[k].actual \in Nat
<1>1. /\ conn[k] \in ConnState
      /\ conn[k].step # "idle" => conn[k].cell \in Cells /\ conn[k].task \in Tickets
  BY DEF TypeOK
<1> QED BY <1>1 DEF ConnState

LEMMA TakeTyped ==
  ASSUME TypeOK, NEW k \in Connectors, NEW c \in Cells, NEW t \in Tickets, Take(k, c, t)
  PROVE  TypeOK'
<1> DEFINE r == Taken(resv[c][t], k)
           s == [IdleConn EXCEPT !.step = "act", !.cell = c, !.task = t]
<1>1. /\ SetResv(c, t, r) /\ conn' = [conn EXCEPT ![k] = s]
      /\ UNCHANGED <<lease, ceiling, claims, placed, charged, proc, judge, sweep, crashes, rulings>>
  BY DEF Take, ConnBecome
<1>2. r \in Reservation
  BY WritesTyped, ReservationsTyped DEF Holders
<1>3. s \in ConnState /\ s.cell \in Cells /\ s.task \in Tickets
  BY Zenon, RecordsTyped DEF ConnState
<1> HIDE DEF r, s
<1>4. resv' \in [Cells -> [Tickets -> Reservation]]
  BY <1>1, <1>2, WritesTyped
<1> QED BY <1>1, <1>3, <1>4, ConnStepTyped DEF TypeOK

LEMMA ActDoneTyped ==
  ASSUME TypeOK, NEW k \in Connectors, ActDone(k)
  PROVE  TypeOK'
<1>1. PICK cost \in Actuals :
        /\ Perform(conn[k].cell, conn[k].task, resv[conn[k].cell][conn[k].task], cost)
        /\ conn' = [conn EXCEPT ![k] = [conn[k] EXCEPT !.step = "report", !.happened = TRUE, !.actual = cost]]
  BY Zenon DEF ActDone, ConnBecome
<1>2. UNCHANGED <<lease, ceiling, claims, resv, proc, judge, sweep, crashes, rulings>>
  BY DEF ActDone
<1> DEFINE s == [conn[k] EXCEPT !.step = "report", !.happened = TRUE, !.actual = cost]
<1>3. conn[k] \in ConnState /\ conn[k].cell \in Cells /\ conn[k].task \in Tickets /\ cost \in Nat
  BY ConnFields, AmountAssumption DEF ActDone
<1>4. s \in ConnState /\ s.cell \in Cells /\ s.task \in Tickets
  BY Zenon, <1>3 DEF ConnState
<1>5. resv[conn[k].cell][conn[k].task] \in Reservation
  BY <1>3, WritesTyped
<1>6. placed' \in [Cells -> [Tickets -> Nat]] /\ charged' \in [Cells -> [Tickets -> Nat]]
  BY <1>1, <1>3, <1>5, PerformTyped
<1>7. conn' = [conn EXCEPT ![k] = s]
  BY <1>1
<1> HIDE DEF s
<1> QED BY <1>2, <1>4, <1>6, <1>7, ConnStepTyped DEF TypeOK

LEMMA ActRefusedTyped ==
  ASSUME TypeOK, NEW k \in Connectors, ActRefused(k)
  PROVE  TypeOK'
<1> DEFINE s == [conn[k] EXCEPT !.step = "report", !.happened = FALSE]
<1>1. /\ conn' = [conn EXCEPT ![k] = s]
      /\ UNCHANGED <<lease, ceiling, claims, resv, placed, charged, proc, judge, sweep, crashes, rulings>>
  BY DEF ActRefused, ConnBecome
<1>2. conn[k] \in ConnState /\ conn[k].cell \in Cells /\ conn[k].task \in Tickets
  BY ConnFields DEF ActRefused
<1>3. s \in ConnState /\ s.cell \in Cells /\ s.task \in Tickets
  BY Zenon, <1>2 DEF ConnState
<1> HIDE DEF s
<1> QED BY <1>1, <1>3, ConnStepTyped DEF TypeOK

(* A connector that goes back to idle. *)
LEMMA ConnIdleTyped ==
  ASSUME TypeOK, NEW k \in Connectors, ConnBecome(k, IdleConn),
         resv' \in [Cells -> [Tickets -> Reservation]],
         placed' \in [Cells -> [Tickets -> Nat]], charged' \in [Cells -> [Tickets -> Nat]],
         crashes' \in 0..MaxCrashes,
         UNCHANGED <<lease, ceiling, claims, proc, judge, sweep, rulings>>
  PROVE  TypeOK'
<1>1. IdleConn \in ConnState /\ IdleConn.step = "idle"
  BY RecordsTyped DEF IdleConn
<1> QED BY Zenon, <1>1, ConnStepTyped DEF ConnBecome

LEMMA ActUnknownTyped ==
  ASSUME TypeOK, NEW k \in Connectors, ActUnknown(k)
  PROVE  TypeOK'
<1> DEFINE c == conn[k].cell
           t == conn[k].task
<1>1. c \in Cells /\ t \in Tickets
  BY ConnFields DEF ActUnknown
<1>2. /\ Perform(c, t, resv[c][t], 0) \/ UNCHANGED <<placed, charged>>
      /\ ConnBecome(k, IdleConn)
      /\ UNCHANGED <<lease, ceiling, claims, resv, proc, judge, sweep, crashes, rulings>>
  BY DEF ActUnknown
<1>3. resv[c][t] \in Reservation
  BY <1>1, WritesTyped
<1>4. placed' \in [Cells -> [Tickets -> Nat]] /\ charged' \in [Cells -> [Tickets -> Nat]]
  <2>1. CASE Perform(c, t, resv[c][t], 0)
    BY <1>1, <1>3, <2>1, PerformTyped
  <2>2. CASE UNCHANGED <<placed, charged>>
    BY <2>2 DEF TypeOK
  <2> QED BY <1>2, <2>1, <2>2
<1> QED BY Zenon, <1>2, <1>4, ConnIdleTyped DEF TypeOK

LEMMA ReportTyped ==
  ASSUME TypeOK, NEW k \in Connectors, Report(k)
  PROVE  TypeOK'
<1> DEFINE c == conn[k].cell
           t == conn[k].task
           r == Reported(resv[c][t], conn[k].happened, conn[k].actual)
<1>1. c \in Cells /\ t \in Tickets
  BY ConnFields DEF Report
<1>2. /\ SetResv(c, t, r) \/ UNCHANGED resv
      /\ ConnBecome(k, IdleConn)
      /\ UNCHANGED <<lease, ceiling, claims, placed, charged, proc, judge, sweep, crashes, rulings>>
  BY DEF Report
<1>3. r \in Reservation
  BY Zenon, <1>1, ConnFields, WritesTyped, ReservationsTyped
<1> HIDE DEF c, t, r
<1>4. resv' \in [Cells -> [Tickets -> Reservation]]
  BY <1>1, <1>2, <1>3, WritesTyped DEF TypeOK
<1> QED BY Zenon, <1>2, <1>4, ConnIdleTyped DEF TypeOK

LEMMA ConnCrashTyped ==
  ASSUME TypeOK, NEW k \in Connectors, ConnCrash(k)
  PROVE  TypeOK'
BY ConnIdleTyped DEF ConnCrash, TypeOK

(* What a principal writes must be typed. *)
LEMMA JudgeStepTyped ==
  ASSUME TypeOK, NEW j \in Principals, NEW r \in JudgeState,
         judge' = [judge EXCEPT ![j] = r],
         r.step # "idle" => r.cell \in Cells /\ r.task \in Tickets,
         lease' \in [Cells -> Lease], resv' \in [Cells -> [Tickets -> Reservation]],
         UNCHANGED <<ceiling, claims, placed, charged, proc, conn, sweep, crashes, rulings>>
  PROVE  TypeOK'
<1>1. /\ judge' \in [Principals -> JudgeState]
      /\ \A i \in Principals : judge'[i].step # "idle" => judge'[i].cell \in Cells /\ judge'[i].task \in Tickets
  BY DEF TypeOK
<1> QED BY <1>1 DEF TypeOK

LEMMA JudgeFields ==
  ASSUME TypeOK, NEW j \in Principals
  PROVE  /\ judge[j] \in JudgeState
         /\ judge[j].step # "idle" => judge[j].cell \in Cells /\ judge[j].task \in Tickets
         /\ judge[j].lease \in Lease /\ judge[j].resv \in Reservation
         /\ judge[j].happened \in BOOLEAN
<1>1. /\ judge[j] \in JudgeState
      /\ judge[j].step # "idle" => judge[j].cell \in Cells /\ judge[j].task \in Tickets
  BY DEF TypeOK
<1> QED BY <1>1 DEF JudgeState

LEMMA PendingTyped ==
  ASSUME TypeOK, NEW j \in Principals, NEW c \in Cells, NEW t \in Tickets, Pending(j, c, t)
  PROVE  TypeOK'
<1> DEFINE s == [IdleJudge EXCEPT !.step = "look", !.cell = c, !.task = t]
<1>1. /\ judge' = [judge EXCEPT ![j] = s]
      /\ UNCHANGED <<lease, ceiling, claims, resv, placed, charged, proc, conn, sweep, crashes, rulings>>
  BY DEF Pending, JudgeBecome
<1>2. s \in JudgeState /\ s.cell \in Cells /\ s.task \in Tickets
  BY Zenon, RecordsTyped DEF JudgeState
<1> HIDE DEF s
<1> QED BY <1>1, <1>2, JudgeStepTyped DEF TypeOK

LEMMA LookUpTyped ==
  ASSUME TypeOK, NEW j \in Principals, LookUp(j)
  PROVE  TypeOK'
<1> DEFINE yes == placed[judge[j].cell][judge[j].task] > 0
           s == [judge[j] EXCEPT !.step = "load", !.happened = yes]
<1>1. /\ judge' = [judge EXCEPT ![j] = s]
      /\ UNCHANGED <<lease, ceiling, claims, resv, placed, charged, proc, conn, sweep, crashes, rulings>>
  BY DEF LookUp, JudgeBecome
<1>2. /\ judge[j] \in JudgeState /\ judge[j].cell \in Cells /\ judge[j].task \in Tickets
      /\ yes \in BOOLEAN
  BY JudgeFields DEF LookUp
<1> HIDE DEF yes
<1>3. s \in JudgeState /\ s.cell \in Cells /\ s.task \in Tickets
  BY Zenon, <1>2 DEF JudgeState
<1> HIDE DEF s
<1> QED BY <1>1, <1>3, JudgeStepTyped DEF TypeOK

LEMMA LoadClaimTyped ==
  ASSUME TypeOK, NEW j \in Principals, LoadClaim(j)
  PROVE  TypeOK'
<1> DEFINE l == lease[judge[j].cell]
           r == resv[judge[j].cell][judge[j].task]
           s == [judge[j] EXCEPT !.step = "lease", !.lease = l, !.resv = r]
<1>1. /\ judge' = [judge EXCEPT ![j] = s]
      /\ UNCHANGED <<lease, ceiling, claims, resv, placed, charged, proc, conn, sweep, crashes, rulings>>
  BY DEF LoadClaim, JudgeBecome
<1>2. judge[j] \in JudgeState /\ judge[j].cell \in Cells /\ judge[j].task \in Tickets
  BY JudgeFields DEF LoadClaim
<1>3. l \in Lease /\ r \in Reservation
  BY <1>2, WritesTyped
<1> HIDE DEF l, r
<1>4. s \in JudgeState /\ s.cell \in Cells /\ s.task \in Tickets
  BY Zenon, <1>2, <1>3 DEF JudgeState
<1> HIDE DEF s
<1> QED BY <1>1, <1>4, JudgeStepTyped DEF TypeOK

LEMMA ResolveLeaseTyped ==
  ASSUME TypeOK, NEW j \in Principals, ResolveLease(j)
  PROVE  TypeOK'
<1> DEFINE c == judge[j].cell
           l == judge[j].lease
           r == judge[j].resv
           late == Charge(l, r.amount, r.units)
           paid == Convert(l, r.amount, r.amount, r.units, r.units)
           back == Release(l, r.amount, r.units)
           s == [judge[j] EXCEPT !.step = "mark"]
<1>1. /\ judge[j] \in JudgeState /\ c \in Cells /\ judge[j].task \in Tickets /\ l \in Lease
      /\ r.amount \in Nat /\ r.units \in Nat
  BY JudgeFields, ResvFields DEF ResolveLease
<1>2. /\ \/ UNCHANGED lease
         \/ lease' = [lease EXCEPT ![c] = late]
         \/ CanConvert(l, r.amount, r.amount, r.units, r.units) /\ lease' = [lease EXCEPT ![c] = paid]
         \/ CanRelease(l, r.amount, r.units) /\ lease' = [lease EXCEPT ![c] = back]
      /\ judge' = [judge EXCEPT ![j] = s] \/ judge' = [judge EXCEPT ![j] = IdleJudge]
      /\ UNCHANGED <<ceiling, claims, resv, placed, charged, proc, conn, sweep, crashes, rulings>>
  BY DEF ResolveLease, JudgeBecome
<1>3. /\ late \in Lease
      /\ CanConvert(l, r.amount, r.amount, r.units, r.units) => paid \in Lease
      /\ CanRelease(l, r.amount, r.units) => back \in Lease
  BY Zenon, <1>1, ChargeTyped, ConvertTyped, ReleaseTyped
<1>4. s \in JudgeState /\ s.cell \in Cells /\ s.task \in Tickets
  BY <1>1 DEF JudgeState
<1>5. IdleJudge \in JudgeState /\ IdleJudge.step = "idle"
  BY RecordsTyped DEF IdleJudge
<1> HIDE DEF late, paid, back, s
<1>6. lease' \in [Cells -> Lease]
  <2>1. lease \in [Cells -> Lease]
    BY DEF TypeOK
  <2> QED BY <1>1, <1>2, <1>3, <2>1
<1>7. CASE judge' = [judge EXCEPT ![j] = s]
  BY <1>2, <1>4, <1>6, <1>7, JudgeStepTyped DEF TypeOK
<1>8. CASE judge' = [judge EXCEPT ![j] = IdleJudge]
  BY <1>2, <1>5, <1>6, <1>8, JudgeStepTyped DEF TypeOK
<1> QED BY <1>2, <1>7, <1>8

LEMMA ResolveMarkTyped ==
  ASSUME TypeOK, NEW j \in Principals, ResolveMark(j)
  PROVE  TypeOK'
<1> DEFINE c == judge[j].cell
           t == judge[j].task
           r == Resolved(judge[j].resv, t, judge[j].happened)
<1>1. c \in Cells /\ t \in Tickets /\ judge[j].resv \in Reservation /\ judge[j].happened \in BOOLEAN
  BY JudgeFields DEF ResolveMark
<1>2. r \in Reservation
  BY Zenon, <1>1, ReservationsTyped
<1>3. /\ SetResv(c, t, r) \/ UNCHANGED resv
      /\ judge' = [judge EXCEPT ![j] = IdleJudge]
      /\ UNCHANGED <<lease, ceiling, claims, placed, charged, proc, conn, sweep, crashes, rulings>>
  BY DEF ResolveMark, JudgeBecome
<1> HIDE DEF c, t, r
<1>4. resv' \in [Cells -> [Tickets -> Reservation]]
  BY <1>1, <1>2, <1>3, WritesTyped DEF TypeOK
<1>5. IdleJudge \in JudgeState /\ IdleJudge.step = "idle"
  BY RecordsTyped DEF IdleJudge
<1> QED BY <1>3, <1>4, <1>5, JudgeStepTyped DEF TypeOK

(* What a sweep writes must be typed. *)
LEMMA SweepStepTyped ==
  ASSUME TypeOK, NEW s \in Sweepers, NEW r \in SweepState,
         sweep' = [sweep EXCEPT ![s] = r],
         r.step # "idle" => r.cell \in Cells, r.step = "mark" => r.task \in Tickets,
         lease' \in [Cells -> Lease], resv' \in [Cells -> [Tickets -> Reservation]],
         UNCHANGED <<ceiling, claims, placed, charged, proc, conn, judge, crashes, rulings>>
  PROVE  TypeOK'
<1>1. /\ sweep' \in [Sweepers -> SweepState]
      /\ \A q \in Sweepers : /\ sweep'[q].step # "idle" => sweep'[q].cell \in Cells
                             /\ sweep'[q].step = "mark" => sweep'[q].task \in Tickets
  BY DEF TypeOK
<1> QED BY <1>1 DEF TypeOK

LEMMA SweepFields ==
  ASSUME TypeOK, NEW s \in Sweepers
  PROVE  /\ sweep[s] \in SweepState
         /\ sweep[s].step # "idle" => sweep[s].cell \in Cells
         /\ sweep[s].step = "mark" => sweep[s].task \in Tickets
         /\ sweep[s].lease \in Lease
         /\ sweep[s].list \in [Tickets -> Reservation]
<1>1. /\ sweep[s] \in SweepState
      /\ sweep[s].step # "idle" => sweep[s].cell \in Cells
      /\ sweep[s].step = "mark" => sweep[s].task \in Tickets
  BY DEF TypeOK
<1> QED BY <1>1 DEF SweepState

LEMMA SweepStartTyped ==
  ASSUME TypeOK, NEW s \in Sweepers, NEW c \in Cells, SweepStart(s, c)
  PROVE  TypeOK'
<1>1. PICK lapsed \in SUBSET Tickets :
        sweep' = [sweep EXCEPT ![s] = [IdleSweep EXCEPT !.step = "release", !.cell = c, !.lease = lease[c],
                   !.list = [t \in Tickets |-> IF t \in lapsed THEN resv[c][t] ELSE NoResv]]]
  BY Zenon DEF SweepStart, SweepBecome
<1>2. UNCHANGED <<lease, ceiling, claims, resv, placed, charged, proc, conn, judge, crashes, rulings>>
  BY DEF SweepStart
<1> DEFINE l == lease[c]
           list == [t \in Tickets |-> IF t \in lapsed THEN resv[c][t] ELSE NoResv]
           r == [IdleSweep EXCEPT !.step = "release", !.cell = c, !.lease = l, !.list = list]
<1>3. l \in Lease
  BY DEF TypeOK
<1>4. list \in [Tickets -> Reservation]
  BY WritesTyped, RecordsTyped
<1>5. sweep' = [sweep EXCEPT ![s] = r]
  BY <1>1
<1> HIDE DEF l, list
<1>6. r \in SweepState /\ r.cell \in Cells /\ r.step = "release"
  BY Zenon, <1>3, <1>4, RecordsTyped DEF SweepState
<1> HIDE DEF r
<1> QED BY <1>2, <1>5, <1>6, SweepStepTyped DEF TypeOK

LEMMA SweepReleaseTyped ==
  ASSUME TypeOK, NEW s \in Sweepers, NEW t \in Tickets, SweepRelease(s, t)
  PROVE  TypeOK'
<1> DEFINE c == sweep[s].cell
           l == sweep[s].lease
           v == sweep[s].list[t]
           back == Release(l, v.amount, v.units)
           r == [sweep[s] EXCEPT !.step = "mark", !.task = t, !.lease = back]
<1>1. /\ sweep[s] \in SweepState /\ c \in Cells /\ l \in Lease /\ v \in Reservation
  BY SweepFields DEF SweepRelease
<1>2. v.amount \in Nat /\ v.units \in Nat
  BY <1>1, ResvFields
<1>3. /\ \/ /\ CanRelease(l, v.amount, v.units)
            /\ lease' = [lease EXCEPT ![c] = back] /\ sweep' = [sweep EXCEPT ![s] = r]
         \/ UNCHANGED lease /\ sweep' = [sweep EXCEPT ![s] = IdleSweep]
      /\ UNCHANGED <<ceiling, claims, resv, placed, charged, proc, conn, judge, crashes, rulings>>
  BY DEF SweepRelease, SweepBecome
<1>4. CanRelease(l, v.amount, v.units) => back \in Lease
  BY <1>1, <1>2, ReleaseTyped
<1>5. IdleSweep \in SweepState /\ IdleSweep.step = "idle"
  BY RecordsTyped DEF IdleSweep
<1>6. lease \in [Cells -> Lease]
  BY DEF TypeOK
<1> HIDE DEF back
<1>7. CASE /\ CanRelease(l, v.amount, v.units)
           /\ lease' = [lease EXCEPT ![c] = back] /\ sweep' = [sweep EXCEPT ![s] = r]
  <2>1. lease' \in [Cells -> Lease]
    BY <1>1, <1>4, <1>6, <1>7
  <2>2. r \in SweepState /\ r.cell \in Cells /\ r.task \in Tickets
    BY Zenon, <1>1, <1>4, <1>7 DEF SweepState
  <2> HIDE DEF r
  <2> QED BY <1>3, <1>7, <2>1, <2>2, SweepStepTyped DEF TypeOK
<1>8. CASE UNCHANGED lease /\ sweep' = [sweep EXCEPT ![s] = IdleSweep]
  BY <1>3, <1>5, <1>8, SweepStepTyped DEF TypeOK
<1> QED BY <1>3, <1>7, <1>8

LEMMA SweepMarkTyped ==
  ASSUME TypeOK, NEW s \in Sweepers, SweepMark(s)
  PROVE  TypeOK'
<1> DEFINE c == sweep[s].cell
           t == sweep[s].task
           v == [sweep[s].list[t] EXCEPT !.released = TRUE]
           rest == [sweep[s].list EXCEPT ![t] = NoResv]
           r == [sweep[s] EXCEPT !.step = "release", !.task = NoTicket, !.list = rest]
<1>1. /\ sweep[s] \in SweepState /\ c \in Cells /\ t \in Tickets
      /\ sweep[s].list \in [Tickets -> Reservation]
  BY SweepFields DEF SweepMark
<1>2. v \in Reservation
  <2>1. sweep[s].list[t] \in Reservation
    BY <1>1
  <2> QED BY Zenon, <2>1 DEF Reservation
<1>3. rest \in [Tickets -> Reservation]
  BY <1>1, RecordsTyped
<1>4. /\ SetResv(c, t, v)
      /\ sweep' = [sweep EXCEPT ![s] = IdleSweep] \/ sweep' = [sweep EXCEPT ![s] = r]
      /\ UNCHANGED <<lease, ceiling, claims, placed, charged, proc, conn, judge, crashes, rulings>>
  BY Zenon DEF SweepMark, SweepBecome
<1>5. IdleSweep \in SweepState /\ IdleSweep.step = "idle"
  BY RecordsTyped DEF IdleSweep
<1> HIDE DEF rest
<1>6. r \in SweepState /\ r.cell \in Cells /\ r.step = "release"
  BY Zenon, <1>1, <1>3 DEF SweepState
<1> HIDE DEF c, t, v, r
<1>7. resv' \in [Cells -> [Tickets -> Reservation]]
  BY <1>1, <1>2, <1>4, WritesTyped
<1>8. CASE sweep' = [sweep EXCEPT ![s] = IdleSweep]
  BY <1>4, <1>5, <1>7, <1>8, SweepStepTyped DEF TypeOK
<1>9. CASE sweep' = [sweep EXCEPT ![s] = r]
  BY <1>4, <1>6, <1>7, <1>9, SweepStepTyped DEF TypeOK
<1> QED BY <1>4, <1>8, <1>9

LEMMA ReissueTyped ==
  ASSUME TypeOK, NEW c \in Cells, NEW a \in Amounts, Reissue(c, a)
  PROVE  TypeOK'
<1> DEFINE l == [lease[c] EXCEPT !.amount = a]
<1>1. lease \in [Cells -> Lease] /\ rulings \in 0..MaxOverseer
  BY DEF TypeOK
<1>2. l \in Lease
  BY Zenon, <1>1, SetHeldTyped, AmountAssumption
<1>3. lease' = [lease EXCEPT ![c] = l] /\ rulings' \in 0..MaxOverseer
  BY <1>1, AmountAssumption DEF Reissue
<1>4. UNCHANGED <<ceiling, claims, resv, placed, charged, proc, conn, judge, sweep, crashes>>
  BY DEF Reissue
<1> HIDE DEF l
<1>5. lease' \in [Cells -> Lease]
  BY <1>1, <1>2, <1>3
<1> QED BY <1>3, <1>4, <1>5 DEF TypeOK

LEMMA SetCeilingTyped ==
  ASSUME TypeOK, NEW e \in Ceilings, SetCeiling(e)
  PROVE  TypeOK'
<1>1. ceiling' \in Ceiling /\ rulings' \in 0..MaxOverseer
  BY AmountAssumption DEF SetCeiling, TypeOK
<1>2. UNCHANGED <<lease, claims, resv, placed, charged, proc, conn, judge, sweep, crashes>>
  BY DEF SetCeiling
<1> QED BY <1>1, <1>2 DEF TypeOK

--------------------------------------------------------------------------------
(* Type correctness, step by step. *)

LEMMA InitTyped == Init => TypeOK
<1> SUFFICES ASSUME Init PROVE TypeOK
  OBVIOUS
<1>1. /\ lease \in [Cells -> Lease] /\ ceiling \in Ceiling
      /\ crashes \in 0..MaxCrashes /\ rulings \in 0..MaxOverseer
  BY AmountAssumption DEF Init
<1>2. /\ claims \in [Cells -> SUBSET Tickets]
      /\ resv \in [Cells -> [Tickets -> Reservation]]
      /\ placed \in [Cells -> [Tickets -> Nat]] /\ charged \in [Cells -> [Tickets -> Nat]]
  BY RecordsTyped DEF Init
<1>3. /\ proc \in [Procs -> ProcState]
      /\ \A p \in Procs : proc[p].step = "idle"
  BY RecordsTyped DEF Init, IdleProc
<1>4. /\ conn \in [Connectors -> ConnState]
      /\ \A k \in Connectors : conn[k].step = "idle"
  BY RecordsTyped DEF Init, IdleConn
<1>5. /\ judge \in [Principals -> JudgeState]
      /\ \A j \in Principals : judge[j].step = "idle"
  BY RecordsTyped DEF Init, IdleJudge
<1>6. /\ sweep \in [Sweepers -> SweepState]
      /\ \A s \in Sweepers : sweep[s].step = "idle"
  BY RecordsTyped DEF Init, IdleSweep
<1> QED BY <1>1, <1>2, <1>3, <1>4, <1>5, <1>6 DEF TypeOK

LEMMA NextTyped == TypeOK /\ [Next]_vars => TypeOK'
<1> SUFFICES ASSUME TypeOK, [Next]_vars PROVE TypeOK'
  OBVIOUS
<1>1. CASE UNCHANGED vars
  BY <1>1 DEF vars, TypeOK
<1>2. CASE Next
  <2>1. ASSUME NEW p \in Procs, PassStep(p) PROVE TypeOK'
    BY <2>1, ClaimTyped, AuthorizeTyped, LookTyped, TakeHoldTyped, ClaimKeyTyped, UnholdTyped,
       OfferTyped, TakeSelfTyped, ExecuteDoneTyped, ExecuteRejectedTyped, ExecuteUnknownTyped,
       SettleLeaseTyped, MarkTyped DEF PassStep
  <2>2. CASE \E p \in Procs : PassStep(p) \/ Crash(p) \/ \E t \in Tickets : Evaluate(p, t) \/ LoadReport(p, t)
    BY <2>1, <2>2, CrashTyped, EvaluateTyped, LoadReportTyped
  <2>3. CASE \E k \in Connectors : ConnStep(k) \/ ConnCrash(k) \/ \E c \in Cells, t \in Tickets : Take(k, c, t)
    BY <2>3, ActDoneTyped, ActRefusedTyped, ActUnknownTyped, ReportTyped, ConnCrashTyped, TakeTyped
       DEF ConnStep
  <2>4. CASE \E j \in Principals : JudgeStep(j) \/ \E c \in Cells, t \in Tickets : Pending(j, c, t)
    BY <2>4, PendingTyped, LookUpTyped, LoadClaimTyped, ResolveLeaseTyped, ResolveMarkTyped
       DEF JudgeStep
  <2>5. CASE \E s \in Sweepers : SweepStep(s) \/ \E c \in Cells : SweepStart(s, c)
    BY <2>5, SweepMarkTyped, SweepReleaseTyped, SweepStartTyped DEF SweepStep
  <2>6. CASE \E c \in Cells : \/ \E t \in Tickets : LapseClaim(c, t)
                             \/ \E a \in Amounts : Reissue(c, a)
    BY <2>6, LapseClaimTyped, ReissueTyped
  <2>7. CASE \E e \in Ceilings : SetCeiling(e)
    BY <2>7, SetCeilingTyped
  <2> QED BY <1>2, <2>2, <2>3, <2>4, <2>5, <2>6, <2>7 DEF Next
<1> QED BY <1>1, <1>2

(* Every state the protocol reaches has the types its actions assume: in         *)
(* particular no lease, committed amount or charge ever goes below zero,        *)
(* whatever the invoices say (the guards of authority.Release and Convert).   *)
THEOREM TypeCorrect == Spec => []TypeOK
BY InitTyped, NextTyped, PTL DEF Spec

--------------------------------------------------------------------------------
(* The idempotency key at work: whatever crashes, races and restarts,          *)
(* however many processes run a cell and however many connectors compete      *)
(* for its reservation, an action reaches the far end at most once, the       *)
(* record of its outcome is true, and its key goes through the lifecycle of   *)
(* EffectLifecycle and no other.  The one hypothesis is that no expiry sweep  *)
(* runs, which is how the binary is built; with one, TLC has a counterexample. *)

Untaken == {"none", "offered"}

(* A step is quiet when it performs nothing, licenses nobody and makes no       *)
(* reservation untaken again.  Quiet steps keep the invariant.               *)
Quiet ==
  /\ UNCHANGED placed
  /\ \A c \in Cells, t \in Tickets :
       /\ \A p \in Procs : ProcLicensed(p, c, t)' => ProcLicensed(p, c, t)
       /\ \A k \in Connectors : ConnLicensed(k, c, t)' => ConnLicensed(k, c, t)
       /\ resv'[c][t].state \in Untaken => resv[c][t].state \in Untaken

LEMMA QuietKeepsOrder ==
  ASSUME OrderInv, Quiet
  PROVE  OrderInv'
<1>1. ASSUME NEW c \in Cells, NEW t \in Tickets PROVE Licensed(c, t)' => Licensed(c, t)
  BY DEF Quiet, Licensed
<1>2. UntakenIsUntouched'
  BY <1>1 DEF Quiet, OrderInv, UntakenIsUntouched, Untaken
<1>3. LicenceIsUnused'
  BY <1>1 DEF Quiet, OrderInv, LicenceIsUnused
<1>4. OneLicence'
  BY DEF Quiet, OrderInv, OneLicence
<1>5. AtMostOneOrder'
  BY DEF Quiet, OrderInv, AtMostOneOrder
<1> QED BY <1>2, <1>3, <1>4, <1>5 DEF OrderInv

(* Taking an offered reservation licenses its taker, and nobody else: nobody     *)
(* was licensed before, because the reservation was untaken.                 *)
LEMMA TakingKeepsOrder ==
  ASSUME OrderInv, NEW c \in Cells, NEW t \in Tickets,
         resv[c][t].state = "offered", resv'[c][t].state = "pending",
         UNCHANGED placed,
         \A d \in Cells, u \in Tickets : <<d, u>> # <<c, t>> =>
           /\ resv'[d][u] = resv[d][u]
           /\ \A p \in Procs : ProcLicensed(p, d, u)' => ProcLicensed(p, d, u)
           /\ \A k \in Connectors : ConnLicensed(k, d, u)' => ConnLicensed(k, d, u),
         \/ /\ \A k \in Connectors : ConnLicensed(k, c, t)' => ConnLicensed(k, c, t)
            /\ \E q \in Procs : \A p \in Procs : ProcLicensed(p, c, t)' => ProcLicensed(p, c, t) \/ p = q
         \/ /\ \A p \in Procs : ProcLicensed(p, c, t)' => ProcLicensed(p, c, t)
            /\ \E m \in Connectors : \A k \in Connectors : ConnLicensed(k, c, t)' => ConnLicensed(k, c, t) \/ k = m
  PROVE  OrderInv'
<1>1. placed[c][t] = 0 /\ ~Licensed(c, t)
  BY DEF OrderInv, UntakenIsUntouched
<1>2. ASSUME NEW d \in Cells, NEW u \in Tickets, <<d, u>> # <<c, t>>
      PROVE  Licensed(d, u)' => Licensed(d, u)
  BY <1>2 DEF Licensed
<1>3. /\ \A p \in Procs : ~ProcLicensed(p, c, t)
      /\ \A k \in Connectors : ~ConnLicensed(k, c, t)
  BY <1>1 DEF Licensed
<1>4. UntakenIsUntouched'
  BY <1>2 DEF OrderInv, UntakenIsUntouched
<1>5. LicenceIsUnused'
  BY <1>1, <1>2 DEF OrderInv, LicenceIsUnused
<1>6. OneLicence'
  BY <1>3 DEF OrderInv, OneLicence
<1>7. AtMostOneOrder'
  BY DEF OrderInv, AtMostOneOrder
<1> QED BY <1>4, <1>5, <1>6, <1>7 DEF OrderInv

(* Performing an action uses up the one licence there is. *)
LEMMA PerformingKeepsOrder ==
  ASSUME TypeOK, OrderInv, NEW c \in Cells, NEW t \in Tickets, Licensed(c, t),
         UNCHANGED resv, placed' = [placed EXCEPT ![c][t] = @ + 1],
         \A d \in Cells, u \in Tickets :
           /\ \A p \in Procs : ProcLicensed(p, d, u)' => ProcLicensed(p, d, u)
           /\ \A k \in Connectors : ConnLicensed(k, d, u)' => ConnLicensed(k, d, u),
         ~Licensed(c, t)'
  PROVE  OrderInv'
<1>1. placed[c][t] = 0
  BY DEF OrderInv, LicenceIsUnused
<1>2. /\ placed'[c][t] = 1
      /\ \A d \in Cells, u \in Tickets : <<d, u>> # <<c, t>> => placed'[d][u] = placed[d][u]
  BY <1>1 DEF TypeOK
<1>3. ASSUME NEW d \in Cells, NEW u \in Tickets PROVE Licensed(d, u)' => Licensed(d, u)
  BY DEF Licensed
<1>4. UntakenIsUntouched'
  BY <1>2, <1>3 DEF OrderInv, UntakenIsUntouched
<1>5. LicenceIsUnused'
  BY <1>2, <1>3 DEF OrderInv, LicenceIsUnused
<1>6. OneLicence'
  BY DEF OrderInv, OneLicence
<1>7. AtMostOneOrder'
  BY <1>2 DEF OrderInv, AtMostOneOrder
<1> QED BY <1>4, <1>5, <1>6, <1>7 DEF OrderInv

--------------------------------------------------------------------------------
(* Which steps are quiet. *)

(* Only p moves, and not to "execute"; only k moves, and not to "act". *)
Elsewhere(p) == \A q \in Procs : IF q = p THEN proc'[q].step # "execute" ELSE proc'[q] = proc[q]
ConnElsewhere(k) == \A m \in Connectors : IF m = k THEN conn'[m].step # "act" ELSE conn'[m] = conn[m]

(* A process that goes anywhere but to "execute" gains no licence, and a          *)
(* connector none that goes anywhere but to "act".                           *)
LEMMA ProcGainsNothing ==
  ASSUME NEW p \in Procs, Elsewhere(p),
         NEW q \in Procs, NEW c \in Cells, NEW t \in Tickets
  PROVE  /\ ProcLicensed(q, c, t)' => ProcLicensed(q, c, t)
         /\ ~ProcLicensed(p, c, t)'
BY DEF Elsewhere, ProcLicensed

LEMMA ConnGainsNothing ==
  ASSUME NEW k \in Connectors, ConnElsewhere(k),
         NEW m \in Connectors, NEW c \in Cells, NEW t \in Tickets
  PROVE  /\ ConnLicensed(m, c, t)' => ConnLicensed(m, c, t)
         /\ ~ConnLicensed(k, c, t)'
BY DEF ConnElsewhere, ConnLicensed

(* A write leaves the reservation taken, or found it untaken.                   *)
LEMMA WriteKeepsTaken ==
  ASSUME TypeOK, NEW c \in Cells, NEW t \in Tickets, NEW r, SetResv(c, t, r),
         r.state \in Untaken => resv[c][t].state \in Untaken
  PROVE  \A d \in Cells, u \in Tickets :
           resv'[d][u].state \in Untaken => resv[d][u].state \in Untaken
BY DEF TypeOK, SetResv

KeepsTaken ==
  \A c \in Cells, t \in Tickets : resv'[c][t].state \in Untaken => resv[c][t].state \in Untaken

LEMMA UnchangedKeepsTaken == UNCHANGED resv => KeepsTaken
BY DEF KeepsTaken

LEMMA QuietProc ==
  ASSUME NEW p \in Procs, Elsewhere(p), UNCHANGED <<placed, conn>>, KeepsTaken
  PROVE  Quiet
<1>1. \A q \in Procs, c \in Cells, t \in Tickets : ProcLicensed(q, c, t)' => ProcLicensed(q, c, t)
  BY ProcGainsNothing
<1>2. \A k \in Connectors, c \in Cells, t \in Tickets : ConnLicensed(k, c, t)' => ConnLicensed(k, c, t)
  BY DEF ConnLicensed
<1> QED BY <1>1, <1>2 DEF Quiet, KeepsTaken

LEMMA QuietConn ==
  ASSUME NEW k \in Connectors, ConnElsewhere(k), UNCHANGED <<placed, proc>>, KeepsTaken
  PROVE  Quiet
<1>1. \A m \in Connectors, c \in Cells, t \in Tickets : ConnLicensed(m, c, t)' => ConnLicensed(m, c, t)
  BY ConnGainsNothing
<1>2. \A q \in Procs, c \in Cells, t \in Tickets : ProcLicensed(q, c, t)' => ProcLicensed(q, c, t)
  BY DEF ProcLicensed
<1> QED BY <1>1, <1>2 DEF Quiet, KeepsTaken

LEMMA QuietElsewhere ==
  ASSUME UNCHANGED <<placed, proc, conn>>, KeepsTaken
  PROVE  Quiet
BY DEF Quiet, KeepsTaken, ProcLicensed, ConnLicensed

LEMMA BecomeElsewhere ==
  ASSUME TypeOK
  PROVE  /\ \A p \in Procs : \A r : Become(p, r) /\ r.step # "execute" => Elsewhere(p)
         /\ \A p \in Procs : Stop(p) => Elsewhere(p)
         /\ \A p \in Procs, step \in {"hold", "reserve", "unhold", "mark"} : Go(p, step) => Elsewhere(p)
<1>1. proc \in [Procs -> ProcState]
  BY DEF TypeOK
<1>2. \A p \in Procs : \A r : Become(p, r) /\ r.step # "execute" => Elsewhere(p)
  BY <1>1 DEF Become, Elsewhere
<1>3. \A p \in Procs : Stop(p) => Elsewhere(p)
  BY <1>1 DEF Stop, Become, Elsewhere, IdleProc
<1>4. \A p \in Procs, step \in {"hold", "reserve", "unhold", "mark"} : Go(p, step) => Elsewhere(p)
  BY <1>1 DEF Go, Become, Elsewhere, ProcState
<1> QED BY <1>2, <1>3, <1>4

(* A pass step other than a taking leads p anywhere but to "execute". *)
LEMMA PassElsewhere ==
  ASSUME TypeOK, NEW p \in Procs,
         \/ Claim(p) \/ Authorize(p) \/ Look(p) \/ TakeHold(p) \/ ClaimKey(p) \/ Unhold(p)
         \/ Offer(p) \/ ExecuteDone(p) \/ ExecuteRejected(p) \/ ExecuteUnknown(p)
         \/ SettleLease(p) \/ Mark(p)
  PROVE  Elsewhere(p) /\ UNCHANGED conn
<1>1. proc \in [Procs -> ProcState]
  BY DEF TypeOK
<1>2. Claim(p) => Elsewhere(p)
  <2> SUFFICES ASSUME Claim(p) PROVE Elsewhere(p)
    OBVIOUS
  <2>1. PICK l, e : Become(p, [proc[p] EXCEPT !.step = "authorize", !.lease = l, !.ceiling = e])
    BY Zenon DEF Claim
  <2> QED BY <1>1, <2>1 DEF Become, Elsewhere, ProcState
<1>3. Authorize(p) => Elsewhere(p)
  <2> SUFFICES ASSUME Authorize(p) PROVE Elsewhere(p)
    OBVIOUS
  <2>1. CASE Stop(p)
    BY <2>1, BecomeElsewhere
  <2>2. ASSUME NEW q \in Quotes,
               Become(p, [proc[p] EXCEPT !.step = "look", !.amount = q.amount, !.units = q.units])
        PROVE  Elsewhere(p)
    BY <1>1, <2>2 DEF Become, Elsewhere, ProcState
  <2> QED BY Zenon, <2>1, <2>2 DEF Authorize
<1>4. TakeHold(p) => Elsewhere(p)
  BY Zenon, <1>1, BecomeElsewhere DEF TakeHold, Become, Elsewhere, ProcState
<1>5. ClaimKey(p) => Elsewhere(p)
  BY Zenon, <1>1, BecomeElsewhere DEF ClaimKey, Become, Elsewhere, ProcState
<1>6. Look(p) => Elsewhere(p)
  BY BecomeElsewhere DEF Look
<1>7. Unhold(p) \/ Offer(p) \/ Mark(p) => Elsewhere(p)
  BY BecomeElsewhere DEF Unhold, Offer, Mark
<1>8. SettleLease(p) => Elsewhere(p)
  BY BecomeElsewhere DEF SettleLease
<1>9. ExecuteRejected(p) => Elsewhere(p)
  BY <1>1 DEF ExecuteRejected, Become, Elsewhere, ProcState
<1>10. ASSUME ExecuteDone(p) PROVE Elsewhere(p)
  <2>1. PICK cost \in Actuals :
          Become(p, [proc[p] EXCEPT !.step = "settle", !.happened = TRUE, !.actual = cost])
    BY Zenon, <1>10 DEF ExecuteDone
  <2> QED BY <1>1, <2>1 DEF Become, Elsewhere, ProcState
<1>11. ExecuteUnknown(p) => Elsewhere(p)
  BY BecomeElsewhere DEF ExecuteUnknown
<1>12. UNCHANGED conn
  BY Zenon DEF Claim, Authorize, Look, TakeHold, ClaimKey, Unhold, Offer, ExecuteDone, ExecuteRejected,
         ExecuteUnknown, SettleLease, Mark
<1> QED BY <1>2, <1>3, <1>4, <1>5, <1>6, <1>7, <1>8, <1>9, <1>10, <1>11, <1>12

(* Every step of a pass but a taking and a performance is quiet. *)
LEMMA QuietPass ==
  ASSUME TypeOK, NEW p \in Procs,
         \/ Claim(p) \/ Authorize(p) \/ Look(p) \/ TakeHold(p) \/ ClaimKey(p) \/ Unhold(p)
         \/ Offer(p) \/ ExecuteRejected(p) \/ SettleLease(p) \/ Mark(p)
  PROVE  Quiet
<1>1. Elsewhere(p) /\ UNCHANGED <<placed, conn>>
  BY Zenon, PassElsewhere
     DEF Claim, Authorize, Look, TakeHold, ClaimKey, Unhold, Offer, ExecuteRejected, SettleLease, Mark
<1>2. KeepsTaken
  <2>1. CASE UNCHANGED resv
    BY <2>1, UnchangedKeepsTaken
  <2>2. CASE ClaimKey(p) /\ KeyFree(CellOf[p], proc[p].task)
    <3> DEFINE r == Offered(proc[p].amount, proc[p].units)
    <3>1. /\ CellOf[p] \in Cells /\ proc[p].task \in Tickets
          /\ resv[CellOf[p]][proc[p].task].state \in Untaken
          /\ SetResv(CellOf[p], proc[p].task, r)
      BY <2>2, ProcFields DEF ClaimKey, KeyFree, Untaken
    <3> HIDE DEF r
    <3> QED BY <3>1, WriteKeepsTaken DEF KeepsTaken
  <2>3. CASE Offer(p) /\ ~UNCHANGED resv
    <3> DEFINE r == [proc[p].resv EXCEPT !.posted = TRUE]
    <3>1. /\ CellOf[p] \in Cells /\ proc[p].task \in Tickets
          /\ resv[CellOf[p]][proc[p].task].state \in Untaken
          /\ SetResv(CellOf[p], proc[p].task, r)
      BY <2>3, ProcFields DEF Offer, Untaken
    <3> HIDE DEF r
    <3> QED BY <3>1, WriteKeepsTaken DEF KeepsTaken
  <2>4. CASE Mark(p) /\ ~UNCHANGED resv
    <3> DEFINE r == IF proc[p].happened THEN Settled(proc[p].resv, proc[p].actual)
                                        ELSE Refused(proc[p].resv, proc[p].task)
    <3>1. /\ CellOf[p] \in Cells /\ proc[p].task \in Tickets
          /\ SetResv(CellOf[p], proc[p].task, r)
      BY <2>4, ProcFields DEF Mark
    <3>2. r.state \notin Untaken
      BY ProcFields DEF Settled, Refused, Reservation, Untaken
    <3> HIDE DEF r
    <3> QED BY <3>1, <3>2, WriteKeepsTaken DEF KeepsTaken
  <2> QED BY Zenon, <2>1, <2>2, <2>3, <2>4
             DEF Claim, Authorize, Look, TakeHold, ClaimKey, Unhold, ExecuteRejected, SettleLease
<1> QED BY <1>1, <1>2, QuietProc

LEMMA QuietOther ==
  ASSUME TypeOK, NEW p \in Procs, NEW t \in Tickets, Evaluate(p, t) \/ LoadReport(p, t)
  PROVE  Quiet
<1>1. Elsewhere(p)
  <2>1. proc \in [Procs -> ProcState]
    BY DEF TypeOK
  <2> QED BY Zenon, <2>1 DEF Evaluate, LoadReport, Become, IdleProc, Elsewhere
<1>2. UNCHANGED <<placed, conn, resv>>
  BY DEF Evaluate, LoadReport
<1> QED BY <1>1, <1>2, QuietProc, UnchangedKeepsTaken

(* A connector's step other than a taking leads it anywhere but to "act". *)
LEMMA ConnStepElsewhere ==
  ASSUME TypeOK, NEW k \in Connectors, ConnStep(k) \/ ConnCrash(k)
  PROVE  ConnElsewhere(k) /\ UNCHANGED proc
<1>1. conn \in [Connectors -> ConnState]
  BY DEF TypeOK
<1>2. ActRefused(k) => ConnElsewhere(k)
  BY <1>1 DEF ActRefused, ConnBecome, ConnElsewhere, ConnState
<1>3. ConnBecome(k, IdleConn) => ConnElsewhere(k)
  BY <1>1 DEF ConnBecome, IdleConn, ConnElsewhere
<1>4. ASSUME ActDone(k) PROVE ConnElsewhere(k)
  <2>1. PICK cost \in Actuals :
          ConnBecome(k, [conn[k] EXCEPT !.step = "report", !.happened = TRUE, !.actual = cost])
    BY Zenon, <1>4 DEF ActDone
  <2> QED BY <1>1, <2>1 DEF ConnBecome, ConnElsewhere, ConnState
<1> QED BY Zenon, <1>2, <1>3, <1>4 DEF ConnStep, ActDone, ActRefused, ActUnknown, Report, ConnCrash

LEMMA QuietConnStep ==
  ASSUME TypeOK, NEW k \in Connectors, ActRefused(k) \/ Report(k) \/ ConnCrash(k)
  PROVE  Quiet
<1>1. ConnElsewhere(k) /\ UNCHANGED <<placed, proc>>
  BY Zenon, ConnStepElsewhere DEF ConnStep, ActRefused, Report, ConnCrash
<1>2. KeepsTaken
  <2>1. CASE UNCHANGED resv
    BY <2>1, UnchangedKeepsTaken
  <2>2. CASE Report(k) /\ ~UNCHANGED resv
    <3> DEFINE c == conn[k].cell
               t == conn[k].task
               r == Reported(resv[c][t], conn[k].happened, conn[k].actual)
    <3>1. c \in Cells /\ t \in Tickets /\ SetResv(c, t, r)
      BY <2>2, ConnFields DEF Report
    <3>2. r.state \notin Untaken
      <4>1. resv[c][t] \in Reservation
        BY <3>1, WritesTyped
      <4> QED BY <4>1 DEF Reported, Reservation, Untaken
    <3> HIDE DEF c, t, r
    <3> QED BY <3>1, <3>2, WriteKeepsTaken DEF KeepsTaken
  <2> QED BY <2>1, <2>2 DEF ActRefused, ConnCrash
<1> QED BY <1>1, <1>2, QuietConn

LEMMA QuietJudge ==
  ASSUME TypeOK, NEW j \in Principals,
         JudgeStep(j) \/ \E c \in Cells, t \in Tickets : Pending(j, c, t)
  PROVE  Quiet
<1>1. UNCHANGED <<placed, proc, conn>>
  BY Zenon DEF Pending, JudgeStep, LookUp, LoadClaim, ResolveLease, ResolveMark
<1>2. KeepsTaken
  <2>1. CASE UNCHANGED resv
    BY <2>1, UnchangedKeepsTaken
  <2>2. CASE ResolveMark(j) /\ ~UNCHANGED resv
    <3> DEFINE d == judge[j].cell
               u == judge[j].task
               r == Resolved(judge[j].resv, u, judge[j].happened)
    <3>1. d \in Cells /\ u \in Tickets /\ SetResv(d, u, r)
      BY <2>2, JudgeFields DEF ResolveMark
    <3>2. r.state \notin Untaken
      BY JudgeFields DEF Reservation, Untaken, Resolved
    <3> HIDE DEF d, u, r
    <3> QED BY <3>1, <3>2, WriteKeepsTaken DEF KeepsTaken
  <2> QED BY Zenon, <2>1, <2>2 DEF Pending, JudgeStep, LookUp, LoadClaim, ResolveLease
<1> QED BY <1>1, <1>2, QuietElsewhere

--------------------------------------------------------------------------------
(* Taking and performing. *)

LEMMA TakeSelfKeepsOrder ==
  ASSUME TypeOK, OrderInv, NEW p \in Procs, TakeSelf(p)
  PROVE  OrderInv'
<1>1. PICK c \in Cells, t \in Tickets : c = CellOf[p] /\ t = proc[p].task
  BY ProcFields DEF TakeSelf
<1>2. CASE ~Takeable(resv[c][t])
  <2>1. Stop(p) /\ UNCHANGED <<resv, placed, conn>>
    BY <1>1, <1>2 DEF TakeSelf
  <2> QED BY <2>1, BecomeElsewhere, QuietProc, UnchangedKeepsTaken, QuietKeepsOrder
<1>3. CASE Takeable(resv[c][t])
  <2>1. /\ resv[c][t].state = "offered"
        /\ resv' = [resv EXCEPT ![c][t] = Taken(resv[c][t], c)]
        /\ proc' = [proc EXCEPT ![p] = [proc[p] EXCEPT !.step = "execute", !.resv = Taken(resv[c][t], c)]]
        /\ UNCHANGED <<placed, conn>>
    BY <1>1, <1>3 DEF TakeSelf, Takeable, SetResv, Become
  <2>2. resv \in [Cells -> [Tickets -> Reservation]] /\ resv[c][t] \in Reservation
    BY DEF TypeOK
  <2>3. Taken(resv[c][t], c).state = "pending"
    BY <2>2 DEF Taken, Reservation
  <2>4. /\ resv'[c][t].state = "pending"
        /\ \A d \in Cells, u \in Tickets : <<d, u>> # <<c, t>> => resv'[d][u] = resv[d][u]
    <3> HIDE DEF Taken
    <3> QED BY <2>1, <2>2, <2>3
  <2>5. /\ proc'[p].task = t
        /\ \A q \in Procs : q # p => proc'[q] = proc[q]
    BY <1>1, <2>1 DEF TypeOK, ProcState
  <2>6. \A q \in Procs, d \in Cells, u \in Tickets :
          ProcLicensed(q, d, u)' => ProcLicensed(q, d, u) \/ (q = p /\ d = c /\ u = t)
    BY <1>1, <2>5 DEF ProcLicensed
  <2>7. \A k \in Connectors, d \in Cells, u \in Tickets : ConnLicensed(k, d, u)' => ConnLicensed(k, d, u)
    BY <2>1 DEF ConnLicensed
  <2> QED BY <2>1, <2>4, <2>6, <2>7, TakingKeepsOrder
<1> QED BY <1>2, <1>3

LEMMA TakeKeepsOrder ==
  ASSUME TypeOK, OrderInv, NEW k \in Connectors, NEW c \in Cells, NEW t \in Tickets, Take(k, c, t)
  PROVE  OrderInv'
<1>1. /\ resv[c][t].state = "offered"
      /\ resv' = [resv EXCEPT ![c][t] = Taken(resv[c][t], k)]
      /\ conn' = [conn EXCEPT ![k] = [IdleConn EXCEPT !.step = "act", !.cell = c, !.task = t]]
      /\ UNCHANGED <<placed, proc>>
  BY DEF Take, Takeable, SetResv, ConnBecome
<1>2. resv \in [Cells -> [Tickets -> Reservation]] /\ resv[c][t] \in Reservation
  BY DEF TypeOK
<1>3. Taken(resv[c][t], k).state = "pending"
  BY <1>2 DEF Taken, Reservation
<1>4. /\ resv'[c][t].state = "pending"
      /\ \A d \in Cells, u \in Tickets : <<d, u>> # <<c, t>> => resv'[d][u] = resv[d][u]
  BY <1>1, <1>2, <1>3
<1>5. /\ conn'[k].cell = c /\ conn'[k].task = t
      /\ \A m \in Connectors : m # k => conn'[m] = conn[m]
  BY <1>1 DEF TypeOK, IdleConn
<1>6. \A m \in Connectors, d \in Cells, u \in Tickets :
        ConnLicensed(m, d, u)' => ConnLicensed(m, d, u) \/ (m = k /\ d = c /\ u = t)
  BY <1>5 DEF ConnLicensed
<1>7. \A p \in Procs, d \in Cells, u \in Tickets : ProcLicensed(p, d, u)' => ProcLicensed(p, d, u)
  BY <1>1 DEF ProcLicensed
<1> QED BY <1>1, <1>4, <1>6, <1>7, TakingKeepsOrder

LEMMA PerformingProcKeepsOrder ==
  ASSUME TypeOK, OrderInv, NEW p \in Procs, NEW r, NEW cost, proc[p].step = "execute",
         Perform(CellOf[p], proc[p].task, r, cost), Elsewhere(p), UNCHANGED <<resv, conn>>
  PROVE  OrderInv'
<1>1. PICK c \in Cells, t \in Tickets : c = CellOf[p] /\ t = proc[p].task
  BY ProcFields
<1>2. ProcLicensed(p, c, t) /\ Licensed(c, t)
  BY <1>1 DEF ProcLicensed, Licensed
<1>3. \A q \in Procs, d \in Cells, u \in Tickets :
        (ProcLicensed(q, d, u)' => ProcLicensed(q, d, u)) /\ ~ProcLicensed(p, d, u)'
  BY ProcGainsNothing
<1>4. \A k \in Connectors, d \in Cells, u \in Tickets : ConnLicensed(k, d, u)' => ConnLicensed(k, d, u)
  BY DEF ConnLicensed
<1>5. ~Licensed(c, t)'
  <2>1. /\ \A q \in Procs : ProcLicensed(q, c, t) => q = p
        /\ \A k \in Connectors : ~ConnLicensed(k, c, t)
    BY <1>2 DEF OrderInv, OneLicence
  <2> QED BY <2>1, <1>3, <1>4 DEF Licensed
<1>6. placed' = [placed EXCEPT ![c][t] = @ + 1]
  BY <1>1 DEF Perform
<1> QED BY Zenon, <1>2, <1>3, <1>4, <1>5, <1>6, PerformingKeepsOrder

LEMMA PerformingConnKeepsOrder ==
  ASSUME TypeOK, OrderInv, NEW k \in Connectors, NEW r, NEW cost, conn[k].step = "act",
         Perform(conn[k].cell, conn[k].task, r, cost), ConnElsewhere(k), UNCHANGED <<resv, proc>>
  PROVE  OrderInv'
<1>1. PICK c \in Cells, t \in Tickets : c = conn[k].cell /\ t = conn[k].task
  BY ConnFields
<1>2. ConnLicensed(k, c, t) /\ Licensed(c, t)
  BY <1>1 DEF ConnLicensed, Licensed
<1>3. \A m \in Connectors, d \in Cells, u \in Tickets :
        (ConnLicensed(m, d, u)' => ConnLicensed(m, d, u)) /\ ~ConnLicensed(k, d, u)'
  BY ConnGainsNothing
<1>4. \A p \in Procs, d \in Cells, u \in Tickets : ProcLicensed(p, d, u)' => ProcLicensed(p, d, u)
  BY DEF ProcLicensed
<1>5. ~Licensed(c, t)'
  <2>1. /\ \A m \in Connectors : ConnLicensed(m, c, t) => m = k
        /\ \A p \in Procs : ~ProcLicensed(p, c, t)
    BY <1>2 DEF OrderInv, OneLicence
  <2> QED BY <2>1, <1>3, <1>4 DEF Licensed
<1>6. placed' = [placed EXCEPT ![c][t] = @ + 1]
  BY <1>1 DEF Perform
<1> QED BY Zenon, <1>2, <1>3, <1>4, <1>5, <1>6, PerformingKeepsOrder

LEMMA ExecuteKeepsOrder ==
  ASSUME TypeOK, OrderInv, NEW p \in Procs, ExecuteDone(p) \/ ExecuteUnknown(p)
  PROVE  OrderInv'
<1>1. Elsewhere(p) /\ proc[p].step = "execute" /\ UNCHANGED <<resv, conn>>
  BY Zenon, PassElsewhere DEF ExecuteDone, ExecuteUnknown
<1>2. CASE \E cost : Perform(CellOf[p], proc[p].task, proc[p].resv, cost)
  <2>1. PICK cost : Perform(CellOf[p], proc[p].task, proc[p].resv, cost)
    BY <1>2
  <2>2. PICK r : r = proc[p].resv
    OBVIOUS
  <2>3. Perform(CellOf[p], proc[p].task, r, cost)
    BY <2>1, <2>2
  <2> QED BY <1>1, <2>3, PerformingProcKeepsOrder
<1>3. CASE UNCHANGED placed
  BY <1>1, <1>3, QuietProc, UnchangedKeepsTaken, QuietKeepsOrder
<1> QED BY Zenon, <1>2, <1>3 DEF ExecuteDone, ExecuteUnknown

LEMMA ActKeepsOrder ==
  ASSUME TypeOK, OrderInv, NEW k \in Connectors, ActDone(k) \/ ActUnknown(k)
  PROVE  OrderInv'
<1>1. ConnElsewhere(k) /\ conn[k].step = "act" /\ UNCHANGED <<resv, proc>>
  BY Zenon, ConnStepElsewhere DEF ConnStep, ActDone, ActUnknown
<1>2. CASE \E cost, r : Perform(conn[k].cell, conn[k].task, r, cost)
  BY <1>1, <1>2, PerformingConnKeepsOrder
<1>3. CASE UNCHANGED placed
  BY <1>1, <1>3, QuietConn, UnchangedKeepsTaken, QuietKeepsOrder
<1> QED BY Zenon, <1>2, <1>3 DEF ActDone, ActUnknown

--------------------------------------------------------------------------------
LEMMA InitOrder == Init => OrderInv
BY DEF Init, OrderInv, UntakenIsUntouched, LicenceIsUnused, OneLicence, AtMostOneOrder,
       Licensed, ProcLicensed, ConnLicensed, IdleProc, IdleConn

LEMMA NextKeepsOrder ==
  ASSUME Sweepers = {}, TypeOK, OrderInv, [Next]_vars
  PROVE  OrderInv'
<1>1. CASE UNCHANGED vars
  BY <1>1, QuietElsewhere, UnchangedKeepsTaken, QuietKeepsOrder DEF vars
<1>2. CASE Next
  <2>1. ASSUME NEW p \in Procs, PassStep(p) PROVE OrderInv'
    BY <2>1, QuietPass, QuietKeepsOrder, TakeSelfKeepsOrder, ExecuteKeepsOrder DEF PassStep
  <2>2. CASE \E p \in Procs : PassStep(p) \/ Crash(p) \/ \E t \in Tickets : Evaluate(p, t) \/ LoadReport(p, t)
    <3>1. ASSUME NEW p \in Procs, Crash(p) PROVE OrderInv'
      <4>1. UNCHANGED <<placed, conn, resv>> /\ Elsewhere(p)
        BY <3>1, BecomeElsewhere DEF Crash
      <4> QED BY <4>1, QuietProc, UnchangedKeepsTaken, QuietKeepsOrder
    <3> QED BY <2>1, <2>2, <3>1, QuietOther, QuietKeepsOrder
  <2>3. CASE \E k \in Connectors : ConnStep(k) \/ ConnCrash(k) \/ \E c \in Cells, t \in Tickets : Take(k, c, t)
    BY <2>3, QuietConnStep, QuietKeepsOrder, ActKeepsOrder, TakeKeepsOrder DEF ConnStep
  <2>4. CASE \E j \in Principals : JudgeStep(j) \/ \E c \in Cells, t \in Tickets : Pending(j, c, t)
    BY <2>4, QuietJudge, QuietKeepsOrder
  <2>5. CASE \E c \in Cells : \/ \E t \in Tickets : LapseClaim(c, t)
                             \/ \E a \in Amounts : Reissue(c, a)
    <3>1. UNCHANGED <<placed, proc, conn, resv>>
      BY Zenon, <2>5 DEF LapseClaim, Reissue
    <3> QED BY <3>1, QuietElsewhere, UnchangedKeepsTaken, QuietKeepsOrder
  <2>6. CASE \E e \in Ceilings : SetCeiling(e)
    <3>1. UNCHANGED <<placed, proc, conn, resv>>
      BY <2>6 DEF SetCeiling
    <3> QED BY <3>1, QuietElsewhere, UnchangedKeepsTaken, QuietKeepsOrder
  <2> QED BY <1>2, <2>2, <2>3, <2>4, <2>5, <2>6 DEF Next
<1> QED BY <1>1, <1>2

(* Where no expiry sweep runs, an action of a cell for a ticket is performed at  *)
(* most once, for any number of processes, connectors and principals, however *)
(* the steps of Reserve, Take, Report, Settle and Resolve interleave and      *)
(* wherever a process or a connector dies (effect/reservation.go, rule 2).    *)
THEOREM OneOrderPerKey == ASSUME Sweepers = {} PROVE Spec => []AtMostOneOrder
<1>1. Init => TypeOK /\ OrderInv
  BY InitTyped, InitOrder
<1>2. TypeOK /\ OrderInv /\ [Next]_vars => (TypeOK /\ OrderInv)'
  BY NextTyped, NextKeepsOrder
<1>3. OrderInv => AtMostOneOrder
  BY DEF OrderInv
<1> QED BY <1>1, <1>2, <1>3, PTL DEF Spec

--------------------------------------------------------------------------------
(* What a step does to a key. *)

(* What one step may do to one key, seen from outside: the moves of the lifecycle. *)
SameRuling(c, t) == resv'[c][t].resolved = resv[c][t].resolved

Stays(c, t) ==
  /\ resv'[c][t].state = resv[c][t].state /\ SameRuling(c, t)
  /\ placed'[c][t] = placed[c][t]
  /\ Licensed(c, t)' <=> Licensed(c, t)

IsOffered(c, t) ==
  /\ resv[c][t].state = "none" /\ resv'[c][t].state = "offered" /\ SameRuling(c, t)
  /\ placed'[c][t] = placed[c][t] /\ (Licensed(c, t)' <=> Licensed(c, t))
IsTaken(c, t) ==
  /\ resv[c][t].state = "offered" /\ resv'[c][t].state = "pending" /\ SameRuling(c, t)
  /\ placed'[c][t] = placed[c][t] /\ Licensed(c, t)'
IsPerformed(c, t) ==
  /\ Licensed(c, t) /\ ~Licensed(c, t)'
  /\ placed[c][t] = 0 /\ placed'[c][t] = 1
  /\ resv'[c][t].state = resv[c][t].state /\ SameRuling(c, t)
IsGivenUp(c, t) ==
  /\ Licensed(c, t) /\ ~Licensed(c, t)'
  /\ placed'[c][t] = placed[c][t] /\ resv'[c][t].state = resv[c][t].state /\ SameRuling(c, t)
IsReported(c, t) ==
  /\ resv[c][t].state = "pending" /\ resv'[c][t].state = "reported" /\ SameRuling(c, t)
  /\ ~Licensed(c, t) /\ ~Licensed(c, t)' /\ placed'[c][t] = placed[c][t]
IsClosed(c, t) ==
  /\ resv[c][t].state \in {"pending", "reported"} /\ SameRuling(c, t)
  /\ resv'[c][t].state = IF placed[c][t] = 1 THEN "done" ELSE "failed"
  /\ ~Licensed(c, t) /\ ~Licensed(c, t)' /\ placed'[c][t] = placed[c][t]
IsRuled(c, t) ==
  /\ resv[c][t].state \notin {"none", "offered"}
  /\ resv'[c][t].state \in {"done", "failed"} /\ resv'[c][t].resolved = TRUE
  /\ placed'[c][t] = placed[c][t] /\ (Licensed(c, t)' <=> Licensed(c, t))

Moves(c, t) == \/ IsOffered(c, t) \/ IsTaken(c, t) \/ IsPerformed(c, t) \/ IsGivenUp(c, t)
               \/ IsReported(c, t) \/ IsClosed(c, t) \/ IsRuled(c, t)
OthersStay(c, t) == \A d \in Cells, u \in Tickets : <<d, u>> # <<c, t>> => Stays(d, u)

KeyStep == \/ \A c \in Cells, t \in Tickets : Stays(c, t)
           \/ \E c \in Cells, t \in Tickets : Moves(c, t) /\ OthersStay(c, t)

(* A decision is for good. *)
LEMMA DecidedForGood ==
  ASSUME KeyStep, NEW c \in Cells, NEW t \in Tickets, NEW h, Decided(c, t, h)
  PROVE  Decided(c, t, h)'
<1>1. CASE Stays(c, t)
  BY <1>1 DEF Stays, Decided
<1>2. CASE Moves(c, t)
  BY <1>2 DEF Moves, IsOffered, IsTaken, IsPerformed, IsGivenUp, IsReported, IsClosed, IsRuled, Decided
<1> QED BY <1>1, <1>2 DEF KeyStep, OthersStay

--------------------------------------------------------------------------------
(* A step that leads a process or a connector away from its action takes that   *)
(* action's licence with it, there being only one; it touches no other.        *)
LEMMA ProcLeaves ==
  ASSUME TypeOK, OrderInv, NEW p \in Procs, Elsewhere(p), UNCHANGED conn
  PROVE  /\ proc[p].step # "execute" =>
              \A c \in Cells, t \in Tickets : Licensed(c, t)' <=> Licensed(c, t)
         /\ proc[p].step = "execute" =>
              \A c \in Cells, t \in Tickets :
                IF c = CellOf[p] /\ t = proc[p].task
                THEN Licensed(c, t) /\ ~Licensed(c, t)'
                ELSE Licensed(c, t)' <=> Licensed(c, t)
<1>1. ASSUME NEW c \in Cells, NEW t \in Tickets
      PROVE  /\ \A q \in Procs : ProcLicensed(q, c, t)' <=> ProcLicensed(q, c, t) /\ q # p
             /\ \A k \in Connectors : ConnLicensed(k, c, t)' <=> ConnLicensed(k, c, t)
             /\ ProcLicensed(p, c, t) <=> proc[p].step = "execute" /\ c = CellOf[p] /\ t = proc[p].task
  BY DEF Elsewhere, ProcLicensed, ConnLicensed
<1>2. ASSUME NEW c \in Cells, NEW t \in Tickets, ~ProcLicensed(p, c, t)
      PROVE  Licensed(c, t)' <=> Licensed(c, t)
  BY <1>1, <1>2 DEF Licensed
<1>3. ASSUME NEW c \in Cells, NEW t \in Tickets, ProcLicensed(p, c, t)
      PROVE  Licensed(c, t) /\ ~Licensed(c, t)'
  <2>1. /\ \A q \in Procs : ProcLicensed(q, c, t) => q = p
        /\ \A k \in Connectors : ~ConnLicensed(k, c, t)
    BY <1>3 DEF OrderInv, OneLicence
  <2> QED BY <2>1, <1>1, <1>3 DEF Licensed
<1> QED BY <1>1, <1>2, <1>3

LEMMA ConnLeaves ==
  ASSUME TypeOK, OrderInv, NEW k \in Connectors, ConnElsewhere(k), UNCHANGED proc
  PROVE  /\ conn[k].step # "act" =>
              \A c \in Cells, t \in Tickets : Licensed(c, t)' <=> Licensed(c, t)
         /\ conn[k].step = "act" =>
              \A c \in Cells, t \in Tickets :
                IF c = conn[k].cell /\ t = conn[k].task
                THEN Licensed(c, t) /\ ~Licensed(c, t)'
                ELSE Licensed(c, t)' <=> Licensed(c, t)
<1>1. ASSUME NEW c \in Cells, NEW t \in Tickets
      PROVE  /\ \A m \in Connectors : ConnLicensed(m, c, t)' <=> ConnLicensed(m, c, t) /\ m # k
             /\ \A p \in Procs : ProcLicensed(p, c, t)' <=> ProcLicensed(p, c, t)
             /\ ConnLicensed(k, c, t) <=> conn[k].step = "act" /\ c = conn[k].cell /\ t = conn[k].task
  BY DEF ConnElsewhere, ProcLicensed, ConnLicensed
<1>2. ASSUME NEW c \in Cells, NEW t \in Tickets, ~ConnLicensed(k, c, t)
      PROVE  Licensed(c, t)' <=> Licensed(c, t)
  BY <1>1, <1>2 DEF Licensed
<1>3. ASSUME NEW c \in Cells, NEW t \in Tickets, ConnLicensed(k, c, t)
      PROVE  Licensed(c, t) /\ ~Licensed(c, t)'
  <2>1. /\ \A m \in Connectors : ConnLicensed(m, c, t) => m = k
        /\ \A p \in Procs : ~ProcLicensed(p, c, t)
    BY <1>3 DEF OrderInv, OneLicence
  <2> QED BY <2>1, <1>1, <1>3 DEF Licensed
<1> QED BY <1>1, <1>2, <1>3

LEMMA NobodyMoves ==
  ASSUME UNCHANGED <<proc, conn>>, NEW c \in Cells, NEW t \in Tickets
  PROVE  Licensed(c, t)' <=> Licensed(c, t)
BY DEF Licensed, ProcLicensed, ConnLicensed

(* Writing one reservation leaves every other alone. *)
LEMMA WriteOne ==
  ASSUME TypeOK, NEW c \in Cells, NEW t \in Tickets, NEW r, SetResv(c, t, r)
  PROVE  /\ resv'[c][t] = r
         /\ \A d \in Cells, u \in Tickets : <<d, u>> # <<c, t>> => resv'[d][u] = resv[d][u]
BY DEF TypeOK, SetResv

LEMMA PerformOne ==
  ASSUME TypeOK, OrderInv, NEW c \in Cells, NEW t \in Tickets, NEW r, NEW cost,
         Perform(c, t, r, cost), Licensed(c, t)
  PROVE  /\ placed[c][t] = 0 /\ placed'[c][t] = 1
         /\ \A d \in Cells, u \in Tickets : <<d, u>> # <<c, t>> => placed'[d][u] = placed[d][u]
<1>1. placed[c][t] = 0
  BY DEF OrderInv, LicenceIsUnused
<1>2. placed' = [placed EXCEPT ![c][t] = @ + 1]
  BY DEF Perform
<1> QED BY <1>1, <1>2 DEF TypeOK

--------------------------------------------------------------------------------
(* Every step of the protocol is one such move of one key, or moves none.        *)

(* A process or a connector turns away without a word: at most a licence is      *)
(* given up.                                                                 *)
LEMMA ProcTurnsAway ==
  ASSUME TypeOK, OrderInv, NEW p \in Procs, Elsewhere(p), UNCHANGED <<conn, placed, resv>>
  PROVE  KeyStep
<1>1. CASE proc[p].step # "execute"
  BY <1>1, ProcLeaves DEF KeyStep, Stays, SameRuling
<1>2. CASE proc[p].step = "execute"
  <2>1. PICK c \in Cells, t \in Tickets : c = CellOf[p] /\ t = proc[p].task
    BY <1>2, ProcFields
  <2>2. Licensed(c, t) /\ ~Licensed(c, t)'
    BY <1>2, <2>1, ProcLeaves
  <2>3. \A d \in Cells, u \in Tickets : <<d, u>> # <<c, t>> => (Licensed(d, u)' <=> Licensed(d, u))
    BY <1>2, <2>1, ProcLeaves
  <2>4. IsGivenUp(c, t) /\ OthersStay(c, t)
    BY <2>2, <2>3 DEF IsGivenUp, OthersStay, Stays, SameRuling
  <2> QED BY <2>4 DEF KeyStep, Moves
<1> QED BY <1>1, <1>2

LEMMA ConnTurnsAway ==
  ASSUME TypeOK, OrderInv, NEW k \in Connectors, ConnElsewhere(k), UNCHANGED <<proc, placed, resv>>
  PROVE  KeyStep
<1>1. CASE conn[k].step # "act"
  BY <1>1, ConnLeaves DEF KeyStep, Stays, SameRuling
<1>2. CASE conn[k].step = "act"
  <2>1. PICK c \in Cells, t \in Tickets : c = conn[k].cell /\ t = conn[k].task
    BY <1>2, ConnFields
  <2>2. Licensed(c, t) /\ ~Licensed(c, t)'
    BY <1>2, <2>1, ConnLeaves
  <2>3. \A d \in Cells, u \in Tickets : <<d, u>> # <<c, t>> => (Licensed(d, u)' <=> Licensed(d, u))
    BY <1>2, <2>1, ConnLeaves
  <2>4. IsGivenUp(c, t) /\ OthersStay(c, t)
    BY <2>2, <2>3 DEF IsGivenUp, OthersStay, Stays, SameRuling
  <2> QED BY <2>4 DEF KeyStep, Moves
<1> QED BY <1>1, <1>2

(* A reservation is written while licences and orders stay as they are. *)
LEMMA WriteMoves ==
  ASSUME TypeOK, NEW c \in Cells, NEW t \in Tickets, NEW r, SetResv(c, t, r), UNCHANGED placed,
         \A d \in Cells, u \in Tickets : Licensed(d, u)' <=> Licensed(d, u),
         \/ /\ r.resolved = resv[c][t].resolved
            /\ \/ r.state = resv[c][t].state
               \/ resv[c][t].state = "none" /\ r.state = "offered"
               \/ resv[c][t].state = "pending" /\ r.state = "reported" /\ ~Licensed(c, t)
               \/ /\ resv[c][t].state \in {"pending", "reported"} /\ ~Licensed(c, t)
                  /\ r.state = IF placed[c][t] = 1 THEN "done" ELSE "failed"
         \/ /\ resv[c][t].state \notin {"none", "offered"}
            /\ r.state \in {"done", "failed"} /\ r.resolved = TRUE
  PROVE  KeyStep
<1>1. /\ resv'[c][t] = r
      /\ \A d \in Cells, u \in Tickets : <<d, u>> # <<c, t>> => resv'[d][u] = resv[d][u]
  BY WriteOne
<1>2. OthersStay(c, t)
  BY <1>1 DEF OthersStay, Stays, SameRuling
<1>3. Stays(c, t) \/ Moves(c, t)
  BY <1>1 DEF Stays, SameRuling, Moves, IsOffered, IsReported, IsClosed, IsRuled
<1> QED BY <1>2, <1>3 DEF KeyStep, OthersStay

LEMMA PerformMoves ==
  ASSUME TypeOK, OrderInv, NEW c \in Cells, NEW t \in Tickets, NEW r, NEW cost,
         Perform(c, t, r, cost), UNCHANGED resv, Licensed(c, t), ~Licensed(c, t)',
         \A d \in Cells, u \in Tickets : <<d, u>> # <<c, t>> => (Licensed(d, u)' <=> Licensed(d, u))
  PROVE  IsPerformed(c, t) /\ OthersStay(c, t) /\ KeyStep
<1>1. IsPerformed(c, t) /\ OthersStay(c, t)
  BY PerformOne DEF IsPerformed, OthersStay, Stays, SameRuling
<1> QED BY <1>1 DEF KeyStep, Moves

LEMMA ProcPerformMoves ==
  ASSUME TypeOK, OrderInv, NEW p \in Procs, NEW r, NEW cost, proc[p].step = "execute",
         Perform(CellOf[p], proc[p].task, r, cost), Elsewhere(p), UNCHANGED <<resv, conn>>
  PROVE  IsPerformed(CellOf[p], proc[p].task) /\ KeyStep
<1>1. PICK c \in Cells, t \in Tickets : c = CellOf[p] /\ t = proc[p].task
  BY ProcFields
<1>2. /\ Licensed(c, t) /\ ~Licensed(c, t)'
      /\ \A d \in Cells, u \in Tickets : <<d, u>> # <<c, t>> => (Licensed(d, u)' <=> Licensed(d, u))
  BY <1>1, ProcLeaves
<1>3. Perform(c, t, r, cost)
  BY <1>1
<1> QED BY <1>1, <1>2, <1>3, PerformMoves

LEMMA ConnPerformMoves ==
  ASSUME TypeOK, OrderInv, NEW k \in Connectors, NEW r, NEW cost, conn[k].step = "act",
         Perform(conn[k].cell, conn[k].task, r, cost), ConnElsewhere(k), UNCHANGED <<resv, proc>>
  PROVE  IsPerformed(conn[k].cell, conn[k].task) /\ KeyStep
<1>1. PICK c \in Cells, t \in Tickets : c = conn[k].cell /\ t = conn[k].task
  BY ConnFields
<1>2. /\ Licensed(c, t) /\ ~Licensed(c, t)'
      /\ \A d \in Cells, u \in Tickets : <<d, u>> # <<c, t>> => (Licensed(d, u)' <=> Licensed(d, u))
  BY <1>1, ConnLeaves
<1>3. Perform(c, t, r, cost)
  BY <1>1
<1> QED BY <1>1, <1>2, <1>3, PerformMoves

(* Taking moves a key from offered to pending and licenses its taker. *)
LEMMA TakeMoves ==
  ASSUME NEW c \in Cells, NEW t \in Tickets,
         resv[c][t].state = "offered", resv'[c][t].state = "pending", UNCHANGED placed, Licensed(c, t)',
         resv'[c][t].resolved = resv[c][t].resolved,
         \A d \in Cells, u \in Tickets : <<d, u>> # <<c, t>> =>
           resv'[d][u] = resv[d][u] /\ (Licensed(d, u)' <=> Licensed(d, u))
  PROVE  KeyStep
<1>1. IsTaken(c, t) /\ OthersStay(c, t)
  BY DEF IsTaken, OthersStay, Stays, SameRuling
<1> QED BY <1>1 DEF KeyStep, Moves

LEMMA TakeSelfMoves ==
  ASSUME TypeOK, OrderInv, NEW p \in Procs, TakeSelf(p)
  PROVE  KeyStep
<1>1. PICK c \in Cells, t \in Tickets : c = CellOf[p] /\ t = proc[p].task
  BY ProcFields DEF TakeSelf
<1>2. CASE ~Takeable(resv[c][t])
  <2>1. Stop(p) /\ UNCHANGED <<resv, placed, conn>>
    BY <1>1, <1>2 DEF TakeSelf
  <2> QED BY <2>1, BecomeElsewhere, ProcTurnsAway
<1>3. CASE Takeable(resv[c][t])
  <2> DEFINE r == Taken(resv[c][t], c)
  <2>1. /\ resv[c][t].state = "offered" /\ SetResv(c, t, r)
        /\ proc' = [proc EXCEPT ![p] = [proc[p] EXCEPT !.step = "execute", !.resv = r]]
        /\ UNCHANGED <<placed, conn>> /\ proc[p].step = "take"
    BY <1>1, <1>3 DEF TakeSelf, Takeable, Become
  <2>2. r.state = "pending" /\ r.resolved = resv[c][t].resolved
    BY WritesTyped, ResvFields DEF Taken, Reservation
  <2> HIDE DEF r
  <2>3. /\ resv'[c][t].state = "pending" /\ resv'[c][t].resolved = resv[c][t].resolved
        /\ \A d \in Cells, u \in Tickets : <<d, u>> # <<c, t>> => resv'[d][u] = resv[d][u]
    BY <2>1, <2>2, WriteOne
  <2>4. /\ proc'[p].step = "execute" /\ proc'[p].task = t
        /\ \A q \in Procs : q # p => proc'[q] = proc[q]
    BY <1>1, <2>1 DEF TypeOK, ProcState
  <2>5. ProcLicensed(p, c, t)' /\ Licensed(c, t)'
    BY <1>1, <2>4 DEF ProcLicensed, Licensed
  <2>6. ASSUME NEW d \in Cells, NEW u \in Tickets, <<d, u>> # <<c, t>>
        PROVE  Licensed(d, u)' <=> Licensed(d, u)
    <3>1. \A q \in Procs : ProcLicensed(q, d, u)' <=> ProcLicensed(q, d, u)
      BY <1>1, <2>1, <2>4, <2>6 DEF ProcLicensed
    <3>2. \A k \in Connectors : ConnLicensed(k, d, u)' <=> ConnLicensed(k, d, u)
      BY <2>1 DEF ConnLicensed
    <3> QED BY <3>1, <3>2 DEF Licensed
  <2> QED BY <2>1, <2>3, <2>5, <2>6, TakeMoves
<1> QED BY <1>2, <1>3

LEMMA ConnTakeMoves ==
  ASSUME TypeOK, NEW k \in Connectors, NEW c \in Cells, NEW t \in Tickets, Take(k, c, t)
  PROVE  KeyStep
<1> DEFINE r == Taken(resv[c][t], k)
<1>1. /\ resv[c][t].state = "offered" /\ SetResv(c, t, r)
      /\ conn' = [conn EXCEPT ![k] = [IdleConn EXCEPT !.step = "act", !.cell = c, !.task = t]]
      /\ UNCHANGED <<placed, proc>> /\ conn[k].step = "idle"
  BY DEF Take, Takeable, ConnBecome
<1>2. r.state = "pending" /\ r.resolved = resv[c][t].resolved
  BY WritesTyped, ResvFields DEF Taken, Reservation
<1> HIDE DEF r
<1>3. /\ resv'[c][t].state = "pending" /\ resv'[c][t].resolved = resv[c][t].resolved
      /\ \A d \in Cells, u \in Tickets : <<d, u>> # <<c, t>> => resv'[d][u] = resv[d][u]
  BY <1>1, <1>2, WriteOne
<1>4. /\ conn'[k].step = "act" /\ conn'[k].cell = c /\ conn'[k].task = t
      /\ \A m \in Connectors : m # k => conn'[m] = conn[m]
  BY <1>1 DEF TypeOK, IdleConn
<1>5. ConnLicensed(k, c, t)' /\ Licensed(c, t)'
  BY <1>4 DEF ConnLicensed, Licensed
<1>6. ASSUME NEW d \in Cells, NEW u \in Tickets, <<d, u>> # <<c, t>>
      PROVE  Licensed(d, u)' <=> Licensed(d, u)
  <2>1. \A m \in Connectors : ConnLicensed(m, d, u)' <=> ConnLicensed(m, d, u)
    BY <1>1, <1>4, <1>6 DEF ConnLicensed
  <2>2. \A p \in Procs : ProcLicensed(p, d, u)' <=> ProcLicensed(p, d, u)
    BY <1>1 DEF ProcLicensed
  <2> QED BY <2>1, <2>2 DEF Licensed
<1> QED BY <1>1, <1>3, <1>5, <1>6, TakeMoves

(* What a known outcome says of the state a closing write puts down. *)
LEMMA DecidedCloses ==
  ASSUME TypeOK, OrderInv, NEW c \in Cells, NEW t \in Tickets, NEW h \in BOOLEAN, Decided(c, t, h)
  PROVE  ~Licensed(c, t) /\ (IF h THEN "done" ELSE "failed") = IF placed[c][t] = 1 THEN "done" ELSE "failed"
<1>1. placed[c][t] \in Nat /\ placed[c][t] <= 1
  BY DEF TypeOK, OrderInv, AtMostOneOrder
<1> QED BY <1>1 DEF Decided

LEMMA MarkMoves ==
  ASSUME TypeOK, OrderInv, KnowledgeInv, NEW p \in Procs, Mark(p)
  PROVE  KeyStep
<1>1. PICK c \in Cells, t \in Tickets : c = CellOf[p] /\ t = proc[p].task
  BY ProcFields DEF Mark
<1>2. Elsewhere(p) /\ UNCHANGED <<placed, conn>> /\ proc[p].step = "mark"
  BY PassElsewhere DEF Mark
<1>3. CASE UNCHANGED resv
  BY <1>2, <1>3, ProcTurnsAway
<1>4. CASE resv[c][t] = proc[p].resv /\ ~UNCHANGED resv
  <2> DEFINE r == IF proc[p].happened THEN Settled(proc[p].resv, proc[p].actual)
                                      ELSE Refused(proc[p].resv, proc[p].task)
  <2>1. SetResv(c, t, r)
    BY <1>1, <1>4 DEF Mark
  <2>2. /\ r.state = IF proc[p].happened THEN "done" ELSE "failed"
        /\ r.resolved = resv[c][t].resolved
    BY <1>4, ProcFields DEF Settled, Refused, Reservation
  <2>3. Decided(c, t, proc[p].happened) /\ resv[c][t].state \in {"pending", "reported"}
    BY <1>1, <1>2, <1>4 DEF KnowledgeInv, SettlerKnows
  <2>4. ~Licensed(c, t) /\ r.state = IF placed[c][t] = 1 THEN "done" ELSE "failed"
    <3> HIDE DEF r
    <3> QED BY <2>2, <2>3, ProcFields, DecidedCloses
  <2>5. \A d \in Cells, u \in Tickets : Licensed(d, u)' <=> Licensed(d, u)
    BY <1>2, ProcLeaves
  <2> HIDE DEF r
  <2> QED BY <1>2, <2>1, <2>2, <2>3, <2>4, <2>5, WriteMoves
<1> QED BY <1>1, <1>3, <1>4 DEF Mark

LEMMA PassMoves ==
  ASSUME TypeOK, OrderInv, KnowledgeInv, NEW p \in Procs, PassStep(p)
  PROVE  KeyStep
<1>1. CASE Claim(p) \/ Authorize(p) \/ Look(p) \/ TakeHold(p) \/ Unhold(p) \/ ExecuteRejected(p) \/ SettleLease(p)
  <2>1. UNCHANGED <<placed, resv>>
    BY Zenon, <1>1 DEF Claim, Authorize, Look, TakeHold, Unhold, ExecuteRejected, SettleLease
  <2> QED BY <1>1, <2>1, PassElsewhere, ProcTurnsAway
<1>2. CASE ClaimKey(p)
  <2>1. PICK c \in Cells, t \in Tickets : c = CellOf[p] /\ t = proc[p].task
    BY <1>2, ProcFields DEF ClaimKey
  <2>2. Elsewhere(p) /\ UNCHANGED <<placed, conn>> /\ proc[p].step = "reserve"
    BY Zenon, <1>2, PassElsewhere DEF ClaimKey
  <2>3. CASE UNCHANGED resv
    BY <2>2, <2>3, ProcTurnsAway
  <2>4. CASE resv[c][t].state = "none" /\ ~UNCHANGED resv
    <3> DEFINE r == Offered(proc[p].amount, proc[p].units)
    <3>1. SetResv(c, t, r)
      BY <1>2, <2>1, <2>4 DEF ClaimKey
    <3>2. r.state = "offered" /\ r.resolved = FALSE
      BY DEF Offered, NoResv
    <3>4. resv[c][t].resolved = FALSE
      <4>1. ~resv[c][t].resolved /\ resv[c][t] \in Reservation
        BY <2>4 DEF KnowledgeInv, RecordKnows, TypeOK
      <4> QED BY <4>1, ResvFields
    <3>3. \A d \in Cells, u \in Tickets : Licensed(d, u)' <=> Licensed(d, u)
      BY <2>2, ProcLeaves
    <3> HIDE DEF r
    <3> QED BY <2>2, <2>4, <3>1, <3>2, <3>3, <3>4, WriteMoves
  <2> QED BY <1>2, <2>1, <2>3, <2>4 DEF ClaimKey, KeyFree
<1>3. CASE Offer(p)
  <2>1. PICK c \in Cells, t \in Tickets : c = CellOf[p] /\ t = proc[p].task
    BY <1>3, ProcFields DEF Offer
  <2>2. Elsewhere(p) /\ UNCHANGED <<placed, conn>> /\ proc[p].step = "offer"
    BY <1>3, PassElsewhere DEF Offer
  <2>3. CASE UNCHANGED resv
    BY <2>2, <2>3, ProcTurnsAway
  <2>4. CASE resv[c][t] = proc[p].resv /\ ~UNCHANGED resv
    <3> DEFINE r == [proc[p].resv EXCEPT !.posted = TRUE]
    <3>1. SetResv(c, t, r)
      BY <1>3, <2>1, <2>4 DEF Offer
    <3>2. r.state = resv[c][t].state /\ r.resolved = resv[c][t].resolved
      BY <2>4, ProcFields DEF Reservation
    <3>3. \A d \in Cells, u \in Tickets : Licensed(d, u)' <=> Licensed(d, u)
      BY <2>2, ProcLeaves
    <3> HIDE DEF r
    <3> QED BY <2>2, <3>1, <3>2, <3>3, WriteMoves
  <2> QED BY <1>3, <2>1, <2>3, <2>4 DEF Offer
<1>4. CASE ExecuteDone(p) \/ ExecuteUnknown(p)
  <2>1. Elsewhere(p) /\ proc[p].step = "execute" /\ UNCHANGED <<resv, conn>>
    BY Zenon, <1>4, PassElsewhere DEF ExecuteDone, ExecuteUnknown
  <2>2. CASE UNCHANGED placed
    BY <2>1, <2>2, ProcTurnsAway
  <2>3. CASE \E cost : Perform(CellOf[p], proc[p].task, proc[p].resv, cost)
    <3>1. PICK cost, r : Perform(CellOf[p], proc[p].task, r, cost)
      BY <2>3
    <3> QED BY <2>1, <3>1, ProcPerformMoves
  <2> QED BY Zenon, <1>4, <2>2, <2>3 DEF ExecuteDone, ExecuteUnknown
<1> QED BY <1>1, <1>2, <1>3, <1>4, TakeSelfMoves, MarkMoves DEF PassStep

LEMMA OtherProcMoves ==
  ASSUME TypeOK, OrderInv, NEW p \in Procs,
         Crash(p) \/ \E t \in Tickets : Evaluate(p, t) \/ LoadReport(p, t)
  PROVE  KeyStep
<1>1. Elsewhere(p)
  <2>1. proc \in [Procs -> ProcState]
    BY DEF TypeOK
  <2>2. Crash(p) => Elsewhere(p)
    BY BecomeElsewhere DEF Crash
  <2> QED BY Zenon, <2>1, <2>2 DEF Evaluate, LoadReport, Become, IdleProc, Elsewhere
<1>2. UNCHANGED <<conn, placed, resv>>
  BY Zenon DEF Crash, Evaluate, LoadReport
<1> QED BY <1>1, <1>2, ProcTurnsAway

LEMMA ReportMoves ==
  ASSUME TypeOK, OrderInv, KnowledgeInv, NEW k \in Connectors, Report(k)
  PROVE  KeyStep
<1>1. PICK c \in Cells, t \in Tickets : c = conn[k].cell /\ t = conn[k].task
  BY ConnFields DEF Report
<1>2. ConnElsewhere(k) /\ UNCHANGED <<placed, proc>> /\ conn[k].step = "report"
  BY ConnStepElsewhere DEF ConnStep, Report
<1>3. CASE UNCHANGED resv
  BY <1>2, <1>3, ConnTurnsAway
<1>4. CASE resv[c][t].state = "pending" /\ ~UNCHANGED resv
  <2> DEFINE r == Reported(resv[c][t], conn[k].happened, conn[k].actual)
  <2>1. SetResv(c, t, r)
    BY <1>1, <1>4 DEF Report
  <2>2. r.state = "reported" /\ r.resolved = resv[c][t].resolved
    BY WritesTyped, ResvFields DEF Reported, Reservation
  <2>3. ~Licensed(c, t)
    BY <1>1, <1>2 DEF KnowledgeInv, ReporterKnows, Decided
  <2>4. \A d \in Cells, u \in Tickets : Licensed(d, u)' <=> Licensed(d, u)
    BY <1>2, ConnLeaves
  <2> HIDE DEF r
  <2> QED BY <1>2, <1>4, <2>1, <2>2, <2>3, <2>4, WriteMoves
<1> QED BY <1>1, <1>3, <1>4 DEF Report

LEMMA ConnMoves ==
  ASSUME TypeOK, OrderInv, KnowledgeInv, NEW k \in Connectors,
         ConnStep(k) \/ ConnCrash(k) \/ \E c \in Cells, t \in Tickets : Take(k, c, t)
  PROVE  KeyStep
<1>1. CASE ActRefused(k) \/ ConnCrash(k)
  <2>1. UNCHANGED <<placed, resv>>
    BY <1>1 DEF ActRefused, ConnCrash
  <2> QED BY <1>1, <2>1, ConnStepElsewhere, ConnTurnsAway DEF ConnStep
<1>2. CASE ActDone(k) \/ ActUnknown(k)
  <2>1. ConnElsewhere(k) /\ conn[k].step = "act" /\ UNCHANGED <<resv, proc>>
    BY Zenon, <1>2, ConnStepElsewhere DEF ConnStep, ActDone, ActUnknown
  <2>2. CASE UNCHANGED placed
    BY <2>1, <2>2, ConnTurnsAway
  <2>3. CASE \E cost, r : Perform(conn[k].cell, conn[k].task, r, cost)
    BY <2>1, <2>3, ConnPerformMoves
  <2> QED BY Zenon, <1>2, <2>2, <2>3 DEF ActDone, ActUnknown
<1> QED BY <1>1, <1>2, ReportMoves, ConnTakeMoves DEF ConnStep

LEMMA JudgeMoves ==
  ASSUME TypeOK, OrderInv, KnowledgeInv, NEW j \in Principals,
         JudgeStep(j) \/ \E c \in Cells, t \in Tickets : Pending(j, c, t)
  PROVE  KeyStep
<1>1. UNCHANGED <<placed, proc, conn>>
  BY Zenon DEF Pending, JudgeStep, LookUp, LoadClaim, ResolveLease, ResolveMark
<1>2. \A d \in Cells, u \in Tickets : Licensed(d, u)' <=> Licensed(d, u)
  BY <1>1, NobodyMoves
<1>3. CASE UNCHANGED resv
  BY <1>1, <1>2, <1>3 DEF KeyStep, Stays, SameRuling
<1>4. CASE ResolveMark(j) /\ ~UNCHANGED resv
  <2>1. PICK c \in Cells, t \in Tickets : c = judge[j].cell /\ t = judge[j].task
    BY <1>4, JudgeFields DEF ResolveMark
  <2> DEFINE r == Resolved(judge[j].resv, t, judge[j].happened)
  <2>2. SetResv(c, t, r) /\ judge[j].step # "idle"
    BY <1>4, <2>1 DEF ResolveMark
  <2>3. r.state \in {"done", "failed"} /\ r.resolved = TRUE
    BY JudgeFields DEF Reservation, Resolved
  <2>4. resv[c][t].state \notin {"none", "offered"}
    BY <2>1, <2>2 DEF KnowledgeInv, ResolverKnows
  <2> HIDE DEF r
  <2> QED BY <1>1, <1>2, <2>2, <2>3, <2>4, WriteMoves
<1> QED BY Zenon, <1>3, <1>4 DEF Pending, JudgeStep, LookUp, LoadClaim, ResolveLease

LEMMA StepMoves ==
  ASSUME Sweepers = {}, TypeOK, OrderInv, KnowledgeInv, [Next]_vars
  PROVE  KeyStep
<1>1. CASE UNCHANGED <<placed, proc, conn, resv>>
  BY <1>1, NobodyMoves DEF KeyStep, Stays, SameRuling
<1>2. CASE \E p \in Procs : PassStep(p) \/ Crash(p) \/ \E t \in Tickets : Evaluate(p, t) \/ LoadReport(p, t)
  BY <1>2, PassMoves, OtherProcMoves
<1>3. CASE \E k \in Connectors : ConnStep(k) \/ ConnCrash(k) \/ \E c \in Cells, t \in Tickets : Take(k, c, t)
  BY <1>3, ConnMoves
<1>4. CASE \E j \in Principals : JudgeStep(j) \/ \E c \in Cells, t \in Tickets : Pending(j, c, t)
  BY <1>4, JudgeMoves
<1>5. CASE \E c \in Cells : \/ \E t \in Tickets : LapseClaim(c, t)
                           \/ \E a \in Amounts : Reissue(c, a)
  BY Zenon, <1>1, <1>5 DEF LapseClaim, Reissue
<1>6. CASE \E e \in Ceilings : SetCeiling(e)
  BY <1>1, <1>6 DEF SetCeiling
<1> QED BY <1>1, <1>2, <1>3, <1>4, <1>5, <1>6 DEF Next, vars

--------------------------------------------------------------------------------
(* What the actors know stays so, and what they newly believe is so. *)

LEMMA InitKnows == Init => KnowledgeInv
<1> SUFFICES ASSUME Init PROVE KnowledgeInv
  OBVIOUS
<1>1. /\ \A p \in Procs : SettlerKnows(p)
      /\ \A k \in Connectors : ReporterKnows(k)
      /\ \A j \in Principals : ResolverKnows(j)
  BY DEF Init, SettlerKnows, ReporterKnows, ResolverKnows, IdleProc, IdleConn, IdleJudge
<1>2. \A c \in Cells, t \in Tickets : RecordKnows(c, t)
  BY Zenon DEF Init, RecordKnows, NoResv
<1> QED BY <1>1, <1>2 DEF KnowledgeInv

(* Whoever stays on its action, with the outcome it had, still knows it. *)
LEMMA SettlerStillKnows ==
  ASSUME TypeOK, KnowledgeInv, KeyStep, NEW p \in Procs,
         proc'[p].step \in {"execute", "settle", "mark"} =>
           /\ proc[p].step \in {"execute", "settle", "mark"} /\ proc'[p].resv = proc[p].resv,
         proc'[p].step \in {"settle", "mark"} =>
           /\ proc[p].step \in {"settle", "mark"}
           /\ proc'[p].task = proc[p].task /\ proc'[p].happened = proc[p].happened
  PROVE  SettlerKnows(p)'
<1>1. CASE proc'[p].step \in {"settle", "mark"}
  <2>1. PICK c \in Cells, t \in Tickets, h \in BOOLEAN :
          c = CellOf[p] /\ t = proc[p].task /\ h = proc[p].happened
    BY <1>1, ProcFields
  <2>2. Decided(c, t, h) /\ proc[p].resv.state \in {"pending", "reported"}
    BY <1>1, <2>1 DEF KnowledgeInv, SettlerKnows
  <2>3. Decided(c, t, h)'
    BY <2>2, DecidedForGood
  <2>4. c = CellOf[p] /\ t = proc'[p].task /\ h = proc'[p].happened
    BY <1>1, <2>1
  <2>5. Decided(CellOf[p], proc[p].task, proc[p].happened)'
    BY <2>3, <2>4 DEF Decided, Licensed, ProcLicensed, ConnLicensed
  <2> QED BY <1>1, <2>2, <2>5 DEF SettlerKnows
<1>2. CASE proc'[p].step \notin {"settle", "mark"}
  BY <1>2 DEF KnowledgeInv, SettlerKnows
<1> QED BY <1>1, <1>2

LEMMA ReporterStillKnows ==
  ASSUME TypeOK, KnowledgeInv, KeyStep, NEW k \in Connectors,
         conn'[k].step = "report" => conn'[k] = conn[k]
  PROVE  ReporterKnows(k)'
<1> SUFFICES ASSUME conn'[k].step = "report"
             PROVE  Decided(conn[k].cell, conn[k].task, conn[k].happened)'
  BY DEF ReporterKnows
<1>1. PICK c \in Cells, t \in Tickets, h \in BOOLEAN :
        c = conn[k].cell /\ t = conn[k].task /\ h = conn[k].happened
  BY ConnFields
<1>2. Decided(c, t, h)
  BY <1>1 DEF KnowledgeInv, ReporterKnows
<1>3. Decided(c, t, h)'
  BY <1>2, DecidedForGood
<1>4. c = conn'[k].cell /\ t = conn'[k].task /\ h = conn'[k].happened
  BY <1>1
<1> QED BY <1>3, <1>4 DEF Decided, Licensed, ProcLicensed, ConnLicensed

(* An action that was taken stays taken. *)
LEMMA TakenForGood ==
  ASSUME KeyStep, NEW c \in Cells, NEW t \in Tickets, resv[c][t].state \notin {"none", "offered"}
  PROVE  resv'[c][t].state \notin {"none", "offered"}
<1>1. CASE Stays(c, t)
  BY <1>1 DEF Stays
<1>2. CASE Moves(c, t)
  BY <1>2 DEF Moves, IsOffered, IsTaken, IsPerformed, IsGivenUp, IsReported, IsClosed, IsRuled
<1> QED BY <1>1, <1>2 DEF KeyStep, OthersStay

LEMMA ResolverStillKnows ==
  ASSUME TypeOK, KnowledgeInv, KeyStep, NEW j \in Principals,
         judge'[j].step # "idle" =>
           /\ judge[j].step # "idle"
           /\ judge'[j].cell = judge[j].cell /\ judge'[j].task = judge[j].task
  PROVE  ResolverKnows(j)'
<1> SUFFICES ASSUME judge'[j].step # "idle"
             PROVE  resv'[judge'[j].cell][judge'[j].task].state \notin {"none", "offered"}
  BY DEF ResolverKnows
<1>1. PICK c \in Cells, t \in Tickets : c = judge[j].cell /\ t = judge[j].task
  BY JudgeFields
<1>2. resv[c][t].state \notin {"none", "offered"}
  BY <1>1 DEF KnowledgeInv, ResolverKnows
<1> QED BY <1>1, <1>2, TakenForGood

LEMMA RecordStillKnows ==
  ASSUME TypeOK, KnowledgeInv, KeyStep, NEW c \in Cells, NEW t \in Tickets,
         \/ resv'[c][t] = resv[c][t]
         \/ resv'[c][t].state \notin {"none", "reported", "done", "failed"}
  PROVE  RecordKnows(c, t)'
<1>1. CASE resv'[c][t].state \notin {"none", "reported", "done", "failed"}
  BY Zenon, <1>1 DEF RecordKnows
<1>2. CASE resv'[c][t] = resv[c][t]
  <2>1. PICK h \in BOOLEAN : h = resv[c][t].happened
    BY WritesTyped, ResvFields
  <2>2. RecordKnows(c, t)
    BY DEF KnowledgeInv
  <2>3. /\ resv[c][t].state = "reported" => Decided(c, t, h)'
        /\ resv[c][t].state = "done" /\ ~resv[c][t].resolved => Decided(c, t, TRUE)'
        /\ resv[c][t].state = "failed" /\ ~resv[c][t].resolved => Decided(c, t, FALSE)'
    BY Zenon, <2>1, <2>2, DecidedForGood DEF RecordKnows
  <2>4. resv'[c][t].state = "reported" => Decided(c, t, resv[c][t].happened)'
    BY <1>2, <2>1, <2>3 DEF Decided
  <2>5. resv[c][t].state = "none" => ~resv[c][t].resolved
    BY <2>2 DEF RecordKnows
  <2> QED BY Zenon, <1>2, <2>3, <2>4, <2>5 DEF RecordKnows
<1> QED BY <1>1, <1>2

(* A process newly knows an outcome when it has performed the action, when it    *)
(* was refused it, and when it reads a report.                               *)
LEMMA PerformerKnows ==
  ASSUME TypeOK, OrderInv, KnowledgeInv, NEW p \in Procs, ExecuteDone(p) \/ ExecuteRejected(p)
  PROVE  SettlerKnows(p)'
<1>1. PICK c \in Cells, t \in Tickets : c = CellOf[p] /\ t = proc[p].task
  BY Zenon, ProcFields DEF ExecuteDone, ExecuteRejected
<1>2. Elsewhere(p) /\ proc[p].step = "execute" /\ UNCHANGED <<resv, conn>>
  BY Zenon, PassElsewhere DEF ExecuteDone, ExecuteRejected
<1>3. Licensed(c, t) /\ ~Licensed(c, t)'
  BY <1>1, <1>2, ProcLeaves
<1>4. resv'[c][t].state \notin {"none", "offered"}
  BY <1>2, <1>3 DEF OrderInv, UntakenIsUntouched
<1>5. /\ proc'[p].task = t /\ proc'[p].resv = proc[p].resv
      /\ ExecuteDone(p) => proc'[p].happened = TRUE
      /\ ExecuteRejected(p) => proc'[p].happened = FALSE
  <2>1. proc \in [Procs -> ProcState]
    BY DEF TypeOK
  <2>2. ASSUME ExecuteDone(p)
        PROVE  proc'[p].task = t /\ proc'[p].resv = proc[p].resv /\ proc'[p].happened = TRUE
    <3>1. PICK cost \in Actuals :
            proc' = [proc EXCEPT ![p] = [proc[p] EXCEPT !.step = "settle", !.happened = TRUE, !.actual = cost]]
      BY Zenon, <2>2 DEF ExecuteDone, Become
    <3> QED BY <1>1, <2>1, <3>1 DEF ProcState
  <2>3. ASSUME ExecuteRejected(p)
        PROVE  proc'[p].task = t /\ proc'[p].resv = proc[p].resv /\ proc'[p].happened = FALSE
    BY <1>1, <2>1, <2>3 DEF ExecuteRejected, Become, ProcState
  <2>4. ~(ExecuteDone(p) /\ ExecuteRejected(p))
    BY Zenon, <2>2, <2>3
  <2> QED BY Zenon, <2>2, <2>3, <2>4
<1>6. proc'[p].happened <=> placed'[c][t] > 0
  <2>1. CASE ExecuteDone(p)
    <3>1. PICK cost, r : Perform(CellOf[p], proc[p].task, r, cost)
      BY Zenon, <2>1 DEF ExecuteDone
    <3>2. placed'[c][t] = 1
      BY <1>1, <1>2, <3>1, ProcPerformMoves DEF IsPerformed
    <3> QED BY <1>5, <2>1, <3>2
  <2>2. CASE ExecuteRejected(p)
    <3>1. placed'[c][t] = 0
      BY <1>3, <2>2 DEF OrderInv, LicenceIsUnused, ExecuteRejected
    <3> QED BY <1>5, <2>2, <3>1
  <2> QED BY <2>1, <2>2
<1>7. Decided(CellOf[p], proc[p].task, proc[p].happened)'
  <2>1. c = CellOf[p] /\ t = proc'[p].task
    BY <1>1, <1>5
  <2> QED BY <2>1, <1>3, <1>4, <1>6 DEF Decided, Licensed, ProcLicensed, ConnLicensed
<1>8. proc'[p].resv.state \in {"pending", "reported"}
  BY <1>2, <1>5 DEF KnowledgeInv, SettlerKnows
<1> QED BY <1>7, <1>8 DEF SettlerKnows

LEMMA ReaderKnows ==
  ASSUME TypeOK, KnowledgeInv, KeyStep, NEW p \in Procs, NEW t \in Tickets, LoadReport(p, t)
  PROVE  SettlerKnows(p)'
<1>1. PICK c \in Cells, h \in BOOLEAN : c = CellOf[p] /\ h = resv[c][t].happened
  <2>1. CellOf[p] \in Cells /\ resv[CellOf[p]][t].happened \in BOOLEAN
    BY ProcFields, WritesTyped, ResvFields
  <2> QED BY <2>1
<1>2. resv[c][t].state = "reported" /\ RecordKnows(c, t)
  BY <1>1 DEF LoadReport, KnowledgeInv
<1>3. Decided(c, t, h)'
  BY <1>1, <1>2, DecidedForGood DEF RecordKnows
<1>4. proc'[p].task = t /\ proc'[p].resv = resv[c][t] /\ proc'[p].happened = h
  <2> DEFINE r == resv[c][t]
  <2>1. proc' = [proc EXCEPT ![p] = [IdleProc EXCEPT !.step = "settle", !.task = t, !.lease = lease[c],
                                        !.resv = r, !.happened = r.happened, !.actual = r.actual]]
    BY <1>1 DEF LoadReport, Become
  <2> HIDE DEF r
  <2>2. proc'[p].task = t /\ proc'[p].resv = r /\ proc'[p].happened = r.happened
    BY <2>1 DEF TypeOK, IdleProc
  <2> QED BY <1>1, <2>2 DEF r
<1>5. Decided(CellOf[p], proc[p].task, proc[p].happened)'
  <2>1. c = CellOf[p] /\ t = proc'[p].task /\ h = proc'[p].happened
    BY <1>1, <1>4
  <2> QED BY <2>1, <1>3 DEF Decided, Licensed, ProcLicensed, ConnLicensed
<1> QED BY <1>2, <1>4, <1>5 DEF SettlerKnows

(* Every other step of a process leaves it with what it knew, or with nothing to *)
(* write down.                                                               *)
LEMMA OthersLearnNothing ==
  ASSUME TypeOK, KnowledgeInv, KeyStep, NEW p \in Procs,
         \/ Claim(p) \/ Authorize(p) \/ Look(p) \/ TakeHold(p) \/ ClaimKey(p) \/ Unhold(p) \/ Offer(p)
         \/ TakeSelf(p) \/ ExecuteUnknown(p) \/ SettleLease(p) \/ Mark(p) \/ Crash(p)
         \/ \E t \in Tickets : Evaluate(p, t)
  PROVE  SettlerKnows(p)'
<1>1. proc \in [Procs -> ProcState]
  BY DEF TypeOK
<1>2. CASE proc'[p].step \notin {"execute", "settle", "mark"}
  BY <1>2, SettlerStillKnows
<1>3. CASE TakeSelf(p) /\ proc'[p].step = "execute"
  <2>1. PICK c \in Cells, t \in Tickets : c = CellOf[p] /\ t = proc[p].task
    BY <1>3, ProcFields DEF TakeSelf
  <2> DEFINE r == Taken(resv[c][t], c)
  <2>2. r.state = "pending"
    BY WritesTyped DEF Taken, Reservation
  <2>3. \/ proc' = [proc EXCEPT ![p] = [proc[p] EXCEPT !.step = "execute", !.resv = r]]
        \/ proc' = [proc EXCEPT ![p] = IdleProc]
    BY <1>3, <2>1 DEF TakeSelf, Become, Stop
  <2> HIDE DEF r
  <2>4. \/ proc'[p] = [proc[p] EXCEPT !.step = "execute", !.resv = r]
        \/ proc'[p] = IdleProc
    BY <1>1, <2>3
  <2>5. proc'[p] # IdleProc
    BY <1>3 DEF IdleProc
  <2>6. proc[p] \in ProcState
    BY <1>1
  <2>7. proc'[p].resv = r
    BY Zenon, <2>4, <2>5, <2>6 DEF ProcState
  <2> QED BY <1>3, <2>2, <2>7 DEF SettlerKnows
<1>4. CASE SettleLease(p) /\ proc'[p].step # "idle"
  <2>1. proc[p].step = "settle" /\ (Go(p, "mark") \/ Stop(p))
    BY <1>4 DEF SettleLease
  <2>2. CASE Go(p, "mark")
    <3>1. proc'[p] = [proc[p] EXCEPT !.step = "mark"]
      BY <1>1, <2>2 DEF Go, Become
    <3>2. proc'[p].task = proc[p].task /\ proc'[p].resv = proc[p].resv /\ proc'[p].happened = proc[p].happened
      BY <1>1, <3>1 DEF ProcState
    <3> QED BY <2>1, <3>2, SettlerStillKnows
  <2>3. CASE Stop(p)
    BY <1>1, <1>4, <2>3 DEF Stop, Become, IdleProc
  <2> QED BY <2>1, <2>2, <2>3
<1>5. Stop(p) => proc'[p].step = "idle"
  BY <1>1 DEF Stop, Become, IdleProc
<1>6. ASSUME NEW step \in ProcSteps, Go(p, step) PROVE proc'[p].step = step
  BY <1>1, <1>6 DEF Go, Become, ProcState
<1>7. Claim(p) => proc'[p].step = "authorize"
  <2> SUFFICES ASSUME Claim(p) PROVE proc'[p].step = "authorize"
    OBVIOUS
  <2>1. PICK l, e : Become(p, [proc[p] EXCEPT !.step = "authorize", !.lease = l, !.ceiling = e])
    BY Zenon DEF Claim
  <2> QED BY <1>1, <2>1 DEF Become, ProcState
<1>8. Authorize(p) => proc'[p].step \in {"look", "idle"}
  <2> SUFFICES ASSUME Authorize(p) PROVE proc'[p].step \in {"look", "idle"}
    OBVIOUS
  <2>1. ASSUME NEW q \in Quotes,
               Become(p, [proc[p] EXCEPT !.step = "look", !.amount = q.amount, !.units = q.units])
        PROVE  proc'[p].step = "look"
    BY <1>1, <2>1 DEF Become, ProcState
  <2> QED BY Zenon, <1>5, <2>1 DEF Authorize
<1>9. Look(p) => proc'[p].step \in {"hold", "reserve", "idle"}
  BY <1>5, <1>6, StepNames DEF Look
<1>10. TakeHold(p) => proc'[p].step \in {"reserve", "idle"}
  BY Zenon, <1>1, <1>5 DEF TakeHold, Become, ProcState
<1>11. ClaimKey(p) => proc'[p].step \in {"offer", "take", "unhold", "idle"}
  <2>1. ClaimKey(p) => \/ Stop(p) \/ Go(p, "unhold")
                       \/ \E r : \/ Become(p, [proc[p] EXCEPT !.step = "offer", !.resv = r])
                                 \/ Become(p, [proc[p] EXCEPT !.step = "take", !.resv = r])
    BY Zenon DEF ClaimKey
  <2>2. ASSUME NEW r, NEW step, Become(p, [proc[p] EXCEPT !.step = step, !.resv = r])
        PROVE  proc'[p].step = step
    BY <1>1, <2>2 DEF Become, ProcState
  <2> QED BY Zenon, <1>5, <1>6, <2>1, <2>2, StepNames
<1>12. Unhold(p) \/ Offer(p) \/ ExecuteUnknown(p) \/ Mark(p) \/ Crash(p) => proc'[p].step = "idle"
  BY <1>5 DEF Unhold, Offer, ExecuteUnknown, Mark, Crash
<1>13. TakeSelf(p) => proc'[p].step \in {"execute", "idle"}
  <2>1. TakeSelf(p) => Stop(p) \/ \E r : Become(p, [proc[p] EXCEPT !.step = "execute", !.resv = r])
    BY Zenon DEF TakeSelf
  <2>2. ASSUME NEW r, Become(p, [proc[p] EXCEPT !.step = "execute", !.resv = r])
        PROVE  proc'[p].step = "execute"
    BY <1>1, <2>2 DEF Become, ProcState
  <2> QED BY Zenon, <1>5, <2>1, <2>2
<1>14. (\E t \in Tickets : Evaluate(p, t)) => proc'[p].step = "claim"
  BY Zenon, <1>1 DEF Evaluate, Become, IdleProc
<1> QED BY <1>2, <1>3, <1>4, <1>7, <1>8, <1>9, <1>10, <1>11, <1>12, <1>13, <1>14

LEMMA ProcStepKeepsKnowledge ==
  ASSUME TypeOK, OrderInv, KnowledgeInv, NEW p \in Procs,
         PassStep(p) \/ Crash(p) \/ \E t \in Tickets : Evaluate(p, t) \/ LoadReport(p, t)
  PROVE  KnowledgeInv'
<1>1. KeyStep
  BY PassMoves, OtherProcMoves
<1>2. \A q \in Procs : q # p => proc'[q] = proc[q]
  <2>1. \E r : Become(p, r)
    BY Zenon DEF PassStep, Claim, Authorize, Look, TakeHold, ClaimKey, Unhold, Offer, TakeSelf,
       ExecuteDone, ExecuteRejected, ExecuteUnknown, SettleLease, Mark, Crash, Evaluate,
       LoadReport, Stop, Go
  <2> QED BY <2>1 DEF Become, TypeOK
<1>3. UNCHANGED <<conn, judge>>
  BY Zenon DEF PassStep, Claim, Authorize, Look, TakeHold, ClaimKey, Unhold, Offer, TakeSelf,
     ExecuteDone, ExecuteRejected, ExecuteUnknown, SettleLease, Mark, Crash, Evaluate, LoadReport
<1>4. \A q \in Procs : SettlerKnows(q)'
  <2>1. SettlerKnows(p)'
    BY <1>1, PerformerKnows, ReaderKnows, OthersLearnNothing DEF PassStep
  <2>2. ASSUME NEW q \in Procs, q # p PROVE SettlerKnows(q)'
    BY <1>1, <1>2, <2>2, SettlerStillKnows
  <2> QED BY <2>1, <2>2
<1>5. (\A k \in Connectors : ReporterKnows(k)') /\ \A j \in Principals : ResolverKnows(j)'
  BY <1>1, <1>3, ReporterStillKnows, ResolverStillKnows
<1>6. ASSUME NEW c \in Cells, NEW t \in Tickets PROVE RecordKnows(c, t)'
  <2>1. CASE resv'[c][t] = resv[c][t]
    BY <1>1, <2>1, RecordStillKnows
  <2>2. CASE \E d \in Cells, u \in Tickets, r \in Reservation :
               SetResv(d, u, r) /\ r.state \in {"offered", "pending"}
    <3>1. PICK d \in Cells, u \in Tickets, r \in Reservation :
            SetResv(d, u, r) /\ r.state \in {"offered", "pending"}
      BY <2>2
    <3>2. resv'[c][t] = resv[c][t] \/ resv'[c][t] = r
      BY <3>1, WriteOne
    <3> QED BY <1>1, <3>1, <3>2, RecordStillKnows
  <2>3. CASE Mark(p) /\ resv'[c][t] # resv[c][t]
    <3> DEFINE r == IF proc[p].happened THEN Settled(proc[p].resv, proc[p].actual)
                                        ELSE Refused(proc[p].resv, proc[p].task)
    <3>1. PICK d \in Cells, u \in Tickets, h \in BOOLEAN :
            d = CellOf[p] /\ u = proc[p].task /\ h = proc[p].happened
      BY <2>3, ProcFields DEF Mark
    <3>2. SetResv(d, u, r)
      BY <2>3, <3>1 DEF Mark
    <3>3. r.state = IF h THEN "done" ELSE "failed"
      BY <3>1, ProcFields DEF Settled, Refused, Reservation
    <3> HIDE DEF r
    <3>4. c = d /\ t = u /\ resv'[c][t] = r
      BY <2>3, <3>2, WriteOne
    <3>5. Decided(c, t, h)
      BY <2>3, <3>1, <3>4 DEF Mark, KnowledgeInv, SettlerKnows
    <3>6. Decided(c, t, h)'
      BY <1>1, <3>5, DecidedForGood
    <3>7. (h /\ Decided(c, t, TRUE)') \/ (~h /\ Decided(c, t, FALSE)')
      BY <3>6 DEF Decided
    <3> QED BY Zenon, <3>3, <3>4, <3>7 DEF RecordKnows
  <2>4. CASE ClaimKey(p) \/ Offer(p) \/ TakeSelf(p)
    <3>1. PICK d \in Cells, u \in Tickets : d = CellOf[p] /\ u = proc[p].task
      BY <2>4, ProcFields DEF ClaimKey, Offer, TakeSelf
    <3>2. CASE ClaimKey(p) /\ ~UNCHANGED resv
      <4> DEFINE r == Offered(proc[p].amount, proc[p].units)
      <4>1. SetResv(d, u, r)
        BY <3>1, <3>2 DEF ClaimKey
      <4>2. r \in Reservation /\ r.state = "offered"
        BY Zenon, ProcFields, ReservationsTyped DEF Offered, NoResv
      <4> HIDE DEF r
      <4> QED BY <2>2, <4>1, <4>2
    <3>3. CASE Offer(p) /\ ~UNCHANGED resv
      <4> DEFINE r == [proc[p].resv EXCEPT !.posted = TRUE]
      <4>1. SetResv(d, u, r)
        BY <3>1, <3>3 DEF Offer
      <4>2. r \in Reservation /\ r.state = "offered"
        BY Zenon, <3>3, ProcFields DEF Offer, Reservation
      <4> HIDE DEF r
      <4> QED BY <2>2, <4>1, <4>2
    <3>4. CASE TakeSelf(p) /\ ~UNCHANGED resv
      <4> DEFINE r == Taken(resv[d][u], d)
      <4>1. SetResv(d, u, r)
        BY <3>1, <3>4 DEF TakeSelf
      <4>2. r \in Reservation
        BY WritesTyped, ReservationsTyped DEF Holders
      <4>3. r.state = "pending"
        BY WritesTyped DEF Taken, Reservation
      <4> HIDE DEF r
      <4> QED BY <2>2, <4>1, <4>2, <4>3
    <3> QED BY <2>1, <2>4, <3>2, <3>3, <3>4
  <2>5. CASE UNCHANGED resv
    BY <2>1, <2>5
  <2> QED BY Zenon, <2>1, <2>3, <2>4, <2>5
          DEF PassStep, Claim, Authorize, Look, TakeHold, Unhold, ExecuteDone, ExecuteRejected,
              ExecuteUnknown, SettleLease, Crash, Evaluate, LoadReport
<1> QED BY <1>4, <1>5, <1>6 DEF KnowledgeInv

(* A connector newly knows an outcome when it has performed the action or was      *)
(* refused it, and hands its knowledge to the record.                        *)
LEMMA ActorKnows ==
  ASSUME TypeOK, OrderInv, KnowledgeInv, NEW k \in Connectors, ActDone(k) \/ ActRefused(k)
  PROVE  ReporterKnows(k)'
<1>1. PICK c \in Cells, t \in Tickets : c = conn[k].cell /\ t = conn[k].task
  BY Zenon, ConnFields DEF ActDone, ActRefused
<1>2. ConnElsewhere(k) /\ conn[k].step = "act" /\ UNCHANGED <<resv, proc>>
  BY Zenon, ConnStepElsewhere DEF ConnStep, ActDone, ActRefused
<1>3. Licensed(c, t) /\ ~Licensed(c, t)'
  BY <1>1, <1>2, ConnLeaves
<1>4. resv'[c][t].state \notin {"none", "offered"}
  BY <1>2, <1>3 DEF OrderInv, UntakenIsUntouched
<1>5. \/ /\ conn'[k].cell = c /\ conn'[k].task = t /\ conn'[k].happened = TRUE
         /\ \E cost, r : Perform(conn[k].cell, conn[k].task, r, cost)
      \/ /\ conn'[k].cell = c /\ conn'[k].task = t /\ conn'[k].happened = FALSE
         /\ UNCHANGED placed
  <2>1. conn \in [Connectors -> ConnState]
    BY DEF TypeOK
  <2>2. ASSUME ActDone(k)
        PROVE  /\ conn'[k].cell = c /\ conn'[k].task = t /\ conn'[k].happened = TRUE
               /\ \E cost, r : Perform(conn[k].cell, conn[k].task, r, cost)
    <3>1. PICK cost \in Actuals :
            /\ conn' = [conn EXCEPT ![k] = [conn[k] EXCEPT !.step = "report", !.happened = TRUE, !.actual = cost]]
            /\ \E r : Perform(conn[k].cell, conn[k].task, r, cost)
      BY Zenon, <2>2 DEF ActDone, ConnBecome
    <3>2. conn'[k].cell = c /\ conn'[k].task = t /\ conn'[k].happened = TRUE
      BY <1>1, <2>1, <3>1 DEF ConnState
    <3> QED BY <3>1, <3>2
  <2>3. ASSUME ActRefused(k)
        PROVE  /\ conn'[k].cell = c /\ conn'[k].task = t /\ conn'[k].happened = FALSE
               /\ UNCHANGED placed
    BY <1>1, <2>1, <2>3 DEF ActRefused, ConnBecome, ConnState
  <2> QED BY Zenon, <2>2, <2>3
<1>6. conn'[k].happened <=> placed'[c][t] > 0
  <2>1. CASE \E cost, r : Perform(conn[k].cell, conn[k].task, r, cost)
    <3>1. PICK cost, r : Perform(conn[k].cell, conn[k].task, r, cost)
      BY <2>1
    <3>2. placed[c][t] = 0 /\ placed'[c][t] = 1
      BY <1>1, <1>2, <3>1, ConnPerformMoves DEF IsPerformed
    <3> QED BY <1>5, <3>2
  <2>2. CASE ~\E cost, r : Perform(conn[k].cell, conn[k].task, r, cost)
    <3>1. placed[c][t] = 0
      BY <1>3 DEF OrderInv, LicenceIsUnused
    <3> QED BY <1>5, <2>2, <3>1
  <2> QED BY <2>1, <2>2
<1>7. Decided(conn[k].cell, conn[k].task, conn[k].happened)'
  <2>1. c = conn'[k].cell /\ t = conn'[k].task
    BY <1>5
  <2> QED BY <2>1, <1>3, <1>4, <1>6 DEF Decided, Licensed, ProcLicensed, ConnLicensed
<1> QED BY <1>7 DEF ReporterKnows

LEMMA ConnStepKeepsKnowledge ==
  ASSUME TypeOK, OrderInv, KnowledgeInv, NEW k \in Connectors,
         ConnStep(k) \/ ConnCrash(k) \/ \E c \in Cells, t \in Tickets : Take(k, c, t)
  PROVE  KnowledgeInv'
<1>1. KeyStep
  BY ConnMoves
<1>2. /\ \A m \in Connectors : m # k => conn'[m] = conn[m]
      /\ UNCHANGED <<proc, judge>>
  <2>1. \E r : ConnBecome(k, r)
    BY Zenon DEF ConnStep, ActDone, ActRefused, ActUnknown, Report, ConnCrash, Take
  <2>2. UNCHANGED <<proc, judge>>
    BY Zenon DEF ConnStep, ActDone, ActRefused, ActUnknown, Report, ConnCrash, Take
  <2> QED BY <2>1, <2>2 DEF ConnBecome, TypeOK
<1>3. (\A p \in Procs : SettlerKnows(p)') /\ \A j \in Principals : ResolverKnows(j)'
  BY <1>1, <1>2, SettlerStillKnows, ResolverStillKnows
<1>4. ASSUME NEW m \in Connectors PROVE ReporterKnows(m)'
  <2>1. CASE m # k
    BY <1>1, <1>2, <2>1, ReporterStillKnows
  <2>2. CASE m = k /\ (ActDone(k) \/ ActRefused(k))
    BY <2>2, ActorKnows
  <2>3. CASE m = k /\ ~(ActDone(k) \/ ActRefused(k))
    <3>1. conn'[k].step # "report"
      <4>1. conn \in [Connectors -> ConnState]
        BY DEF TypeOK
      <4>2. ConnBecome(k, IdleConn) => conn'[k].step # "report"
        BY <4>1 DEF ConnBecome, IdleConn
      <4>3. ASSUME NEW c \in Cells, NEW t \in Tickets, Take(k, c, t) PROVE conn'[k].step # "report"
        BY Zenon, <4>1, <4>3 DEF Take, ConnBecome, IdleConn
      <4> QED BY <2>3, <4>2, <4>3 DEF ConnStep, ActUnknown, Report, ConnCrash
    <3> QED BY <1>1, <2>3, <3>1, ReporterStillKnows
  <2> QED BY <2>1, <2>2, <2>3
<1>5. ASSUME NEW c \in Cells, NEW t \in Tickets PROVE RecordKnows(c, t)'
  <2>1. CASE resv'[c][t] = resv[c][t]
    BY <1>1, <2>1, RecordStillKnows
  <2>2. CASE \E d \in Cells, u \in Tickets : Take(k, d, u)
    <3>1. PICK d \in Cells, u \in Tickets : Take(k, d, u)
      BY <2>2
    <3> DEFINE r == Taken(resv[d][u], k)
    <3>2. SetResv(d, u, r)
      BY Zenon, <3>1 DEF Take
    <3>3. r.state = "pending"
      BY WritesTyped DEF Taken, Reservation
    <3> HIDE DEF r
    <3>4. resv'[c][t] = resv[c][t] \/ resv'[c][t] = r
      BY <3>2, WriteOne
    <3> QED BY <1>1, <3>3, <3>4, RecordStillKnows
  <2>3. CASE Report(k) /\ resv'[c][t] # resv[c][t]
    <3>1. PICK d \in Cells, u \in Tickets, h \in BOOLEAN :
            d = conn[k].cell /\ u = conn[k].task /\ h = conn[k].happened
      BY <2>3, ConnFields DEF Report
    <3> DEFINE r == Reported(resv[d][u], conn[k].happened, conn[k].actual)
    <3>2. SetResv(d, u, r)
      BY <2>3, <3>1 DEF Report
    <3>3. r.state = "reported" /\ r.happened = h
      BY <3>1, WritesTyped DEF Reported, Reservation
    <3> HIDE DEF r
    <3>4. c = d /\ t = u /\ resv'[c][t] = r
      BY <2>3, <3>2, WriteOne
    <3>5. Decided(c, t, h)
      BY <2>3, <3>1, <3>4 DEF Report, KnowledgeInv, ReporterKnows
    <3>6. Decided(c, t, h)'
      BY <1>1, <3>5, DecidedForGood
    <3>7. Decided(c, t, resv[c][t].happened)'
      BY <3>3, <3>4, <3>6 DEF Decided
    <3> QED BY Zenon, <3>3, <3>4, <3>7 DEF RecordKnows
  <2> QED BY Zenon, <2>1, <2>2, <2>3 DEF ConnStep, ActDone, ActRefused, ActUnknown, ConnCrash
<1> QED BY <1>3, <1>4, <1>5 DEF KnowledgeInv

(* A principal knows no more than that the action was taken, and its ruling says   *)
(* that it is one.                                                           *)
LEMMA JudgeStepKeepsKnowledge ==
  ASSUME TypeOK, OrderInv, KnowledgeInv, NEW j \in Principals,
         JudgeStep(j) \/ \E c \in Cells, t \in Tickets : Pending(j, c, t)
  PROVE  KnowledgeInv'
<1>1. KeyStep
  BY JudgeMoves
<1>2. judge \in [Principals -> JudgeState]
  BY DEF TypeOK
<1>3. /\ \A i \in Principals : i # j => judge'[i] = judge[i]
      /\ UNCHANGED <<proc, conn>>
  <2>1. \E r : JudgeBecome(j, r)
    BY Zenon DEF JudgeStep, LookUp, LoadClaim, ResolveLease, ResolveMark, Pending
  <2>2. UNCHANGED <<proc, conn>>
    BY Zenon DEF JudgeStep, LookUp, LoadClaim, ResolveLease, ResolveMark, Pending
  <2> QED BY <1>2, <2>1, <2>2 DEF JudgeBecome
<1>4. (\A p \in Procs : SettlerKnows(p)') /\ \A k \in Connectors : ReporterKnows(k)'
  BY <1>1, <1>3, SettlerStillKnows, ReporterStillKnows
<1>5. ASSUME NEW i \in Principals PROVE ResolverKnows(i)'
  <2>1. CASE i # j
    BY <1>1, <1>3, <2>1, ResolverStillKnows
  <2>2. CASE i = j /\ \E c \in Cells, t \in Tickets : Pending(j, c, t)
    <3>1. PICK c \in Cells, t \in Tickets : Pending(j, c, t)
      BY <2>2
    <3>2. /\ judge' = [judge EXCEPT ![j] = [IdleJudge EXCEPT !.step = "look", !.cell = c, !.task = t]]
          /\ resv'[c][t].state = "pending"
      BY Zenon, <3>1 DEF Pending, JudgeBecome
    <3>3. judge'[j].cell = c /\ judge'[j].task = t
      BY <1>2, <3>2 DEF IdleJudge
    <3> QED BY <2>2, <3>2, <3>3 DEF ResolverKnows
  <2>3. CASE i = j /\ JudgeStep(j)
    <3>1. \/ \E step, h : judge' = [judge EXCEPT ![j] = [judge[j] EXCEPT !.step = step, !.happened = h]]
          \/ \E step, l, r : judge' = [judge EXCEPT ![j] = [judge[j] EXCEPT !.step = step, !.lease = l, !.resv = r]]
          \/ judge' = [judge EXCEPT ![j] = [judge[j] EXCEPT !.step = "mark"]]
          \/ judge' = [judge EXCEPT ![j] = IdleJudge]
      <4>1. ResolveLease(j) \/ ResolveMark(j) =>
              \/ judge' = [judge EXCEPT ![j] = [judge[j] EXCEPT !.step = "mark"]]
              \/ judge' = [judge EXCEPT ![j] = IdleJudge]
        BY DEF ResolveLease, ResolveMark, JudgeBecome
      <4>2. LookUp(j) => \E step, h :
              judge' = [judge EXCEPT ![j] = [judge[j] EXCEPT !.step = step, !.happened = h]]
        BY Zenon DEF LookUp, JudgeBecome
      <4>3. LoadClaim(j) => \E step, l, r :
              judge' = [judge EXCEPT ![j] = [judge[j] EXCEPT !.step = step, !.lease = l, !.resv = r]]
        BY Zenon DEF LoadClaim, JudgeBecome
      <4> QED BY Zenon, <2>3, <4>1, <4>2, <4>3 DEF JudgeStep
    <3>2. judge[j].step # "idle" /\ judge[j] \in JudgeState
      BY <1>2, <2>3 DEF JudgeStep, LookUp, LoadClaim, ResolveLease, ResolveMark
    <3>3. CASE judge' = [judge EXCEPT ![j] = IdleJudge]
      <4>1. judge'[j].step = "idle"
        BY <1>2, <3>3 DEF IdleJudge
      <4> QED BY <2>3, <4>1 DEF ResolverKnows
    <3>4. CASE judge' # [judge EXCEPT ![j] = IdleJudge]
      <4>1. ASSUME NEW step, NEW h,
                   judge' = [judge EXCEPT ![j] = [judge[j] EXCEPT !.step = step, !.happened = h]]
            PROVE  judge'[j].cell = judge[j].cell /\ judge'[j].task = judge[j].task
        BY <1>2, <4>1 DEF JudgeState
      <4>3. ASSUME NEW step, NEW l, NEW r,
                   judge' = [judge EXCEPT ![j] = [judge[j] EXCEPT !.step = step, !.lease = l, !.resv = r]]
            PROVE  judge'[j].cell = judge[j].cell /\ judge'[j].task = judge[j].task
        BY <1>2, <4>3 DEF JudgeState
      <4>4. judge' = [judge EXCEPT ![j] = [judge[j] EXCEPT !.step = "mark"]] =>
              judge'[j].cell = judge[j].cell /\ judge'[j].task = judge[j].task
        BY <1>2 DEF JudgeState
      <4>2. judge'[j].cell = judge[j].cell /\ judge'[j].task = judge[j].task
        BY Zenon, <3>1, <3>4, <4>1, <4>3, <4>4
      <4> QED BY <1>1, <2>3, <3>2, <4>2, ResolverStillKnows
    <3> QED BY <3>3, <3>4
  <2> QED BY <2>1, <2>2, <2>3
<1>6. ASSUME NEW c \in Cells, NEW t \in Tickets PROVE RecordKnows(c, t)'
  <2>1. CASE resv'[c][t] = resv[c][t]
    BY <1>1, <2>1, RecordStillKnows
  <2>2. CASE ResolveMark(j) /\ resv'[c][t] # resv[c][t]
    <3>1. PICK d \in Cells, u \in Tickets : d = judge[j].cell /\ u = judge[j].task
      BY <2>2, JudgeFields DEF ResolveMark
    <3> DEFINE r == Resolved(judge[j].resv, u, judge[j].happened)
    <3>2. SetResv(d, u, r)
      BY <2>2, <3>1 DEF ResolveMark
    <3>3. r.state \in {"done", "failed"} /\ r.resolved = TRUE
      BY JudgeFields DEF Reservation, Resolved
    <3> HIDE DEF r
    <3>4. resv'[c][t] = r
      BY <2>2, <3>2, WriteOne
    <3> QED BY <3>3, <3>4 DEF RecordKnows
  <2> QED BY Zenon, <2>1, <2>2 DEF JudgeStep, LookUp, LoadClaim, ResolveLease, Pending
<1> QED BY <1>4, <1>5, <1>6 DEF KnowledgeInv

LEMMA NextKeepsKnowledge ==
  ASSUME Sweepers = {}, TypeOK, OrderInv, KnowledgeInv, [Next]_vars
  PROVE  KnowledgeInv'
<1>1. KeyStep
  BY StepMoves
<1>2. CASE UNCHANGED <<resv, proc, conn, judge>>
  <2>1. \A p \in Procs : SettlerKnows(p)'
    BY <1>1, <1>2, SettlerStillKnows
  <2>2. \A k \in Connectors : ReporterKnows(k)'
    BY <1>1, <1>2, ReporterStillKnows
  <2>3. \A j \in Principals : ResolverKnows(j)'
    BY <1>1, <1>2, ResolverStillKnows
  <2>4. \A c \in Cells, t \in Tickets : RecordKnows(c, t)'
    BY <1>1, <1>2, RecordStillKnows
  <2> QED BY <2>1, <2>2, <2>3, <2>4 DEF KnowledgeInv
<1>3. CASE \E p \in Procs : PassStep(p) \/ Crash(p) \/ \E t \in Tickets : Evaluate(p, t) \/ LoadReport(p, t)
  BY <1>3, ProcStepKeepsKnowledge
<1>4. CASE \E k \in Connectors : ConnStep(k) \/ ConnCrash(k) \/ \E c \in Cells, t \in Tickets : Take(k, c, t)
  BY <1>4, ConnStepKeepsKnowledge
<1>5. CASE \E j \in Principals : JudgeStep(j) \/ \E c \in Cells, t \in Tickets : Pending(j, c, t)
  BY <1>5, JudgeStepKeepsKnowledge
<1>6. CASE \E c \in Cells : \/ \E t \in Tickets : LapseClaim(c, t)
                           \/ \E a \in Amounts : Reissue(c, a)
  BY Zenon, <1>2, <1>6 DEF LapseClaim, Reissue
<1>7. CASE \E e \in Ceilings : SetCeiling(e)
  BY <1>2, <1>7 DEF SetCeiling
<1> QED BY <1>2, <1>3, <1>4, <1>5, <1>6, <1>7 DEF Next, vars

LEMMA EffectInvariant ==
  ASSUME Sweepers = {}
  PROVE  Spec => [](TypeOK /\ OrderInv /\ KnowledgeInv)
<1>1. Init => TypeOK /\ OrderInv /\ KnowledgeInv
  BY InitTyped, InitOrder, InitKnows
<1>2. TypeOK /\ OrderInv /\ KnowledgeInv /\ [Next]_vars => (TypeOK /\ OrderInv /\ KnowledgeInv)'
  BY NextTyped, NextKeepsOrder, NextKeepsKnowledge
<1> QED BY <1>1, <1>2, PTL DEF Spec

(* Where no expiry sweep runs, what settlements and reports write down is so: a      *)
(* report says what happened, and a record no principal ruled on reads done only *)
(* if the far end performed the action, and failed only if it did not and       *)
(* nobody can any more, however settlements, reports, rulings and crashes       *)
(* interleave (effect.Settle, Fail, Report, Resolve).                         *)
THEOREM OutcomesAreTrue == ASSUME Sweepers = {} PROVE Spec => []OutcomeIsTrue
<1>1. TypeOK /\ OrderInv /\ KnowledgeInv => OutcomeIsTrue
  <2> SUFFICES ASSUME TypeOK, KnowledgeInv, NEW c \in Cells, NEW t \in Tickets
               PROVE  LET r == resv[c][t] IN
                      /\ r.state = "reported" => (r.happened <=> placed[c][t] > 0) /\ ~Licensed(c, t)
                      /\ r.state = "done" /\ ~r.resolved => placed[c][t] > 0
                      /\ r.state = "failed" /\ ~r.resolved => placed[c][t] = 0 /\ ~Licensed(c, t)
    BY DEF OutcomeIsTrue
  <2>1. RecordKnows(c, t) /\ placed[c][t] \in Nat
    BY DEF KnowledgeInv, TypeOK
  <2> QED BY <2>1 DEF RecordKnows, Decided
<1> QED BY <1>1, EffectInvariant, PTL

--------------------------------------------------------------------------------
(* The refinement: a move of a key is the lifecycle's action of that name.          *)

StateOf  == [a \in Keys |-> resv[a[1]][a[2]].state]
OrdersOf == [a \in Keys |-> placed[a[1]][a[2]]]
LiveOf   == [a \in Keys |-> Licensed(a[1], a[2])]
RuledOf  == [a \in Keys |-> resv[a[1]][a[2]].resolved]

LEMMA KeyFields ==
  /\ \A c \in Cells, t \in Tickets : <<c, t>> \in Keys /\ <<c, t>>[1] = c /\ <<c, t>>[2] = t
  /\ \A a \in Keys : a[1] \in Cells /\ a[2] \in Tickets /\ a = <<a[1], a[2]>>
BY DEF Keys

LEMMA LicensedIsBoolean ==
  ASSUME NEW c \in Cells, NEW t \in Tickets
  PROVE  Licensed(c, t) \in BOOLEAN /\ Licensed(c, t)' \in BOOLEAN
BY DEF Licensed

(* Functions over keys agree with an override of one key. *)
LEMMA StateAfter ==
  ASSUME NEW c \in Cells, NEW t \in Tickets, NEW x, resv'[c][t].state = x,
         \A d \in Cells, u \in Tickets : <<d, u>> # <<c, t>> => resv'[d][u].state = resv[d][u].state
  PROVE  StateOf' = [StateOf EXCEPT ![<<c, t>>] = x]
<1>1. ASSUME NEW a \in Keys PROVE StateOf'[a] = [StateOf EXCEPT ![<<c, t>>] = x][a]
  <2>1. CASE a = <<c, t>>
    BY <2>1, KeyFields DEF StateOf
  <2>2. CASE a # <<c, t>>
    <3>1. resv'[a[1]][a[2]].state = resv[a[1]][a[2]].state
      BY <2>2, KeyFields
    <3> QED BY <2>2, <3>1 DEF StateOf
  <2> QED BY <2>1, <2>2
<1> QED BY Zenon, <1>1 DEF StateOf

LEMMA OrdersAfter ==
  ASSUME NEW c \in Cells, NEW t \in Tickets, NEW x, placed'[c][t] = x,
         \A d \in Cells, u \in Tickets : <<d, u>> # <<c, t>> => placed'[d][u] = placed[d][u]
  PROVE  OrdersOf' = [OrdersOf EXCEPT ![<<c, t>>] = x]
<1>1. ASSUME NEW a \in Keys PROVE OrdersOf'[a] = [OrdersOf EXCEPT ![<<c, t>>] = x][a]
  <2>1. CASE a = <<c, t>>
    BY <2>1, KeyFields DEF OrdersOf
  <2>2. CASE a # <<c, t>>
    <3>1. placed'[a[1]][a[2]] = placed[a[1]][a[2]]
      BY <2>2, KeyFields
    <3> QED BY <2>2, <3>1 DEF OrdersOf
  <2> QED BY <2>1, <2>2
<1> QED BY Zenon, <1>1 DEF OrdersOf

LEMMA LiveAfter ==
  ASSUME NEW c \in Cells, NEW t \in Tickets, NEW x \in BOOLEAN, Licensed(c, t)' <=> x,
         \A d \in Cells, u \in Tickets : <<d, u>> # <<c, t>> => (Licensed(d, u)' <=> Licensed(d, u))
  PROVE  LiveOf' = [LiveOf EXCEPT ![<<c, t>>] = x]
<1>1. ASSUME NEW a \in Keys PROVE LiveOf'[a] = [LiveOf EXCEPT ![<<c, t>>] = x][a]
  <2>1. CASE a = <<c, t>>
    BY <2>1, KeyFields, LicensedIsBoolean DEF LiveOf
  <2>2. CASE a # <<c, t>>
    <3>1. a[1] \in Cells /\ a[2] \in Tickets /\ <<a[1], a[2]>> # <<c, t>>
      BY <2>2, KeyFields
    <3>2. Licensed(a[1], a[2])' = Licensed(a[1], a[2])
      BY <3>1, LicensedIsBoolean
    <3> QED BY <2>2, <3>2 DEF LiveOf
  <2> QED BY <2>1, <2>2
<1> QED BY Zenon, <1>1 DEF LiveOf

LEMMA RuledAfter ==
  ASSUME NEW c \in Cells, NEW t \in Tickets, NEW x, resv'[c][t].resolved = x,
         \A d \in Cells, u \in Tickets : <<d, u>> # <<c, t>> => SameRuling(d, u)
  PROVE  RuledOf' = [RuledOf EXCEPT ![<<c, t>>] = x]
<1>1. ASSUME NEW a \in Keys PROVE RuledOf'[a] = [RuledOf EXCEPT ![<<c, t>>] = x][a]
  <2>1. CASE a = <<c, t>>
    BY <2>1, KeyFields DEF RuledOf
  <2>2. CASE a # <<c, t>>
    <3>1. resv'[a[1]][a[2]].resolved = resv[a[1]][a[2]].resolved
      BY <2>2, KeyFields DEF SameRuling
    <3> QED BY <2>2, <3>1 DEF RuledOf
  <2> QED BY <2>1, <2>2
<1> QED BY Zenon, <1>1 DEF RuledOf

LEMMA NoneAfter ==
  /\ (\A d \in Cells, u \in Tickets : resv'[d][u].state = resv[d][u].state) => UNCHANGED StateOf
  /\ (\A d \in Cells, u \in Tickets : placed'[d][u] = placed[d][u]) => UNCHANGED OrdersOf
  /\ (\A d \in Cells, u \in Tickets : Licensed(d, u)' <=> Licensed(d, u)) => UNCHANGED LiveOf
  /\ (\A d \in Cells, u \in Tickets : SameRuling(d, u)) => UNCHANGED RuledOf
<1>1. (\A d \in Cells, u \in Tickets : resv'[d][u].state = resv[d][u].state) => UNCHANGED StateOf
  BY KeyFields DEF StateOf
<1>2. (\A d \in Cells, u \in Tickets : placed'[d][u] = placed[d][u]) => UNCHANGED OrdersOf
  BY KeyFields DEF OrdersOf
<1>3. (\A d \in Cells, u \in Tickets : Licensed(d, u)' <=> Licensed(d, u)) => UNCHANGED LiveOf
  <2> SUFFICES ASSUME \A d \in Cells, u \in Tickets : Licensed(d, u)' <=> Licensed(d, u)
               PROVE  LiveOf' = LiveOf
    OBVIOUS
  <2>1. ASSUME NEW a \in Keys PROVE Licensed(a[1], a[2])' = Licensed(a[1], a[2])
    BY KeyFields, LicensedIsBoolean
  <2> QED BY <2>1 DEF LiveOf
<1>4. (\A d \in Cells, u \in Tickets : SameRuling(d, u)) => UNCHANGED RuledOf
  BY KeyFields DEF RuledOf, SameRuling
<1> QED BY <1>1, <1>2, <1>3, <1>4

LEMMA MovesRefine ==
  ASSUME NEW c \in Cells, NEW t \in Tickets, Moves(c, t), OthersStay(c, t)
  PROVE  Lifecycle!Next
<1> DEFINE a == <<c, t>>
<1>1. a \in Keys /\ StateOf[a] = resv[c][t].state /\ OrdersOf[a] = placed[c][t] /\ LiveOf[a] = Licensed(c, t)
  BY KeyFields DEF StateOf, OrdersOf, LiveOf
<1>2. \A d \in Cells, u \in Tickets : <<d, u>> # <<c, t>> =>
        /\ resv'[d][u].state = resv[d][u].state /\ placed'[d][u] = placed[d][u]
        /\ Licensed(d, u)' <=> Licensed(d, u)
        /\ SameRuling(d, u)
  BY DEF OthersStay, Stays
<1>3. resv'[c][t].state = resv[c][t].state => UNCHANGED StateOf
  <2> SUFFICES ASSUME resv'[c][t].state = resv[c][t].state PROVE UNCHANGED StateOf
    OBVIOUS
  <2>1. \A d \in Cells, u \in Tickets : resv'[d][u].state = resv[d][u].state
    BY <1>2
  <2> QED BY <2>1, NoneAfter
<1>4. placed'[c][t] = placed[c][t] => UNCHANGED OrdersOf
  <2> SUFFICES ASSUME placed'[c][t] = placed[c][t] PROVE UNCHANGED OrdersOf
    OBVIOUS
  <2>1. \A d \in Cells, u \in Tickets : placed'[d][u] = placed[d][u]
    BY <1>2
  <2> QED BY <2>1, NoneAfter
<1>5. (Licensed(c, t)' <=> Licensed(c, t)) => UNCHANGED LiveOf
  <2> SUFFICES ASSUME Licensed(c, t)' <=> Licensed(c, t) PROVE UNCHANGED LiveOf
    OBVIOUS
  <2>1. \A d \in Cells, u \in Tickets : Licensed(d, u)' <=> Licensed(d, u)
    BY <1>2
  <2> QED BY <2>1, NoneAfter
<1>6. StateOf' = [StateOf EXCEPT ![a] = resv'[c][t].state]
  BY <1>2, StateAfter
<1>7. OrdersOf' = [OrdersOf EXCEPT ![a] = placed'[c][t]]
  BY <1>2, OrdersAfter
<1>8. /\ Licensed(c, t)' => LiveOf' = [LiveOf EXCEPT ![a] = TRUE]
      /\ ~Licensed(c, t)' => LiveOf' = [LiveOf EXCEPT ![a] = FALSE]
  BY Zenon, <1>2, LiveAfter
<1>15. SameRuling(c, t) => UNCHANGED RuledOf
  <2> SUFFICES ASSUME SameRuling(c, t) PROVE UNCHANGED RuledOf
    OBVIOUS
  <2>1. \A d \in Cells, u \in Tickets : SameRuling(d, u)
    BY <1>2
  <2> QED BY <2>1, NoneAfter
<1>16. RuledOf' = [RuledOf EXCEPT ![a] = resv'[c][t].resolved]
  BY <1>2, RuledAfter
<1> HIDE DEF a
<1>9. CASE IsOffered(c, t)
  <2>1. Lifecycle!Offer(a)
    BY <1>1, <1>4, <1>5, <1>6, <1>9, <1>15 DEF IsOffered, Lifecycle!Offer, StateOf, OrdersOf, LiveOf,
       RuledOf
  <2> QED BY <1>1, <2>1 DEF Lifecycle!Next
<1>10. CASE IsTaken(c, t)
  <2>1. Lifecycle!Take(a)
    BY <1>1, <1>4, <1>6, <1>8, <1>10, <1>15 DEF IsTaken, Lifecycle!Take, StateOf, OrdersOf, LiveOf,
       RuledOf
  <2> QED BY <1>1, <2>1 DEF Lifecycle!Next
<1>11. CASE IsPerformed(c, t)
  <2>1. Lifecycle!Perform(a)
    BY Zenon, <1>1, <1>3, <1>7, <1>8, <1>11, <1>15 DEF IsPerformed, Lifecycle!Perform, StateOf,
       OrdersOf, LiveOf, RuledOf
  <2> QED BY <1>1, <2>1 DEF Lifecycle!Next
<1>12. CASE IsGivenUp(c, t)
  <2>1. Lifecycle!GiveUp(a)
    BY Zenon, <1>1, <1>3, <1>4, <1>8, <1>12, <1>15 DEF IsGivenUp, Lifecycle!GiveUp, StateOf, OrdersOf, LiveOf,
       RuledOf
  <2> QED BY <1>1, <2>1 DEF Lifecycle!Next
<1>13. CASE IsReported(c, t)
  <2>1. Lifecycle!Report(a)
    BY <1>1, <1>4, <1>5, <1>6, <1>13, <1>15 DEF IsReported, Lifecycle!Report, StateOf, OrdersOf, LiveOf,
       RuledOf
  <2> QED BY <1>1, <2>1 DEF Lifecycle!Next
<1>14. CASE IsClosed(c, t)
  <2>1. Lifecycle!Settle(a)
    BY Zenon, <1>1, <1>4, <1>5, <1>6, <1>14, <1>15 DEF IsClosed, Lifecycle!Settle, StateOf, OrdersOf, LiveOf,
       RuledOf
  <2> QED BY <1>1, <2>1 DEF Lifecycle!Next
<1>17. CASE IsRuled(c, t)
  <2>1. Lifecycle!Rule(a)
    BY Zenon, <1>1, <1>4, <1>5, <1>6, <1>16, <1>17 DEF IsRuled, Lifecycle!Rule, StateOf, OrdersOf, LiveOf,
       RuledOf
  <2> QED BY <1>1, <2>1 DEF Lifecycle!Next
<1> QED BY <1>9, <1>10, <1>11, <1>12, <1>13, <1>14, <1>17 DEF Moves

LEMMA InitRefines == Init => Lifecycle!Init
<1> SUFFICES ASSUME Init PROVE Lifecycle!Init
  OBVIOUS
<1>1. \A a \in Keys : a[1] \in Cells /\ a[2] \in Tickets
  BY KeyFields
<1>2. StateOf = [a \in Keys |-> "none"]
  BY <1>1 DEF Init, NoResv, StateOf
<1>3. OrdersOf = [a \in Keys |-> 0]
  BY <1>1 DEF Init, OrdersOf
<1>4. LiveOf = [a \in Keys |-> FALSE]
  <2>1. ASSUME NEW a \in Keys PROVE Licensed(a[1], a[2]) = FALSE
    BY DEF Init, Licensed, ProcLicensed, ConnLicensed, IdleProc, IdleConn
  <2> QED BY Zenon, <2>1 DEF LiveOf
<1>5. RuledOf = [a \in Keys |-> FALSE]
  BY <1>1 DEF Init, NoResv, RuledOf
<1> QED BY Zenon, <1>2, <1>3, <1>4, <1>5 DEF Lifecycle!Init, StateOf, OrdersOf, LiveOf, RuledOf

LEMMA KeyStepRefines ==
  ASSUME KeyStep
  PROVE  [Lifecycle!Next]_(Lifecycle!vars)
<1>1. CASE \A c \in Cells, t \in Tickets : Stays(c, t)
  <2>1. UNCHANGED <<StateOf, OrdersOf, LiveOf, RuledOf>>
    BY <1>1, NoneAfter DEF Stays
  <2> QED BY <2>1 DEF Lifecycle!vars, StateOf, OrdersOf, LiveOf, RuledOf
<1>2. CASE \E c \in Cells, t \in Tickets : Moves(c, t) /\ OthersStay(c, t)
  BY <1>2, MovesRefine
<1> QED BY <1>1, <1>2 DEF KeyStep

(* Where no expiry sweep runs, the protocol implements the lifecycle of a            *)
(* reservation: every step of every actor moves at most one key, and moves it  *)
(* as EffectLifecycle allows: Mark and Report, which act on what they read some *)
(* steps before, never close or report what somebody may still perform, and    *)
(* only a ruling (ResolveMark) closes an action otherwise.                    *)
THEOREM LifecycleImplemented == ASSUME Sweepers = {} PROVE Spec => ImplementsLifecycle
<1>1. TypeOK /\ OrderInv /\ KnowledgeInv /\ [Next]_vars => [Lifecycle!Next]_(Lifecycle!vars)
  BY StepMoves, KeyStepRefines
<1> QED BY <1>1, InitRefines, EffectInvariant, PTL DEF Spec, ImplementsLifecycle, Lifecycle!Spec

--------------------------------------------------------------------------------
(* EffectMoney. *)

(* What the moves of a hold leave of what was spent. *)
LEMMA SpentTyped ==
  ASSUME NEW l \in Lease, NEW d \in Dimensions
  PROVE  Spent(l, d) \in Nat /\ Reserved(l, d) \in Nat
BY DEF Lease, Spent, Reserved

LEMMA HoldSpends ==
  ASSUME NEW l \in Lease, NEW a \in Nat, NEW u \in Nat, NEW d \in Dimensions
  PROVE  Spent(Hold(l, a, u), d) = Spent(l, d)
BY DEF Lease, Spent, Hold

LEMMA ReleaseSpends ==
  ASSUME NEW l \in Lease, NEW a \in Nat, NEW u \in Nat, NEW d \in Dimensions
  PROVE  Spent(Release(l, a, u), d) = Spent(l, d)
BY DEF Lease, Spent, Release

LEMMA AllocationSpends ==
  ASSUME NEW l \in Lease, NEW a \in Nat, NEW d \in Dimensions
  PROVE  Spent([l EXCEPT !.amount = a], d) = Spent(l, d)
BY DEF Lease, Spent

LEMMA ChargeSpends ==
  ASSUME NEW l \in Lease, NEW a \in Nat, NEW u \in Nat, NEW d \in Dimensions
  PROVE  Spent(Charge(l, a, u), d) = Spent(l, d) + (IF d = "amount" THEN a ELSE u)
BY DEF Lease, Spent, Charge

LEMMA ConvertSpends ==
  ASSUME NEW l \in Lease, NEW a \in Nat, NEW b \in Nat, NEW u \in Nat, NEW v \in Nat,
         NEW d \in Dimensions, CanConvert(l, a, b, u, v)
  PROVE  Spent(Convert(l, a, b, u, v), d) = Spent(l, d) + (IF d = "amount" THEN b ELSE v)
<1> DEFINE r == Release(l, a, u)
<1>1. r \in Lease /\ Spent(r, d) = Spent(l, d)
  BY ReleaseTyped, ReleaseSpends DEF CanConvert
<1> HIDE DEF r
<1>2. Spent(Charge(r, b, v), d) = Spent(r, d) + (IF d = "amount" THEN b ELSE v)
  BY <1>1, ChargeSpends
<1> QED BY <1>1, <1>2 DEF Convert, r

LEMMA TakesTyped ==
  ASSUME NEW r \in Reservation, NEW cost \in Nat, NEW d \in Dimensions
  PROVE  Takes(r, cost, d) \in Nat
BY DEF Takes, Cost, Reservation

(* What has been recorded and paid are functions whose sums are defined.        *)
PaymentsOK ==
  \A c \in Cells, d \in Dimensions :
    /\ Recorded(c, d) \in [Tickets -> Nat] /\ Total(Recorded(c, d)) \in Nat
    /\ PaidByPasses(c, d) \in [Procs -> Nat] /\ Total(PaidByPasses(c, d)) \in Nat
    /\ PaidByRulings(c, d) \in [Principals -> Nat] /\ Total(PaidByRulings(c, d)) \in Nat
    /\ Spent(lease[c], d) \in Nat

LEMMA PaymentsTyped == TypeOK => PaymentsOK
<1> SUFFICES ASSUME TypeOK, NEW c \in Cells, NEW d \in Dimensions
             PROVE  /\ Recorded(c, d) \in [Tickets -> Nat] /\ Total(Recorded(c, d)) \in Nat
                    /\ PaidByPasses(c, d) \in [Procs -> Nat] /\ Total(PaidByPasses(c, d)) \in Nat
                    /\ PaidByRulings(c, d) \in [Principals -> Nat] /\ Total(PaidByRulings(c, d)) \in Nat
                    /\ Spent(lease[c], d) \in Nat
  BY DEF PaymentsOK
<1>1. \A t \in Tickets : RecordedFor(c, t, d) \in Nat
  BY WritesTyped, TakesTyped, ResvFields DEF RecordedFor
<1>2. \A p \in Procs : PassPaid(c, p, d) \in Nat
  BY ProcFields, TakesTyped DEF PassPaid
<1>3. \A j \in Principals : RulingPaid(c, j, d) \in Nat
  BY JudgeFields, TakesTyped DEF RulingPaid
<1>4. /\ Recorded(c, d) \in [Tickets -> Nat]
      /\ PaidByPasses(c, d) \in [Procs -> Nat]
      /\ PaidByRulings(c, d) \in [Principals -> Nat]
  BY <1>1, <1>2, <1>3 DEF Recorded, PaidByPasses, PaidByRulings
<1>5. Spent(lease[c], d) \in Nat
  BY SpentTyped DEF TypeOK
<1> QED BY <1>4, <1>5, TotalIsNat, FiniteAssumption

LEMMA PaymentsTypedNext == TypeOK' => PaymentsOK'
BY PaymentsTyped, PTL

--------------------------------------------------------------------------------
(* A step is quiet about money when no lease records less, no reservation becomes *)
(* settled, nobody newly pays, and nobody learns of a cost without a report.    *)
QuietMoney ==
  /\ \A c \in Cells, d \in Dimensions : Spent(lease[c], d) <= Spent(lease'[c], d)
  /\ \A c \in Cells, t \in Tickets :
       \/ resv'[c][t] = resv[c][t]
       \/ resv'[c][t].state # "done" /\ Costless(resv'[c][t])
  /\ \A p \in Procs : proc'[p] = proc[p] \/ (~Paying(proc'[p]) /\ PassKnowsCost(proc'[p]))
  /\ \A j \in Principals : judge'[j] = judge[j] \/ ~Paying(judge'[j])
  /\ \A s \in Sweepers : sweep'[s] = sweep[s] \/ SweepKnowsCost(sweep'[s])

MoneyInv == PaidAhead /\ CostsAreReported

LEMMA QuietKeepsMoney ==
  ASSUME TypeOK, TypeOK', MoneyInv, QuietMoney
  PROVE  MoneyInv'
<1>1. CostsAreReported'
  BY DEF QuietMoney, MoneyInv, CostsAreReported
<1>2. ASSUME NEW c \in Cells, NEW d \in Dimensions
      PROVE  Total(Recorded(c, d))' + Total(PaidByPasses(c, d))' + Total(PaidByRulings(c, d))'
               <= Spent(lease[c], d)'
  <2>1. /\ Recorded(c, d) \in [Tickets -> Nat] /\ Recorded(c, d)' \in [Tickets -> Nat]
        /\ PaidByPasses(c, d) \in [Procs -> Nat] /\ PaidByPasses(c, d)' \in [Procs -> Nat]
        /\ PaidByRulings(c, d) \in [Principals -> Nat] /\ PaidByRulings(c, d)' \in [Principals -> Nat]
    BY PaymentsTyped, PaymentsTypedNext DEF PaymentsOK
  <2>2. \A t \in Tickets : Recorded(c, d)'[t] <= Recorded(c, d)[t]
    <3>1. ASSUME NEW t \in Tickets PROVE RecordedFor(c, t, d)' <= RecordedFor(c, t, d)
      <4>1. RecordedFor(c, t, d) \in Nat
        BY <2>1 DEF Recorded
      <4>2. RecordedFor(c, t, d)' = RecordedFor(c, t, d) \/ RecordedFor(c, t, d)' = 0
        BY DEF QuietMoney, RecordedFor
      <4> QED BY <4>1, <4>2
    <3> QED BY <3>1 DEF Recorded
  <2>3. \A p \in Procs : PaidByPasses(c, d)'[p] <= PaidByPasses(c, d)[p]
    <3>1. ASSUME NEW p \in Procs PROVE PassPaid(c, p, d)' <= PassPaid(c, p, d)
      <4>1. PassPaid(c, p, d) \in Nat
        BY <2>1 DEF PaidByPasses
      <4>2. PassPaid(c, p, d)' = PassPaid(c, p, d) \/ PassPaid(c, p, d)' = 0
        BY DEF QuietMoney, PassPaid
      <4> QED BY <4>1, <4>2
    <3> QED BY <3>1 DEF PaidByPasses
  <2>4. \A j \in Principals : PaidByRulings(c, d)'[j] <= PaidByRulings(c, d)[j]
    <3>1. ASSUME NEW j \in Principals PROVE RulingPaid(c, j, d)' <= RulingPaid(c, j, d)
      <4>1. RulingPaid(c, j, d) \in Nat
        BY <2>1 DEF PaidByRulings
      <4>2. RulingPaid(c, j, d)' = RulingPaid(c, j, d) \/ RulingPaid(c, j, d)' = 0
        BY DEF QuietMoney, RulingPaid
      <4> QED BY <4>1, <4>2
    <3> QED BY <3>1 DEF PaidByRulings
  <2>5. /\ Total(Recorded(c, d)') <= Total(Recorded(c, d))
        /\ Total(PaidByPasses(c, d)') <= Total(PaidByPasses(c, d))
        /\ Total(PaidByRulings(c, d)') <= Total(PaidByRulings(c, d))
    BY <2>1, <2>2, <2>3, <2>4, TotalIsMonotone, FiniteAssumption
  <2>6. Spent(lease[c], d) <= Spent(lease'[c], d)
    BY DEF QuietMoney
  <2>7. /\ Total(Recorded(c, d)) + Total(PaidByPasses(c, d)) + Total(PaidByRulings(c, d)) <= Spent(lease[c], d)
    BY DEF MoneyInv, PaidAhead
  <2>8. /\ Total(Recorded(c, d)) \in Nat /\ Total(PaidByPasses(c, d)) \in Nat /\ Total(PaidByRulings(c, d)) \in Nat
        /\ Total(Recorded(c, d))' \in Nat /\ Total(PaidByPasses(c, d))' \in Nat /\ Total(PaidByRulings(c, d))' \in Nat
        /\ Spent(lease[c], d) \in Nat /\ Spent(lease[c], d)' \in Nat
    BY PaymentsTyped, PaymentsTypedNext DEF PaymentsOK
  <2> QED BY <2>5, <2>6, <2>7, <2>8
<1>3. PaidAhead'
  BY <1>2 DEF PaidAhead
<1> QED BY <1>1, <1>3 DEF MoneyInv

--------------------------------------------------------------------------------
(* The four steps that pay or record: for one cell, what is recorded for one      *)
(* ticket and paid by one actor changes together with what its lease spent.     *)

LEMMA BalanceByPass ==
  ASSUME TypeOK, TypeOK', MoneyInv, NEW c \in Cells, NEW t \in Tickets, NEW p \in Procs, NEW d \in Dimensions,
         \A u \in Tickets \ {t} : RecordedFor(c, u, d)' = RecordedFor(c, u, d),
         \A q \in Procs \ {p} : PassPaid(c, q, d)' = PassPaid(c, q, d),
         \A j \in Principals : RulingPaid(c, j, d)' = RulingPaid(c, j, d),
         RecordedFor(c, t, d)' + PassPaid(c, p, d)' + Spent(lease[c], d)
           <= RecordedFor(c, t, d) + PassPaid(c, p, d) + Spent(lease[c], d)'
  PROVE  Total(Recorded(c, d))' + Total(PaidByPasses(c, d))' + Total(PaidByRulings(c, d))'
           <= Spent(lease[c], d)'
<1>1. /\ Recorded(c, d) \in [Tickets -> Nat] /\ Recorded(c, d)' \in [Tickets -> Nat]
      /\ PaidByPasses(c, d) \in [Procs -> Nat] /\ PaidByPasses(c, d)' \in [Procs -> Nat]
      /\ Total(Recorded(c, d)) \in Nat /\ Total(PaidByPasses(c, d)) \in Nat /\ Total(PaidByRulings(c, d)) \in Nat
      /\ Total(Recorded(c, d)') \in Nat /\ Total(PaidByPasses(c, d)') \in Nat
      /\ Spent(lease[c], d) \in Nat /\ Spent(lease[c], d)' \in Nat
  BY PaymentsTyped, PaymentsTypedNext DEF PaymentsOK
<1>2. /\ \A u \in Tickets : Recorded(c, d)[u] = RecordedFor(c, u, d) /\ Recorded(c, d)'[u] = RecordedFor(c, u, d)'
      /\ \A q \in Procs : PaidByPasses(c, d)[q] = PassPaid(c, q, d) /\ PaidByPasses(c, d)'[q] = PassPaid(c, q, d)'
  BY DEF Recorded, PaidByPasses
<1>3. PaidByRulings(c, d)' = PaidByRulings(c, d)
  BY DEF PaidByRulings
<1>4. Total(Recorded(c, d)') - RecordedFor(c, t, d)' = Total(Recorded(c, d)) - RecordedFor(c, t, d)
  BY <1>1, <1>2, TotalChangesByOne, FiniteAssumption
<1>5. Total(PaidByPasses(c, d)') - PassPaid(c, p, d)' = Total(PaidByPasses(c, d)) - PassPaid(c, p, d)
  BY <1>1, <1>2, TotalChangesByOne, FiniteAssumption
<1>6. /\ RecordedFor(c, t, d) \in Nat /\ RecordedFor(c, t, d)' \in Nat
      /\ PassPaid(c, p, d) \in Nat /\ PassPaid(c, p, d)' \in Nat
  BY <1>1, <1>2
<1>7. Total(Recorded(c, d)) + Total(PaidByPasses(c, d)) + Total(PaidByRulings(c, d)) <= Spent(lease[c], d)
  BY DEF MoneyInv, PaidAhead
<1>8. Total(PaidByRulings(c, d)') = Total(PaidByRulings(c, d))
  BY <1>3
<1> QED BY <1>1, <1>4, <1>5, <1>6, <1>7, <1>8

LEMMA BalanceByRuling ==
  ASSUME TypeOK, TypeOK', MoneyInv, NEW c \in Cells, NEW t \in Tickets, NEW j \in Principals, NEW d \in Dimensions,
         \A u \in Tickets \ {t} : RecordedFor(c, u, d)' = RecordedFor(c, u, d),
         \A p \in Procs : PassPaid(c, p, d)' = PassPaid(c, p, d),
         \A i \in Principals \ {j} : RulingPaid(c, i, d)' = RulingPaid(c, i, d),
         RecordedFor(c, t, d)' + RulingPaid(c, j, d)' + Spent(lease[c], d)
           <= RecordedFor(c, t, d) + RulingPaid(c, j, d) + Spent(lease[c], d)'
  PROVE  Total(Recorded(c, d))' + Total(PaidByPasses(c, d))' + Total(PaidByRulings(c, d))'
           <= Spent(lease[c], d)'
<1>1. /\ Recorded(c, d) \in [Tickets -> Nat] /\ Recorded(c, d)' \in [Tickets -> Nat]
      /\ PaidByRulings(c, d) \in [Principals -> Nat] /\ PaidByRulings(c, d)' \in [Principals -> Nat]
      /\ Total(Recorded(c, d)) \in Nat /\ Total(PaidByPasses(c, d)) \in Nat /\ Total(PaidByRulings(c, d)) \in Nat
      /\ Total(Recorded(c, d)') \in Nat /\ Total(PaidByRulings(c, d)') \in Nat
      /\ Spent(lease[c], d) \in Nat /\ Spent(lease[c], d)' \in Nat
  BY PaymentsTyped, PaymentsTypedNext DEF PaymentsOK
<1>2. /\ \A u \in Tickets : Recorded(c, d)[u] = RecordedFor(c, u, d) /\ Recorded(c, d)'[u] = RecordedFor(c, u, d)'
      /\ \A i \in Principals : /\ PaidByRulings(c, d)[i] = RulingPaid(c, i, d)
                               /\ PaidByRulings(c, d)'[i] = RulingPaid(c, i, d)'
  BY DEF Recorded, PaidByRulings
<1>3. PaidByPasses(c, d)' = PaidByPasses(c, d)
  BY DEF PaidByPasses
<1>4. Total(Recorded(c, d)') - RecordedFor(c, t, d)' = Total(Recorded(c, d)) - RecordedFor(c, t, d)
  BY <1>1, <1>2, TotalChangesByOne, FiniteAssumption
<1>5. Total(PaidByRulings(c, d)') - RulingPaid(c, j, d)' = Total(PaidByRulings(c, d)) - RulingPaid(c, j, d)
  BY <1>1, <1>2, TotalChangesByOne, FiniteAssumption
<1>6. /\ RecordedFor(c, t, d) \in Nat /\ RecordedFor(c, t, d)' \in Nat
      /\ RulingPaid(c, j, d) \in Nat /\ RulingPaid(c, j, d)' \in Nat
  BY <1>1, <1>2
<1>7. Total(Recorded(c, d)) + Total(PaidByPasses(c, d)) + Total(PaidByRulings(c, d)) <= Spent(lease[c], d)
  BY DEF MoneyInv, PaidAhead
<1>8. Total(PaidByPasses(c, d)') = Total(PaidByPasses(c, d))
  BY <1>3
<1> QED BY <1>1, <1>4, <1>5, <1>6, <1>7, <1>8

(* So a step that pays or records for ticket t of cell c, by one actor, keeps      *)
(* every lease ahead of the records, if it balances in that place.              *)
LEMMA PassKeepsPaid ==
  ASSUME TypeOK, TypeOK', MoneyInv, NEW c \in Cells, NEW t \in Tickets, NEW p \in Procs, CellOf[p] = c,
         UNCHANGED judge, \A q \in Procs \ {p} : proc'[q] = proc[q],
         \A e \in Cells, u \in Tickets : <<e, u>> # <<c, t>> => resv'[e][u] = resv[e][u],
         \A e \in Cells \ {c} : lease'[e] = lease[e],
         \A d \in Dimensions :
           RecordedFor(c, t, d)' + PassPaid(c, p, d)' + Spent(lease[c], d)
             <= RecordedFor(c, t, d) + PassPaid(c, p, d) + Spent(lease[c], d)'
  PROVE  PaidAhead'
<1> SUFFICES ASSUME NEW e \in Cells, NEW d \in Dimensions
             PROVE  Total(Recorded(e, d))' + Total(PaidByPasses(e, d))' + Total(PaidByRulings(e, d))'
                      <= Spent(lease[e], d)'
  BY DEF PaidAhead
<1>1. /\ \A u \in Tickets \ {t} : RecordedFor(e, u, d)' = RecordedFor(e, u, d)
      /\ \A q \in Procs \ {p} : PassPaid(e, q, d)' = PassPaid(e, q, d)
      /\ \A j \in Principals : RulingPaid(e, j, d)' = RulingPaid(e, j, d)
  BY DEF RecordedFor, PassPaid, RulingPaid
<1>2. RecordedFor(e, t, d)' + PassPaid(e, p, d)' + Spent(lease[e], d)
        <= RecordedFor(e, t, d) + PassPaid(e, p, d) + Spent(lease[e], d)'
  <2>1. CASE e = c
    BY <2>1
  <2>2. CASE e # c
    <3>1. /\ RecordedFor(e, t, d)' = RecordedFor(e, t, d)
          /\ PassPaid(e, p, d)' = 0 /\ PassPaid(e, p, d) = 0
          /\ Spent(lease[e], d)' = Spent(lease[e], d)
      BY <2>2 DEF RecordedFor, PassPaid
    <3>2. RecordedFor(e, t, d) \in Nat /\ Spent(lease[e], d) \in Nat
      <4>1. Recorded(e, d) \in [Tickets -> Nat] /\ Spent(lease[e], d) \in Nat
        BY PaymentsTyped DEF PaymentsOK
      <4> QED BY <4>1 DEF Recorded
    <3> QED BY <3>1, <3>2
  <2> QED BY <2>1, <2>2
<1> QED BY <1>1, <1>2, BalanceByPass

LEMMA RulingKeepsPaid ==
  ASSUME TypeOK, TypeOK', MoneyInv, NEW c \in Cells, NEW t \in Tickets, NEW j \in Principals,
         judge[j].cell = c, judge'[j].cell = c \/ ~Paying(judge'[j]),
         UNCHANGED proc, \A i \in Principals \ {j} : judge'[i] = judge[i],
         \A e \in Cells, u \in Tickets : <<e, u>> # <<c, t>> => resv'[e][u] = resv[e][u],
         \A e \in Cells \ {c} : lease'[e] = lease[e],
         \A d \in Dimensions :
           RecordedFor(c, t, d)' + RulingPaid(c, j, d)' + Spent(lease[c], d)
             <= RecordedFor(c, t, d) + RulingPaid(c, j, d) + Spent(lease[c], d)'
  PROVE  PaidAhead'
<1> SUFFICES ASSUME NEW e \in Cells, NEW d \in Dimensions
             PROVE  Total(Recorded(e, d))' + Total(PaidByPasses(e, d))' + Total(PaidByRulings(e, d))'
                      <= Spent(lease[e], d)'
  BY DEF PaidAhead
<1>1. /\ \A u \in Tickets \ {t} : RecordedFor(e, u, d)' = RecordedFor(e, u, d)
      /\ \A p \in Procs : PassPaid(e, p, d)' = PassPaid(e, p, d)
      /\ \A i \in Principals \ {j} : RulingPaid(e, i, d)' = RulingPaid(e, i, d)
  BY DEF RecordedFor, PassPaid, RulingPaid
<1>2. RecordedFor(e, t, d)' + RulingPaid(e, j, d)' + Spent(lease[e], d)
        <= RecordedFor(e, t, d) + RulingPaid(e, j, d) + Spent(lease[e], d)'
  <2>1. CASE e = c
    BY <2>1
  <2>2. CASE e # c
    <3>1. /\ RecordedFor(e, t, d)' = RecordedFor(e, t, d)
          /\ RulingPaid(e, j, d)' = 0 /\ RulingPaid(e, j, d) = 0
          /\ Spent(lease[e], d)' = Spent(lease[e], d)
      BY <2>2 DEF RecordedFor, RulingPaid
    <3>2. RecordedFor(e, t, d) \in Nat /\ Spent(lease[e], d) \in Nat
      <4>1. Recorded(e, d) \in [Tickets -> Nat] /\ Spent(lease[e], d) \in Nat
        BY PaymentsTyped DEF PaymentsOK
      <4> QED BY <4>1 DEF Recorded
    <3> QED BY <3>1, <3>2
  <2> QED BY <2>1, <2>2
<1> QED BY <1>1, <1>2, BalanceByRuling

--------------------------------------------------------------------------------
(* The quiet steps. *)

KeepsSpend == \A c \in Cells, d \in Dimensions : Spent(lease[c], d) <= Spent(lease'[c], d)
SettlesNothing ==
  \A c \in Cells, t \in Tickets :
    \/ resv'[c][t] = resv[c][t]
    \/ resv'[c][t].state # "done" /\ Costless(resv'[c][t])

LEMMA SameKeepsSpend ==
  ASSUME TypeOK, UNCHANGED lease
  PROVE  KeepsSpend
<1>1. \A c \in Cells, d \in Dimensions : Spent(lease[c], d) \in Nat
  BY PaymentsTyped DEF PaymentsOK
<1> QED BY <1>1 DEF KeepsSpend

LEMMA WriteKeepsSpend ==
  ASSUME TypeOK, NEW c \in Cells, NEW l, lease' = [lease EXCEPT ![c] = l],
         \A d \in Dimensions : Spent(lease[c], d) <= Spent(l, d)
  PROVE  KeepsSpend
<1>1. \A e \in Cells, d \in Dimensions : Spent(lease[e], d) \in Nat
  BY PaymentsTyped DEF PaymentsOK
<1>2. lease'[c] = l /\ \A e \in Cells \ {c} : lease'[e] = lease[e]
  BY DEF TypeOK
<1> QED BY <1>1, <1>2 DEF KeepsSpend

LEMMA SameSettlesNothing == UNCHANGED resv => SettlesNothing
BY DEF SettlesNothing

LEMMA WriteSettlesNothing ==
  ASSUME TypeOK, NEW c \in Cells, NEW t \in Tickets, NEW r, SetResv(c, t, r),
         r.state # "done", Costless(r)
  PROVE  SettlesNothing
BY WriteOne DEF SettlesNothing

(* Only p moves, to a step at which it neither acts nor settles. *)
Busy == {"execute", "settle", "mark"}
Away(p) == \A q \in Procs : IF q = p THEN proc'[q].step \notin Busy ELSE proc'[q] = proc[q]

LEMMA GoAway ==
  ASSUME TypeOK, NEW p \in Procs
  PROVE  /\ \A r : Become(p, r) /\ r.step \notin Busy => Away(p)
         /\ Stop(p) => Away(p)
         /\ \A step \in {"hold", "reserve", "unhold"} : Go(p, step) => Away(p)
<1>1. proc \in [Procs -> ProcState]
  BY DEF TypeOK
<1>2. \A r : Become(p, r) /\ r.step \notin Busy => Away(p)
  BY <1>1 DEF Become, Away
<1>3. Stop(p) => Away(p)
  BY <1>1 DEF Stop, Become, Away, IdleProc, Busy
<1>4. \A step \in {"hold", "reserve", "unhold"} : Go(p, step) => Away(p)
  BY <1>1 DEF Go, Become, Away, Busy, ProcState
<1> QED BY <1>2, <1>3, <1>4

LEMMA PassGoesAway ==
  ASSUME TypeOK, NEW p \in Procs,
         \/ Claim(p) \/ Authorize(p) \/ Look(p) \/ TakeHold(p) \/ ClaimKey(p) \/ Unhold(p)
         \/ Offer(p) \/ ExecuteUnknown(p) \/ Crash(p) \/ \E t \in Tickets : Evaluate(p, t)
  PROVE  Away(p) /\ UNCHANGED <<judge, sweep>>
<1>1. proc \in [Procs -> ProcState]
  BY DEF TypeOK
<1>2. ASSUME Claim(p) PROVE Away(p)
  <2>1. PICK l, e : Become(p, [proc[p] EXCEPT !.step = "authorize", !.lease = l, !.ceiling = e])
    BY Zenon, <1>2 DEF Claim
  <2> QED BY <1>1, <2>1 DEF Become, Away, Busy, ProcState
<1>3. ASSUME Authorize(p) PROVE Away(p)
  <2>1. CASE Stop(p)
    BY <2>1, GoAway
  <2>2. ASSUME NEW q \in Quotes,
               Become(p, [proc[p] EXCEPT !.step = "look", !.amount = q.amount, !.units = q.units])
        PROVE  Away(p)
    BY <1>1, <2>2 DEF Become, Away, Busy, ProcState
  <2> QED BY Zenon, <1>3, <2>1, <2>2 DEF Authorize
<1>4. ASSUME TakeHold(p) PROVE Away(p)
  <2>1. CASE Stop(p)
    BY <2>1, GoAway
  <2>2. ASSUME NEW l, Become(p, [proc[p] EXCEPT !.step = "reserve", !.lease = l])
        PROVE  Away(p)
    BY <1>1, <2>2 DEF Become, Away, Busy, ProcState
  <2> QED BY Zenon, <1>4, <2>1, <2>2 DEF TakeHold
<1>5. ASSUME ClaimKey(p) PROVE Away(p)
  <2>1. CASE Stop(p) \/ Go(p, "unhold")
    BY <2>1, GoAway
  <2>2. ASSUME NEW r, NEW step \in {"offer", "take"},
               Become(p, [proc[p] EXCEPT !.step = step, !.resv = r])
        PROVE  Away(p)
    BY <1>1, <2>2 DEF Become, Away, Busy, ProcState
  <2> QED BY Zenon, <1>5, <2>1, <2>2 DEF ClaimKey
<1>6. Look(p) => Away(p)
  BY GoAway DEF Look
<1>7. Unhold(p) \/ Offer(p) \/ ExecuteUnknown(p) \/ Crash(p) => Away(p)
  BY GoAway DEF Unhold, Offer, ExecuteUnknown, Crash
<1>8. ASSUME NEW t \in Tickets, Evaluate(p, t) PROVE Away(p)
  BY Zenon, <1>1, <1>8 DEF Evaluate, Become, Away, Busy, IdleProc
<1>9. UNCHANGED <<judge, sweep>>
  BY Zenon DEF Claim, Authorize, Look, TakeHold, ClaimKey, Unhold, Offer, ExecuteUnknown, Crash,
     Evaluate
<1> QED BY <1>2, <1>3, <1>4, <1>5, <1>6, <1>7, <1>8, <1>9

LEMMA AwayIsQuiet ==
  ASSUME NEW p \in Procs, Away(p), UNCHANGED <<judge, sweep>>, KeepsSpend, SettlesNothing
  PROVE  QuietMoney
<1>1. ~Paying(proc'[p]) /\ PassKnowsCost(proc'[p])
  BY DEF Away, Busy, Paying, PassKnowsCost
<1> QED BY <1>1 DEF Away, QuietMoney, KeepsSpend, SettlesNothing

LEMMA AwayKeepsMoney ==
  ASSUME TypeOK, MoneyInv, NEW p \in Procs,
         \/ Claim(p) \/ Authorize(p) \/ Look(p) \/ TakeHold(p) \/ ClaimKey(p) \/ Unhold(p)
         \/ Offer(p) \/ ExecuteUnknown(p) \/ Crash(p) \/ \E t \in Tickets : Evaluate(p, t)
  PROVE  QuietMoney
<1>1. Away(p) /\ UNCHANGED <<judge, sweep>>
  BY PassGoesAway
<1>2. KeepsSpend
  <2>1. CASE UNCHANGED lease
    BY <2>1, SameKeepsSpend
  <2>2. CASE TakeHold(p) /\ ~UNCHANGED lease
    <3> DEFINE held == Hold(proc[p].lease, proc[p].amount, proc[p].units)
    <3>2. CanHoldNow(p) /\ lease' = [lease EXCEPT ![CellOf[p]] = held]
      BY <2>2 DEF TakeHold
    <3>1. /\ CellOf[p] \in Cells /\ proc[p].lease = lease[CellOf[p]] /\ proc[p].lease \in Lease
          /\ proc[p].amount \in Nat /\ proc[p].units \in Nat
      BY <3>2, ProcFields DEF CanHoldNow, CanPublish
    <3>3. PICK c \in Cells, l \in Lease, a \in Nat, u \in Nat :
            /\ c = CellOf[p] /\ l = lease[c]
            /\ l = proc[p].lease /\ a = proc[p].amount /\ u = proc[p].units
      BY <3>1
    <3>4. lease' = [lease EXCEPT ![c] = Hold(l, a, u)]
      BY <3>2, <3>3
    <3>5. \A d \in Dimensions : Spent(lease[c], d) <= Spent(Hold(l, a, u), d)
      BY <3>3, HoldSpends, SpentTyped
    <3> QED BY Zenon, <3>4, <3>5, WriteKeepsSpend
  <2>3. CASE Unhold(p) /\ ~UNCHANGED lease
    <3> DEFINE back == Release(proc[p].lease, proc[p].amount, proc[p].units)
    <3>2. CanPublish(CellOf[p], proc[p].lease, back) /\ lease' = [lease EXCEPT ![CellOf[p]] = back]
      BY <2>3 DEF Unhold
    <3>1. /\ CellOf[p] \in Cells /\ proc[p].lease = lease[CellOf[p]] /\ proc[p].lease \in Lease
          /\ proc[p].amount \in Nat /\ proc[p].units \in Nat
      BY <3>2, ProcFields DEF CanPublish
    <3>3. PICK c \in Cells, l \in Lease, a \in Nat, u \in Nat :
            /\ c = CellOf[p] /\ l = lease[c]
            /\ l = proc[p].lease /\ a = proc[p].amount /\ u = proc[p].units
      BY <3>1
    <3>4. lease' = [lease EXCEPT ![c] = Release(l, a, u)]
      BY <3>2, <3>3
    <3>5. \A d \in Dimensions : Spent(lease[c], d) <= Spent(Release(l, a, u), d)
      BY <3>3, ReleaseSpends, SpentTyped
    <3> QED BY Zenon, <3>4, <3>5, WriteKeepsSpend
  <2> QED BY Zenon, <2>1, <2>2, <2>3
             DEF Claim, Authorize, Look, ClaimKey, Offer, ExecuteUnknown, Crash, Evaluate
<1>3. SettlesNothing
  <2>1. CASE UNCHANGED resv
    BY <2>1, SameSettlesNothing
  <2>2. CASE ClaimKey(p) /\ ~UNCHANGED resv
    <3> DEFINE r == Offered(proc[p].amount, proc[p].units)
    <3>1. CellOf[p] \in Cells /\ proc[p].task \in Tickets /\ SetResv(CellOf[p], proc[p].task, r)
      BY <2>2, ProcFields DEF ClaimKey
    <3>2. r.state # "done" /\ Costless(r)
      BY DEF Offered, NoResv, Costless
    <3> HIDE DEF r
    <3> QED BY <3>1, <3>2, WriteSettlesNothing
  <2>3. CASE Offer(p) /\ ~UNCHANGED resv
    <3> DEFINE r == [proc[p].resv EXCEPT !.posted = TRUE]
    <3>1. /\ CellOf[p] \in Cells /\ proc[p].task \in Tickets /\ SetResv(CellOf[p], proc[p].task, r)
          /\ proc[p].resv \in Reservation /\ proc[p].resv.state = "offered"
          /\ proc[p].resv = resv[CellOf[p]][proc[p].task]
      BY <2>3, ProcFields DEF Offer
    <3>2. Costless(proc[p].resv)
      BY <3>1 DEF MoneyInv, CostsAreReported
    <3>3. r.state # "done" /\ Costless(r)
      BY <3>1, <3>2 DEF Costless, Reservation
    <3> HIDE DEF r
    <3> QED BY <3>1, <3>3, WriteSettlesNothing
  <2> QED BY Zenon, <2>1, <2>2, <2>3
             DEF Claim, Authorize, Look, TakeHold, Unhold, ExecuteUnknown, Crash, Evaluate
<1> QED BY <1>1, <1>2, <1>3, AwayIsQuiet

(* A process that goes on to act or to settle knows of no cost nobody reported.   *)
LEMMA PassIsQuiet ==
  ASSUME TypeOK, NEW p \in Procs, NEW s, Become(p, s), ~Paying(s), PassKnowsCost(s),
         UNCHANGED <<judge, sweep>>, KeepsSpend, SettlesNothing
  PROVE  QuietMoney
<1>1. \A q \in Procs : proc'[q] = IF q = p THEN s ELSE proc[q]
  BY DEF TypeOK, Become
<1> QED BY <1>1 DEF QuietMoney, KeepsSpend, SettlesNothing

LEMMA TakeSelfQuiet ==
  ASSUME TypeOK, MoneyInv, NEW p \in Procs, TakeSelf(p)
  PROVE  QuietMoney
<1>1. PICK c \in Cells, t \in Tickets : c = CellOf[p] /\ t = proc[p].task
  BY ProcFields DEF TakeSelf
<1>2. KeepsSpend /\ UNCHANGED <<judge, sweep>>
  BY SameKeepsSpend DEF TakeSelf
<1>3. CASE ~Takeable(resv[c][t])
  <2>1. Stop(p) /\ UNCHANGED resv
    BY <1>1, <1>3 DEF TakeSelf
  <2> QED BY <1>2, <2>1, GoAway, SameSettlesNothing, AwayIsQuiet
<1>4. CASE Takeable(resv[c][t])
  <2> DEFINE r == Taken(resv[c][t], c)
             s == [proc[p] EXCEPT !.step = "execute", !.resv = r]
  <2>1. SetResv(c, t, r) /\ Become(p, s)
    BY <1>1, <1>4 DEF TakeSelf
  <2>2. resv[c][t] \in Reservation /\ resv[c][t].state = "offered" /\ Costless(resv[c][t])
    BY <1>4, WritesTyped DEF Takeable, MoneyInv, CostsAreReported
  <2>3. r.state = "pending" /\ r.actual = 0 /\ ~r.resolved
    BY <2>2 DEF Taken, Costless, Reservation
  <2> HIDE DEF r
  <2>4. s.step = "execute" /\ s.resv = r
    BY ProcFields DEF ProcState
  <2>5. ~Paying(s) /\ PassKnowsCost(s)
    BY <2>3, <2>4 DEF Paying, PassKnowsCost, Costless
  <2>6. SettlesNothing
    BY <2>1, <2>3, WriteSettlesNothing DEF Costless
  <2> HIDE DEF s
  <2> QED BY <1>2, <2>1, <2>5, <2>6, PassIsQuiet
<1> QED BY <1>3, <1>4

LEMMA ExecuteQuiet ==
  ASSUME TypeOK, MoneyInv, NEW p \in Procs, ExecuteDone(p) \/ ExecuteRejected(p)
  PROVE  QuietMoney
<1>1. KeepsSpend /\ SettlesNothing /\ UNCHANGED <<judge, sweep>> /\ proc[p].step = "execute"
  BY Zenon, SameKeepsSpend, SameSettlesNothing DEF ExecuteDone, ExecuteRejected
<1>2. PICK yes, cost :
        Become(p, [proc[p] EXCEPT !.step = "settle", !.happened = yes, !.actual = cost])
  <2>1. CASE ExecuteDone(p)
    BY Zenon, <2>1 DEF ExecuteDone
  <2>2. CASE ExecuteRejected(p)
    <3>1. proc[p] \in ProcState
      BY ProcFields
    <3>2. [proc[p] EXCEPT !.step = "settle", !.happened = FALSE]
            = [proc[p] EXCEPT !.step = "settle", !.happened = FALSE, !.actual = proc[p].actual]
      BY Zenon, <3>1 DEF ProcState
    <3> QED BY Zenon, <2>2, <3>2 DEF ExecuteRejected
  <2> QED BY Zenon, <2>1, <2>2
<1> DEFINE s == [proc[p] EXCEPT !.step = "settle", !.happened = yes, !.actual = cost]
<1>3. s.step = "settle" /\ s.resv = proc[p].resv /\ s.actual = cost
  BY ProcFields DEF ProcState
<1>4. proc[p].resv.state = "pending" /\ proc[p].resv.actual = 0 /\ ~proc[p].resv.resolved
  BY <1>1 DEF MoneyInv, CostsAreReported, PassKnowsCost, Costless
<1>5. ~Paying(s) /\ PassKnowsCost(s)
  BY <1>3, <1>4 DEF Paying, PassKnowsCost, Costless
<1> HIDE DEF s
<1> QED BY <1>1, <1>2, <1>5, PassIsQuiet DEF s

LEMMA LoadReportQuiet ==
  ASSUME TypeOK, MoneyInv, NEW p \in Procs, NEW t \in Tickets, LoadReport(p, t)
  PROVE  QuietMoney
<1>1. PICK c \in Cells : c = CellOf[p]
  BY ProcFields
<1> DEFINE r == resv[c][t]
           s == [IdleProc EXCEPT !.step = "settle", !.task = t, !.lease = lease[c],
                                 !.resv = r, !.happened = r.happened, !.actual = r.actual]
<1>2. /\ KeepsSpend /\ SettlesNothing /\ UNCHANGED <<judge, sweep>>
      /\ r.state = "reported" /\ Become(p, s)
  BY <1>1, SameKeepsSpend, SameSettlesNothing DEF LoadReport
<1>5. Costless(r)
  BY DEF MoneyInv, CostsAreReported
<1> HIDE DEF r
<1>3. s.step = "settle" /\ s.resv = r /\ s.actual = r.actual
  BY DEF IdleProc
<1>4. ~Paying(s) /\ PassKnowsCost(s)
  BY <1>2, <1>3, <1>5 DEF Paying, PassKnowsCost, Costless
<1> HIDE DEF s
<1> QED BY <1>2, <1>4, PassIsQuiet

(* The lease write of a settlement: nothing that is not a payment spends.          *)
LEMMA SettleLeaseKeepsMoney ==
  ASSUME TypeOK, TypeOK', MoneyInv, NEW p \in Procs, SettleLease(p)
  PROVE  MoneyInv'
<1>1. PICK c \in Cells, t \in Tickets, l \in Lease, r \in Reservation, a \in Nat :
        c = CellOf[p] /\ t = proc[p].task /\ l = proc[p].lease /\ r = proc[p].resv /\ a = proc[p].actual
  BY ProcFields DEF SettleLease
<1>2. /\ proc[p].step = "settle" /\ UNCHANGED <<resv, judge, sweep>>
      /\ SettlesNothing
  BY SameSettlesNothing DEF SettleLease
<1>3. r.amount \in Nat /\ r.units \in Nat /\ Cost(r, a) \in Nat
  BY Zenon, <1>1, ResvFields, ReservationsTyped
<1> DEFINE s == [proc[p] EXCEPT !.step = "mark"]
<1>4. /\ s.step = "mark" /\ s.task = t /\ s.resv = r /\ s.actual = a /\ s.happened = proc[p].happened
  BY <1>1, ProcFields DEF ProcState
<1>5. PassKnowsCost(s)
  BY <1>1, <1>2, <1>4 DEF MoneyInv, CostsAreReported, PassKnowsCost
<1>6. CASE Stop(p) /\ UNCHANGED lease
  BY <1>2, <1>6, GoAway, SameKeepsSpend, AwayIsQuiet, QuietKeepsMoney
<1>7. CASE ~Priced(t) /\ Become(p, s) /\ UNCHANGED lease
  <2>1. ~Paying(s)
    BY <1>4, <1>7 DEF Paying
  <2> HIDE DEF s
  <2> QED BY <1>2, <1>5, <1>7, <2>1, SameKeepsSpend, PassIsQuiet, QuietKeepsMoney
<1>8. CASE ~proc[p].happened /\ Become(p, s) /\ UNCHANGED lease
  <2>1. ~Paying(s)
    BY <1>4, <1>8 DEF Paying
  <2> HIDE DEF s
  <2> QED BY <1>2, <1>5, <1>8, <2>1, SameKeepsSpend, PassIsQuiet, QuietKeepsMoney
<1>9. CASE /\ ~proc[p].happened /\ Become(p, s)
           /\ CanPublish(c, l, Release(l, r.amount, r.units))
           /\ lease' = [lease EXCEPT ![c] = Release(l, r.amount, r.units)]
  <2>1. ~Paying(s)
    BY <1>4, <1>9 DEF Paying
  <2>2. lease[c] = l
    BY <1>9 DEF CanPublish
  <2>3. \A d \in Dimensions : Spent(lease[c], d) <= Spent(Release(l, r.amount, r.units), d)
    BY <1>3, <2>2, ReleaseSpends, SpentTyped
  <2>4. KeepsSpend
    BY Zenon, <1>9, <2>3, WriteKeepsSpend
  <2> HIDE DEF s
  <2> QED BY <1>2, <1>5, <1>9, <2>1, <2>4, PassIsQuiet, QuietKeepsMoney
<1>10. CASE /\ Priced(t) /\ proc[p].happened /\ Become(p, s)
            /\ CanConvert(l, r.amount, Cost(r, a), r.units, r.units)
            /\ CanPublish(c, l, Convert(l, r.amount, Cost(r, a), r.units, r.units))
            /\ lease' = [lease EXCEPT ![c] = Convert(l, r.amount, Cost(r, a), r.units, r.units)]
  <2> DEFINE paid == Convert(l, r.amount, Cost(r, a), r.units, r.units)
  <2>1. lease[c] = l
    BY <1>10 DEF CanPublish
  <2>2. \A d \in Dimensions : Spent(paid, d) = Spent(l, d) + Takes(r, a, d)
    BY <1>3, <1>10, ConvertSpends DEF Takes
  <2>3. lease' = [lease EXCEPT ![c] = paid]
    BY <1>10
  <2> HIDE DEF paid
  <2>4. lease'[c] = paid /\ \A e \in Cells \ {c} : lease'[e] = lease[e]
    BY <2>3 DEF TypeOK
  <2>5. proc'[p] = s /\ \A q \in Procs \ {p} : proc'[q] = proc[q]
    BY <1>10 DEF Become, TypeOK
  <2> HIDE DEF s
  <2>6. ASSUME NEW d \in Dimensions
        PROVE  RecordedFor(c, t, d)' + PassPaid(c, p, d)' + Spent(lease[c], d)
                 <= RecordedFor(c, t, d) + PassPaid(c, p, d) + Spent(lease[c], d)'
    <3>1. PassPaid(c, p, d) = 0
      BY <1>2 DEF PassPaid, Paying
    <3>2. PassPaid(c, p, d)' = Takes(r, a, d)
      BY Zenon, <1>1, <1>4, <1>10, <2>5 DEF PassPaid, Paying
    <3>3. RecordedFor(c, t, d)' = RecordedFor(c, t, d)
      BY <1>2 DEF RecordedFor
    <3>4. RecordedFor(c, t, d) \in Nat
      <4>1. Recorded(c, d) \in [Tickets -> Nat]
        BY PaymentsTyped DEF PaymentsOK
      <4> QED BY <4>1 DEF Recorded
    <3>5. Takes(r, a, d) \in Nat /\ Spent(l, d) \in Nat
      BY TakesTyped, SpentTyped
    <3> QED BY <2>1, <2>2, <2>4, <3>1, <3>2, <3>3, <3>4, <3>5
  <2>7. PaidAhead'
    BY <1>1, <1>2, <2>4, <2>5, <2>6, PassKeepsPaid
  <2>8. CostsAreReported'
    BY <1>2, <1>5, <2>5 DEF MoneyInv, CostsAreReported
  <2> QED BY <2>7, <2>8 DEF MoneyInv
<1> QED
  <2>1. Become(p, s) <=> Go(p, "mark")
    BY DEF Go
  <2> HIDE DEF s
  <2> QED BY <1>1, <1>6, <1>7, <1>8, <1>9, <1>10, <2>1 DEF SettleLease

(* The record of a settlement says what the lease paid.                           *)
LEMMA SettledCosts ==
  ASSUME NEW r \in Reservation, NEW a \in Nat, NEW d \in Dimensions, r.actual \in {0, a}
  PROVE  /\ Settled(r, a).state = "done" /\ Settled(r, a).resolved = r.resolved
         /\ Takes(Settled(r, a), Settled(r, a).actual, d) = Takes(r, a, d)
BY DEF Reservation, Settled, Takes, Cost

LEMMA MarkKeepsMoney ==
  ASSUME TypeOK, TypeOK', MoneyInv, NEW p \in Procs, Mark(p)
  PROVE  MoneyInv'
<1>1. PICK c \in Cells, t \in Tickets, r \in Reservation, a \in Nat :
        c = CellOf[p] /\ t = proc[p].task /\ r = proc[p].resv /\ a = proc[p].actual
  BY ProcFields DEF Mark
<1>2. Stop(p) /\ Away(p) /\ UNCHANGED <<lease, judge, sweep>> /\ KeepsSpend /\ proc[p].step = "mark"
  BY GoAway, SameKeepsSpend DEF Mark
<1>3. CASE UNCHANGED resv
  BY <1>2, <1>3, SameSettlesNothing, AwayIsQuiet, QuietKeepsMoney
<1>4. CASE ~proc[p].happened /\ SetResv(c, t, Refused(r, t))
  <2>1. Refused(r, t).state = "failed"
    BY DEF Refused, Reservation
  <2>2. SettlesNothing
    BY <1>4, <2>1, WriteSettlesNothing DEF Costless
  <2> QED BY <1>2, <2>2, AwayIsQuiet, QuietKeepsMoney
<1>5. CASE proc[p].happened /\ resv[c][t] = r /\ SetResv(c, t, Settled(r, a))
  <2>1. r.actual \in {0, a} /\ r.state \in {"pending", "reported"} /\ ~r.resolved
    BY <1>1, <1>2 DEF MoneyInv, CostsAreReported, PassKnowsCost, Costless
  <2>2. /\ resv'[c][t] = Settled(r, a)
        /\ \A e \in Cells, u \in Tickets : <<e, u>> # <<c, t>> => resv'[e][u] = resv[e][u]
    BY <1>5, WriteOne
  <2>3. /\ proc'[p].step \notin Busy /\ \A q \in Procs \ {p} : proc'[q] = proc[q]
    BY <1>2 DEF Away
  <2>4. ASSUME NEW d \in Dimensions
        PROVE  RecordedFor(c, t, d)' + PassPaid(c, p, d)' + Spent(lease[c], d)
                 <= RecordedFor(c, t, d) + PassPaid(c, p, d) + Spent(lease[c], d)'
    <3>1. RecordedFor(c, t, d) = 0
      BY <1>5, <2>1 DEF RecordedFor
    <3>2. RecordedFor(c, t, d)' = IF Priced(t) THEN Takes(r, a, d) ELSE 0
      BY <2>1, <2>2, SettledCosts DEF RecordedFor
    <3>3. PassPaid(c, p, d) = IF Priced(t) THEN Takes(r, a, d) ELSE 0
      BY <1>1, <1>2, <1>5 DEF PassPaid, Paying
    <3>4. PassPaid(c, p, d)' = 0
      BY <2>3 DEF PassPaid, Paying, Busy
    <3>5. Spent(lease[c], d)' = Spent(lease[c], d) /\ Spent(lease[c], d) \in Nat
      BY <1>2, PaymentsTyped DEF PaymentsOK
    <3>6. Takes(r, a, d) \in Nat
      BY TakesTyped
    <3> QED BY <3>1, <3>2, <3>3, <3>4, <3>5, <3>6
  <2>5. PaidAhead'
    BY <1>1, <1>2, <2>2, <2>3, <2>4, PassKeepsPaid
  <2>6. CostsAreReported'
    <3>1. Settled(r, a).state = "done"
      BY <2>1, SettledCosts DEF Dimensions
    <3>2. Costless(resv'[c][t])
      BY <2>2, <3>1 DEF Costless
    <3>3. \A e \in Cells, u \in Tickets : Costless(resv'[e][u])
      BY <2>2, <3>2 DEF MoneyInv, CostsAreReported
    <3>4. \A q \in Procs : PassKnowsCost(proc'[q])
      BY <2>3 DEF MoneyInv, CostsAreReported, PassKnowsCost, Busy
    <3> QED BY <1>2, <3>3, <3>4 DEF MoneyInv, CostsAreReported
  <2> QED BY <2>5, <2>6 DEF MoneyInv
<1> QED BY <1>1, <1>3, <1>4, <1>5 DEF Mark

--------------------------------------------------------------------------------
(* Connectors, principals, sweeps and the overseer. *)

LEMMA ConnQuiet ==
  ASSUME TypeOK, MoneyInv, NEW k \in Connectors,
         ConnStep(k) \/ ConnCrash(k) \/ \E c \in Cells, t \in Tickets : Take(k, c, t)
  PROVE  QuietMoney
<1>1. KeepsSpend /\ UNCHANGED <<proc, judge, sweep>>
  BY Zenon, SameKeepsSpend DEF ConnStep, ActDone, ActRefused, ActUnknown, Report, ConnCrash, Take
<1>2. SettlesNothing
  <2>1. CASE UNCHANGED resv
    BY <2>1, SameSettlesNothing
  <2>2. ASSUME NEW c \in Cells, NEW t \in Tickets, Take(k, c, t)
        PROVE  SettlesNothing
    <3>1. resv[c][t] \in Reservation /\ resv[c][t].state = "offered" /\ Costless(resv[c][t])
      BY Zenon, <2>2, WritesTyped DEF Take, Takeable, MoneyInv, CostsAreReported
    <3>2. /\ Taken(resv[c][t], k).state = "pending" /\ Taken(resv[c][t], k).actual = 0
          /\ ~Taken(resv[c][t], k).resolved
      BY <3>1 DEF Taken, Costless, Reservation
    <3>3. SetResv(c, t, Taken(resv[c][t], k))
      BY Zenon, <2>2 DEF Take
    <3> QED BY <3>2, <3>3, WriteSettlesNothing DEF Costless
  <2>3. CASE Report(k) /\ ~UNCHANGED resv
    <3>1. PICK c \in Cells, t \in Tickets : c = conn[k].cell /\ t = conn[k].task
      BY <2>3, ConnFields DEF Report
    <3> DEFINE r == Reported(resv[c][t], conn[k].happened, conn[k].actual)
    <3>2. SetResv(c, t, r)
      BY <2>3, <3>1 DEF Report
    <3>3. resv[c][t] \in Reservation /\ ~resv[c][t].resolved
      BY <2>3, <3>1, WritesTyped DEF Report, MoneyInv, CostsAreReported, Costless
    <3>4. r.state = "reported" /\ ~r.resolved
      BY <3>3 DEF Reported, Reservation
    <3> HIDE DEF r
    <3> QED BY <3>2, <3>4, WriteSettlesNothing DEF Costless
  <2> QED BY Zenon, <2>1, <2>2, <2>3 DEF ConnStep, ActDone, ActRefused, ActUnknown, ConnCrash
<1> QED BY <1>1, <1>2 DEF QuietMoney, KeepsSpend, SettlesNothing

LEMMA JudgeIsQuiet ==
  ASSUME TypeOK, NEW j \in Principals, NEW s, JudgeBecome(j, s), ~Paying(s),
         UNCHANGED <<proc, sweep>>, KeepsSpend, SettlesNothing
  PROVE  QuietMoney
<1>1. \A i \in Principals : judge'[i] = IF i = j THEN s ELSE judge[i]
  BY DEF TypeOK, JudgeBecome
<1> QED BY <1>1 DEF QuietMoney, KeepsSpend, SettlesNothing

(* A principal that looks and loads pays nothing.                                 *)
LEMMA LookingQuiet ==
  ASSUME TypeOK, MoneyInv, NEW j \in Principals,
         LookUp(j) \/ LoadClaim(j) \/ \E c \in Cells, t \in Tickets : Pending(j, c, t)
  PROVE  QuietMoney
<1>1. KeepsSpend /\ SettlesNothing /\ UNCHANGED <<proc, sweep>>
  BY Zenon, SameKeepsSpend, SameSettlesNothing DEF LookUp, LoadClaim, Pending
<1>2. CASE LookUp(j)
  <2> DEFINE h == placed[judge[j].cell][judge[j].task] > 0
             s == [judge[j] EXCEPT !.step = "load", !.happened = h]
  <2>1. JudgeBecome(j, s)
    BY <1>2 DEF LookUp
  <2> HIDE DEF h
  <2>2. s.step = "load"
    BY JudgeFields DEF JudgeState
  <2> HIDE DEF s
  <2> QED BY <1>1, <2>1, <2>2, JudgeIsQuiet DEF Paying
<1>3. CASE LoadClaim(j)
  <2>1. PICK l, r : JudgeBecome(j, [judge[j] EXCEPT !.step = "lease", !.lease = l, !.resv = r])
    BY Zenon, <1>3 DEF LoadClaim
  <2> DEFINE s == [judge[j] EXCEPT !.step = "lease", !.lease = l, !.resv = r]
  <2>2. s.step = "lease" /\ JudgeBecome(j, s)
    BY <2>1, JudgeFields DEF JudgeState
  <2> HIDE DEF s
  <2> QED BY <1>1, <2>2, JudgeIsQuiet DEF Paying
<1>4. ASSUME NEW c \in Cells, NEW t \in Tickets, Pending(j, c, t)
      PROVE  QuietMoney
  <2> DEFINE s == [IdleJudge EXCEPT !.step = "look", !.cell = c, !.task = t]
  <2>1. s.step = "look" /\ JudgeBecome(j, s)
    BY Zenon, <1>4 DEF Pending, IdleJudge
  <2> HIDE DEF s
  <2> QED BY <1>1, <2>1, JudgeIsQuiet DEF Paying
<1> QED BY <1>2, <1>3, <1>4

LEMMA IdleJudgeQuiet == ~Paying(IdleJudge)
BY DEF IdleJudge, Paying

(* A principal's lease write: a late charge and a conversion are the payments.     *)
LEMMA ResolveLeaseKeepsMoney ==
  ASSUME TypeOK, TypeOK', MoneyInv, NEW j \in Principals, ResolveLease(j)
  PROVE  MoneyInv'
<1>1. PICK c \in Cells, t \in Tickets, l \in Lease, r \in Reservation :
        c = judge[j].cell /\ t = judge[j].task /\ l = judge[j].lease /\ r = judge[j].resv
  BY JudgeFields DEF ResolveLease
<1>2. judge[j].step = "lease" /\ UNCHANGED <<resv, proc, sweep>> /\ SettlesNothing
  BY SameSettlesNothing DEF ResolveLease
<1>3. r.amount \in Nat /\ r.units \in Nat
  BY ResvFields
<1> DEFINE s == [judge[j] EXCEPT !.step = "mark"]
<1>4. /\ s.step = "mark" /\ s.cell = c /\ s.task = t /\ s.resv = r /\ s.happened = judge[j].happened
  BY <1>1, JudgeFields DEF JudgeState
<1>7. CASE JudgeBecome(j, IdleJudge) /\ UNCHANGED lease
  BY <1>2, <1>7, IdleJudgeQuiet, JudgeIsQuiet, SameKeepsSpend, QuietKeepsMoney
<1>8. CASE (~Priced(t) \/ ~judge[j].happened) /\ JudgeBecome(j, s) /\ UNCHANGED lease
  <2>1. ~Paying(s)
    BY <1>4, <1>8 DEF Paying
  <2> HIDE DEF s
  <2> QED BY <1>2, <1>8, <2>1, SameKeepsSpend, JudgeIsQuiet, QuietKeepsMoney
<1>9. CASE /\ ~judge[j].happened /\ JudgeBecome(j, s) /\ lease[c] = l
           /\ lease' = [lease EXCEPT ![c] = Release(l, r.amount, r.units)]
  <2>1. ~Paying(s)
    BY <1>4, <1>9 DEF Paying
  <2>2. \A d \in Dimensions : Spent(lease[c], d) <= Spent(Release(l, r.amount, r.units), d)
    BY <1>3, <1>9, ReleaseSpends, SpentTyped
  <2>3. KeepsSpend
    BY Zenon, <1>9, <2>2, WriteKeepsSpend
  <2> HIDE DEF s
  <2> QED BY <1>2, <1>9, <2>1, <2>3, JudgeIsQuiet, QuietKeepsMoney
<1>10. ASSUME NEW paid, lease' = [lease EXCEPT ![c] = paid], lease[c] = l,
              \A d \in Dimensions : Spent(paid, d) = Spent(l, d) + Takes(r, 0, d),
              Priced(t), judge[j].happened, JudgeBecome(j, s)
       PROVE  MoneyInv'
  <2>1. lease'[c] = paid /\ \A e \in Cells \ {c} : lease'[e] = lease[e]
    BY <1>10 DEF TypeOK
  <2>2. judge'[j] = s /\ \A i \in Principals \ {j} : judge'[i] = judge[i]
    BY <1>10 DEF JudgeBecome, TypeOK
  <2> HIDE DEF s
  <2>3. ASSUME NEW d \in Dimensions
        PROVE  RecordedFor(c, t, d)' + RulingPaid(c, j, d)' + Spent(lease[c], d)
                 <= RecordedFor(c, t, d) + RulingPaid(c, j, d) + Spent(lease[c], d)'
    <3>1. RulingPaid(c, j, d) = 0
      BY <1>2 DEF RulingPaid, Paying
    <3>2. RulingPaid(c, j, d)' = Takes(r, 0, d)
      BY Zenon, <1>4, <1>10, <2>2 DEF RulingPaid, Paying
    <3>3. RecordedFor(c, t, d)' = RecordedFor(c, t, d)
      BY <1>2 DEF RecordedFor
    <3>4. RecordedFor(c, t, d) \in Nat
      <4>1. Recorded(c, d) \in [Tickets -> Nat]
        BY PaymentsTyped DEF PaymentsOK
      <4> QED BY <4>1 DEF Recorded
    <3>5. Takes(r, 0, d) \in Nat /\ Spent(l, d) \in Nat
      BY TakesTyped, SpentTyped
    <3>6. Spent(paid, d) = Spent(l, d) + Takes(r, 0, d)
      BY <1>10
    <3>7. Spent(lease[c], d)' = Spent(paid, d) /\ Spent(lease[c], d) = Spent(l, d)
      BY <1>10, <2>1
    <3> QED BY <3>1, <3>2, <3>3, <3>4, <3>5, <3>6, <3>7
  <2>4. PaidAhead'
    <3>1. judge[j].cell = c /\ judge'[j].cell = c
      BY <1>1, <1>4, <2>2
    <3> QED BY <1>2, <2>1, <2>2, <2>3, <3>1, RulingKeepsPaid
  <2>5. CostsAreReported'
    BY <1>2 DEF MoneyInv, CostsAreReported
  <2> QED BY <2>4, <2>5 DEF MoneyInv
<1>11. CASE /\ Priced(t) /\ judge[j].happened /\ JudgeBecome(j, s) /\ lease[c] = l
            /\ lease' = [lease EXCEPT ![c] = Charge(l, r.amount, r.units)]
  <2>1. \A d \in Dimensions : Spent(Charge(l, r.amount, r.units), d) = Spent(l, d) + Takes(r, 0, d)
    BY <1>3, ChargeSpends DEF Takes, Cost
  <2> HIDE DEF s
  <2> QED BY Zenon, <1>10, <1>11, <2>1
<1>12. CASE /\ Priced(t) /\ judge[j].happened /\ JudgeBecome(j, s) /\ lease[c] = l
            /\ CanConvert(l, r.amount, r.amount, r.units, r.units)
            /\ lease' = [lease EXCEPT ![c] = Convert(l, r.amount, r.amount, r.units, r.units)]
  <2>1. \A d \in Dimensions :
          Spent(Convert(l, r.amount, r.amount, r.units, r.units), d) = Spent(l, d) + Takes(r, 0, d)
    BY <1>3, <1>12, ConvertSpends DEF Takes, Cost
  <2> HIDE DEF s
  <2> QED BY Zenon, <1>10, <1>12, <2>1
<1> HIDE DEF s
<1> QED BY <1>1, <1>7, <1>8, <1>9, <1>11, <1>12 DEF ResolveLease, CanPublish, s

LEMMA ResolveMarkKeepsMoney ==
  ASSUME TypeOK, TypeOK', MoneyInv, NEW j \in Principals, ResolveMark(j)
  PROVE  MoneyInv'
<1>1. PICK c \in Cells, t \in Tickets, r \in Reservation :
        c = judge[j].cell /\ t = judge[j].task /\ r = judge[j].resv
  BY JudgeFields DEF ResolveMark
<1>2. /\ judge[j].step = "mark" /\ UNCHANGED <<lease, proc, sweep>> /\ KeepsSpend
      /\ JudgeBecome(j, IdleJudge)
  BY SameKeepsSpend DEF ResolveMark
<1> DEFINE new == Resolved(r, t, judge[j].happened)
<1>4. /\ new.state = IF judge[j].happened THEN "done" ELSE "failed"
      /\ new.resolved = TRUE /\ new.amount = r.amount /\ new.units = r.units
  BY DEF Reservation, Resolved
<1> HIDE DEF new
<1>5. CASE UNCHANGED resv
  BY <1>2, <1>5, IdleJudgeQuiet, JudgeIsQuiet, SameSettlesNothing, QuietKeepsMoney
<1>6. CASE ~judge[j].happened /\ SetResv(c, t, new)
  <2>1. SettlesNothing
    BY <1>4, <1>6, WriteSettlesNothing DEF Costless
  <2> QED BY <1>2, <2>1, IdleJudgeQuiet, JudgeIsQuiet, QuietKeepsMoney
<1>7. CASE judge[j].happened /\ SetResv(c, t, new)
  <2>1. /\ resv'[c][t] = new
        /\ \A e \in Cells, u \in Tickets : <<e, u>> # <<c, t>> => resv'[e][u] = resv[e][u]
    BY <1>7, WriteOne
  <2>2. judge'[j] = IdleJudge /\ \A i \in Principals \ {j} : judge'[i] = judge[i]
    BY <1>2 DEF JudgeBecome, TypeOK
  <2>3. ASSUME NEW d \in Dimensions
        PROVE  RecordedFor(c, t, d)' + RulingPaid(c, j, d)' + Spent(lease[c], d)
                 <= RecordedFor(c, t, d) + RulingPaid(c, j, d) + Spent(lease[c], d)'
    <3>1. RecordedFor(c, t, d) \in Nat
      <4>1. Recorded(c, d) \in [Tickets -> Nat]
        BY PaymentsTyped DEF PaymentsOK
      <4> QED BY <4>1 DEF Recorded
    <3>2. Takes(new, 0, d) = Takes(r, 0, d)
      BY <1>4 DEF Takes, Cost
    <3>3. RecordedFor(c, t, d)' = IF Priced(t) THEN Takes(r, 0, d) ELSE 0
      BY <1>4, <1>7, <2>1, <3>2 DEF RecordedFor
    <3>4. RulingPaid(c, j, d) = IF Priced(t) THEN Takes(r, 0, d) ELSE 0
      BY <1>1, <1>2, <1>7 DEF RulingPaid, Paying
    <3>5. RulingPaid(c, j, d)' = 0
      BY <2>2, IdleJudgeQuiet DEF RulingPaid
    <3>6. Spent(lease[c], d)' = Spent(lease[c], d) /\ Spent(lease[c], d) \in Nat
      BY <1>2, PaymentsTyped DEF PaymentsOK
    <3>7. Takes(r, 0, d) \in Nat
      BY TakesTyped
    <3> QED BY <3>1, <3>3, <3>4, <3>5, <3>6, <3>7
  <2>4. PaidAhead'
    <3>1. judge[j].cell = c /\ ~Paying(judge'[j])
      BY <1>1, <2>2, IdleJudgeQuiet
    <3> QED BY <1>2, <2>1, <2>2, <2>3, <3>1, RulingKeepsPaid
  <2>5. CostsAreReported'
    <3>1. Costless(new)
      BY <1>4, <1>7 DEF Costless
    <3>2. \A e \in Cells, u \in Tickets : Costless(resv'[e][u])
      BY <2>1, <3>1 DEF MoneyInv, CostsAreReported
    <3> QED BY <1>2, <3>2 DEF MoneyInv, CostsAreReported
  <2> QED BY <2>4, <2>5 DEF MoneyInv
<1> QED BY <1>1, <1>5, <1>6, <1>7 DEF ResolveMark, new

LEMMA SweepIsQuiet ==
  ASSUME TypeOK, NEW s \in Sweepers, NEW new, SweepBecome(s, new), SweepKnowsCost(new),
         UNCHANGED <<proc, judge>>, KeepsSpend, SettlesNothing
  PROVE  QuietMoney
<1>1. \A u \in Sweepers : sweep'[u] = IF u = s THEN new ELSE sweep[u]
  BY DEF TypeOK, SweepBecome
<1> QED BY <1>1 DEF QuietMoney, KeepsSpend, SettlesNothing

LEMMA IdleSweepQuiet == SweepKnowsCost(IdleSweep)
BY DEF SweepKnowsCost, IdleSweep, NoResv, Costless

LEMMA SweepStartQuiet ==
  ASSUME TypeOK, MoneyInv, NEW s \in Sweepers, NEW c \in Cells, SweepStart(s, c)
  PROVE  QuietMoney
<1>1. PICK lapsed \in SUBSET {t \in Tickets : Priced(t) /\ Open(resv[c][t]) /\ ~resv[c][t].released} :
        SweepBecome(s, [IdleSweep EXCEPT !.step = "release", !.cell = c, !.lease = lease[c],
            !.list = [t \in Tickets |-> IF t \in lapsed THEN resv[c][t] ELSE NoResv]])
  BY Zenon DEF SweepStart
<1> DEFINE list == [t \in Tickets |-> IF t \in lapsed THEN resv[c][t] ELSE NoResv]
           new == [IdleSweep EXCEPT !.step = "release", !.cell = c, !.lease = lease[c], !.list = list]
<1>2. ASSUME NEW t \in Tickets PROVE list[t].state # "done" /\ Costless(list[t])
  <2>1. CASE t \in lapsed
    BY <2>1 DEF Open, MoneyInv, CostsAreReported
  <2>2. CASE t \notin lapsed
    BY <2>2 DEF NoResv, Costless
  <2> QED BY <2>1, <2>2
<1> HIDE DEF list
<1>3. new.list = list
  BY DEF IdleSweep
<1>4. SweepKnowsCost(new)
  BY <1>2, <1>3 DEF SweepKnowsCost
<1>5. UNCHANGED <<proc, judge, lease, resv>>
  BY DEF SweepStart
<1>6. SweepBecome(s, new)
  BY <1>1 DEF list
<1> HIDE DEF new
<1> QED BY <1>4, <1>5, <1>6, SweepIsQuiet, SameKeepsSpend, SameSettlesNothing

LEMMA SweepReleaseQuiet ==
  ASSUME TypeOK, MoneyInv, NEW s \in Sweepers, NEW t \in Tickets, SweepRelease(s, t)
  PROVE  QuietMoney
<1>1. /\ sweep[s] \in SweepState /\ UNCHANGED <<proc, judge, resv>> /\ SettlesNothing
  BY SweepFields, SameSettlesNothing DEF SweepRelease
<1>2. PICK c \in Cells, l \in Lease, r \in Reservation :
        c = sweep[s].cell /\ l = sweep[s].lease /\ r = sweep[s].list[t]
  BY SweepFields DEF SweepRelease
<1>3. CASE UNCHANGED lease /\ SweepBecome(s, IdleSweep)
  BY <1>1, <1>3, IdleSweepQuiet, SweepIsQuiet, SameKeepsSpend
<1>4. CASE /\ lease[c] = l /\ lease' = [lease EXCEPT ![c] = Release(l, r.amount, r.units)]
           /\ SweepBecome(s, [sweep[s] EXCEPT !.step = "mark", !.task = t, !.lease = Release(l, r.amount, r.units)])
  <2> DEFINE back == Release(l, r.amount, r.units)
             new == [sweep[s] EXCEPT !.step = "mark", !.task = t, !.lease = back]
  <2>1. \A d \in Dimensions : Spent(lease[c], d) <= Spent(back, d)
    BY <1>4, ResvFields, ReleaseSpends, SpentTyped
  <2>2. KeepsSpend
    BY Zenon, <1>4, <2>1, WriteKeepsSpend
  <2> HIDE DEF back
  <2>3. new.list = sweep[s].list
    BY <1>1 DEF SweepState
  <2>4. SweepKnowsCost(new)
    BY <2>3 DEF MoneyInv, CostsAreReported, SweepKnowsCost
  <2>5. SweepBecome(s, new)
    BY <1>4 DEF back
  <2> HIDE DEF new
  <2> QED BY <1>1, <2>2, <2>4, <2>5, SweepIsQuiet
<1> QED BY <1>2, <1>3, <1>4 DEF SweepRelease, CanPublish

(* The sweep writes what it listed, which was open: it settles nothing.            *)
LEMMA SweepMarkQuiet ==
  ASSUME TypeOK, MoneyInv, NEW s \in Sweepers, SweepMark(s)
  PROVE  QuietMoney
<1>1. /\ sweep[s] \in SweepState /\ UNCHANGED <<proc, judge, lease>> /\ KeepsSpend
  BY SweepFields, SameKeepsSpend DEF SweepMark
<1>2. PICK c \in Cells, t \in Tickets : c = sweep[s].cell /\ t = sweep[s].task
  BY SweepFields DEF SweepMark
<1> DEFINE r == sweep[s].list[t]
           list == [sweep[s].list EXCEPT ![t] = NoResv]
           new == [sweep[s] EXCEPT !.step = "release", !.task = NoTicket, !.list = list]
           write == [r EXCEPT !.released = TRUE]
<1>3. /\ r \in Reservation /\ r.state # "done" /\ Costless(r)
  BY <1>1 DEF MoneyInv, CostsAreReported, SweepKnowsCost, SweepState
<1>4. write.state # "done" /\ Costless(write)
  BY <1>3 DEF Reservation, Costless
<1>5. SetResv(c, t, write)
  BY <1>2 DEF SweepMark
<1>6. SettlesNothing
  <2> HIDE DEF write
  <2> QED BY <1>4, <1>5, WriteSettlesNothing
<1>7. SweepKnowsCost(new)
  <2>1. new.list = list
    BY <1>1 DEF SweepState
  <2>2. \A u \in Tickets : list[u] = IF u = t THEN NoResv ELSE sweep[s].list[u]
    BY <1>1 DEF SweepState
  <2>3. NoResv.state # "done" /\ Costless(NoResv)
    BY DEF NoResv, Costless
  <2> HIDE DEF list, new
  <2> QED BY <2>1, <2>2, <2>3 DEF MoneyInv, CostsAreReported, SweepKnowsCost
<1>8. SweepBecome(s, IdleSweep) \/ SweepBecome(s, new)
  BY <1>2 DEF SweepMark
<1> HIDE DEF new
<1> QED BY <1>1, <1>6, <1>7, <1>8, IdleSweepQuiet, SweepIsQuiet

LEMMA OverseerQuiet ==
  ASSUME TypeOK, \/ \E c \in Cells, a \in Amounts : Reissue(c, a)
                 \/ \E e \in Ceilings : SetCeiling(e)
                 \/ \E c \in Cells, t \in Tickets : LapseClaim(c, t)
                 \/ UNCHANGED vars
  PROVE  QuietMoney
<1>1. SettlesNothing /\ UNCHANGED <<proc, judge, sweep>>
  BY Zenon, SameSettlesNothing DEF Reissue, SetCeiling, LapseClaim, vars
<1>2. CASE UNCHANGED lease
  BY <1>1, <1>2, SameKeepsSpend DEF QuietMoney, KeepsSpend, SettlesNothing
<1>3. ASSUME NEW c \in Cells, NEW a \in Amounts, Reissue(c, a)
      PROVE  QuietMoney
  <2>1. lease[c] \in Lease /\ a \in Nat
    BY AmountAssumption DEF TypeOK
  <2>2. PICK l \in Lease : l = lease[c]
    BY <2>1
  <2>3. \A d \in Dimensions : Spent(lease[c], d) <= Spent([l EXCEPT !.amount = a], d)
    BY <2>1, <2>2, AllocationSpends, SpentTyped
  <2>4. lease' = [lease EXCEPT ![c] = [l EXCEPT !.amount = a]]
    BY <1>3, <2>2 DEF Reissue
  <2>5. KeepsSpend
    BY Zenon, <2>3, <2>4, WriteKeepsSpend
  <2> QED BY <1>1, <2>5 DEF QuietMoney, KeepsSpend, SettlesNothing
<1> QED BY <1>2, <1>3 DEF SetCeiling, LapseClaim, vars

--------------------------------------------------------------------------------
LEMMA InitMoney == Init => MoneyInv
<1> SUFFICES ASSUME Init PROVE MoneyInv
  OBVIOUS
<1>1. TypeOK /\ PaymentsOK
  BY InitTyped, PaymentsTyped
<1>2. CostsAreReported
  BY DEF Init, CostsAreReported, Costless, NoResv, PassKnowsCost, IdleProc, SweepKnowsCost,
         IdleSweep
<1>3. ASSUME NEW c \in Cells, NEW d \in Dimensions
      PROVE  /\ Total(Recorded(c, d)) = 0 /\ Total(PaidByPasses(c, d)) = 0
             /\ Total(PaidByRulings(c, d)) = 0
  <2>1. /\ \A t \in Tickets : Recorded(c, d)[t] = 0
        /\ \A p \in Procs : PaidByPasses(c, d)[p] = 0
        /\ \A j \in Principals : PaidByRulings(c, d)[j] = 0
    BY DEF Init, Recorded, RecordedFor, NoResv, PaidByPasses, PassPaid, Paying, IdleProc,
           PaidByRulings, RulingPaid, IdleJudge
  <2> QED BY <1>1, <2>1, TotalOfZeros DEF PaymentsOK
<1>4. PaidAhead
  <2>1. \A c \in Cells, d \in Dimensions : Spent(lease[c], d) \in Nat
    BY <1>1 DEF PaymentsOK
  <2> QED BY <1>3, <2>1 DEF PaidAhead
<1> QED BY <1>2, <1>4 DEF MoneyInv

LEMMA NextKeepsMoney == TypeOK /\ TypeOK' /\ MoneyInv /\ [Next]_vars => MoneyInv'
<1> SUFFICES ASSUME TypeOK, TypeOK', MoneyInv, [Next]_vars PROVE MoneyInv'
  OBVIOUS
<1>1. CASE UNCHANGED vars
  BY <1>1, OverseerQuiet, QuietKeepsMoney
<1>2. ASSUME NEW p \in Procs,
             PassStep(p) \/ Crash(p) \/ \E t \in Tickets : Evaluate(p, t) \/ LoadReport(p, t)
      PROVE  MoneyInv'
  BY <1>2, AwayKeepsMoney, TakeSelfQuiet, ExecuteQuiet, LoadReportQuiet, QuietKeepsMoney,
     SettleLeaseKeepsMoney, MarkKeepsMoney DEF PassStep
<1>3. ASSUME NEW k \in Connectors,
             ConnStep(k) \/ ConnCrash(k) \/ \E c \in Cells, t \in Tickets : Take(k, c, t)
      PROVE  MoneyInv'
  BY <1>3, ConnQuiet, QuietKeepsMoney
<1>4. ASSUME NEW j \in Principals, JudgeStep(j) \/ \E c \in Cells, t \in Tickets : Pending(j, c, t)
      PROVE  MoneyInv'
  BY <1>4, LookingQuiet, QuietKeepsMoney, ResolveLeaseKeepsMoney,
     ResolveMarkKeepsMoney DEF JudgeStep
<1>5. ASSUME NEW s \in Sweepers, SweepStep(s) \/ \E c \in Cells : SweepStart(s, c)
      PROVE  MoneyInv'
  BY <1>5, SweepStartQuiet, SweepReleaseQuiet, SweepMarkQuiet, QuietKeepsMoney DEF SweepStep
<1>6. CASE \/ \E c \in Cells : (\E t \in Tickets : LapseClaim(c, t)) \/ \E a \in Amounts : Reissue(c, a)
           \/ \E e \in Ceilings : SetCeiling(e)
  BY <1>6, OverseerQuiet, QuietKeepsMoney
<1> QED BY <1>1, <1>2, <1>3, <1>4, <1>5, <1>6 DEF Next

LEMMA PaidAheadPaysRecords == TypeOK /\ MoneyInv => SettledIsPaid
<1> SUFFICES ASSUME TypeOK, MoneyInv, NEW c \in Cells, NEW d \in Dimensions
             PROVE  Total(Recorded(c, d)) <= Spent(lease[c], d)
  BY DEF SettledIsPaid
<1>1. /\ Total(Recorded(c, d)) \in Nat /\ Total(PaidByPasses(c, d)) \in Nat
      /\ Total(PaidByRulings(c, d)) \in Nat /\ Spent(lease[c], d) \in Nat
  BY PaymentsTyped DEF PaymentsOK
<1>2. Total(Recorded(c, d)) + Total(PaidByPasses(c, d)) + Total(PaidByRulings(c, d)) <= Spent(lease[c], d)
  BY DEF MoneyInv, PaidAhead
<1> QED BY <1>1, <1>2

(* A lease has always recorded paying, in money and in units, for every action       *)
(* whose record says it is settled: whatever crashes between the two writes of  *)
(* a settlement, however many processes run one cell and whatever is swept.     *)
(* "The one state never reachable" of effect/reservation.go:231.              *)
THEOREM SettlementsArePaid == Spec => []SettledIsPaid
<1>1. TypeOK /\ MoneyInv /\ [Next]_vars => MoneyInv'
  BY NextTyped, NextKeepsMoney
<1> QED BY <1>1, InitMoney, TypeCorrect, PaidAheadPaysRecords, PTL DEF Spec
--------------------------------------------------------------------------------
(* The envelope bounds every hold. *)

(* A hold that the bounded lease allows leaves the committed amounts inside the    *)
(* envelope in each dimension it takes from, although it is written on the     *)
(* lease as issued.                                                          *)
LEMMA HoldIsBounded ==
  ASSUME NEW l \in Lease, NEW e \in Ceiling, NEW a \in Nat, NEW u \in Nat,
         CanHold(l, a, u), CanHold(Constrain(l, e), a, u)
  PROVE  LET held == Hold(l, a, u)
         IN  /\ held.reserved > l.reserved /\ e.spend > 0 => Committed(held) <= e.spend
             /\ held.reservedUnits > l.reservedUnits /\ e.quantity > 0 => CommittedUnits(held) <= e.quantity
<1> DEFINE held == Hold(l, a, u)
           b == Constrain(l, e)
<1>1. /\ held.spent = l.spent /\ held.reserved = l.reserved + a
      /\ held.ordered = l.ordered /\ held.reservedUnits = l.reservedUnits + u
  BY DEF Hold, Lease
<1>2. /\ l.amount \in Nat /\ l.quantity \in Nat /\ l.spent \in Nat /\ l.ordered \in Nat
      /\ l.reserved \in Nat /\ l.reservedUnits \in Nat /\ e.spend \in Nat /\ e.quantity \in Nat
  BY DEF Lease, Ceiling
<1>3. /\ Committed(b) = Committed(l) /\ CommittedUnits(b) = CommittedUnits(l)
      /\ b.amount = IF e.spend > 0 /\ e.spend < l.amount THEN Larger(e.spend, Committed(l)) ELSE l.amount
      /\ b.quantity = IF e.quantity > 0 /\ (l.quantity <= 0 \/ e.quantity < l.quantity)
                      THEN Larger(e.quantity, CommittedUnits(l)) ELSE l.quantity
  BY DEF Constrain, Lease, Committed, CommittedUnits
<1>4. CanHold(b, a, u)
  OBVIOUS
<1> HIDE DEF held, b
<1>5. ASSUME a > 0, e.spend > 0 PROVE Committed(l) + a <= e.spend
  BY <1>2, <1>3, <1>5, <1>4 DEF CanHold, Headroom, Committed, Larger
<1>6. ASSUME u > 0, e.quantity > 0 PROVE CommittedUnits(l) + u <= e.quantity
  BY <1>2, <1>3, <1>6, <1>4 DEF CanHold, QuantityHeadroom, CommittedUnits, Larger, Unlimited
<1>7. /\ held.reserved > l.reserved /\ e.spend > 0 => Committed(held) <= e.spend
      /\ held.reservedUnits > l.reservedUnits /\ e.quantity > 0 => CommittedUnits(held) <= e.quantity
  BY <1>1, <1>2, <1>5, <1>6 DEF Committed, CommittedUnits
<1> QED BY <1>7 DEF held

(* No other move takes headroom.                                                *)
KeepsHolds ==
  \A c \in Cells : /\ lease'[c].reserved <= lease[c].reserved
                   /\ lease'[c].reservedUnits <= lease[c].reservedUnits

LEMMA MovesHoldNothing ==
  ASSUME NEW l \in Lease, NEW a \in Nat, NEW u \in Nat, NEW b \in Nat
  PROVE  /\ CanRelease(l, a, u) => /\ Release(l, a, u).reserved <= l.reserved
                                   /\ Release(l, a, u).reservedUnits <= l.reservedUnits
         /\ Charge(l, a, u).reserved = l.reserved /\ Charge(l, a, u).reservedUnits = l.reservedUnits
         /\ CanRelease(l, a, u) => /\ Convert(l, a, b, u, u).reserved <= l.reserved
                                   /\ Convert(l, a, b, u, u).reservedUnits <= l.reservedUnits
         /\ [l EXCEPT !.amount = a].reserved = l.reserved
         /\ [l EXCEPT !.amount = a].reservedUnits = l.reservedUnits
BY DEF Lease, CanRelease, Release, Charge, Convert

LEMMA SameKeepsHolds ==
  ASSUME TypeOK, UNCHANGED lease
  PROVE  KeepsHolds
BY DEF KeepsHolds, TypeOK, Lease

LEMMA WriteKeepsHolds ==
  ASSUME TypeOK, NEW c \in Cells, NEW l, lease' = [lease EXCEPT ![c] = l],
         l.reserved <= lease[c].reserved, l.reservedUnits <= lease[c].reservedUnits
  PROVE  KeepsHolds
<1>1. lease'[c] = l /\ \A e \in Cells \ {c} : lease'[e] = lease[e]
  BY DEF TypeOK
<1>2. \A e \in Cells : lease[e].reserved \in Nat /\ lease[e].reservedUnits \in Nat
  BY DEF TypeOK, Lease
<1> QED BY <1>1, <1>2 DEF KeepsHolds

LEMMA PassKeepsHolds ==
  ASSUME TypeOK, NEW p \in Procs, Unhold(p) \/ SettleLease(p)
  PROVE  KeepsHolds
<1>1. PICK c \in Cells, l \in Lease, r \in Reservation, a \in Nat, u \in Nat, cost \in Nat :
        /\ c = CellOf[p] /\ l = proc[p].lease /\ r = proc[p].resv
        /\ a = proc[p].amount /\ u = proc[p].units /\ cost = Cost(proc[p].resv, proc[p].actual)
  BY ProcFields, ReservationsTyped
<1>2. r.amount \in Nat /\ r.units \in Nat
  BY ResvFields
<1>3. CASE UNCHANGED lease
  BY <1>3, SameKeepsHolds
<1>4. ASSUME NEW x \in Nat, NEW y \in Nat, CanRelease(l, x, y), lease[c] = l,
             \/ lease' = [lease EXCEPT ![c] = Release(l, x, y)]
             \/ lease' = [lease EXCEPT ![c] = Convert(l, x, cost, y, y)]
      PROVE  KeepsHolds
  BY <1>4, MovesHoldNothing, WriteKeepsHolds
<1> QED BY <1>1, <1>2, <1>3, <1>4 DEF Unhold, SettleLease, CanPublish, CanConvert

LEMMA ResolveKeepsHolds ==
  ASSUME TypeOK, NEW j \in Principals, ResolveLease(j)
  PROVE  KeepsHolds
<1>1. PICK c \in Cells, l \in Lease, r \in Reservation :
        c = judge[j].cell /\ l = judge[j].lease /\ r = judge[j].resv
  BY JudgeFields DEF ResolveLease
<1>2. r.amount \in Nat /\ r.units \in Nat
  BY ResvFields
<1>3. CASE UNCHANGED lease
  BY <1>3, SameKeepsHolds
<1>4. ASSUME lease[c] = l,
             \/ /\ CanRelease(l, r.amount, r.units)
                /\ lease' = [lease EXCEPT ![c] = Release(l, r.amount, r.units)]
             \/ /\ CanRelease(l, r.amount, r.units)
                /\ lease' = [lease EXCEPT ![c] = Convert(l, r.amount, r.amount, r.units, r.units)]
             \/ lease' = [lease EXCEPT ![c] = Charge(l, r.amount, r.units)]
      PROVE  KeepsHolds
  <2>1. CASE lease' = [lease EXCEPT ![c] = Charge(l, r.amount, r.units)]
    <3>1. l.reserved \in Nat /\ l.reservedUnits \in Nat
      BY DEF Lease
    <3>2. /\ Charge(l, r.amount, r.units).reserved <= l.reserved
          /\ Charge(l, r.amount, r.units).reservedUnits <= l.reservedUnits
      BY <1>2, <3>1, MovesHoldNothing
    <3> QED BY Zenon, <1>4, <2>1, <3>2, WriteKeepsHolds
  <2> QED BY <1>2, <1>4, <2>1, MovesHoldNothing, WriteKeepsHolds
<1> QED BY <1>1, <1>3, <1>4 DEF ResolveLease, CanPublish, CanConvert

LEMMA SweepKeepsHolds ==
  ASSUME TypeOK, NEW s \in Sweepers, NEW t \in Tickets, SweepRelease(s, t)
  PROVE  KeepsHolds
<1>1. PICK c \in Cells, l \in Lease, r \in Reservation :
        c = sweep[s].cell /\ l = sweep[s].lease /\ r = sweep[s].list[t]
  BY SweepFields DEF SweepRelease
<1>2. r.amount \in Nat /\ r.units \in Nat
  BY ResvFields
<1>3. CASE UNCHANGED lease
  BY <1>3, SameKeepsHolds
<1>4. CASE /\ lease[c] = l /\ CanRelease(l, r.amount, r.units)
           /\ lease' = [lease EXCEPT ![c] = Release(l, r.amount, r.units)]
  BY Zenon, <1>2, <1>4, MovesHoldNothing, WriteKeepsHolds
<1> QED BY <1>1, <1>3, <1>4 DEF SweepRelease, CanPublish

LEMMA ReissueKeepsHolds ==
  ASSUME TypeOK, NEW c \in Cells, NEW a \in Amounts, Reissue(c, a)
  PROVE  KeepsHolds
<1>1. PICK l \in Lease, b \in Nat : l = lease[c] /\ b = a
  BY AmountAssumption DEF TypeOK
<1>2. lease' = [lease EXCEPT ![c] = [l EXCEPT !.amount = b]]
  BY <1>1 DEF Reissue
<1>3. l.reserved \in Nat /\ l.reservedUnits \in Nat
  BY DEF Lease
<1>4. /\ [l EXCEPT !.amount = b].reserved <= l.reserved
      /\ [l EXCEPT !.amount = b].reservedUnits <= l.reservedUnits
  BY <1>3, MovesHoldNothing
<1> QED BY Zenon, <1>1, <1>2, <1>4, WriteKeepsHolds

LEMMA TakeHoldIsBounded ==
  ASSUME TypeOK, NEW p \in Procs, TakeHold(p), ~UNCHANGED lease
  PROVE  HoldsWithinEnvelope
<1>1. PICK c \in Cells, l \in Lease, e \in Ceiling, a \in Nat, u \in Nat :
        /\ c = CellOf[p] /\ l = proc[p].lease /\ e = proc[p].ceiling
        /\ a = proc[p].amount /\ u = proc[p].units
  BY ProcFields
<1>2. /\ CanHold(l, a, u) /\ CanHold(Constrain(l, e), a, u) /\ lease[c] = l
      /\ lease' = [lease EXCEPT ![c] = Hold(l, a, u)] /\ proc[p].step = "hold"
  BY <1>1 DEF TakeHold, CanHoldNow, CanPublish
<1>3. lease'[c] = Hold(l, a, u) /\ \A d \in Cells \ {c} : lease'[d] = lease[d]
  BY <1>2 DEF TypeOK
<1>4. \A d \in Cells : lease[d].reserved \in Nat /\ lease[d].reservedUnits \in Nat
  BY DEF TypeOK, Lease
<1>5. LET held == Hold(l, a, u)
      IN  /\ held.reserved > l.reserved /\ e.spend > 0 => Committed(held) <= e.spend
          /\ held.reservedUnits > l.reservedUnits /\ e.quantity > 0 => CommittedUnits(held) <= e.quantity
  BY <1>2, HoldIsBounded
<1> QED BY <1>1, <1>2, <1>3, <1>4, <1>5 DEF HoldsWithinEnvelope

LEMMA StepIsBounded ==
  ASSUME TypeOK, [Next]_vars
  PROVE  HoldsWithinEnvelope
<1>1. ASSUME KeepsHolds PROVE HoldsWithinEnvelope
  <2>1. \A c \in Cells : /\ lease[c].reserved \in Nat /\ lease[c].reservedUnits \in Nat
                         /\ lease'[c].reserved \in Nat /\ lease'[c].reservedUnits \in Nat
    BY NextTyped DEF TypeOK, Lease
  <2>2. \A c \in Cells : /\ ~(lease'[c].reserved > lease[c].reserved)
                         /\ ~(lease'[c].reservedUnits > lease[c].reservedUnits)
    BY <1>1, <2>1 DEF KeepsHolds
  <2> QED BY <2>2 DEF HoldsWithinEnvelope
<1>2. CASE UNCHANGED lease
  BY <1>1, <1>2, SameKeepsHolds
<1>3. ASSUME NEW p \in Procs, PassStep(p), ~UNCHANGED lease PROVE HoldsWithinEnvelope
  <2>1. TakeHold(p) \/ Unhold(p) \/ SettleLease(p)
    BY Zenon, <1>3 DEF PassStep, Claim, Authorize, Look, ClaimKey, Offer, TakeSelf, ExecuteDone,
                ExecuteRejected, ExecuteUnknown, Mark
  <2> QED BY <1>1, <1>3, <2>1, TakeHoldIsBounded, PassKeepsHolds
<1>4. ASSUME NEW j \in Principals, JudgeStep(j), ~UNCHANGED lease PROVE HoldsWithinEnvelope
  BY <1>1, <1>4, ResolveKeepsHolds DEF JudgeStep, LookUp, LoadClaim, ResolveMark
<1>5. ASSUME NEW s \in Sweepers, SweepStep(s), ~UNCHANGED lease PROVE HoldsWithinEnvelope
  BY <1>1, <1>5, SweepKeepsHolds DEF SweepStep, SweepMark
<1>6. ASSUME NEW c \in Cells, NEW a \in Amounts, Reissue(c, a) PROVE HoldsWithinEnvelope
  BY <1>1, <1>6, ReissueKeepsHolds
<1>7. ASSUME Next, ~UNCHANGED lease
      PROVE  \/ \E p \in Procs : PassStep(p)
             \/ \E j \in Principals : JudgeStep(j)
             \/ \E s \in Sweepers : SweepStep(s)
             \/ \E c \in Cells, a \in Amounts : Reissue(c, a)
  BY Zenon, <1>7 DEF Next, Crash, Evaluate, LoadReport, ConnStep, ActDone, ActRefused, ActUnknown,
     Report, ConnCrash, Take, Pending, SweepStart, LapseClaim, SetCeiling
<1> QED BY <1>2, <1>3, <1>4, <1>5, <1>6, <1>7 DEF vars

(* No step takes headroom beyond the envelope its pass read, in money or in units:  *)
(* also where the lease itself bounds no units, and although the hold is written *)
(* on the lease as issued (effect.Reserve against Grant.Bounded).              *)
THEOREM HoldsHonourEnvelope == Spec => EnvelopeHonoured
<1>1. TypeOK /\ [Next]_vars => [HoldsWithinEnvelope]_vars
  BY StepIsBounded
<1> QED BY <1>1, TypeCorrect, PTL DEF Spec, EnvelopeHonoured
--------------------------------------------------------------------------------
(* Who attends to an action: one actor, who knows its record. *)

Unattended(c, t) == /\ \A p \in Procs : ~Settles(p, c, t)
                    /\ \A k \in Connectors : ~Works(k, c, t)

(* Nobody attends to an action that was not taken or that is closed. *)
LEMMA NobodyAttends ==
  ASSUME KnowledgeInv, OneCloser, NEW c \in Cells, NEW t \in Tickets,
         resv[c][t].state \notin {"pending", "reported"}
  PROVE  Unattended(c, t) /\ ~Closing(c, t)
<1>1. \A p \in Procs : ~Settles(p, c, t)
  BY DEF OneCloser, ClosedByOne, KnowledgeInv, SettlerKnows, Settles
<1>2. \A k \in Connectors : ~Works(k, c, t)
  BY DEF OneCloser, ClosedByOne
<1>3. ~Closing(c, t)
  BY <1>1 DEF Closing, Settles
<1> QED BY <1>1, <1>2, <1>3 DEF Unattended

LEMMA UnattendedCloses ==
  ASSUME NEW c \in Cells, NEW t \in Tickets, Unattended(c, t)', Open(resv[c][t])' => ~(resv[c][t].released)'
  PROVE  ClosedByOne(c, t)'
BY DEF Unattended, ClosedByOne

(* A key nobody writes keeps its closer through a step of a process or a connector  *)
(* that does not turn to it.                                                 *)
LEMMA ProcKeepsCloser ==
  ASSUME TypeOK, NEW c \in Cells, NEW t \in Tickets, ClosedByOne(c, t), resv'[c][t] = resv[c][t],
         NEW p \in Procs, NEW s, Become(p, s), UNCHANGED conn,
         \/ s.step \notin Busy
         \/ <<CellOf[p], s.task>> # <<c, t>>
         \/ proc[p].step \in Busy /\ s.task = proc[p].task /\ s.resv = proc[p].resv
  PROVE  ClosedByOne(c, t)'
<1>1. \A q \in Procs : proc'[q] = IF q = p THEN s ELSE proc[q]
  BY DEF TypeOK, Become
<1>2. \A q \in Procs : Settles(q, c, t)' => Settles(q, c, t) /\ proc'[q].resv = proc[q].resv
  BY <1>1 DEF Settles, Busy
<1>3. \A k \in Connectors : Works(k, c, t)' <=> Works(k, c, t)
  BY DEF Works
<1> QED BY <1>2, <1>3 DEF ClosedByOne

LEMMA ConnKeepsCloser ==
  ASSUME TypeOK, NEW c \in Cells, NEW t \in Tickets, ClosedByOne(c, t), resv'[c][t] = resv[c][t],
         NEW k \in Connectors, NEW s, ConnBecome(k, s), UNCHANGED proc,
         \/ s.step = "idle"
         \/ <<s.cell, s.task>> # <<c, t>>
         \/ conn[k].step # "idle" /\ s.cell = conn[k].cell /\ s.task = conn[k].task
  PROVE  ClosedByOne(c, t)'
<1>1. \A m \in Connectors : conn'[m] = IF m = k THEN s ELSE conn[m]
  BY DEF TypeOK, ConnBecome
<1>2. \A p \in Procs : (Settles(p, c, t)' <=> Settles(p, c, t)) /\ proc'[p] = proc[p]
  BY DEF Settles
<1>3. \A m \in Connectors : Works(m, c, t)' => Works(m, c, t)
  BY <1>1 DEF Works
<1> QED BY <1>2, <1>3 DEF ClosedByOne

LEMMA NobodyKeepsCloser ==
  ASSUME OneCloser, UNCHANGED <<proc, conn, resv>>
  PROVE  OneCloser'
BY DEF OneCloser, ClosedByOne, Settles, Works

(* When p is the only process of its cell and attends to an action, it is alone. *)
LEMMA SettlerIsAlone ==
  ASSUME Undisturbed, OneCloser, NEW p \in Procs, NEW c \in Cells, NEW t \in Tickets, Settles(p, c, t)
  PROVE  /\ \A q \in Procs : Settles(q, c, t) => q = p
         /\ \A k \in Connectors : ~Works(k, c, t)
         /\ proc[p].resv = resv[c][t]
<1>1. \A q \in Procs : Settles(q, c, t) => q = p
  BY DEF Undisturbed, Settles
<1> QED BY <1>1 DEF OneCloser, ClosedByOne

LEMMA WorkerIsAlone ==
  ASSUME OneCloser, NEW k \in Connectors, NEW c \in Cells, NEW t \in Tickets, Works(k, c, t)
  PROVE  /\ \A p \in Procs : ~Settles(p, c, t)
         /\ \A m \in Connectors : Works(m, c, t) => m = k
         /\ resv[c][t].state = "pending" /\ resv[c][t].takenBy = k
BY DEF OneCloser, ClosedByOne

--------------------------------------------------------------------------------
(* Every step leaves one closer to an action. *)

LEMMA WriteUnattended ==
  ASSUME TypeOK, OneCloser, NEW c \in Cells, NEW t \in Tickets, Unattended(c, t),
         NEW p \in Procs, NEW s, Become(p, s), s.step \notin Busy, UNCHANGED conn,
         NEW r, SetResv(c, t, r), Open(r) => ~r.released
  PROVE  OneCloser'
<1>1. /\ resv'[c][t] = r
      /\ \A d \in Cells, u \in Tickets : <<d, u>> # <<c, t>> => resv'[d][u] = resv[d][u]
  BY WriteOne
<1>2. \A q \in Procs : proc'[q] = IF q = p THEN s ELSE proc[q]
  BY DEF TypeOK, Become
<1>3. Unattended(c, t)'
  BY <1>2 DEF Unattended, Settles, Works, Busy
<1>4. ClosedByOne(c, t)'
  BY <1>1, <1>3, UnattendedCloses
<1>5. ASSUME NEW d \in Cells, NEW u \in Tickets, <<d, u>> # <<c, t>> PROVE ClosedByOne(d, u)'
  BY <1>1, <1>5, ProcKeepsCloser DEF OneCloser
<1> QED BY <1>4, <1>5 DEF OneCloser

(* A process that does not write keeps every closer, unless it takes up an action. *)
LEMMA SilentKeepsCloser ==
  ASSUME TypeOK, OneCloser, NEW p \in Procs, NEW s, Become(p, s), UNCHANGED <<conn, resv>>,
         s.step \notin Busy \/ (proc[p].step \in Busy /\ s.task = proc[p].task /\ s.resv = proc[p].resv)
  PROVE  OneCloser'
BY ProcKeepsCloser DEF OneCloser

LEMMA AwayKeepsCloser ==
  ASSUME TypeOK, OneCloser, NEW p \in Procs, Away(p), UNCHANGED <<conn, resv>>
  PROVE  OneCloser'
<1> SUFFICES ASSUME NEW c \in Cells, NEW t \in Tickets PROVE ClosedByOne(c, t)'
  BY DEF OneCloser
<1>1. \A q \in Procs : Settles(q, c, t)' => Settles(q, c, t) /\ proc'[q] = proc[q]
  BY DEF Away, Settles, Busy
<1>2. \A k \in Connectors : Works(k, c, t)' <=> Works(k, c, t)
  BY DEF Works
<1> QED BY <1>1, <1>2 DEF OneCloser, ClosedByOne

LEMMA ExecuteSettles ==
  ASSUME TypeOK, NEW p \in Procs, ExecuteDone(p) \/ ExecuteRejected(p)
  PROVE  \E s : /\ Become(p, s) /\ s.step = "settle" /\ s.task = proc[p].task /\ s.resv = proc[p].resv
                /\ s.actual \in Actuals \cup {proc[p].actual}
<1>1. CASE ExecuteDone(p)
  <2>1. PICK cost \in Actuals :
          Become(p, [proc[p] EXCEPT !.step = "settle", !.happened = TRUE, !.actual = cost])
    BY Zenon, <1>1 DEF ExecuteDone
  <2> DEFINE s == [proc[p] EXCEPT !.step = "settle", !.happened = TRUE, !.actual = cost]
  <2>2. /\ s.step = "settle" /\ s.task = proc[p].task /\ s.resv = proc[p].resv /\ s.actual = cost
    BY ProcFields DEF ProcState
  <2>3. Become(p, s)
    BY <2>1
  <2> HIDE DEF s
  <2> QED BY <2>2, <2>3
<1>2. CASE ExecuteRejected(p)
  <2> DEFINE s == [proc[p] EXCEPT !.step = "settle", !.happened = FALSE]
  <2>1. /\ s.step = "settle" /\ s.task = proc[p].task /\ s.resv = proc[p].resv /\ s.actual = proc[p].actual
    BY ProcFields DEF ProcState
  <2>2. Become(p, s)
    BY <1>2 DEF ExecuteRejected
  <2> HIDE DEF s
  <2> QED BY <2>1, <2>2
<1> QED BY <1>1, <1>2

LEMMA PassKeepsCloser ==
  ASSUME TypeOK, KnowledgeInv, Undisturbed, OneCloser, KeysAreOwn, NEW p \in Procs, PassStep(p)
  PROVE  OneCloser'
<1>1. PICK c \in Cells, t \in Tickets, r \in Reservation :
        proc[p].step # "idle" => c = CellOf[p] /\ t = proc[p].task /\ r = proc[p].resv
  <2>1. CASE proc[p].step = "idle"
    <3>1. PICK c \in Cells : c = CellOf[p]
      BY ProcFields
    <3> QED BY <2>1 DEF PassStep, Claim, Authorize, Look, TakeHold, ClaimKey, Unhold, Offer, TakeSelf,
                        ExecuteDone, ExecuteRejected, ExecuteUnknown, SettleLease, Mark
  <2>2. CASE proc[p].step # "idle"
    BY <2>2, ProcFields
  <2> QED BY <2>1, <2>2
<1>2. UNCHANGED conn
  BY Zenon DEF PassStep, Claim, Authorize, Look, TakeHold, ClaimKey, Unhold, Offer, TakeSelf,
         ExecuteDone, ExecuteRejected, ExecuteUnknown, SettleLease, Mark
<1>3. CASE Claim(p) \/ Authorize(p) \/ Look(p) \/ TakeHold(p) \/ Unhold(p) \/ ExecuteUnknown(p)
  <2>1. Away(p) /\ UNCHANGED resv
    BY Zenon, <1>3, PassGoesAway DEF Claim, Authorize, Look, TakeHold, Unhold, ExecuteUnknown
  <2> QED BY <1>2, <2>1, AwayKeepsCloser
<1>4. CASE ClaimKey(p)
  <2>1. proc[p].step = "reserve" /\ resv[c][t].state = "none" /\ c = CellOf[p] /\ t = proc[p].task
    BY <1>1, <1>4 DEF ClaimKey, KeysAreOwn, OwnsKey
  <2> DEFINE o == Offered(proc[p].amount, proc[p].units)
             s == [proc[p] EXCEPT !.step = IF t \in Served THEN "offer" ELSE "take", !.resv = o]
  <2>2. SetResv(c, t, o) /\ Become(p, s)
    BY <1>4, <2>1 DEF ClaimKey, KeyFree
  <2>3. ~o.released
    BY DEF Offered, NoResv
  <2> HIDE DEF o
  <2>4. s.step \notin Busy
    BY ProcFields DEF ProcState, Busy
  <2>5. Unattended(c, t)
    BY <2>1, NobodyAttends
  <2> HIDE DEF s
  <2> QED BY <1>2, <2>2, <2>3, <2>4, <2>5, WriteUnattended
<1>5. CASE Offer(p)
  <2>1. /\ c = CellOf[p] /\ t = proc[p].task /\ r = proc[p].resv /\ Stop(p)
        /\ Become(p, IdleProc) /\ IdleProc.step \notin Busy
    BY <1>1, <1>5 DEF Offer, Stop, IdleProc, Busy
  <2>2. CASE UNCHANGED resv
    BY <1>2, <2>1, <2>2, SilentKeepsCloser
  <2>3. CASE r.state = "offered" /\ resv[c][t] = r /\ SetResv(c, t, [r EXCEPT !.posted = TRUE])
    <3>1. ~r.released
      BY <2>3 DEF OneCloser, ClosedByOne, Open
    <3>2. ~[r EXCEPT !.posted = TRUE].released
      BY <3>1 DEF Reservation
    <3>3. Unattended(c, t)
      BY <2>3, NobodyAttends
    <3> QED BY Zenon, <1>2, <2>1, <2>3, <3>2, <3>3, WriteUnattended
  <2> QED BY <1>5, <2>1, <2>2, <2>3 DEF Offer
<1>6. CASE TakeSelf(p)
  <2>1. proc[p].step = "take" /\ c = CellOf[p] /\ t = proc[p].task
    BY <1>1, <1>6 DEF TakeSelf
  <2>2. CASE ~Takeable(resv[c][t])
    <3>1. Stop(p) /\ UNCHANGED resv
      BY <1>6, <2>1, <2>2 DEF TakeSelf
    <3>2. IdleProc.step \notin Busy
      BY DEF IdleProc, Busy
    <3> QED BY <1>2, <3>1, <3>2, SilentKeepsCloser DEF Stop
  <2>3. CASE Takeable(resv[c][t])
    <3> DEFINE o == Taken(resv[c][t], c)
               s == [proc[p] EXCEPT !.step = "execute", !.resv = o]
    <3>1. SetResv(c, t, o) /\ Become(p, s)
      BY <1>6, <2>1, <2>3 DEF TakeSelf
    <3>2. Unattended(c, t) /\ ~resv[c][t].released /\ resv[c][t] \in Reservation
      BY <2>3, NobodyAttends, WritesTyped DEF Takeable, OneCloser, ClosedByOne, Open
    <3>3. ~o.released
      BY <3>2 DEF Taken, Reservation
    <3> HIDE DEF o
    <3>4. s.step = "execute" /\ s.task = t /\ s.resv = o
      BY <2>1, ProcFields DEF ProcState
    <3> HIDE DEF s
    <3>5. /\ resv'[c][t] = o
          /\ \A d \in Cells, u \in Tickets : <<d, u>> # <<c, t>> => resv'[d][u] = resv[d][u]
      BY <3>1, WriteOne
    <3>6. \A q \in Procs : proc'[q] = IF q = p THEN s ELSE proc[q]
      BY <3>1 DEF TypeOK, Become
    <3>7. ClosedByOne(c, t)'
      <4>1. \A q \in Procs : Settles(q, c, t)' => proc'[q].resv = resv'[c][t]
        BY <3>2, <3>4, <3>5, <3>6 DEF Settles, Unattended
      <4>2. \A k \in Connectors : ~Works(k, c, t)'
        BY <1>2, <3>2 DEF Works, Unattended
      <4> QED BY <3>3, <3>5, <4>1, <4>2 DEF ClosedByOne
    <3>8. ASSUME NEW d \in Cells, NEW u \in Tickets, <<d, u>> # <<c, t>> PROVE ClosedByOne(d, u)'
      <4>1. <<CellOf[p], s.task>> # <<d, u>>
        BY <2>1, <3>4, <3>8
      <4> QED BY <1>2, <3>1, <3>5, <3>8, <4>1, ProcKeepsCloser DEF OneCloser
    <3> QED BY <3>7, <3>8 DEF OneCloser
  <2> QED BY <2>2, <2>3
<1>7. CASE ExecuteDone(p) \/ ExecuteRejected(p)
  <2>1. PICK s : Become(p, s) /\ s.task = proc[p].task /\ s.resv = proc[p].resv
    BY <1>7, ExecuteSettles
  <2>2. proc[p].step \in Busy /\ UNCHANGED resv
    BY Zenon, <1>7 DEF ExecuteDone, ExecuteRejected, Busy
  <2> QED BY <1>2, <2>1, <2>2, SilentKeepsCloser
<1>8. CASE SettleLease(p)
  <2>1. proc[p].step \in Busy /\ UNCHANGED resv /\ (Stop(p) \/ Go(p, "mark"))
    BY <1>8 DEF SettleLease, Busy
  <2>2. IdleProc.step \notin Busy
    BY DEF IdleProc, Busy
  <2> DEFINE s == [proc[p] EXCEPT !.step = "mark"]
  <2>3. s.task = proc[p].task /\ s.resv = proc[p].resv
    BY ProcFields DEF ProcState
  <2>4. Go(p, "mark") => Become(p, s)
    BY DEF Go
  <2> HIDE DEF s
  <2> QED BY <1>2, <2>1, <2>2, <2>3, <2>4, SilentKeepsCloser DEF Stop
<1>9. CASE Mark(p)
  <2>1. /\ c = CellOf[p] /\ t = proc[p].task /\ r = proc[p].resv
        /\ Become(p, IdleProc) /\ IdleProc.step \notin Busy /\ proc[p].step = "mark"
    BY <1>1, <1>9 DEF Mark, Stop, IdleProc, Busy
  <2>2. PICK w : SetResv(c, t, w) /\ ~Open(w)
    <3>1. resv[c][t] = r
      BY <2>1, SettlerIsAlone DEF Settles
    <3>2. \A cost : ~Open(Settled(r, cost))
      BY DEF Open, Settled, Reservation
    <3>3. ~Open(Refused(r, t))
      BY DEF Open, Refused, Reservation
    <3> QED BY <1>9, <2>1, <3>1, <3>2, <3>3 DEF Mark
  <2>3. /\ resv'[c][t] = w
        /\ \A d \in Cells, u \in Tickets : <<d, u>> # <<c, t>> => resv'[d][u] = resv[d][u]
    BY <2>2, WriteOne
  <2>4. \A q \in Procs : proc'[q] = IF q = p THEN IdleProc ELSE proc[q]
    BY <2>1 DEF TypeOK, Become
  <2>5. Unattended(c, t)'
    <3>1. Settles(p, c, t)
      BY <2>1 DEF Settles
    <3>2. /\ \A q \in Procs \ {p} : ~Settles(q, c, t)
          /\ \A k \in Connectors : ~Works(k, c, t)
      BY <3>1, SettlerIsAlone
    <3> QED BY <1>2, <2>1, <2>4, <3>2 DEF Unattended, Settles, Works, Busy
  <2>6. ClosedByOne(c, t)'
    BY <2>2, <2>3, <2>5, UnattendedCloses
  <2>7. ASSUME NEW d \in Cells, NEW u \in Tickets, <<d, u>> # <<c, t>> PROVE ClosedByOne(d, u)'
    BY <1>2, <2>1, <2>3, <2>7, ProcKeepsCloser DEF OneCloser
  <2> QED BY <2>6, <2>7 DEF OneCloser
<1> QED BY <1>3, <1>4, <1>5, <1>6, <1>7, <1>8, <1>9 DEF PassStep

LEMMA OtherProcKeepsCloser ==
  ASSUME TypeOK, KnowledgeInv, Undisturbed, OneCloser, NEW p \in Procs,
         Crash(p) \/ \E t \in Tickets : Evaluate(p, t) \/ LoadReport(p, t)
  PROVE  OneCloser'
<1>1. CASE Crash(p) \/ \E t \in Tickets : Evaluate(p, t)
  <2>1. Away(p) /\ UNCHANGED <<conn, resv>>
    BY Zenon, <1>1, PassGoesAway DEF Crash, Evaluate
  <2> QED BY <2>1, AwayKeepsCloser
<1>2. ASSUME NEW t \in Tickets, LoadReport(p, t) PROVE OneCloser'
  <2>1. PICK c \in Cells : c = CellOf[p]
    BY ProcFields
  <2> DEFINE r == resv[c][t]
             s == [IdleProc EXCEPT !.step = "settle", !.task = t, !.lease = lease[c],
                                   !.resv = r, !.happened = r.happened, !.actual = r.actual]
  <2>2. /\ resv[c][t].state = "reported" /\ Become(p, s) /\ proc[p].step = "idle"
        /\ UNCHANGED <<conn, resv>>
    BY Zenon, <1>2, <2>1 DEF LoadReport
  <2>3. s.step = "settle" /\ s.task = t /\ s.resv = resv[c][t]
    BY DEF IdleProc
  <2> HIDE DEF s, r
  <2>4. \A q \in Procs : proc'[q] = IF q = p THEN s ELSE proc[q]
    BY <2>2 DEF TypeOK, Become
  <2>5. \A k \in Connectors : ~Works(k, c, t)
    BY <2>2 DEF OneCloser, ClosedByOne
  <2>6. ClosedByOne(c, t)'
    <3>1. ASSUME NEW q \in Procs, Settles(q, c, t)' PROVE proc'[q].resv = resv'[c][t]
      <4>1. CASE q = p
        BY <2>2, <2>3, <2>4, <4>1
      <4>2. CASE q # p
        BY <2>2, <2>4, <3>1, <4>2 DEF Settles, OneCloser, ClosedByOne
      <4> QED BY <4>1, <4>2
    <3>2. \A k \in Connectors : ~Works(k, c, t)'
      BY <2>2, <2>5 DEF Works
    <3>3. Open(resv[c][t])' => ~(resv[c][t].released)'
      BY <2>2 DEF OneCloser, ClosedByOne
    <3> QED BY <3>1, <3>2, <3>3 DEF ClosedByOne
  <2>7. ASSUME NEW d \in Cells, NEW u \in Tickets, <<d, u>> # <<c, t>> PROVE ClosedByOne(d, u)'
    <3>1. <<CellOf[p], s.task>> # <<d, u>> /\ resv'[d][u] = resv[d][u]
      BY <2>1, <2>2, <2>3, <2>7
    <3> QED BY <2>2, <3>1, ProcKeepsCloser DEF OneCloser
  <2> QED BY <2>6, <2>7 DEF OneCloser
<1> QED BY <1>1, <1>2

LEMMA ConnStepKeepsCloser ==
  ASSUME TypeOK, KnowledgeInv, OneCloser, NEW k \in Connectors,
         ConnStep(k) \/ ConnCrash(k) \/ \E c \in Cells, t \in Tickets : Take(k, c, t)
  PROVE  OneCloser'
<1>1. UNCHANGED proc
  BY Zenon DEF ConnStep, ActDone, ActRefused, ActUnknown, Report, ConnCrash, Take
<1>2. ASSUME NEW s, ConnBecome(k, s), UNCHANGED resv,
             s.step = "idle" \/ (conn[k].step # "idle" /\ s.cell = conn[k].cell /\ s.task = conn[k].task)
      PROVE  OneCloser'
  BY <1>1, <1>2, ConnKeepsCloser DEF OneCloser
<1>3. CASE ActDone(k) \/ ActRefused(k)
  <2>1. conn[k] \in ConnState
    BY ConnFields
  <2>2. PICK s : ConnBecome(k, s) /\ s.cell = conn[k].cell /\ s.task = conn[k].task
    <3>1. CASE ActDone(k)
      <4>1. PICK cost : ConnBecome(k, [conn[k] EXCEPT !.step = "report", !.happened = TRUE, !.actual = cost])
        BY Zenon, <3>1 DEF ActDone
      <4> DEFINE s == [conn[k] EXCEPT !.step = "report", !.happened = TRUE, !.actual = cost]
      <4>2. s.cell = conn[k].cell /\ s.task = conn[k].task
        BY <2>1 DEF ConnState
      <4>3. ConnBecome(k, s)
        BY <4>1
      <4> HIDE DEF s
      <4> QED BY <4>2, <4>3
    <3>2. CASE ActRefused(k)
      <4> DEFINE s == [conn[k] EXCEPT !.step = "report", !.happened = FALSE]
      <4>1. s.cell = conn[k].cell /\ s.task = conn[k].task
        BY <2>1 DEF ConnState
      <4>2. ConnBecome(k, s)
        BY <3>2 DEF ActRefused
      <4> HIDE DEF s
      <4> QED BY <4>1, <4>2
    <3> QED BY <1>3, <3>1, <3>2
  <2>3. conn[k].step # "idle" /\ UNCHANGED resv
    BY Zenon, <1>3 DEF ActDone, ActRefused
  <2> QED BY <1>2, <2>2, <2>3
<1>4. CASE ActUnknown(k) \/ ConnCrash(k)
  <2>1. ConnBecome(k, IdleConn) /\ IdleConn.step = "idle" /\ UNCHANGED resv
    BY <1>4 DEF ActUnknown, ConnCrash, IdleConn
  <2> QED BY <1>2, <2>1
<1>5. CASE Report(k)
  <2>1. PICK c \in Cells, t \in Tickets : c = conn[k].cell /\ t = conn[k].task
    BY <1>5, ConnFields DEF Report
  <2>2. ConnBecome(k, IdleConn) /\ IdleConn.step = "idle" /\ conn[k].step = "report" /\ Works(k, c, t)
    BY <1>5, <2>1 DEF Report, IdleConn, Works
  <2>3. /\ \A p \in Procs : ~Settles(p, c, t)
        /\ \A m \in Connectors \ {k} : ~Works(m, c, t)
        /\ resv[c][t].state = "pending" /\ resv[c][t].takenBy = k
    BY <2>2, WorkerIsAlone
  <2> DEFINE o == Reported(resv[c][t], conn[k].happened, conn[k].actual)
  <2>4. SetResv(c, t, o)
    BY <1>5, <2>1, <2>3 DEF Report
  <2>5. ~o.released
    <3>1. ~resv[c][t].released /\ resv[c][t] \in Reservation
      BY <2>3, WritesTyped DEF OneCloser, ClosedByOne, Open
    <3> QED BY <3>1 DEF Reported, Reservation
  <2> HIDE DEF o
  <2>6. /\ resv'[c][t] = o
        /\ \A d \in Cells, u \in Tickets : <<d, u>> # <<c, t>> => resv'[d][u] = resv[d][u]
    BY <2>4, WriteOne
  <2>7. \A m \in Connectors : conn'[m] = IF m = k THEN IdleConn ELSE conn[m]
    BY <2>2 DEF TypeOK, ConnBecome
  <2>8. Unattended(c, t)'
    BY <1>1, <2>2, <2>3, <2>7 DEF Unattended, Settles, Works
  <2>9. ClosedByOne(c, t)'
    BY <2>5, <2>6, <2>8, UnattendedCloses
  <2>10. ASSUME NEW d \in Cells, NEW u \in Tickets, <<d, u>> # <<c, t>> PROVE ClosedByOne(d, u)'
    BY <1>1, <2>2, <2>6, <2>10, ConnKeepsCloser DEF OneCloser
  <2> QED BY <2>9, <2>10 DEF OneCloser
<1>6. ASSUME NEW c \in Cells, NEW t \in Tickets, Take(k, c, t) PROVE OneCloser'
  <2> DEFINE o == Taken(resv[c][t], k)
             s == [IdleConn EXCEPT !.step = "act", !.cell = c, !.task = t]
  <2>1. SetResv(c, t, o) /\ ConnBecome(k, s) /\ conn[k].step = "idle"
    BY Zenon, <1>6 DEF Take
  <2>2. Unattended(c, t) /\ ~resv[c][t].released /\ resv[c][t] \in Reservation
    BY Zenon, <1>6, NobodyAttends, WritesTyped DEF Take, Takeable, OneCloser, ClosedByOne, Open
  <2>3. ~o.released /\ o.state = "pending" /\ o.takenBy = k
    BY <2>2 DEF Taken, Reservation
  <2>4. s.cell = c /\ s.task = t
    BY DEF IdleConn
  <2> HIDE DEF o, s
  <2>5. /\ resv'[c][t] = o
        /\ \A d \in Cells, u \in Tickets : <<d, u>> # <<c, t>> => resv'[d][u] = resv[d][u]
    BY <2>1, WriteOne
  <2>6. \A m \in Connectors : conn'[m] = IF m = k THEN s ELSE conn[m]
    BY <2>1 DEF TypeOK, ConnBecome
  <2>7. ClosedByOne(c, t)'
    <3>1. \A p \in Procs : ~Settles(p, c, t)'
      BY <1>1, <2>2 DEF Settles, Unattended
    <3>2. \A m \in Connectors : Works(m, c, t)' => m = k
      BY <2>2, <2>6 DEF Works, Unattended
    <3> QED BY <2>3, <2>5, <3>1, <3>2 DEF ClosedByOne
  <2>8. ASSUME NEW d \in Cells, NEW u \in Tickets, <<d, u>> # <<c, t>> PROVE ClosedByOne(d, u)'
    BY <1>1, <2>1, <2>4, <2>5, <2>8, ConnKeepsCloser DEF OneCloser
  <2> QED BY <2>7, <2>8 DEF OneCloser
<1> QED BY <1>3, <1>4, <1>5, <1>6 DEF ConnStep

--------------------------------------------------------------------------------
(* A pass that has not claimed its key is the only one that could. *)

Early == {"claim", "authorize", "look", "hold", "reserve"}

LEMMA KeysStayOwn ==
  ASSUME KeysAreOwn, TypeOK, \A c \in Cells, t \in Tickets : resv[c][t].state = "none" => resv'[c][t] = resv[c][t],
         \A p \in Procs : proc'[p] = proc[p] \/ OwnsKey(p)'
  PROVE  KeysAreOwn'
<1> SUFFICES ASSUME NEW p \in Procs, proc'[p] = proc[p] PROVE OwnsKey(p)'
  BY DEF KeysAreOwn
<1>1. CASE proc[p].step \in Early
  <2>1. CellOf[p] \in Cells /\ proc[p].task \in Tickets
    BY <1>1, ProcFields DEF Early
  <2> QED BY <1>1, <2>1 DEF KeysAreOwn, OwnsKey, Early
<1>2. CASE proc[p].step \notin Early
  BY <1>2 DEF KeysAreOwn, OwnsKey, Early
<1> QED BY <1>1, <1>2

LEMMA KeyWrite ==
  ASSUME TypeOK, NEW c \in Cells, NEW t \in Tickets, NEW r, SetResv(c, t, r), resv[c][t].state # "none"
  PROVE  \A d \in Cells, u \in Tickets : resv[d][u].state = "none" => resv'[d][u] = resv[d][u]
BY WriteOne

LEMMA ProcKeepsKeys ==
  ASSUME TypeOK, KeysAreOwn, NEW p \in Procs, NEW s, Become(p, s),
         \A c \in Cells, t \in Tickets : resv[c][t].state = "none" => resv'[c][t] = resv[c][t],
         s.step \in Early => CellOf[p] \in Cells /\ s.task \in Tickets /\ resv[CellOf[p]][s.task].state = "none",
         s.step = "hold" => Priced(s.task),
         s.step # "unhold"
  PROVE  KeysAreOwn'
<1>1. \A q \in Procs : proc'[q] = IF q = p THEN s ELSE proc[q]
  BY DEF TypeOK, Become
<1>2. OwnsKey(p)'
  BY <1>1 DEF OwnsKey, Early
<1> QED BY <1>1, <1>2, KeysStayOwn

LEMMA EarlyKeepsKeys ==
  ASSUME TypeOK, KeysAreOwn, NEW p \in Procs,
         Claim(p) \/ Authorize(p) \/ Look(p) \/ TakeHold(p) \/ \E t \in Tickets : Evaluate(p, t)
  PROVE  KeysAreOwn'
<1>1. UNCHANGED resv /\ proc[p] \in ProcState /\ CellOf[p] \in Cells
  BY Zenon, ProcFields DEF Claim, Authorize, Look, TakeHold, Evaluate
<1>2. ASSUME Stop(p) PROVE KeysAreOwn'
  <2>1. Become(p, IdleProc) /\ IdleProc.step = "idle"
    BY <1>2 DEF Stop, IdleProc
  <2> QED BY <1>1, <2>1, ProcKeepsKeys DEF Early
<1>3. ASSUME NEW s, Become(p, s), proc[p].step \in Early, s.task = proc[p].task,
             s.step = "hold" => Priced(s.task), s.step # "unhold"
      PROVE  KeysAreOwn'
  <2>1. proc[p].task \in Tickets /\ resv[CellOf[p]][proc[p].task].state = "none"
    BY <1>3, ProcFields DEF KeysAreOwn, OwnsKey, Early
  <2> QED BY <1>1, <1>3, <2>1, ProcKeepsKeys
<1>4. CASE Claim(p)
  <2>1. PICK l, e : Become(p, [proc[p] EXCEPT !.step = "authorize", !.lease = l, !.ceiling = e])
    BY Zenon, <1>4 DEF Claim
  <2> DEFINE s == [proc[p] EXCEPT !.step = "authorize", !.lease = l, !.ceiling = e]
  <2>2. s.step = "authorize" /\ s.task = proc[p].task
    BY <1>1 DEF ProcState
  <2>3. Become(p, s) /\ proc[p].step \in Early
    BY <1>4, <2>1 DEF Claim, Early
  <2> HIDE DEF s
  <2> QED BY <1>3, <2>2, <2>3
<1>5. CASE Authorize(p)
  <2>1. ASSUME NEW q \in Quotes,
               Become(p, [proc[p] EXCEPT !.step = "look", !.amount = q.amount, !.units = q.units])
        PROVE  KeysAreOwn'
    <3> DEFINE s == [proc[p] EXCEPT !.step = "look", !.amount = q.amount, !.units = q.units]
    <3>1. s.step = "look" /\ s.task = proc[p].task
      BY <1>1 DEF ProcState
    <3>2. Become(p, s) /\ proc[p].step \in Early
      BY Zenon, <1>5, <2>1 DEF Authorize, Early
    <3> HIDE DEF s
    <3> QED BY <1>3, <3>1, <3>2
  <2> QED BY Zenon, <1>2, <1>5, <2>1 DEF Authorize
<1>6. CASE Look(p)
  <2> DEFINE s == [proc[p] EXCEPT !.step = IF Priced(proc[p].task) THEN "hold" ELSE "reserve"]
  <2>1. s.step = (IF Priced(proc[p].task) THEN "hold" ELSE "reserve") /\ s.task = proc[p].task
    BY <1>1 DEF ProcState
  <2>2. Stop(p) \/ Become(p, s)
    BY <1>6 DEF Look, Go
  <2>3. proc[p].step \in Early
    BY <1>6 DEF Look, Early
  <2> HIDE DEF s
  <2> QED BY <1>2, <1>3, <2>1, <2>2, <2>3
<1>7. CASE TakeHold(p)
  <2>1. ASSUME NEW l, Become(p, [proc[p] EXCEPT !.step = "reserve", !.lease = l]) PROVE KeysAreOwn'
    <3> DEFINE s == [proc[p] EXCEPT !.step = "reserve", !.lease = l]
    <3>1. s.step = "reserve" /\ s.task = proc[p].task
      BY <1>1 DEF ProcState
    <3>2. Become(p, s) /\ proc[p].step \in Early
      BY <1>7, <2>1 DEF TakeHold, Early
    <3> HIDE DEF s
    <3> QED BY <1>3, <3>1, <3>2
  <2> QED BY Zenon, <1>2, <1>7, <2>1 DEF TakeHold
<1>8. ASSUME NEW t \in Tickets, Evaluate(p, t) PROVE KeysAreOwn'
  <2> DEFINE s == [IdleProc EXCEPT !.step = "claim", !.task = t]
  <2>1. s.step = "claim" /\ s.task = t
    BY DEF IdleProc
  <2>2. Become(p, s) /\ resv[CellOf[p]][t].state = "none"
    BY Zenon, <1>8 DEF Evaluate
  <2> HIDE DEF s
  <2> QED BY <1>1, <2>1, <2>2, ProcKeepsKeys
<1> QED BY <1>4, <1>5, <1>6, <1>7, <1>8

LEMMA LateKeepsKeys ==
  ASSUME TypeOK, KnowledgeInv, OneCloser, KeysAreOwn, NEW p \in Procs,
         \/ Offer(p) \/ TakeSelf(p) \/ ExecuteDone(p) \/ ExecuteRejected(p) \/ ExecuteUnknown(p)
         \/ SettleLease(p) \/ Mark(p) \/ Crash(p) \/ \E t \in Tickets : LoadReport(p, t)
  PROVE  KeysAreOwn'
<1>1. proc[p] \in ProcState /\ CellOf[p] \in Cells
  BY ProcFields
<1>2. PICK s : Become(p, s) /\ s.step \notin Early \cup {"unhold"}
  <2>1. CASE Stop(p)
    BY <2>1 DEF Stop, IdleProc, Early
  <2>2. CASE Go(p, "mark")
    <3>1. [proc[p] EXCEPT !.step = "mark"].step = "mark"
      BY <1>1 DEF ProcState
    <3> QED BY Zenon, <2>2, <3>1 DEF Go, Early
  <2>3. CASE TakeSelf(p)
    <3>1. \A r : [proc[p] EXCEPT !.step = "execute", !.resv = r].step = "execute"
      BY <1>1 DEF ProcState
    <3> QED BY Zenon, <2>1, <2>3, <3>1 DEF TakeSelf, Early
  <2>4. CASE ExecuteDone(p) \/ ExecuteRejected(p)
    BY <2>4, ExecuteSettles DEF Early
  <2>5. ASSUME NEW t \in Tickets, LoadReport(p, t)
        PROVE  \E s : Become(p, s) /\ s.step \notin Early \cup {"unhold"}
    <3> DEFINE r == resv[CellOf[p]][t]
               s == [IdleProc EXCEPT !.step = "settle", !.task = t, !.lease = lease[CellOf[p]],
                                     !.resv = r, !.happened = r.happened, !.actual = r.actual]
    <3>1. s.step = "settle"
      BY DEF IdleProc
    <3>2. Become(p, s)
      BY Zenon, <2>5 DEF LoadReport
    <3> HIDE DEF s
    <3> QED BY <3>1, <3>2 DEF Early
  <2> QED BY <2>1, <2>2, <2>3, <2>4, <2>5 DEF Offer, ExecuteUnknown, SettleLease, Mark, Crash
<1>3. \A c \in Cells, t \in Tickets : resv[c][t].state = "none" => resv'[c][t] = resv[c][t]
  <2>1. CASE UNCHANGED resv
    BY <2>1
  <2>2. CASE ~UNCHANGED resv
    <3>1. PICK c \in Cells, t \in Tickets : c = CellOf[p] /\ t = proc[p].task
      BY Zenon, <2>2, ProcFields DEF Offer, TakeSelf, ExecuteDone, ExecuteRejected, ExecuteUnknown,
         SettleLease, Mark, Crash, LoadReport
    <3>2. \E r : SetResv(c, t, r)
      BY Zenon, <2>2, <3>1 DEF Offer, TakeSelf, ExecuteDone, ExecuteRejected, ExecuteUnknown,
         SettleLease, Mark, Crash, LoadReport
    <3>3. resv[c][t].state # "none"
      <4>1. CASE Offer(p) \/ TakeSelf(p)
        BY <2>2, <3>1, <4>1 DEF Offer, TakeSelf, Takeable
      <4>2. CASE Mark(p)
        <5>1. Settles(p, c, t) /\ proc[p].resv = resv[c][t]
          BY <2>2, <3>1, <4>2 DEF Mark, Settles
        <5>2. proc[p].resv.state \in {"pending", "reported"}
          BY <4>2 DEF Mark, KnowledgeInv, SettlerKnows
        <5> QED BY <5>1, <5>2
      <4> QED BY Zenon, <2>2, <4>1, <4>2 DEF ExecuteDone, ExecuteRejected, ExecuteUnknown,
                 SettleLease, Crash, LoadReport
    <3> QED BY <3>2, <3>3, KeyWrite
  <2> QED BY <2>1, <2>2
<1> QED BY <1>1, <1>2, <1>3, ProcKeepsKeys DEF Early

LEMMA ClaimKeepsKeys ==
  ASSUME TypeOK, Undisturbed, KeysAreOwn, NEW p \in Procs, ClaimKey(p)
  PROVE  KeysAreOwn'
<1>1. PICK c \in Cells, t \in Tickets : c = CellOf[p] /\ t = proc[p].task
  BY ProcFields DEF ClaimKey
<1>2. proc[p].step = "reserve" /\ KeyFree(c, t)
  BY <1>1 DEF ClaimKey, KeysAreOwn, OwnsKey, KeyFree
<1> DEFINE r == Offered(proc[p].amount, proc[p].units)
           s == [proc[p] EXCEPT !.step = IF t \in Served THEN "offer" ELSE "take", !.resv = r]
<1>3. SetResv(c, t, r) /\ Become(p, s)
  BY <1>1, <1>2 DEF ClaimKey
<1> HIDE DEF r
<1>4. s.step \in {"offer", "take"}
  BY ProcFields DEF ProcState
<1> HIDE DEF s
<1>5. \A q \in Procs : proc'[q] = IF q = p THEN s ELSE proc[q]
  BY <1>3 DEF TypeOK, Become
<1>6. \A d \in Cells, u \in Tickets : <<d, u>> # <<c, t>> => resv'[d][u] = resv[d][u]
  BY <1>3, WriteOne
<1>7. OwnsKey(p)'
  BY <1>4, <1>5 DEF OwnsKey
<1>8. ASSUME NEW q \in Procs, q # p PROVE OwnsKey(q)'
  <2>1. CellOf[q] \in Cells /\ CellOf[q] # c /\ (proc[q].step # "idle" => proc[q].task \in Tickets)
    BY <1>1, <1>8, ProcFields DEF Undisturbed
  <2>2. proc'[q] = proc[q] /\ OwnsKey(q)
    BY <1>5, <1>8 DEF KeysAreOwn
  <2>3. CASE proc[q].step \in Early
    <3>1. resv'[CellOf[q]][proc[q].task] = resv[CellOf[q]][proc[q].task]
      BY <1>6, <2>1, <2>3 DEF Early
    <3> QED BY <2>2, <3>1 DEF OwnsKey
  <2>4. CASE proc[q].step \notin Early
    BY <2>2, <2>4 DEF OwnsKey, Early
  <2> QED BY <2>3, <2>4
<1> QED BY <1>7, <1>8 DEF KeysAreOwn

LEMMA NextKeepsClosers ==
  ASSUME TypeOK, KnowledgeInv, Undisturbed, OneCloser, KeysAreOwn, [Next]_vars
  PROVE  (OneCloser /\ KeysAreOwn)'
<1>1. CASE UNCHANGED <<proc, conn, resv>>
  <2>1. KeysAreOwn'
    BY <1>1, KeysStayOwn
  <2> QED BY <1>1, <2>1, NobodyKeepsCloser
<1>2. ASSUME NEW p \in Procs,
             PassStep(p) \/ Crash(p) \/ \E t \in Tickets : Evaluate(p, t) \/ LoadReport(p, t)
      PROVE  (OneCloser /\ KeysAreOwn)'
  <2>1. OneCloser'
    BY <1>2, PassKeepsCloser, OtherProcKeepsCloser
  <2>2. ~Unhold(p)
    BY DEF Unhold, KeysAreOwn, OwnsKey
  <2>3. KeysAreOwn'
    BY <1>2, <2>2, EarlyKeepsKeys, LateKeepsKeys, ClaimKeepsKeys DEF PassStep
  <2> QED BY <2>1, <2>3
<1>3. ASSUME NEW k \in Connectors,
             ConnStep(k) \/ ConnCrash(k) \/ \E c \in Cells, t \in Tickets : Take(k, c, t)
      PROVE  (OneCloser /\ KeysAreOwn)'
  <2>1. OneCloser'
    BY <1>3, ConnStepKeepsCloser
  <2>2. UNCHANGED proc
    BY Zenon, <1>3 DEF ConnStep, ActDone, ActRefused, ActUnknown, Report, ConnCrash, Take
  <2>3. \A c \in Cells, t \in Tickets : resv[c][t].state = "none" => resv'[c][t] = resv[c][t]
    <3>1. CASE UNCHANGED resv
      BY <3>1
    <3>2. ASSUME NEW c \in Cells, NEW t \in Tickets, Take(k, c, t)
          PROVE  \A d \in Cells, u \in Tickets : resv[d][u].state = "none" => resv'[d][u] = resv[d][u]
      BY <3>2, KeyWrite DEF Take, Takeable
    <3>3. CASE Report(k) /\ ~UNCHANGED resv
      <4>1. PICK c \in Cells, t \in Tickets : c = conn[k].cell /\ t = conn[k].task
        BY <3>3, ConnFields DEF Report
      <4>2. resv[c][t].state # "none" /\ \E r : SetResv(c, t, r)
        BY <3>3, <4>1 DEF Report
      <4> QED BY <4>2, KeyWrite
    <3> QED BY Zenon, <1>3, <3>1, <3>2, <3>3 DEF ConnStep, ActDone, ActRefused, ActUnknown, ConnCrash
  <2>4. KeysAreOwn'
    BY <2>2, <2>3, KeysStayOwn
  <2> QED BY <2>1, <2>4
<1>4. Sweepers = {} /\ Principals = {}
  BY DEF Undisturbed
<1> QED BY Zenon, <1>1, <1>2, <1>3, <1>4 DEF Next, vars, LapseClaim, Reissue, SetCeiling

--------------------------------------------------------------------------------
(* What a lease holds and what it has to hold: the sums, and what moves them.       *)

LEMMA HoldReserves ==
  ASSUME NEW l \in Lease, NEW a \in Nat, NEW u \in Nat, NEW d \in Dimensions
  PROVE  Reserved(Hold(l, a, u), d) = Reserved(l, d) + (IF d = "amount" THEN a ELSE u)
BY DEF Lease, Reserved, Hold

LEMMA ReleaseReserves ==
  ASSUME NEW l \in Lease, NEW a \in Nat, NEW u \in Nat, NEW d \in Dimensions
  PROVE  Reserved(Release(l, a, u), d) = Reserved(l, d) - (IF d = "amount" THEN a ELSE u)
BY DEF Lease, Reserved, Release

LEMMA ConvertReserves ==
  ASSUME NEW l \in Lease, NEW a \in Nat, NEW b \in Nat, NEW u \in Nat, NEW v \in Nat,
         NEW d \in Dimensions, CanConvert(l, a, b, u, v)
  PROVE  Reserved(Convert(l, a, b, u, v), d) = Reserved(l, d) - (IF d = "amount" THEN a ELSE u)
<1> DEFINE r == Release(l, a, u)
<1>1. r \in Lease /\ Reserved(r, d) = Reserved(l, d) - (IF d = "amount" THEN a ELSE u)
  BY ReleaseTyped, ReleaseReserves DEF CanConvert
<1> HIDE DEF r
<1>2. Reserved(Charge(r, b, v), d) = Reserved(r, d)
  BY <1>1 DEF Charge, Reserved, Lease
<1> QED BY <1>1, <1>2 DEF Convert, r

AccountsOK ==
  \A c \in Cells, d \in Dimensions :
    /\ \A t \in Tickets : HeldFor(c, t, d) \in Nat
    /\ \A p \in Procs : ComingFor(c, p, d) \in Nat
    /\ Held(c, d) \in [Tickets -> Nat] /\ Total(Held(c, d)) \in Nat
    /\ Coming(c, d) \in [Procs -> Nat] /\ Total(Coming(c, d)) \in Nat
    /\ Reserved(lease[c], d) \in Nat
    /\ \A t \in Tickets : OwedFor(c, t) \in Nat
    /\ Owed(c) \in [Tickets -> Nat] /\ Total(Owed(c)) \in Nat
    /\ charged[c] \in [Tickets -> Nat] /\ Total(charged[c]) \in Nat /\ lease[c].spent \in Nat

LEMMA AccountsTyped == TypeOK => AccountsOK
<1> SUFFICES ASSUME TypeOK, NEW c \in Cells, NEW d \in Dimensions
             PROVE  /\ \A t \in Tickets : HeldFor(c, t, d) \in Nat
                    /\ \A p \in Procs : ComingFor(c, p, d) \in Nat
                    /\ Held(c, d) \in [Tickets -> Nat] /\ Total(Held(c, d)) \in Nat
                    /\ Coming(c, d) \in [Procs -> Nat] /\ Total(Coming(c, d)) \in Nat
                    /\ Reserved(lease[c], d) \in Nat
                    /\ \A t \in Tickets : OwedFor(c, t) \in Nat
                    /\ Owed(c) \in [Tickets -> Nat] /\ Total(Owed(c)) \in Nat
                    /\ charged[c] \in [Tickets -> Nat] /\ Total(charged[c]) \in Nat
                    /\ lease[c].spent \in Nat
  BY DEF AccountsOK
<1>1. \A t \in Tickets, e \in Dimensions : HeldFor(c, t, e) \in Nat
  <2>1. \A t \in Tickets : resv[c][t].amount \in Nat /\ resv[c][t].units \in Nat
    BY WritesTyped, ResvFields
  <2> QED BY <2>1 DEF HeldFor, Dimensions
<1>2. \A p \in Procs : ComingFor(c, p, d) \in Nat
  <2>1. \A p \in Procs : proc[p].amount \in Nat /\ proc[p].units \in Nat
    BY ProcFields
  <2> QED BY <2>1 DEF ComingFor, Dimensions
<1>3. charged[c] \in [Tickets -> Nat] /\ \A t \in Tickets : OwedFor(c, t) \in Nat
  BY DEF TypeOK, OwedFor
<1>4. Held(c, d) \in [Tickets -> Nat] /\ Coming(c, d) \in [Procs -> Nat] /\ Owed(c) \in [Tickets -> Nat]
  BY <1>1, <1>2, <1>3 DEF Held, Coming, Owed
<1>5. /\ Total(Held(c, d)) \in Nat /\ Total(Coming(c, d)) \in Nat
      /\ Total(Owed(c)) \in Nat /\ Total(charged[c]) \in Nat
  BY <1>3, <1>4, TotalIsNat, FiniteAssumption
<1>6. Reserved(lease[c], d) \in Nat /\ lease[c].spent \in Nat
  BY SpentTyped DEF TypeOK, Lease
<1> QED BY <1>1, <1>2, <1>3, <1>4, <1>5, <1>6

LEMMA AccountsTypedNext == TypeOK' => AccountsOK'
BY AccountsTyped, PTL

LEMMA HeldMoves ==
  ASSUME TypeOK, TypeOK', NEW c \in Cells, NEW d \in Dimensions, NEW t \in Tickets,
         \A u \in Tickets \ {t} : HeldFor(c, u, d)' = HeldFor(c, u, d)
  PROVE  Total(Held(c, d))' - HeldFor(c, t, d)' = Total(Held(c, d)) - HeldFor(c, t, d)
<1>1. Held(c, d) \in [Tickets -> Nat] /\ Held(c, d)' \in [Tickets -> Nat]
  BY AccountsTyped, AccountsTypedNext DEF AccountsOK
<1>2. \A u \in Tickets : Held(c, d)[u] = HeldFor(c, u, d) /\ Held(c, d)'[u] = HeldFor(c, u, d)'
  BY DEF Held
<1>3. Total(Held(c, d)') - HeldFor(c, t, d)' = Total(Held(c, d)) - HeldFor(c, t, d)
  BY <1>1, <1>2, TotalChangesByOne, FiniteAssumption
<1> QED BY <1>3

LEMMA ComingMoves ==
  ASSUME TypeOK, TypeOK', NEW c \in Cells, NEW d \in Dimensions, NEW p \in Procs,
         \A q \in Procs \ {p} : ComingFor(c, q, d)' = ComingFor(c, q, d)
  PROVE  Total(Coming(c, d))' - ComingFor(c, p, d)' = Total(Coming(c, d)) - ComingFor(c, p, d)
<1>1. Coming(c, d) \in [Procs -> Nat] /\ Coming(c, d)' \in [Procs -> Nat]
  BY AccountsTyped, AccountsTypedNext DEF AccountsOK
<1>2. \A q \in Procs : Coming(c, d)[q] = ComingFor(c, q, d) /\ Coming(c, d)'[q] = ComingFor(c, q, d)'
  BY DEF Coming
<1>3. Total(Coming(c, d)') - ComingFor(c, p, d)' = Total(Coming(c, d)) - ComingFor(c, p, d)
  BY <1>1, <1>2, TotalChangesByOne, FiniteAssumption
<1> QED BY <1>3

LEMMA OwedMoves ==
  ASSUME TypeOK, TypeOK', NEW c \in Cells, NEW t \in Tickets,
         \A u \in Tickets \ {t} : OwedFor(c, u)' = OwedFor(c, u)
  PROVE  Total(Owed(c))' - OwedFor(c, t)' = Total(Owed(c)) - OwedFor(c, t)
<1>0. "amount" \in Dimensions
  BY DEF Dimensions
<1>1. Owed(c) \in [Tickets -> Nat] /\ Owed(c)' \in [Tickets -> Nat]
  BY <1>0, AccountsTyped, AccountsTypedNext DEF AccountsOK
<1>2. \A u \in Tickets : Owed(c)[u] = OwedFor(c, u) /\ Owed(c)'[u] = OwedFor(c, u)'
  BY DEF Owed
<1>3. Total(Owed(c)') - OwedFor(c, t)' = Total(Owed(c)) - OwedFor(c, t)
  BY <1>1, <1>2, TotalChangesByOne, FiniteAssumption
<1> QED BY <1>3

LEMMA SumsStay ==
  ASSUME NEW c, NEW d
  PROVE  /\ (\A t \in Tickets : HeldFor(c, t, d)' = HeldFor(c, t, d)) => Total(Held(c, d))' = Total(Held(c, d))
         /\ (\A p \in Procs : ComingFor(c, p, d)' = ComingFor(c, p, d)) => Total(Coming(c, d))' = Total(Coming(c, d))
         /\ (\A t \in Tickets : OwedFor(c, t)' = OwedFor(c, t)) => Total(Owed(c))' = Total(Owed(c))
<1>1. (\A t \in Tickets : HeldFor(c, t, d)' = HeldFor(c, t, d)) => Held(c, d)' = Held(c, d)
  BY DEF Held
<1>2. (\A p \in Procs : ComingFor(c, p, d)' = ComingFor(c, p, d)) => Coming(c, d)' = Coming(c, d)
  BY DEF Coming
<1>3. (\A t \in Tickets : OwedFor(c, t)' = OwedFor(c, t)) => Owed(c)' = Owed(c)
  BY DEF Owed
<1> QED BY <1>1, <1>2, <1>3

(* A step keeps the accounts of a cell if, in the one place where it moves anything, *)
(* what the lease holds moves with what it has to hold.                       *)
Balanced(c) == \A d \in Dimensions : Reserved(lease[c], d) = Total(Held(c, d)) + Total(Coming(c, d))
ChargesBalance(c) == Total(charged[c]) = lease[c].spent + Total(Owed(c))

LEMMA StillBalanced ==
  ASSUME NEW c \in Cells, Balanced(c),
         \A t \in Tickets, d \in Dimensions : HeldFor(c, t, d)' = HeldFor(c, t, d),
         \A p \in Procs, d \in Dimensions : ComingFor(c, p, d)' = ComingFor(c, p, d),
         \A d \in Dimensions : Reserved(lease[c], d)' = Reserved(lease[c], d)
  PROVE  Balanced(c)'
<1> SUFFICES ASSUME NEW d \in Dimensions
             PROVE  Reserved(lease[c], d)' = Total(Held(c, d))' + Total(Coming(c, d))'
  BY DEF Balanced
<1>1. Total(Held(c, d))' = Total(Held(c, d)) /\ Total(Coming(c, d))' = Total(Coming(c, d))
  BY SumsStay
<1> QED BY <1>1 DEF Balanced

LEMMA PassBalances ==
  ASSUME TypeOK, TypeOK', NEW c \in Cells, Balanced(c), NEW t \in Tickets, NEW p \in Procs,
         \A u \in Tickets \ {t}, d \in Dimensions : HeldFor(c, u, d)' = HeldFor(c, u, d),
         \A q \in Procs \ {p}, d \in Dimensions : ComingFor(c, q, d)' = ComingFor(c, q, d),
         \A d \in Dimensions :
           Reserved(lease[c], d)' + HeldFor(c, t, d) + ComingFor(c, p, d)
             = Reserved(lease[c], d) + HeldFor(c, t, d)' + ComingFor(c, p, d)'
  PROVE  Balanced(c)'
<1> SUFFICES ASSUME NEW d \in Dimensions
             PROVE  Reserved(lease[c], d)' = Total(Held(c, d))' + Total(Coming(c, d))'
  BY DEF Balanced
<1>1. Total(Held(c, d))' - HeldFor(c, t, d)' = Total(Held(c, d)) - HeldFor(c, t, d)
  BY HeldMoves
<1>2. Total(Coming(c, d))' - ComingFor(c, p, d)' = Total(Coming(c, d)) - ComingFor(c, p, d)
  BY ComingMoves
<1>3. /\ Total(Held(c, d)) \in Nat /\ Total(Held(c, d))' \in Nat
      /\ Total(Coming(c, d)) \in Nat /\ Total(Coming(c, d))' \in Nat
      /\ HeldFor(c, t, d) \in Nat /\ HeldFor(c, t, d)' \in Nat
      /\ ComingFor(c, p, d) \in Nat /\ ComingFor(c, p, d)' \in Nat
      /\ Reserved(lease[c], d) \in Nat /\ Reserved(lease[c], d)' \in Nat
  BY AccountsTyped, AccountsTypedNext DEF AccountsOK
<1>4. Reserved(lease[c], d) = Total(Held(c, d)) + Total(Coming(c, d))
  BY DEF Balanced
<1>5. Reserved(lease[c], d)' + HeldFor(c, t, d) + ComingFor(c, p, d)
        = Reserved(lease[c], d) + HeldFor(c, t, d)' + ComingFor(c, p, d)'
  OBVIOUS
<1>6. /\ Total(Held(c, d))' = Total(Held(c, d)) - HeldFor(c, t, d) + HeldFor(c, t, d)'
      /\ Total(Coming(c, d))' = Total(Coming(c, d)) - ComingFor(c, p, d) + ComingFor(c, p, d)'
  BY <1>1, <1>2, <1>3
<1>7. Reserved(lease[c], d)' = Total(Held(c, d)) + Total(Coming(c, d)) + HeldFor(c, t, d)' + ComingFor(c, p, d)'
                                 - (HeldFor(c, t, d) + ComingFor(c, p, d))
  BY <1>3, <1>4, <1>5
<1> QED BY <1>3, <1>6, <1>7

LEMMA SettlementBalances ==
  ASSUME TypeOK, TypeOK', NEW c \in Cells, Balanced(c), NEW t \in Tickets,
         \A u \in Tickets \ {t}, d \in Dimensions : HeldFor(c, u, d)' = HeldFor(c, u, d),
         \A p \in Procs, d \in Dimensions : ComingFor(c, p, d)' = ComingFor(c, p, d),
         \A d \in Dimensions :
           Reserved(lease[c], d)' + HeldFor(c, t, d) = Reserved(lease[c], d) + HeldFor(c, t, d)'
  PROVE  Balanced(c)'
<1> SUFFICES ASSUME NEW d \in Dimensions
             PROVE  Reserved(lease[c], d)' = Total(Held(c, d))' + Total(Coming(c, d))'
  BY DEF Balanced
<1>1. Total(Held(c, d))' - HeldFor(c, t, d)' = Total(Held(c, d)) - HeldFor(c, t, d)
  BY HeldMoves
<1>2. Total(Coming(c, d))' = Total(Coming(c, d))
  BY SumsStay
<1>3. /\ Total(Held(c, d)) \in Nat /\ Total(Held(c, d))' \in Nat
      /\ Total(Coming(c, d)) \in Nat
      /\ HeldFor(c, t, d) \in Nat /\ HeldFor(c, t, d)' \in Nat
      /\ Reserved(lease[c], d) \in Nat /\ Reserved(lease[c], d)' \in Nat
  BY AccountsTyped, AccountsTypedNext DEF AccountsOK
<1>4. Reserved(lease[c], d) = Total(Held(c, d)) + Total(Coming(c, d))
  BY DEF Balanced
<1>5. Reserved(lease[c], d)' + HeldFor(c, t, d) = Reserved(lease[c], d) + HeldFor(c, t, d)'
  OBVIOUS
<1> QED BY <1>1, <1>2, <1>3, <1>4, <1>5

LEMMA StillOwed ==
  ASSUME NEW c \in Cells, ChargesBalance(c),
         \A t \in Tickets : OwedFor(c, t)' = OwedFor(c, t),
         charged'[c] = charged[c], lease'[c].spent = lease[c].spent
  PROVE  ChargesBalance(c)'
<1>1. Total(Owed(c))' = Total(Owed(c))
  BY SumsStay
<1>2. Total(charged[c])' = Total(charged[c])
  OBVIOUS
<1> QED BY <1>1, <1>2 DEF ChargesBalance

LEMMA OwedTogether ==
  ASSUME TypeOK, TypeOK', NEW c \in Cells, ChargesBalance(c), NEW t \in Tickets,
         \A u \in Tickets \ {t} : OwedFor(c, u)' = OwedFor(c, u) /\ charged'[c][u] = charged[c][u],
         charged'[c][t] + lease[c].spent + OwedFor(c, t) = charged[c][t] + lease'[c].spent + OwedFor(c, t)'
  PROVE  ChargesBalance(c)'
<1>0. "amount" \in Dimensions
  BY DEF Dimensions
<1>1. Total(Owed(c))' - OwedFor(c, t)' = Total(Owed(c)) - OwedFor(c, t)
  BY OwedMoves
<1>2. /\ Total(Owed(c)) \in Nat /\ Total(Owed(c))' \in Nat
      /\ OwedFor(c, t) \in Nat /\ OwedFor(c, t)' \in Nat
      /\ Total(charged[c]) \in Nat /\ Total(charged'[c]) \in Nat
      /\ lease[c].spent \in Nat /\ lease'[c].spent \in Nat
  BY <1>0, AccountsTyped, AccountsTypedNext DEF AccountsOK
<1>3. charged[c] \in [Tickets -> Nat] /\ charged'[c] \in [Tickets -> Nat]
  BY <1>0, AccountsTyped, AccountsTypedNext DEF AccountsOK
<1>4. /\ Total(charged'[c]) - charged'[c][t] = Total(charged[c]) - charged[c][t]
      /\ charged[c][t] \in Nat /\ charged'[c][t] \in Nat
  BY <1>3, TotalChangesByOne, FiniteAssumption
<1>5. Total(charged[c]) = lease[c].spent + Total(Owed(c))
  BY DEF ChargesBalance
<1>6. charged'[c][t] + lease[c].spent + OwedFor(c, t) = charged[c][t] + lease'[c].spent + OwedFor(c, t)'
  OBVIOUS
<1>7. /\ Total(charged'[c]) = Total(charged[c]) - charged[c][t] + charged'[c][t]
      /\ Total(Owed(c))' = Total(Owed(c)) - OwedFor(c, t) + OwedFor(c, t)'
  BY <1>1, <1>2, <1>4
<1>8. Total(charged'[c]) = lease'[c].spent + Total(Owed(c))'
  BY <1>2, <1>4, <1>5, <1>6, <1>7
<1> QED BY <1>8 DEF ChargesBalance

--------------------------------------------------------------------------------
(* What every step does to the accounts.  Orderly gathers what is known before it.  *)

Orderly   == TypeOK /\ OrderInv /\ KnowledgeInv /\ OneCloser /\ KeysAreOwn /\ ChargesKnown
Accounted == \A c \in Cells : Balanced(c) /\ ChargesBalance(c)

QuietHolds ==
  /\ \A c \in Cells, t \in Tickets : /\ Holds(c, t)' <=> Holds(c, t)
                                    /\ \A d \in Dimensions : HeldFor(c, t, d)' = HeldFor(c, t, d)
  /\ \A c \in Cells, p \in Procs, d \in Dimensions : ComingFor(c, p, d)' = ComingFor(c, p, d)

LEMMA OwedFollows ==
  ASSUME NEW c, NEW t, Holds(c, t)' <=> Holds(c, t), charged'[c][t] = charged[c][t]
  PROVE  OwedFor(c, t)' = OwedFor(c, t)
BY DEF OwedFor

LEMMA StillAccounted ==
  ASSUME Accounted, QuietHolds, UNCHANGED <<placed, charged>>,
         \A c \in Cells, d \in Dimensions : Reserved(lease[c], d)' = Reserved(lease[c], d),
         \A c \in Cells : lease'[c].spent = lease[c].spent
  PROVE  Accounted'
<1> SUFFICES ASSUME NEW c \in Cells
             PROVE  Balanced(c)' /\ ChargesBalance(c)'
  BY DEF Accounted
<1>1. Balanced(c)'
  BY StillBalanced DEF Accounted, QuietHolds
<1>2. \A t \in Tickets : OwedFor(c, t)' = OwedFor(c, t)
  BY OwedFollows DEF QuietHolds
<1>3. ChargesBalance(c)'
  BY <1>2, StillOwed DEF Accounted
<1> QED BY <1>1, <1>3

SameHold(r, s) == /\ Open(s) <=> Open(r)
                  /\ s.released = r.released /\ s.amount = r.amount /\ s.units = r.units

LEMMA HeldStays ==
  ASSUME NEW c, NEW t, NEW d \in Dimensions, Closing(c, t)' <=> Closing(c, t),
         SameHold(resv[c][t], resv'[c][t])
  PROVE  (Holds(c, t)' <=> Holds(c, t)) /\ HeldFor(c, t, d)' = HeldFor(c, t, d)
<1>1. Holds(c, t)' <=> Holds(c, t)
  BY DEF Holds, SameHold
<1>2. HeldFor(c, t, d)' = HeldFor(c, t, d)
  BY <1>1 DEF HeldFor, SameHold, Dimensions
<1> QED BY <1>1, <1>2

LEMMA ClosingStays ==
  ASSUME TypeOK, NEW c \in Cells, NEW t \in Tickets, NEW p \in Procs, NEW s, Become(p, s),
         proc[p].step = "mark" => <<CellOf[p], proc[p].task>> # <<c, t>>,
         s.step = "mark" => <<CellOf[p], s.task>> # <<c, t>>
  PROVE  Closing(c, t)' <=> Closing(c, t)
<1>1. \A q \in Procs : proc'[q] = IF q = p THEN s ELSE proc[q]
  BY DEF TypeOK, Become
<1>2. \A q \in Procs : (CellOf[q] = c /\ proc'[q].task = t /\ proc'[q].step = "mark")
                         <=> (CellOf[q] = c /\ proc[q].task = t /\ proc[q].step = "mark")
  BY <1>1
<1> QED BY <1>2 DEF Closing

LEMMA ComingStays ==
  ASSUME TypeOK, NEW p \in Procs, NEW s, Become(p, s), NEW c \in Cells, NEW q \in Procs, NEW d,
         q # p \/ c # CellOf[p]
  PROVE  ComingFor(c, q, d)' = ComingFor(c, q, d)
<1>1. proc'[q] = IF q = p THEN s ELSE proc[q]
  BY DEF TypeOK, Become
<1> QED BY <1>1 DEF ComingFor, Keyless

(* A process on its way, which holds nothing it has no key for and closes nothing.  *)
OnItsWay(s) == /\ s.step \notin {"mark", "unhold"}
               /\ s.step = "reserve" => ~Priced(s.task)

LEMMA PassIsStill ==
  ASSUME TypeOK, NEW p \in Procs, NEW s, Become(p, s), OnItsWay(proc[p]), OnItsWay(s),
         \A c \in Cells, t \in Tickets : SameHold(resv[c][t], resv'[c][t])
  PROVE  QuietHolds
<1>1. \A c \in Cells, t \in Tickets : Closing(c, t)' <=> Closing(c, t)
  BY ClosingStays DEF OnItsWay
<1>2. proc'[p] = s
  BY DEF TypeOK, Become
<1>3. \A c \in Cells, d \in Dimensions : ComingFor(c, p, d) = 0 /\ ComingFor(c, p, d)' = 0
  BY <1>2 DEF ComingFor, Keyless, OnItsWay
<1>4. \A c \in Cells, q \in Procs, d \in Dimensions : ComingFor(c, q, d)' = ComingFor(c, q, d)
  BY <1>3, ComingStays
<1>5. "amount" \in Dimensions
  BY DEF Dimensions
<1> QED BY <1>1, <1>4, <1>5, HeldStays DEF QuietHolds

LEMMA SameIsSameHold == UNCHANGED resv => \A c \in Cells, t \in Tickets : SameHold(resv[c][t], resv'[c][t])
BY DEF SameHold

LEMMA WriteIsSameHold ==
  ASSUME TypeOK, NEW c \in Cells, NEW t \in Tickets, NEW r, SetResv(c, t, r), SameHold(resv[c][t], r)
  PROVE  \A e \in Cells, u \in Tickets : SameHold(resv[e][u], resv'[e][u])
BY WriteOne DEF SameHold

LEMMA StopsOnItsWay == OnItsWay(IdleProc)
BY DEF OnItsWay, IdleProc

(* The steps of a pass after which it is on its way. *)
LEMMA PassOnItsWay ==
  ASSUME TypeOK, KeysAreOwn, NEW p \in Procs,
         \/ Claim(p) \/ Authorize(p) \/ Look(p) \/ Offer(p) \/ TakeSelf(p)
         \/ ExecuteDone(p) \/ ExecuteRejected(p) \/ ExecuteUnknown(p)
         \/ \E t \in Tickets : Evaluate(p, t) \/ LoadReport(p, t)
  PROVE  OnItsWay(proc[p]) /\ \E s : Become(p, s) /\ OnItsWay(s)
<1>1. OnItsWay(proc[p]) /\ proc[p] \in ProcState
  BY Zenon, ProcFields DEF OnItsWay, Claim, Authorize, Look, Offer, TakeSelf, ExecuteDone,
     ExecuteRejected, ExecuteUnknown, Evaluate, LoadReport
<1>2. CASE Stop(p)
  BY <1>1, <1>2, StopsOnItsWay DEF Stop
<1>3. CASE Claim(p)
  <2>1. PICK l, e : Become(p, [proc[p] EXCEPT !.step = "authorize", !.lease = l, !.ceiling = e])
    BY Zenon, <1>3 DEF Claim
  <2> DEFINE s == [proc[p] EXCEPT !.step = "authorize", !.lease = l, !.ceiling = e]
  <2>2. s.step = "authorize" /\ Become(p, s)
    BY <1>1, <2>1 DEF ProcState
  <2> HIDE DEF s
  <2> QED BY <1>1, <2>2 DEF OnItsWay
<1>4. CASE Authorize(p)
  <2>1. ASSUME NEW q \in Quotes,
               Become(p, [proc[p] EXCEPT !.step = "look", !.amount = q.amount, !.units = q.units])
        PROVE  \E s : Become(p, s) /\ OnItsWay(s)
    <3> DEFINE s == [proc[p] EXCEPT !.step = "look", !.amount = q.amount, !.units = q.units]
    <3>1. s.step = "look" /\ Become(p, s)
      BY <1>1, <2>1 DEF ProcState
    <3> HIDE DEF s
    <3> QED BY <3>1 DEF OnItsWay
  <2> QED BY Zenon, <1>1, <1>2, <1>4, <2>1 DEF Authorize
<1>5. CASE Look(p)
  <2> DEFINE s == [proc[p] EXCEPT !.step = IF Priced(proc[p].task) THEN "hold" ELSE "reserve"]
  <2>1. s.step = (IF Priced(proc[p].task) THEN "hold" ELSE "reserve") /\ s.task = proc[p].task
    BY <1>1 DEF ProcState
  <2>2. Stop(p) \/ Become(p, s)
    BY <1>5 DEF Look, Go
  <2> HIDE DEF s
  <2> QED BY <1>1, <1>2, <2>1, <2>2 DEF OnItsWay
<1>6. CASE TakeSelf(p)
  <2>1. ASSUME NEW r, Become(p, [proc[p] EXCEPT !.step = "execute", !.resv = r])
        PROVE  \E s : Become(p, s) /\ OnItsWay(s)
    <3> DEFINE s == [proc[p] EXCEPT !.step = "execute", !.resv = r]
    <3>1. s.step = "execute" /\ Become(p, s)
      BY <1>1, <2>1 DEF ProcState
    <3> HIDE DEF s
    <3> QED BY <3>1 DEF OnItsWay
  <2> QED BY Zenon, <1>1, <1>2, <1>6, <2>1 DEF TakeSelf
<1>7. CASE ExecuteDone(p) \/ ExecuteRejected(p)
  <2>1. PICK s : Become(p, s) /\ s.step = "settle"
    BY <1>7, ExecuteSettles
  <2> QED BY <1>1, <2>1 DEF OnItsWay
<1>8. ASSUME NEW t \in Tickets, Evaluate(p, t) PROVE \E s : Become(p, s) /\ OnItsWay(s)
  <2> DEFINE s == [IdleProc EXCEPT !.step = "claim", !.task = t]
  <2>1. s.step = "claim" /\ Become(p, s)
    BY Zenon, <1>8 DEF Evaluate, IdleProc
  <2> HIDE DEF s
  <2> QED BY <2>1 DEF OnItsWay
<1>9. ASSUME NEW t \in Tickets, LoadReport(p, t) PROVE \E s : Become(p, s) /\ OnItsWay(s)
  <2> DEFINE r == resv[CellOf[p]][t]
             s == [IdleProc EXCEPT !.step = "settle", !.task = t, !.lease = lease[CellOf[p]],
                                   !.resv = r, !.happened = r.happened, !.actual = r.actual]
  <2>1. s.step = "settle"
    BY DEF IdleProc
  <2>2. Become(p, s)
    BY Zenon, <1>9 DEF LoadReport
  <2> HIDE DEF s
  <2> QED BY <2>1, <2>2 DEF OnItsWay
<1> QED BY <1>1, <1>2, <1>3, <1>4, <1>5, <1>6, <1>7, <1>8, <1>9 DEF Offer, ExecuteUnknown

LEMMA PassQuiet ==
  ASSUME TypeOK, KeysAreOwn, NEW p \in Procs,
         \/ Claim(p) \/ Authorize(p) \/ Look(p) \/ Offer(p) \/ TakeSelf(p)
         \/ ExecuteDone(p) \/ ExecuteRejected(p) \/ ExecuteUnknown(p)
         \/ \E t \in Tickets : Evaluate(p, t) \/ LoadReport(p, t)
  PROVE  QuietHolds /\ UNCHANGED lease
<1>1. OnItsWay(proc[p])
  BY PassOnItsWay
<1>2. PICK s : Become(p, s) /\ OnItsWay(s)
  BY PassOnItsWay
<1>3. UNCHANGED lease
  BY Zenon DEF Claim, Authorize, Look, Offer, TakeSelf, ExecuteDone, ExecuteRejected,
     ExecuteUnknown, Evaluate, LoadReport
<1>4. \A c \in Cells, t \in Tickets : SameHold(resv[c][t], resv'[c][t])
  <2>1. CASE UNCHANGED resv
    BY <2>1, SameIsSameHold
  <2>2. CASE ~UNCHANGED resv
    <3>1. PICK c \in Cells, t \in Tickets : c = CellOf[p] /\ t = proc[p].task
      BY Zenon, <2>2, ProcFields DEF Claim, Authorize, Look, Offer, TakeSelf, ExecuteDone,
         ExecuteRejected, ExecuteUnknown, Evaluate, LoadReport
    <3>2. resv[c][t] \in Reservation
      BY WritesTyped
    <3>3. CASE Offer(p)
      <4>1. resv[c][t] = proc[p].resv /\ SetResv(c, t, [resv[c][t] EXCEPT !.posted = TRUE])
        BY Zenon, <2>2, <3>1, <3>3 DEF Offer
      <4>2. SameHold(resv[c][t], [resv[c][t] EXCEPT !.posted = TRUE])
        BY <3>2 DEF SameHold, Open, Reservation
      <4> QED BY <4>1, <4>2, WriteIsSameHold
    <3>4. CASE TakeSelf(p)
      <4>1. Takeable(resv[c][t]) /\ SetResv(c, t, Taken(resv[c][t], c))
        BY <2>2, <3>1, <3>4 DEF TakeSelf
      <4>2. SameHold(resv[c][t], Taken(resv[c][t], c))
        BY <3>2, <4>1 DEF SameHold, Open, Reservation, Taken, Takeable
      <4> QED BY <4>1, <4>2, WriteIsSameHold
    <3> QED BY Zenon, <2>2, <3>3, <3>4 DEF Claim, Authorize, Look, ExecuteDone, ExecuteRejected,
               ExecuteUnknown, Evaluate, LoadReport
  <2> QED BY <2>1, <2>2
<1> QED BY <1>1, <1>2, <1>3, <1>4, PassIsStill

--------------------------------------------------------------------------------
(* An action that somebody may perform holds headroom, and performing it moves the  *)
(* owed by what the far end charges.                                                    *)

LEMMA LicensedHolds ==
  ASSUME Orderly, Undisturbed, NEW c \in Cells, NEW t \in Tickets, Licensed(c, t)
  PROVE  Holds(c, t) <=> Priced(t)
<1>1. \/ \E p \in Procs : Settles(p, c, t) /\ proc[p].step = "execute"
      \/ \E k \in Connectors : Works(k, c, t)
  BY DEF Licensed, ProcLicensed, ConnLicensed, Settles, Works
<1>2. ASSUME NEW p \in Procs, Settles(p, c, t), proc[p].step = "execute"
      PROVE  Open(resv[c][t]) /\ ~Closing(c, t)
  <2>1. /\ \A q \in Procs : Settles(q, c, t) => q = p
        /\ proc[p].resv = resv[c][t]
    BY <1>2, SettlerIsAlone DEF Orderly
  <2>2. proc[p].resv.state \in {"pending", "reported"}
    BY <1>2 DEF Orderly, KnowledgeInv, SettlerKnows
  <2> QED BY <1>2, <2>1, <2>2 DEF Open, Closing, Settles
<1>3. ASSUME NEW k \in Connectors, Works(k, c, t)
      PROVE  Open(resv[c][t]) /\ ~Closing(c, t)
  <2>1. /\ \A p \in Procs : ~Settles(p, c, t)
        /\ resv[c][t].state = "pending"
    BY <1>3, WorkerIsAlone DEF Orderly
  <2> QED BY <2>1 DEF Open, Closing, Settles
<1>4. Open(resv[c][t]) => ~resv[c][t].released
  BY DEF Orderly, OneCloser, ClosedByOne
<1> QED BY <1>1, <1>2, <1>3, <1>4 DEF Holds

LEMMA ChargeOne ==
  ASSUME TypeOK, OrderInv, ChargesKnown, NEW c \in Cells, NEW t \in Tickets, NEW r \in Reservation,
         NEW cost \in Actuals \cup {0}, Perform(c, t, r, cost), Licensed(c, t)
  PROVE  /\ charged[c][t] = 0 /\ charged'[c][t] = Charges(t, r, cost)
         /\ \A d \in Cells, u \in Tickets : <<d, u>> # <<c, t>> => charged'[d][u] = charged[d][u]
         /\ \A d \in Cells \ {c} : charged'[d] = charged[d]
<1>1. charged[c][t] = 0
  BY PerformOne DEF ChargesKnown, RecordCharge
<1>2. charged' = [charged EXCEPT ![c][t] = @ + Charges(t, r, cost)]
  BY DEF Perform
<1>3. Charges(t, r, cost) \in Nat
  BY AmountAssumption, ReservationsTyped DEF Charges
<1> HIDE DEF Charges
<1>4. charged \in [Cells -> [Tickets -> Nat]]
  BY DEF TypeOK
<1>5. charged'[c][t] = 0 + Charges(t, r, cost)
  BY <1>1, <1>2, <1>4
<1>6. charged'[c][t] = Charges(t, r, cost)
  BY <1>3, <1>5
<1> QED BY <1>1, <1>2, <1>4, <1>6

LEMMA PerformedAccounted ==
  ASSUME Orderly, TypeOK', Undisturbed, Accounted, QuietHolds, UNCHANGED lease,
         NEW c \in Cells, NEW t \in Tickets, NEW r \in Reservation, NEW cost \in Actuals \cup {0},
         Licensed(c, t), Perform(c, t, r, cost)
  PROVE  Accounted'
<1> SUFFICES ASSUME NEW e \in Cells
             PROVE  Balanced(e)' /\ ChargesBalance(e)'
  BY DEF Accounted
<1>1. Balanced(e)'
  BY StillBalanced DEF Accounted, QuietHolds
<1>2. /\ charged[c][t] = 0 /\ charged'[c][t] = Charges(t, r, cost)
      /\ \A d \in Cells, u \in Tickets : <<d, u>> # <<c, t>> => charged'[d][u] = charged[d][u]
      /\ \A d \in Cells \ {c} : charged'[d] = charged[d]
  BY ChargeOne DEF Orderly
<1>3. \A d \in Cells, u \in Tickets : <<d, u>> # <<c, t>> => OwedFor(d, u)' = OwedFor(d, u)
  BY <1>2, OwedFollows DEF QuietHolds
<1>4. CASE e = c
  <2>1. OwedFor(c, t) = 0
    BY <1>2 DEF OwedFor
  <2>2. OwedFor(c, t)' = charged'[c][t]
    BY <1>2, LicensedHolds DEF OwedFor, QuietHolds, Charges
  <2>3. lease[c].spent \in Nat /\ OwedFor(c, t)' \in Nat
    BY AccountsTyped, AccountsTypedNext DEF AccountsOK, Orderly, Dimensions
  <2>4. charged'[c][t] + lease[c].spent + OwedFor(c, t) = charged[c][t] + lease'[c].spent + OwedFor(c, t)'
    BY <1>2, <2>1, <2>2, <2>3
  <2>5. \A u \in Tickets \ {t} : OwedFor(c, u)' = OwedFor(c, u) /\ charged'[c][u] = charged[c][u]
    BY <1>2, <1>3
  <2>6. ChargesBalance(c)'
    BY <2>4, <2>5, OwedTogether DEF Accounted, Orderly
  <2> QED BY <1>1, <1>4, <2>6
<1>5. CASE e # c
  <2>1. ChargesBalance(e)'
    BY <1>2, <1>3, <1>5, StillOwed DEF Accounted
  <2> QED BY <1>1, <2>1
<1> QED BY <1>4, <1>5

LEMMA ExecuteAccounted ==
  ASSUME Orderly, TypeOK', Undisturbed, Accounted, NEW p \in Procs,
         ExecuteDone(p) \/ ExecuteRejected(p) \/ ExecuteUnknown(p)
  PROVE  Accounted'
<1>1. PICK c \in Cells, t \in Tickets : c = CellOf[p] /\ t = proc[p].task
  BY Zenon, ProcFields DEF Orderly, ExecuteDone, ExecuteRejected, ExecuteUnknown
<1>2. QuietHolds /\ UNCHANGED lease
  BY PassQuiet DEF Orderly
<1>3. CASE UNCHANGED <<placed, charged>>
  BY <1>2, <1>3, StillAccounted
<1>4. CASE ~UNCHANGED <<placed, charged>>
  <2>1. PICK cost \in Actuals \cup {0} : Perform(c, t, proc[p].resv, cost)
    BY Zenon, <1>1, <1>4 DEF ExecuteDone, ExecuteRejected, ExecuteUnknown
  <2>2. Licensed(c, t) /\ Settles(p, c, t)
    BY Zenon, <1>1 DEF ExecuteDone, ExecuteRejected, ExecuteUnknown, Licensed, ProcLicensed, Settles
  <2>3. proc[p].resv \in Reservation
    BY ProcFields DEF Orderly
  <2> QED BY <1>2, <2>1, <2>2, <2>3, PerformedAccounted
<1> QED BY <1>3, <1>4

LEMMA ConnAccounted ==
  ASSUME Orderly, TypeOK', Undisturbed, Accounted, NEW k \in Connectors,
         ConnStep(k) \/ ConnCrash(k) \/ \E c \in Cells, t \in Tickets : Take(k, c, t)
  PROVE  Accounted'
<1>1. UNCHANGED <<lease, proc>>
  BY Zenon DEF ConnStep, ActDone, ActRefused, ActUnknown, Report, ConnCrash, Take
<1>2. \A c \in Cells, t \in Tickets : SameHold(resv[c][t], resv'[c][t])
  <2>1. CASE UNCHANGED resv
    BY <2>1, SameIsSameHold
  <2>2. ASSUME NEW c \in Cells, NEW t \in Tickets, Take(k, c, t)
        PROVE  \A e \in Cells, u \in Tickets : SameHold(resv[e][u], resv'[e][u])
    <3>1. resv[c][t] \in Reservation
      BY WritesTyped DEF Orderly
    <3>2. SameHold(resv[c][t], Taken(resv[c][t], k))
      BY Zenon, <2>2, <3>1 DEF SameHold, Open, Reservation, Taken, Takeable, Take
    <3> QED BY Zenon, <2>2, <3>2, WriteIsSameHold DEF Take, Orderly
  <2>3. CASE Report(k) /\ ~UNCHANGED resv
    <3>1. PICK c \in Cells, t \in Tickets : c = conn[k].cell /\ t = conn[k].task
      BY <2>3, ConnFields DEF Report, Orderly
    <3>2. resv[c][t] \in Reservation
      BY WritesTyped DEF Orderly
    <3>3. /\ resv[c][t].state = "pending"
          /\ SetResv(c, t, Reported(resv[c][t], conn[k].happened, conn[k].actual))
      BY <2>3, <3>1 DEF Report
    <3>4. SameHold(resv[c][t], Reported(resv[c][t], conn[k].happened, conn[k].actual))
      BY <3>2, <3>3 DEF SameHold, Open, Reservation, Reported
    <3> QED BY <3>3, <3>4, WriteIsSameHold DEF Orderly
  <2> QED BY Zenon, <2>1, <2>2, <2>3 DEF ConnStep, ActDone, ActRefused, ActUnknown, ConnCrash
<1>3. QuietHolds
  <2>1. \A c \in Cells, t \in Tickets : Closing(c, t)' <=> Closing(c, t)
    BY <1>1 DEF Closing
  <2>2. \A c \in Cells, p \in Procs, d \in Dimensions : ComingFor(c, p, d)' = ComingFor(c, p, d)
    BY <1>1 DEF ComingFor, Keyless
  <2>3. "amount" \in Dimensions
    BY DEF Dimensions
  <2> QED BY <1>2, <2>1, <2>2, <2>3, HeldStays DEF QuietHolds
<1>4. CASE UNCHANGED <<placed, charged>>
  BY <1>1, <1>3, <1>4, StillAccounted
<1>5. CASE ~UNCHANGED <<placed, charged>>
  <2>1. conn[k].step = "act"
    BY Zenon, <1>5 DEF ConnStep, ActDone, ActRefused, ActUnknown, Report, ConnCrash, Take
  <2>2. PICK c \in Cells, t \in Tickets : c = conn[k].cell /\ t = conn[k].task
    BY <2>1, ConnFields DEF Orderly
  <2>3. PICK cost \in Actuals \cup {0} : Perform(c, t, resv[c][t], cost)
    BY Zenon, <1>5, <2>2 DEF ConnStep, ActDone, ActRefused, ActUnknown, Report, ConnCrash, Take
  <2>4. Licensed(c, t) /\ resv[c][t] \in Reservation
    BY <2>1, <2>2, WritesTyped DEF Licensed, ConnLicensed, Orderly
  <2> QED BY <1>1, <1>3, <2>3, <2>4, PerformedAccounted
<1> QED BY <1>4, <1>5

(* The lease write that settles an action gives up what the action holds, and      *)
(* records spending it when it was performed.                                *)
LEMMA SettledAccounted ==
  ASSUME Orderly, TypeOK', Accounted, UNCHANGED <<placed, charged>>,
         NEW c \in Cells, NEW t \in Tickets, NEW l, lease' = [lease EXCEPT ![c] = l],
         \A e \in Cells, u \in Tickets : <<e, u>> # <<c, t>> =>
           (Holds(e, u)' <=> Holds(e, u)) /\ \A d \in Dimensions : HeldFor(e, u, d)' = HeldFor(e, u, d),
         \A e \in Cells, p \in Procs, d \in Dimensions : ComingFor(e, p, d)' = ComingFor(e, p, d),
         ~Holds(c, t)',
         \A d \in Dimensions : Reserved(l, d) + HeldFor(c, t, d) = Reserved(lease[c], d),
         l.spent = lease[c].spent + OwedFor(c, t)
  PROVE  Accounted'
<1> SUFFICES ASSUME NEW e \in Cells
             PROVE  Balanced(e)' /\ ChargesBalance(e)'
  BY DEF Accounted
<1>1. lease'[c] = l /\ \A f \in Cells \ {c} : lease'[f] = lease[f]
  BY DEF Orderly, TypeOK
<1>2. \A f \in Cells, u \in Tickets : <<f, u>> # <<c, t>> => OwedFor(f, u)' = OwedFor(f, u)
  BY OwedFollows
<1>3. CASE e # c
  <2>1. /\ \A u \in Tickets, d \in Dimensions : HeldFor(e, u, d)' = HeldFor(e, u, d)
        /\ \A u \in Tickets : OwedFor(e, u)' = OwedFor(e, u)
        /\ \A d \in Dimensions : Reserved(lease[e], d)' = Reserved(lease[e], d)
        /\ lease'[e].spent = lease[e].spent /\ charged'[e] = charged[e]
    BY <1>1, <1>2, <1>3
  <2>2. Balanced(e)'
    BY <2>1, StillBalanced DEF Accounted
  <2>3. ChargesBalance(e)'
    BY <2>1, StillOwed DEF Accounted
  <2> QED BY <2>2, <2>3
<1>4. CASE e = c
  <2>1. /\ \A u \in Tickets \ {t}, d \in Dimensions : HeldFor(c, u, d)' = HeldFor(c, u, d)
        /\ \A u \in Tickets \ {t} : OwedFor(c, u)' = OwedFor(c, u)
    BY <1>2
  <2>2. \A d \in Dimensions :
          Reserved(lease[c], d)' + HeldFor(c, t, d) = Reserved(lease[c], d) + HeldFor(c, t, d)'
    <3> SUFFICES ASSUME NEW d \in Dimensions
                 PROVE  Reserved(lease[c], d)' + HeldFor(c, t, d) = Reserved(lease[c], d) + HeldFor(c, t, d)'
      OBVIOUS
    <3>1. Reserved(lease[c], d)' = Reserved(l, d) /\ HeldFor(c, t, d)' = 0
      BY <1>1 DEF HeldFor
    <3>2. Reserved(lease[c], d) \in Nat
      BY AccountsTyped DEF AccountsOK, Orderly
    <3>3. Reserved(l, d) + HeldFor(c, t, d) = Reserved(lease[c], d)
      OBVIOUS
    <3> QED BY <3>1, <3>2, <3>3
  <2>3. Balanced(c)'
    BY <2>1, <2>2, SettlementBalances DEF Accounted, Orderly
  <2>4. ChargesBalance(c)'
    <3>1. OwedFor(c, t)' = 0
      BY DEF OwedFor
    <3>2. lease[c].spent \in Nat /\ OwedFor(c, t) \in Nat
      BY AccountsTyped DEF AccountsOK, Orderly, Dimensions
    <3>3. charged[c][t] \in Nat /\ charged'[c] = charged[c]
      BY DEF Orderly, TypeOK
    <3>4. charged'[c][t] + lease[c].spent + OwedFor(c, t) = charged[c][t] + lease'[c].spent + OwedFor(c, t)'
      BY <1>1, <3>1, <3>2, <3>3
    <3> QED BY <2>1, <3>3, <3>4, OwedTogether DEF Accounted, Orderly
  <2> QED BY <1>4, <2>3, <2>4
<1> QED BY <1>3, <1>4

LEMMA SettleLeaseAccounted ==
  ASSUME Orderly, TypeOK', Undisturbed, Accounted, NEW p \in Procs, SettleLease(p)
  PROVE  Accounted'
<1>1. PICK c \in Cells, t \in Tickets, l \in Lease, r \in Reservation, a \in Nat :
        c = CellOf[p] /\ t = proc[p].task /\ l = proc[p].lease /\ r = proc[p].resv /\ a = proc[p].actual
  BY ProcFields DEF SettleLease, Orderly
<1>2. proc[p].step = "settle" /\ UNCHANGED <<resv, placed, charged>>
  BY DEF SettleLease
<1>3. r.amount \in Nat /\ r.units \in Nat /\ Cost(r, a) \in Nat
  BY Zenon, <1>1, ResvFields, ReservationsTyped
<1>4. Settles(p, c, t)
  BY <1>1, <1>2 DEF Settles
<1>5. /\ r = resv[c][t] /\ ~Closing(c, t)
      /\ Open(r) /\ ~r.released
  <2>1. /\ \A q \in Procs : Settles(q, c, t) => q = p
        /\ proc[p].resv = resv[c][t]
    BY <1>4, SettlerIsAlone DEF Orderly
  <2>2. Open(r)
    BY <1>1, <1>2 DEF Open, Orderly, KnowledgeInv, SettlerKnows
  <2> QED BY <1>1, <1>2, <2>1, <2>2 DEF Closing, Settles, Orderly, OneCloser, ClosedByOne
<1>6. charged[c][t] = IF proc[p].happened THEN Charges(t, r, a) ELSE 0
  <2>1. proc[p].happened => charged[c][t] = Charges(t, r, a)
    BY <1>1, <1>2 DEF Orderly, ChargesKnown, PassCharge
  <2>2. ~proc[p].happened => placed[c][t] = 0
    BY <1>1, <1>2 DEF Orderly, TypeOK, KnowledgeInv, SettlerKnows, Decided
  <2> QED BY <2>1, <2>2 DEF Orderly, ChargesKnown, RecordCharge
<1>7. /\ \A d \in Dimensions : HeldFor(c, t, d) = IF Priced(t) THEN r[d] ELSE 0
      /\ OwedFor(c, t) = IF Priced(t) /\ proc[p].happened THEN Cost(r, a) ELSE 0
  <2>1. Holds(c, t) <=> Priced(t)
    BY <1>5 DEF Holds
  <2> QED BY <1>5, <1>6, <2>1 DEF HeldFor, OwedFor, Charges
<1>8. CASE Stop(p) /\ UNCHANGED lease
  <2>1. Become(p, IdleProc) /\ OnItsWay(proc[p]) /\ OnItsWay(IdleProc)
    BY <1>2, <1>8, StopsOnItsWay DEF Stop, OnItsWay
  <2>2. QuietHolds
    BY <1>2, <2>1, SameIsSameHold, PassIsStill DEF Orderly
  <2> QED BY <1>2, <1>8, <2>2, StillAccounted
<1> DEFINE s == [proc[p] EXCEPT !.step = "mark"]
<1>9. s.step = "mark" /\ s.task = t
  BY <1>1, ProcFields DEF ProcState, Orderly
<1>10. ASSUME NEW m, Become(p, s), lease' = [lease EXCEPT ![c] = m],
              \A d \in Dimensions : Reserved(m, d) + HeldFor(c, t, d) = Reserved(lease[c], d),
              m.spent = lease[c].spent + OwedFor(c, t)
       PROVE  Accounted'
  <2> HIDE DEF s
  <2>1. proc'[p] = s
    BY <1>10 DEF Become, Orderly, TypeOK
  <2>2. Closing(c, t)'
    BY <1>1, <1>9, <2>1 DEF Closing
  <2>3. ~Holds(c, t)'
    BY <2>2 DEF Holds
  <2>4. \A e \in Cells, u \in Tickets : <<e, u>> # <<c, t>> =>
          (Holds(e, u)' <=> Holds(e, u)) /\ \A d \in Dimensions : HeldFor(e, u, d)' = HeldFor(e, u, d)
    <3>0. "amount" \in Dimensions
      BY DEF Dimensions
    <3>1. ASSUME NEW e \in Cells, NEW u \in Tickets, <<e, u>> # <<c, t>>
          PROVE  Closing(e, u)' <=> Closing(e, u)
      BY <1>1, <1>2, <1>9, <1>10, <3>1, ClosingStays DEF Orderly
    <3> QED BY <1>2, <3>0, <3>1, SameIsSameHold, HeldStays
  <2>5. \A e \in Cells, q \in Procs, d \in Dimensions : ComingFor(e, q, d)' = ComingFor(e, q, d)
    <3>1. \A e \in Cells, d \in Dimensions : ComingFor(e, p, d) = 0 /\ ComingFor(e, p, d)' = 0
      BY <1>2, <1>9, <2>1 DEF ComingFor, Keyless
    <3> QED BY <1>10, <3>1, ComingStays DEF Orderly
  <2> QED BY Zenon, <1>2, <1>10, <2>3, <2>4, <2>5, SettledAccounted
<1>11. lease[c] \in Lease /\ Reserved(lease[c], "amount") \in Nat /\ Reserved(lease[c], "units") \in Nat
  BY SpentTyped DEF Orderly, TypeOK, Dimensions
<1>12. CASE ~Priced(t) /\ Become(p, s) /\ UNCHANGED lease
  <2> HIDE DEF s
  <2>1. \A d \in Dimensions : HeldFor(c, t, d) = 0
    BY <1>7, <1>12
  <2>2. OwedFor(c, t) = 0 /\ lease[c].spent \in Nat
    BY <1>7, <1>11, <1>12 DEF Lease
  <2>3. lease' = [lease EXCEPT ![c] = lease[c]]
    BY <1>12 DEF Orderly, TypeOK
  <2>4. \A d \in Dimensions : Reserved(lease[c], d) + HeldFor(c, t, d) = Reserved(lease[c], d)
    BY <1>11, <2>1 DEF Dimensions
  <2>5. lease[c].spent = lease[c].spent + OwedFor(c, t)
    BY <2>2
  <2> QED BY Zenon, <1>10, <1>12, <2>3, <2>4, <2>5
<1>13. CASE /\ Priced(t) /\ ~proc[p].happened /\ Become(p, s)
            /\ CanRelease(l, r.amount, r.units) /\ CanPublish(c, l, Release(l, r.amount, r.units))
            /\ lease' = [lease EXCEPT ![c] = Release(l, r.amount, r.units)]
  <2> DEFINE m == Release(l, r.amount, r.units)
  <2>1. lease[c] = l
    BY <1>13 DEF CanPublish
  <2>2. \A d \in Dimensions : Reserved(m, d) = Reserved(l, d) - (IF d = "amount" THEN r.amount ELSE r.units)
    BY <1>3, ReleaseReserves
  <2>3. m.spent = l.spent
    BY DEF Release, Lease
  <2>4. lease' = [lease EXCEPT ![c] = m]
    BY <1>13
  <2> HIDE DEF m, s
  <2>5. \A d \in Dimensions : Reserved(m, d) + HeldFor(c, t, d) = Reserved(lease[c], d)
    BY <1>3, <1>7, <1>11, <1>13, <2>1, <2>2 DEF Dimensions
  <2>6. OwedFor(c, t) = 0 /\ lease[c].spent \in Nat
    BY <1>7, <1>11, <1>13 DEF Lease
  <2>7. m.spent = lease[c].spent + OwedFor(c, t)
    BY <2>1, <2>3, <2>6
  <2> QED BY Zenon, <1>10, <1>13, <2>4, <2>5, <2>7
<1>14. CASE /\ Priced(t) /\ proc[p].happened /\ Become(p, s)
            /\ CanConvert(l, r.amount, Cost(r, a), r.units, r.units)
            /\ CanPublish(c, l, Convert(l, r.amount, Cost(r, a), r.units, r.units))
            /\ lease' = [lease EXCEPT ![c] = Convert(l, r.amount, Cost(r, a), r.units, r.units)]
  <2> DEFINE m == Convert(l, r.amount, Cost(r, a), r.units, r.units)
  <2>1. lease[c] = l
    BY <1>14 DEF CanPublish
  <2>2. \A d \in Dimensions : Reserved(m, d) = Reserved(l, d) - (IF d = "amount" THEN r.amount ELSE r.units)
    BY <1>3, <1>14, ConvertReserves
  <2>3. m.spent = l.spent + Cost(r, a)
    <3>1. Spent(m, "amount") = Spent(l, "amount") + Cost(r, a)
      BY <1>3, <1>14, ConvertSpends DEF Dimensions
    <3> QED BY <3>1 DEF Spent
  <2>4. lease' = [lease EXCEPT ![c] = m]
    BY <1>14
  <2> HIDE DEF m, s
  <2>5. \A d \in Dimensions : Reserved(m, d) + HeldFor(c, t, d) = Reserved(lease[c], d)
    BY <1>3, <1>7, <1>11, <1>14, <2>1, <2>2 DEF Dimensions
  <2>6. m.spent = lease[c].spent + OwedFor(c, t)
    BY <1>7, <1>14, <2>1, <2>3
  <2> QED BY Zenon, <1>10, <1>14, <2>4, <2>5, <2>6
<1> HIDE DEF s
<1> QED
  <2>1. Become(p, s) <=> Go(p, "mark")
    BY DEF Go, s
  <2> QED BY Zenon, <1>1, <1>5, <1>8, <1>12, <1>13, <1>14, <2>1 DEF SettleLease

LEMMA MarkAccounted ==
  ASSUME Orderly, TypeOK', Undisturbed, Accounted, NEW p \in Procs, Mark(p)
  PROVE  Accounted'
<1>1. PICK c \in Cells, t \in Tickets, r \in Reservation : c = CellOf[p] /\ t = proc[p].task /\ r = proc[p].resv
  BY ProcFields DEF Mark, Orderly
<1>2. /\ proc[p].step = "mark" /\ Become(p, IdleProc) /\ IdleProc.step = "idle"
      /\ UNCHANGED <<lease, placed, charged>> /\ Settles(p, c, t)
  BY <1>1 DEF Mark, Stop, IdleProc, Settles
<1>3. PICK w : SetResv(c, t, w) /\ ~Open(w)
  <2>1. resv[c][t] = r
    BY <1>1, <1>2, SettlerIsAlone DEF Orderly
  <2>2. \A cost : ~Open(Settled(r, cost))
    BY DEF Open, Settled, Reservation
  <2>3. ~Open(Refused(r, t))
    BY DEF Open, Refused, Reservation
  <2> QED BY <1>1, <2>1, <2>2, <2>3 DEF Mark
<1>4. /\ resv'[c][t] = w
      /\ \A e \in Cells, u \in Tickets : <<e, u>> # <<c, t>> => resv'[e][u] = resv[e][u]
  BY <1>3, WriteOne DEF Orderly
<1>5. /\ ~Holds(c, t) /\ ~Holds(c, t)'
      /\ \A d \in Dimensions : HeldFor(c, t, d) = 0 /\ HeldFor(c, t, d)' = 0
  <2>1. Closing(c, t)
    BY <1>1, <1>2 DEF Closing
  <2> QED BY <1>3, <1>4, <2>1 DEF HeldFor, Holds
<1>6. ASSUME NEW e \in Cells, NEW u \in Tickets, NEW d \in Dimensions, <<e, u>> # <<c, t>>
      PROVE  (Holds(e, u)' <=> Holds(e, u)) /\ HeldFor(e, u, d)' = HeldFor(e, u, d)
  <2>1. Closing(e, u)' <=> Closing(e, u)
    BY <1>1, <1>2, <1>6, ClosingStays DEF Orderly
  <2>2. SameHold(resv[e][u], resv'[e][u])
    BY <1>4, <1>6 DEF SameHold
  <2> QED BY <2>1, <2>2, HeldStays
<1>7. proc'[p] = IdleProc
  BY <1>2 DEF Become, Orderly, TypeOK
<1>8. \A e \in Cells, q \in Procs, d \in Dimensions : ComingFor(e, q, d)' = ComingFor(e, q, d)
  <2>1. \A e \in Cells, d \in Dimensions : ComingFor(e, p, d) = 0 /\ ComingFor(e, p, d)' = 0
    BY <1>2, <1>7 DEF ComingFor, Keyless
  <2> QED BY <1>2, <2>1, ComingStays DEF Orderly
<1>9. QuietHolds
  <2>1. "amount" \in Dimensions
    BY DEF Dimensions
  <2>2. \A e \in Cells, u \in Tickets, d \in Dimensions :
          (Holds(e, u)' <=> Holds(e, u)) /\ HeldFor(e, u, d)' = HeldFor(e, u, d)
    BY <1>5, <1>6
  <2> QED BY <1>8, <2>1, <2>2 DEF QuietHolds
<1> QED BY <1>2, <1>9, StillAccounted

(* The hold a pass takes is the one it comes with, and its key takes the hold over. *)
LEMMA TakeHoldAccounted ==
  ASSUME Orderly, TypeOK', KeysAreOwn', Undisturbed, Accounted, NEW p \in Procs, TakeHold(p)
  PROVE  Accounted'
<1>1. PICK c \in Cells, t \in Tickets, l \in Lease, a \in Nat, u \in Nat :
        /\ c = CellOf[p] /\ t = proc[p].task /\ l = proc[p].lease
        /\ a = proc[p].amount /\ u = proc[p].units
  BY ProcFields DEF TakeHold, Orderly
<1>2. /\ proc[p].step = "hold" /\ Priced(t) /\ UNCHANGED <<resv, placed, charged>>
      /\ OnItsWay(proc[p])
  BY <1>1 DEF TakeHold, Orderly, KeysAreOwn, OwnsKey, OnItsWay
<1>3. CASE Stop(p) /\ UNCHANGED lease
  <2>1. QuietHolds
    <3>1. Become(p, IdleProc) /\ OnItsWay(IdleProc)
      BY <1>3, StopsOnItsWay DEF Stop
    <3> QED BY <1>2, <3>1, SameIsSameHold, PassIsStill DEF Orderly
  <2> QED BY <1>2, <1>3, <2>1, StillAccounted
<1> DEFINE held == Hold(l, a, u)
           s == [proc[p] EXCEPT !.step = "reserve", !.lease = held]
<1>4. CASE CanPublish(c, l, held) /\ lease' = [lease EXCEPT ![c] = held] /\ Become(p, s)
  <2>1. s.step = "reserve" /\ s.task = t /\ s.amount = a /\ s.units = u
    BY <1>1, ProcFields DEF ProcState, Orderly
  <2>2. lease[c] = l
    BY <1>4 DEF CanPublish
  <2>3. /\ \A d \in Dimensions : Reserved(held, d) = Reserved(l, d) + (IF d = "amount" THEN a ELSE u)
        /\ held.spent = l.spent
    <3>1. \A d \in Dimensions : Reserved(held, d) = Reserved(l, d) + (IF d = "amount" THEN a ELSE u)
      BY HoldReserves
    <3>2. held.spent = l.spent
      BY DEF Hold, Lease
    <3> QED BY <3>1, <3>2
  <2>4. lease' = [lease EXCEPT ![c] = held] /\ Become(p, s)
    BY <1>4
  <2> HIDE DEF held, s
  <2>5. lease'[c] = held /\ \A e \in Cells \ {c} : lease'[e] = lease[e]
    BY <2>4 DEF Orderly, TypeOK
  <2>6. proc'[p] = s
    BY <2>4 DEF Become, Orderly, TypeOK
  <2>7. \A e \in Cells, v \in Tickets, d \in Dimensions :
          (Holds(e, v)' <=> Holds(e, v)) /\ HeldFor(e, v, d)' = HeldFor(e, v, d)
    <3>1. \A e \in Cells, v \in Tickets : Closing(e, v)' <=> Closing(e, v)
      BY <1>2, <2>1, <2>4, ClosingStays DEF Orderly
    <3> QED BY <1>2, <3>1, SameIsSameHold, HeldStays
  <2>8. \A e \in Cells, q \in Procs, d \in Dimensions :
          q # p \/ e # c => ComingFor(e, q, d)' = ComingFor(e, q, d)
    BY <1>1, <2>4, ComingStays DEF Orderly
  <2>9. \A d \in Dimensions : /\ ComingFor(c, p, d) = 0
                              /\ ComingFor(c, p, d)' = IF d = "amount" THEN a ELSE u
    BY <1>1, <1>2, <2>1, <2>6 DEF ComingFor, Keyless, Dimensions
  <2> SUFFICES ASSUME NEW e \in Cells
               PROVE  Balanced(e)' /\ ChargesBalance(e)'
    BY DEF Accounted
  <2>10. ChargesBalance(e)'
    <3>1. \A v \in Tickets : OwedFor(e, v)' = OwedFor(e, v)
      BY <1>2, <2>7, OwedFollows DEF Dimensions
    <3>2. lease'[e].spent = lease[e].spent /\ charged'[e] = charged[e]
      BY <1>2, <2>2, <2>3, <2>5
    <3> QED BY <1>2, <3>1, <3>2, StillOwed DEF Accounted
  <2>11. CASE e # c
    <3>1. \A d \in Dimensions : Reserved(lease[e], d)' = Reserved(lease[e], d)
      BY <2>5, <2>11
    <3>2. Balanced(e)'
      BY <2>7, <2>8, <2>11, <3>1, StillBalanced DEF Accounted
    <3> QED BY <2>10, <3>2
  <2>12. CASE e = c
    <3>1. \A d \in Dimensions :
            Reserved(lease[c], d)' + HeldFor(c, t, d) + ComingFor(c, p, d)
              = Reserved(lease[c], d) + HeldFor(c, t, d)' + ComingFor(c, p, d)'
      <4> SUFFICES ASSUME NEW d \in Dimensions
                   PROVE  Reserved(lease[c], d)' + HeldFor(c, t, d) + ComingFor(c, p, d)
                            = Reserved(lease[c], d) + HeldFor(c, t, d)' + ComingFor(c, p, d)'
        OBVIOUS
      <4>1. Reserved(lease[c], d) \in Nat /\ HeldFor(c, t, d) \in Nat
        BY AccountsTyped DEF AccountsOK, Orderly
      <4>2. /\ HeldFor(c, t, d)' = HeldFor(c, t, d)
            /\ Reserved(lease[c], d)' = Reserved(lease[c], d) + ComingFor(c, p, d)'
            /\ ComingFor(c, p, d) = 0 /\ ComingFor(c, p, d)' \in Nat
        BY <2>2, <2>3, <2>5, <2>7, <2>9
      <4> QED BY <4>1, <4>2
    <3>2. /\ \A v \in Tickets \ {t}, d \in Dimensions : HeldFor(c, v, d)' = HeldFor(c, v, d)
          /\ \A q \in Procs \ {p}, d \in Dimensions : ComingFor(c, q, d)' = ComingFor(c, q, d)
      BY <2>7, <2>8
    <3>3. Balanced(c)'
      BY <3>1, <3>2, PassBalances DEF Accounted, Orderly
    <3> QED BY <2>10, <2>12, <3>3
  <2> QED BY <2>11, <2>12
<1> HIDE DEF s, held
<1> QED BY <1>1, <1>3, <1>4 DEF TakeHold, CanHoldNow, s, held

LEMMA ClaimKeyAccounted ==
  ASSUME Orderly, TypeOK', Undisturbed, Accounted, NEW p \in Procs, ClaimKey(p)
  PROVE  Accounted'
<1>1. PICK c \in Cells, t \in Tickets, a \in Nat, u \in Nat :
        c = CellOf[p] /\ t = proc[p].task /\ a = proc[p].amount /\ u = proc[p].units
  BY ProcFields DEF ClaimKey, Orderly
<1>2. /\ proc[p].step = "reserve" /\ resv[c][t].state = "none" /\ UNCHANGED <<lease, placed, charged>>
  BY <1>1 DEF ClaimKey, Orderly, KeysAreOwn, OwnsKey
<1> DEFINE o == Offered(a, u)
           s == [proc[p] EXCEPT !.step = IF t \in Served THEN "offer" ELSE "take", !.resv = o]
<1>3. SetResv(c, t, o) /\ Become(p, s)
  BY <1>1, <1>2 DEF ClaimKey, KeyFree
<1>4. Open(o) /\ ~o.released /\ o.amount = a /\ o.units = u
  BY DEF Offered, NoResv, Open
<1> HIDE DEF o
<1>5. s.step \in {"offer", "take"}
  BY ProcFields DEF ProcState, Orderly
<1> HIDE DEF s
<1>6. /\ resv'[c][t] = o
      /\ \A e \in Cells, v \in Tickets : <<e, v>> # <<c, t>> => resv'[e][v] = resv[e][v]
  BY <1>3, WriteOne DEF Orderly
<1>7. proc'[p] = s
  BY <1>3 DEF Become, Orderly, TypeOK
<1>8. \A e \in Cells, v \in Tickets : Closing(e, v)' <=> Closing(e, v)
  BY <1>2, <1>3, <1>5, ClosingStays DEF Orderly
<1>9. ~Closing(c, t) /\ charged[c][t] = 0
  <2>1. ~Closing(c, t) /\ placed[c][t] = 0
    BY <1>2, NobodyAttends DEF Orderly, OrderInv, UntakenIsUntouched
  <2> QED BY <2>1 DEF Orderly, ChargesKnown, RecordCharge
<1>10. \A d \in Dimensions : /\ HeldFor(c, t, d) = 0
                             /\ HeldFor(c, t, d)' = ComingFor(c, p, d)
                             /\ ComingFor(c, p, d)' = 0
  <2>1. ~Open(resv[c][t])
    BY <1>2 DEF Open
  <2> QED BY <1>1, <1>2, <1>4, <1>5, <1>6, <1>7, <1>8, <1>9, <2>1
          DEF HeldFor, Holds, ComingFor, Keyless, Dimensions
<1>11. \A e \in Cells, v \in Tickets, d \in Dimensions : <<e, v>> # <<c, t>> =>
         (Holds(e, v)' <=> Holds(e, v)) /\ HeldFor(e, v, d)' = HeldFor(e, v, d)
  <2>1. \A e \in Cells, v \in Tickets : <<e, v>> # <<c, t>> => SameHold(resv[e][v], resv'[e][v])
    BY <1>6 DEF SameHold
  <2> QED BY <1>8, <2>1, HeldStays
<1>12. \A e \in Cells, q \in Procs, d \in Dimensions :
         q # p \/ e # c => ComingFor(e, q, d)' = ComingFor(e, q, d)
  BY <1>1, <1>3, ComingStays DEF Orderly
<1>13. \A e \in Cells, v \in Tickets : OwedFor(e, v)' = OwedFor(e, v)
  <2>1. OwedFor(c, t) = 0 /\ OwedFor(c, t)' = 0
    BY <1>2, <1>9 DEF OwedFor
  <2>2. \A e \in Cells, v \in Tickets : <<e, v>> # <<c, t>> => OwedFor(e, v)' = OwedFor(e, v)
    BY <1>2, <1>11, OwedFollows DEF Dimensions
  <2> QED BY <2>1, <2>2
<1> SUFFICES ASSUME NEW e \in Cells
             PROVE  Balanced(e)' /\ ChargesBalance(e)'
  BY DEF Accounted
<1>14. ChargesBalance(e)'
  BY <1>2, <1>13, StillOwed DEF Accounted
<1>15. CASE e # c
  <2>1. \A d \in Dimensions : Reserved(lease[e], d)' = Reserved(lease[e], d)
    BY <1>2
  <2>2. Balanced(e)'
    BY <1>11, <1>12, <1>15, <2>1, StillBalanced DEF Accounted
  <2> QED BY <1>14, <2>2
<1>16. CASE e = c
  <2>1. \A d \in Dimensions :
          Reserved(lease[c], d)' + HeldFor(c, t, d) + ComingFor(c, p, d)
            = Reserved(lease[c], d) + HeldFor(c, t, d)' + ComingFor(c, p, d)'
    <3> SUFFICES ASSUME NEW d \in Dimensions
                 PROVE  Reserved(lease[c], d)' + HeldFor(c, t, d) + ComingFor(c, p, d)
                          = Reserved(lease[c], d) + HeldFor(c, t, d)' + ComingFor(c, p, d)'
      OBVIOUS
    <3>1. Reserved(lease[c], d) \in Nat /\ ComingFor(c, p, d) \in Nat
      BY AccountsTyped DEF AccountsOK, Orderly
    <3>2. Reserved(lease[c], d)' = Reserved(lease[c], d)
      BY <1>2
    <3> QED BY <1>10, <3>1, <3>2
  <2>2. /\ \A v \in Tickets \ {t}, d \in Dimensions : HeldFor(c, v, d)' = HeldFor(c, v, d)
        /\ \A q \in Procs \ {p}, d \in Dimensions : ComingFor(c, q, d)' = ComingFor(c, q, d)
    BY <1>11, <1>12
  <2>3. Balanced(c)'
    BY <2>1, <2>2, PassBalances DEF Accounted, Orderly
  <2> QED BY <1>14, <1>16, <2>3
<1> QED BY <1>15, <1>16

LEMMA OverseerAccounted ==
  ASSUME Orderly, Accounted,
         \/ \E c \in Cells, t \in Tickets : LapseClaim(c, t)
         \/ \E c \in Cells, a \in Amounts : Reissue(c, a)
         \/ \E e \in Ceilings : SetCeiling(e)
         \/ UNCHANGED vars
  PROVE  Accounted'
<1>1. UNCHANGED <<proc, resv, placed, charged>>
  BY Zenon DEF LapseClaim, Reissue, SetCeiling, vars
<1>2. QuietHolds
  BY <1>1 DEF QuietHolds, HeldFor, Holds, Closing, ComingFor, Keyless
<1>3. CASE UNCHANGED lease
  BY <1>1, <1>2, <1>3, StillAccounted
<1>4. ASSUME NEW c \in Cells, NEW a \in Amounts, Reissue(c, a) PROVE Accounted'
  <2> DEFINE l == [lease[c] EXCEPT !.amount = a]
  <2>1. lease' = [lease EXCEPT ![c] = l]
    BY <1>4 DEF Reissue
  <2>2. \A d \in Dimensions : Reserved(l, d) = Reserved(lease[c], d)
    BY DEF Reserved, Orderly, TypeOK, Lease
  <2>3. l.spent = lease[c].spent
    BY DEF Orderly, TypeOK, Lease
  <2> HIDE DEF l
  <2>4. \A e \in Cells : lease'[e] = IF e = c THEN l ELSE lease[e]
    BY <2>1 DEF Orderly, TypeOK
  <2> QED BY <1>1, <1>2, <2>2, <2>3, <2>4, StillAccounted
<1> QED BY <1>3, <1>4 DEF LapseClaim, SetCeiling, vars

LEMMA NextAccounted ==
  ASSUME Orderly, TypeOK', KeysAreOwn', Undisturbed, Accounted, [Next]_vars
  PROVE  Accounted'
<1>1. ASSUME NEW p \in Procs,
             PassStep(p) \/ Crash(p) \/ \E t \in Tickets : Evaluate(p, t) \/ LoadReport(p, t)
      PROVE  Accounted'
  <2>1. ~Unhold(p) /\ ~Crash(p)
    BY DEF Unhold, Crash, Orderly, KeysAreOwn, OwnsKey, Undisturbed, TypeOK
  <2>2. CASE \/ Claim(p) \/ Authorize(p) \/ Look(p) \/ Offer(p) \/ TakeSelf(p)
             \/ \E t \in Tickets : Evaluate(p, t) \/ LoadReport(p, t)
    <3>1. QuietHolds /\ UNCHANGED lease
      BY <2>2, PassQuiet DEF Orderly
    <3>2. UNCHANGED <<placed, charged>>
      BY Zenon, <2>2 DEF Claim, Authorize, Look, Offer, TakeSelf, Evaluate, LoadReport
    <3> QED BY <3>1, <3>2, StillAccounted
  <2>3. CASE ExecuteDone(p) \/ ExecuteRejected(p) \/ ExecuteUnknown(p)
    BY <2>3, ExecuteAccounted
  <2>4. CASE TakeHold(p)
    BY <2>4, TakeHoldAccounted
  <2>5. CASE ClaimKey(p)
    BY <2>5, ClaimKeyAccounted
  <2>6. CASE SettleLease(p)
    BY <2>6, SettleLeaseAccounted
  <2>7. CASE Mark(p)
    BY <2>7, MarkAccounted
  <2> QED BY <1>1, <2>1, <2>2, <2>3, <2>4, <2>5, <2>6, <2>7 DEF PassStep
<1>2. ASSUME NEW k \in Connectors,
             ConnStep(k) \/ ConnCrash(k) \/ \E c \in Cells, t \in Tickets : Take(k, c, t)
      PROVE  Accounted'
  BY <1>2, ConnAccounted
<1>3. Sweepers = {} /\ Principals = {}
  BY DEF Undisturbed
<1> QED BY <1>1, <1>2, <1>3, OverseerAccounted DEF Next

--------------------------------------------------------------------------------
(* Whoever closes an action knows what the far end charged for it.                  *)

Reports(k, c, t) == conn[k].step = "report" /\ conn[k].cell = c /\ conn[k].task = t

LEMMA ChargesStayKnown ==
  ASSUME TypeOK, ChargesKnown, UNCHANGED <<placed, charged>>,
         \A p \in Procs : proc'[p] = proc[p] \/ PassCharge(p)',
         \A k \in Connectors : conn'[k] = conn[k] \/ conn'[k].step # "report" \/ ~conn'[k].happened,
         \A c \in Cells, t \in Tickets :
           \/ resv'[c][t] = resv[c][t]
           \/ RecordCharge(c, t)' /\ \A k \in Connectors : ~Reports(k, c, t)'
  PROVE  ChargesKnown'
<1>1. ASSUME NEW p \in Procs PROVE PassCharge(p)'
  BY DEF ChargesKnown, PassCharge
<1>2. ASSUME NEW k \in Connectors PROVE ReportCharge(k)'
  <2>1. SUFFICES ASSUME conn'[k] = conn[k], conn[k].step = "report" PROVE ReportCharge(k)'
    BY DEF ReportCharge
  <2>2. PICK c \in Cells, t \in Tickets : c = conn[k].cell /\ t = conn[k].task
    BY <2>1, ConnFields
  <2>3. resv'[c][t] = resv[c][t]
    BY <2>1, <2>2 DEF Reports
  <2> QED BY <2>1, <2>2, <2>3 DEF ChargesKnown, ReportCharge
<1>3. ASSUME NEW c \in Cells, NEW t \in Tickets PROVE RecordCharge(c, t)'
  BY DEF ChargesKnown, RecordCharge
<1> QED BY <1>1, <1>2, <1>3 DEF ChargesKnown

(* Nobody reports on what a pass writes, and it never writes a report. *)
LEMMA WriteKeepsRecordCharge ==
  ASSUME TypeOK, ChargesKnown, UNCHANGED <<placed, charged>>, NEW c \in Cells, NEW t \in Tickets, NEW r,
         SetResv(c, t, r), r.state # "reported", \A k \in Connectors : ~Reports(k, c, t)'
  PROVE  \A d \in Cells, u \in Tickets :
           \/ resv'[d][u] = resv[d][u]
           \/ RecordCharge(d, u)' /\ \A k \in Connectors : ~Reports(k, d, u)'
BY WriteOne DEF ChargesKnown, RecordCharge

LEMMA NobodyReports ==
  ASSUME OneCloser, UNCHANGED conn, NEW c \in Cells, NEW t \in Tickets,
         resv[c][t].state # "pending" \/ \E p \in Procs : Settles(p, c, t)
  PROVE  \A k \in Connectors : ~Reports(k, c, t)'
BY DEF Reports, OneCloser, ClosedByOne, Works

(* A process that only moves on knows what it knew. *)
LEMMA PassStillKnows ==
  ASSUME TypeOK, ChargesKnown, UNCHANGED <<placed, charged>>, NEW p \in Procs, NEW s, Become(p, s),
         \/ s.step \notin {"settle", "mark"}
         \/ ~s.happened
         \/ /\ proc[p].step = "settle" /\ s.task = proc[p].task /\ s.resv = proc[p].resv
            /\ s.happened = proc[p].happened /\ s.actual = proc[p].actual
         \/ charged[CellOf[p]][s.task] = Charges(s.task, s.resv, s.actual)
  PROVE  \A q \in Procs : proc'[q] = proc[q] \/ PassCharge(q)'
<1>1. \A q \in Procs : proc'[q] = IF q = p THEN s ELSE proc[q]
  BY DEF TypeOK, Become
<1>2. PassCharge(p)'
  BY <1>1 DEF ChargesKnown, PassCharge
<1> QED BY <1>1, <1>2

LEMMA PassKnowsCharge ==
  ASSUME Orderly, Undisturbed, NEW p \in Procs, UNCHANGED <<placed, charged>>, ~ExecuteDone(p),
         PassStep(p) \/ \E t \in Tickets : Evaluate(p, t) \/ LoadReport(p, t)
  PROVE  ChargesKnown'
<1>1. TypeOK /\ ChargesKnown /\ OneCloser /\ proc[p] \in ProcState /\ CellOf[p] \in Cells
  BY ProcFields DEF Orderly
<1>2. UNCHANGED conn
  BY Zenon DEF PassStep, Claim, Authorize, Look, TakeHold, ClaimKey, Unhold, Offer, TakeSelf,
     ExecuteRejected, ExecuteUnknown, SettleLease, Mark, Evaluate, LoadReport
<1>3. \A q \in Procs : proc'[q] = proc[q] \/ PassCharge(q)'
  <2>1. CASE Away(p)
    BY <2>1 DEF Away, Busy, PassCharge
  <2>2. CASE Stop(p)
    BY <1>1, <2>1, <2>2, GoAway
  <2>3. CASE TakeSelf(p)
    <3>1. ASSUME NEW r, Become(p, [proc[p] EXCEPT !.step = "execute", !.resv = r])
          PROVE  \A q \in Procs : proc'[q] = proc[q] \/ PassCharge(q)'
      <4> DEFINE s == [proc[p] EXCEPT !.step = "execute", !.resv = r]
      <4>1. s.step = "execute" /\ Become(p, s)
        BY <1>1, <3>1 DEF ProcState
      <4> HIDE DEF s
      <4> QED BY <1>1, <4>1, PassStillKnows
    <3> QED BY Zenon, <2>2, <2>3, <3>1 DEF TakeSelf
  <2>4. CASE ExecuteRejected(p)
    <3> DEFINE s == [proc[p] EXCEPT !.step = "settle", !.happened = FALSE]
    <3>1. ~s.happened /\ Become(p, s)
      BY <1>1, <2>4 DEF ProcState, ExecuteRejected
    <3> HIDE DEF s
    <3> QED BY <1>1, <3>1, PassStillKnows
  <2>5. CASE SettleLease(p)
    <3> DEFINE s == [proc[p] EXCEPT !.step = "mark"]
    <3>1. /\ s.task = proc[p].task /\ s.resv = proc[p].resv
          /\ s.happened = proc[p].happened /\ s.actual = proc[p].actual
      BY <1>1 DEF ProcState
    <3>2. Go(p, "mark") => Become(p, s)
      BY DEF Go
    <3> HIDE DEF s
    <3>3. proc[p].step = "settle" /\ (Stop(p) \/ Go(p, "mark"))
      BY <2>5 DEF SettleLease
    <3> QED BY <1>1, <2>2, <3>1, <3>2, <3>3, PassStillKnows
  <2>6. ASSUME NEW t \in Tickets, LoadReport(p, t)
        PROVE  \A q \in Procs : proc'[q] = proc[q] \/ PassCharge(q)'
    <3> DEFINE c == CellOf[p]
               r == resv[c][t]
               s == [IdleProc EXCEPT !.step = "settle", !.task = t, !.lease = lease[c],
                                     !.resv = r, !.happened = r.happened, !.actual = r.actual]
    <3>1. r.state = "reported" /\ Become(p, s)
      BY Zenon, <2>6 DEF LoadReport
    <3>2. r.happened => charged[c][t] = Charges(t, r, r.actual)
      BY <1>1, <3>1 DEF ChargesKnown, RecordCharge
    <3> HIDE DEF r
    <3>3. s.task = t /\ s.resv = r /\ s.happened = r.happened /\ s.actual = r.actual
      BY DEF IdleProc
    <3> HIDE DEF s
    <3> QED BY <1>1, <3>1, <3>2, <3>3, PassStillKnows
  <2> QED BY <1>1, <2>1, <2>2, <2>3, <2>4, <2>5, <2>6, PassGoesAway DEF PassStep, Mark
<1>4. \A d \in Cells, u \in Tickets :
        \/ resv'[d][u] = resv[d][u]
        \/ RecordCharge(d, u)' /\ \A k \in Connectors : ~Reports(k, d, u)'
  <2>1. CASE UNCHANGED resv
    BY <2>1
  <2>2. CASE ~UNCHANGED resv
    <3>1. PICK c \in Cells, t \in Tickets : c = CellOf[p] /\ t = proc[p].task
      BY Zenon, <1>1, <2>2, ProcFields DEF PassStep, Claim, Authorize, Look, TakeHold, ClaimKey, Unhold,
         Offer, TakeSelf, ExecuteRejected, ExecuteUnknown, SettleLease, Mark, Evaluate, LoadReport
    <3>2. resv[c][t] \in Reservation
      BY <1>1, WritesTyped
    <3>3. ASSUME NEW r, SetResv(c, t, r), r.state # "reported",
                 resv[c][t].state # "pending" \/ Settles(p, c, t)
          PROVE  \A d \in Cells, u \in Tickets :
                   \/ resv'[d][u] = resv[d][u]
                   \/ RecordCharge(d, u)' /\ \A k \in Connectors : ~Reports(k, d, u)'
      BY <1>1, <1>2, <3>3, NobodyReports, WriteKeepsRecordCharge
    <3>4. CASE ClaimKey(p)
      <4> DEFINE o == Offered(proc[p].amount, proc[p].units)
      <4>1. SetResv(c, t, o) /\ resv[c][t].state # "pending"
        BY <2>2, <3>1, <3>4 DEF ClaimKey, KeyFree
      <4>2. o.state = "offered"
        BY DEF Offered, NoResv
      <4> HIDE DEF o
      <4> QED BY <3>3, <4>1, <4>2
    <3>5. CASE Offer(p)
      <4>1. resv[c][t].state = "offered" /\ SetResv(c, t, [resv[c][t] EXCEPT !.posted = TRUE])
        BY Zenon, <2>2, <3>1, <3>5 DEF Offer
      <4>2. [resv[c][t] EXCEPT !.posted = TRUE].state = "offered"
        BY <3>2, <4>1 DEF Reservation
      <4> QED BY <3>3, <4>1, <4>2
    <3>6. CASE TakeSelf(p)
      <4>1. resv[c][t].state = "offered" /\ SetResv(c, t, Taken(resv[c][t], c))
        BY <2>2, <3>1, <3>6 DEF TakeSelf, Takeable
      <4>2. Taken(resv[c][t], c).state = "pending"
        BY <3>2 DEF Taken, Reservation
      <4> QED BY <3>3, <4>1, <4>2
    <3>7. CASE Mark(p)
      <4>1. PICK r : r = resv[c][t]
        OBVIOUS
      <4>2. Settles(p, c, t)
        BY <3>1, <3>7 DEF Mark, Settles
      <4>3. SetResv(c, t, Settled(r, proc[p].actual)) \/ SetResv(c, t, Refused(r, t))
        BY <2>2, <3>1, <3>7, <4>1 DEF Mark
      <4>4. Settled(r, proc[p].actual).state = "done" /\ Refused(r, t).state = "failed"
        BY <3>2, <4>1 DEF Settled, Refused, Reservation
      <4> QED BY <3>3, <4>2, <4>3, <4>4
    <3> QED BY Zenon, <2>2, <3>4, <3>5, <3>6, <3>7 DEF PassStep, Claim, Authorize, Look, TakeHold,
               Unhold, ExecuteRejected, ExecuteUnknown, SettleLease, Evaluate, LoadReport
  <2> QED BY <2>1, <2>2
<1> QED BY <1>1, <1>2, <1>3, <1>4, ChargesStayKnown

(* When somebody performs an action nobody knows yet what was charged for it.      *)
LEMMA LicensedIsNew ==
  ASSUME Orderly, Undisturbed, NEW c \in Cells, NEW t \in Tickets, Licensed(c, t)
  PROVE  /\ \A p \in Procs : ~(proc[p].step \in {"settle", "mark"} /\ CellOf[p] = c /\ proc[p].task = t)
         /\ \A k \in Connectors : ~Reports(k, c, t)
         /\ resv[c][t].state # "reported"
<1>1. resv[c][t].state # "reported"
  BY DEF Orderly, KnowledgeInv, RecordKnows, Decided
<1>2. CASE \E p \in Procs : ProcLicensed(p, c, t)
  <2>1. PICK p \in Procs : proc[p].step = "execute" /\ Settles(p, c, t)
    BY <1>2 DEF ProcLicensed, Settles
  <2>2. (\A q \in Procs : Settles(q, c, t) => q = p) /\ \A k \in Connectors : ~Works(k, c, t)
    BY <2>1, SettlerIsAlone DEF Orderly
  <2> QED BY <1>1, <2>1, <2>2 DEF Settles, Works, Reports
<1>3. CASE \E k \in Connectors : ConnLicensed(k, c, t)
  <2>1. PICK k \in Connectors : conn[k].step = "act" /\ Works(k, c, t)
    BY <1>3 DEF ConnLicensed, Works
  <2>2. (\A p \in Procs : ~Settles(p, c, t)) /\ \A m \in Connectors : Works(m, c, t) => m = k
    BY <2>1, WorkerIsAlone DEF Orderly
  <2> QED BY <1>1, <2>1, <2>2 DEF Settles, Works, Reports
<1> QED BY <1>2, <1>3 DEF Licensed

LEMMA PerformKeepsCharges ==
  ASSUME Orderly, Undisturbed, NEW c \in Cells, NEW t \in Tickets, NEW r \in Reservation,
         NEW cost \in Actuals \cup {0}, Licensed(c, t), Perform(c, t, r, cost), UNCHANGED resv,
         \A p \in Procs : proc'[p] = proc[p] \/ PassCharge(p)',
         \A k \in Connectors : conn'[k] = conn[k] \/ ReportCharge(k)'
  PROVE  ChargesKnown'
<1>1. \A d \in Cells, u \in Tickets : <<d, u>> # <<c, t>> =>
        placed'[d][u] = placed[d][u] /\ charged'[d][u] = charged[d][u]
  BY PerformOne, ChargeOne DEF Orderly
<1>2. placed'[c][t] = 1
  BY PerformOne DEF Orderly
<1>3. ASSUME NEW p \in Procs, proc'[p] = proc[p] PROVE PassCharge(p)'
  <2>1. CASE proc[p].step \notin {"settle", "mark"}
    BY <1>3, <2>1 DEF PassCharge
  <2>2. CASE proc[p].step \in {"settle", "mark"}
    <3>1. CellOf[p] \in Cells /\ proc[p].task \in Tickets
      BY <2>2, ProcFields DEF Orderly
    <3>2. charged'[CellOf[p]][proc[p].task] = charged[CellOf[p]][proc[p].task]
      BY <1>1, <2>2, <3>1, LicensedIsNew
    <3> QED BY <1>3, <3>2 DEF PassCharge, Orderly, ChargesKnown
  <2> QED BY <2>1, <2>2
<1>4. ASSUME NEW k \in Connectors, conn'[k] = conn[k] PROVE ReportCharge(k)'
  <2>1. CASE conn[k].step # "report"
    BY <1>4, <2>1 DEF ReportCharge
  <2>2. CASE conn[k].step = "report"
    <3>1. PICK d \in Cells, u \in Tickets : d = conn[k].cell /\ u = conn[k].task
      BY <2>2, ConnFields DEF Orderly
    <3>2. charged'[d][u] = charged[d][u]
      BY <1>1, <2>2, <3>1, LicensedIsNew DEF Reports
    <3> QED BY <1>4, <3>1, <3>2 DEF ReportCharge, Orderly, ChargesKnown
  <2> QED BY <2>1, <2>2
<1>5. ASSUME NEW d \in Cells, NEW u \in Tickets PROVE RecordCharge(d, u)'
  <2>1. CASE <<d, u>> = <<c, t>>
    BY <1>2, <2>1, LicensedIsNew DEF RecordCharge
  <2>2. CASE <<d, u>> # <<c, t>>
    BY <1>1, <2>2 DEF RecordCharge, Orderly, ChargesKnown
  <2> QED BY <2>1, <2>2
<1> QED BY <1>3, <1>4, <1>5 DEF ChargesKnown

LEMMA ExecuteKnowsCharge ==
  ASSUME Orderly, Undisturbed, NEW p \in Procs, ExecuteDone(p) \/ ExecuteUnknown(p), ~UNCHANGED <<placed, charged>>
  PROVE  ChargesKnown'
<1>1. PICK c \in Cells, t \in Tickets, r \in Reservation :
        c = CellOf[p] /\ t = proc[p].task /\ r = proc[p].resv
  BY ProcFields DEF Orderly, ExecuteDone, ExecuteUnknown
<1>2. /\ TypeOK /\ OrderInv /\ ChargesKnown /\ proc[p] \in ProcState /\ UNCHANGED <<resv, conn>>
      /\ Licensed(c, t)
  BY Zenon, <1>1, ProcFields DEF Orderly, ExecuteDone, ExecuteUnknown, Licensed, ProcLicensed
<1>3. CASE ExecuteDone(p)
  <2>1. PICK cost \in Actuals :
          /\ Perform(c, t, r, cost)
          /\ Become(p, [proc[p] EXCEPT !.step = "settle", !.happened = TRUE, !.actual = cost])
    BY Zenon, <1>1, <1>3 DEF ExecuteDone
  <2> DEFINE s == [proc[p] EXCEPT !.step = "settle", !.happened = TRUE, !.actual = cost]
  <2>2. s.task = t /\ s.resv = r /\ s.actual = cost
    BY <1>1, <1>2 DEF ProcState
  <2>3. Become(p, s)
    BY <2>1
  <2> HIDE DEF s
  <2>4. \A q \in Procs : proc'[q] = IF q = p THEN s ELSE proc[q]
    BY <1>2, <2>3 DEF TypeOK, Become
  <2>5. charged'[c][t] = Charges(t, r, cost)
    BY <1>2, <2>1, ChargeOne
  <2>6. PassCharge(p)'
    BY <1>1, <2>2, <2>4, <2>5 DEF PassCharge
  <2> QED BY <1>2, <2>1, <2>4, <2>6, PerformKeepsCharges
<1>4. CASE ExecuteUnknown(p)
  <2>1. Perform(c, t, r, 0) /\ Stop(p)
    BY Zenon, <1>1, <1>4 DEF ExecuteUnknown
  <2>2. Away(p)
    BY <1>2, <2>1, GoAway
  <2>3. \A q \in Procs : proc'[q] = proc[q] \/ PassCharge(q)'
    BY <2>2 DEF Away, Busy, PassCharge
  <2> QED BY <1>2, <2>1, <2>3, PerformKeepsCharges
<1> QED BY <1>3, <1>4

LEMMA ActKnowsCharge ==
  ASSUME Orderly, Undisturbed, NEW k \in Connectors, ActDone(k) \/ ActUnknown(k), ~UNCHANGED <<placed, charged>>
  PROVE  ChargesKnown'
<1>1. PICK c \in Cells, t \in Tickets : c = conn[k].cell /\ t = conn[k].task
  BY ConnFields DEF Orderly, ActDone, ActUnknown
<1>2. /\ TypeOK /\ OrderInv /\ ChargesKnown /\ conn[k] \in ConnState /\ UNCHANGED <<resv, proc>>
      /\ Licensed(c, t) /\ resv[c][t] \in Reservation
  BY Zenon, <1>1, ConnFields, WritesTyped DEF Orderly, ActDone, ActUnknown, Licensed, ConnLicensed
<1>3. ASSUME NEW s, ConnBecome(k, s), ReportCharge(k)'
      PROVE  \A m \in Connectors : conn'[m] = conn[m] \/ ReportCharge(m)'
  BY <1>2, <1>3 DEF TypeOK, ConnBecome
<1>4. CASE ActDone(k)
  <2>1. PICK cost \in Actuals :
          /\ Perform(c, t, resv[c][t], cost)
          /\ ConnBecome(k, [conn[k] EXCEPT !.step = "report", !.happened = TRUE, !.actual = cost])
    BY Zenon, <1>1, <1>4 DEF ActDone
  <2> DEFINE s == [conn[k] EXCEPT !.step = "report", !.happened = TRUE, !.actual = cost]
  <2>2. s.cell = c /\ s.task = t /\ s.actual = cost
    BY <1>1, <1>2 DEF ConnState
  <2>3. ConnBecome(k, s)
    BY <2>1
  <2> HIDE DEF s
  <2>4. conn'[k] = s
    BY <1>2, <2>3 DEF TypeOK, ConnBecome
  <2>5. charged'[c][t] = Charges(t, resv[c][t], cost)
    BY <1>2, <2>1, ChargeOne
  <2>6. ReportCharge(k)'
    BY <1>2, <2>2, <2>4, <2>5 DEF ReportCharge
  <2> QED BY <1>2, <1>3, <2>1, <2>3, <2>6, PerformKeepsCharges
<1>5. CASE ActUnknown(k)
  <2>1. Perform(c, t, resv[c][t], 0) /\ ConnBecome(k, IdleConn)
    BY Zenon, <1>1, <1>5 DEF ActUnknown
  <2>2. conn'[k] = IdleConn
    BY <1>2, <2>1 DEF TypeOK, ConnBecome
  <2>3. ReportCharge(k)'
    BY <2>2 DEF ReportCharge, IdleConn
  <2> QED BY <1>2, <1>3, <2>1, <2>3, PerformKeepsCharges
<1> QED BY <1>4, <1>5

LEMMA ConnKnowsCharge ==
  ASSUME Orderly, NEW k \in Connectors, UNCHANGED <<placed, charged>>,
         \/ ActRefused(k) \/ ActUnknown(k) \/ Report(k) \/ ConnCrash(k)
         \/ \E c \in Cells, t \in Tickets : Take(k, c, t)
  PROVE  ChargesKnown'
<1>1. TypeOK /\ ChargesKnown /\ OneCloser /\ conn[k] \in ConnState
  BY ConnFields DEF Orderly
<1>2. UNCHANGED proc
  BY Zenon DEF ActRefused, ActUnknown, Report, ConnCrash, Take
<1>3. ASSUME NEW s, ConnBecome(k, s), s.step # "report" \/ ~s.happened
      PROVE  \A m \in Connectors : conn'[m] = conn[m] \/ conn'[m].step # "report" \/ ~conn'[m].happened
  BY <1>1, <1>3 DEF TypeOK, ConnBecome
<1>4. IdleConn.step = "idle"
  BY DEF IdleConn
<1>5. CASE ActRefused(k)
  <2> DEFINE s == [conn[k] EXCEPT !.step = "report", !.happened = FALSE]
  <2>1. ~s.happened /\ ConnBecome(k, s) /\ UNCHANGED resv
    BY <1>1, <1>5 DEF ConnState, ActRefused
  <2> HIDE DEF s
  <2> QED BY <1>1, <1>2, <1>3, <2>1, ChargesStayKnown
<1>6. CASE ActUnknown(k) \/ ConnCrash(k)
  <2>1. ConnBecome(k, IdleConn) /\ UNCHANGED resv
    BY <1>6 DEF ActUnknown, ConnCrash
  <2> QED BY <1>1, <1>2, <1>3, <1>4, <2>1, ChargesStayKnown
<1>7. ASSUME NEW c \in Cells, NEW t \in Tickets, NEW s, NEW o, ConnBecome(k, s), SetResv(c, t, o),
             s.step # "report", \A m \in Connectors \ {k} : ~Works(m, c, t),
             o.state = "reported" /\ o.happened => charged[c][t] = Charges(t, o, o.actual)
      PROVE  ChargesKnown'
  <2>1. \A m \in Connectors : conn'[m] = IF m = k THEN s ELSE conn[m]
    BY <1>1, <1>7 DEF TypeOK, ConnBecome
  <2>2. \A m \in Connectors : ~Reports(m, c, t)'
    BY <1>7, <2>1 DEF Reports, Works
  <2>3. /\ resv'[c][t] = o
        /\ \A d \in Cells, u \in Tickets : <<d, u>> # <<c, t>> => resv'[d][u] = resv[d][u]
    BY <1>1, <1>7, WriteOne
  <2>4. RecordCharge(c, t)'
    BY <1>1, <1>7, <2>3 DEF RecordCharge, ChargesKnown
  <2> QED BY <1>1, <1>2, <1>3, <1>7, <2>2, <2>3, <2>4, ChargesStayKnown
<1>8. CASE Report(k)
  <2>1. PICK c \in Cells, t \in Tickets, r \in Reservation :
          c = conn[k].cell /\ t = conn[k].task /\ r = resv[c][t]
    BY <1>1, <1>8, ConnFields, WritesTyped DEF Report
  <2>2. Works(k, c, t) /\ conn[k].step = "report" /\ ConnBecome(k, IdleConn)
    BY <1>8, <2>1 DEF Report, Works
  <2>3. \A m \in Connectors \ {k} : ~Works(m, c, t)
    BY <1>1, <2>2, WorkerIsAlone
  <2>4. resv[c][t].state = "pending" /\ resv[c][t].takenBy = k
    BY <1>1, <2>2, WorkerIsAlone
  <2> DEFINE o == Reported(r, conn[k].happened, conn[k].actual)
  <2>5. SetResv(c, t, o)
    BY <1>8, <2>1, <2>4 DEF Report
  <2>6. o.amount = r.amount /\ o.happened = conn[k].happened /\ o.actual = conn[k].actual
    BY DEF Reported, Reservation
  <2> HIDE DEF o
  <2>7. o.happened => charged[c][t] = Charges(t, o, o.actual)
    BY <1>1, <2>1, <2>2, <2>6 DEF ChargesKnown, ReportCharge, Charges, Cost
  <2> QED BY <1>4, <1>7, <2>2, <2>3, <2>5, <2>7
<1>9. ASSUME NEW c \in Cells, NEW t \in Tickets, Take(k, c, t) PROVE ChargesKnown'
  <2> DEFINE o == Taken(resv[c][t], k)
             s == [IdleConn EXCEPT !.step = "act", !.cell = c, !.task = t]
  <2>1. SetResv(c, t, o) /\ ConnBecome(k, s) /\ resv[c][t].state = "offered"
    BY Zenon, <1>9 DEF Take, Takeable
  <2>2. o.state = "pending"
    BY <1>1, WritesTyped DEF Taken, Reservation
  <2>3. s.step = "act"
    BY DEF IdleConn
  <2> HIDE DEF o, s
  <2>4. \A m \in Connectors : ~Works(m, c, t)
    BY <1>1, <2>1 DEF OneCloser, ClosedByOne
  <2> QED BY <1>7, <2>1, <2>2, <2>3, <2>4
<1> QED BY <1>5, <1>6, <1>8, <1>9

LEMMA NextKeepsCharges ==
  ASSUME Orderly, Undisturbed, [Next]_vars
  PROVE  ChargesKnown'
<1>1. ASSUME NEW p \in Procs,
             PassStep(p) \/ Crash(p) \/ \E t \in Tickets : Evaluate(p, t) \/ LoadReport(p, t)
      PROVE  ChargesKnown'
  <2>1. ~Crash(p)
    BY DEF Crash, Orderly, Undisturbed, TypeOK
  <2>2. CASE UNCHANGED <<placed, charged>> /\ ~ExecuteDone(p)
    BY <1>1, <2>1, <2>2, PassKnowsCharge
  <2>3. ExecuteDone(p) => ~UNCHANGED <<placed, charged>>
    <3> SUFFICES ASSUME ExecuteDone(p) PROVE ~UNCHANGED placed
      OBVIOUS
    <3>1. PICK c \in Cells, t \in Tickets, r \in Reservation :
            c = CellOf[p] /\ t = proc[p].task /\ r = proc[p].resv
      BY ProcFields DEF Orderly, ExecuteDone
    <3>2. \E cost : Perform(c, t, r, cost)
      BY Zenon, <3>1 DEF ExecuteDone
    <3>3. Licensed(c, t)
      BY Zenon, <3>1 DEF ExecuteDone, Licensed, ProcLicensed
    <3>4. placed[c][t] = 0 /\ placed'[c][t] = 1
      BY <3>2, <3>3, PerformOne DEF Orderly
    <3> QED BY <3>4
  <2>4. CASE ~UNCHANGED <<placed, charged>>
    <3>1. ExecuteDone(p) \/ ExecuteUnknown(p)
      BY Zenon, <1>1, <2>1, <2>4 DEF PassStep, Claim, Authorize, Look, TakeHold, ClaimKey, Unhold, Offer,
         TakeSelf, ExecuteRejected, SettleLease, Mark, Evaluate, LoadReport
    <3> QED BY <2>4, <3>1, ExecuteKnowsCharge
  <2> QED BY <2>2, <2>3, <2>4
<1>2. ASSUME NEW k \in Connectors,
             ConnStep(k) \/ ConnCrash(k) \/ \E c \in Cells, t \in Tickets : Take(k, c, t)
      PROVE  ChargesKnown'
  <2>1. CASE ActDone(k)
    <3>1. ~UNCHANGED <<placed, charged>>
      <4>1. PICK c \in Cells, t \in Tickets : c = conn[k].cell /\ t = conn[k].task
        BY <2>1, ConnFields DEF Orderly, ActDone
      <4>2. \E cost : Perform(c, t, resv[c][t], cost)
        BY Zenon, <2>1, <4>1 DEF ActDone
      <4>3. Licensed(c, t)
        BY Zenon, <2>1, <4>1 DEF ActDone, Licensed, ConnLicensed
      <4>4. placed[c][t] = 0 /\ placed'[c][t] = 1
        BY <4>2, <4>3, PerformOne DEF Orderly
      <4> QED BY <4>4
    <3> QED BY <2>1, <3>1, ActKnowsCharge
  <2>2. CASE ActUnknown(k) /\ ~UNCHANGED <<placed, charged>>
    BY <2>2, ActKnowsCharge
  <2>3. CASE ~ActDone(k) /\ UNCHANGED <<placed, charged>>
    BY <1>2, <2>3, ConnKnowsCharge DEF ConnStep
  <2>4. ActRefused(k) \/ Report(k) \/ ConnCrash(k) \/ (\E c \in Cells, t \in Tickets : Take(k, c, t))
          => UNCHANGED <<placed, charged>>
    BY Zenon DEF ActRefused, Report, ConnCrash, Take
  <2> QED BY <1>2, <2>1, <2>2, <2>3, <2>4 DEF ConnStep
<1>3. CASE UNCHANGED <<proc, conn, resv, placed, charged>>
  BY <1>3, ChargesStayKnown DEF Orderly
<1>4. Sweepers = {} /\ Principals = {}
  BY DEF Undisturbed
<1> QED BY Zenon, <1>1, <1>2, <1>3, <1>4 DEF Next, vars, LapseClaim, Reissue, SetCeiling

--------------------------------------------------------------------------------
LEMMA InitAccounted ==
  ASSUME Undisturbed, Init
  PROVE  OneCloser /\ KeysAreOwn /\ ChargesKnown /\ Accounted
<1>1. \A p \in Procs : proc[p] = IdleProc /\ IdleProc.step = "idle"
  BY DEF Init, IdleProc
<1>2. \A k \in Connectors : conn[k] = IdleConn /\ IdleConn.step = "idle"
  BY DEF Init, IdleConn
<1>3. charged = [c \in Cells |-> [t \in Tickets |-> 0]]
  BY DEF Init
<1>4. \A c \in Cells, t \in Tickets : resv[c][t] = NoResv /\ ~Open(NoResv) /\ NoResv.state = "none"
  BY DEF Init, NoResv, Open
<1>5. OneCloser
  BY <1>1, <1>2, <1>4 DEF OneCloser, ClosedByOne, Settles, Works
<1>6. KeysAreOwn
  BY <1>1 DEF KeysAreOwn, OwnsKey
<1>7. ChargesKnown
  BY <1>1, <1>2, <1>3, <1>4 DEF ChargesKnown, PassCharge, ReportCharge, RecordCharge
<1>8. TypeOK
  BY InitTyped
<1>9. ASSUME NEW c \in Cells PROVE Balanced(c) /\ ChargesBalance(c)
  <2>1. /\ \A t \in Tickets, d \in Dimensions : HeldFor(c, t, d) = 0
        /\ \A p \in Procs, d \in Dimensions : ComingFor(c, p, d) = 0
        /\ \A t \in Tickets : OwedFor(c, t) = 0
    BY <1>1, <1>4 DEF HeldFor, Holds, ComingFor, Keyless, OwedFor, Dimensions
  <2>2. \A d \in Dimensions : Total(Held(c, d)) = 0 /\ Total(Coming(c, d)) = 0
    <3>1. \A d \in Dimensions : Held(c, d) \in [Tickets -> Nat] /\ Coming(c, d) \in [Procs -> Nat]
      BY <1>8, AccountsTyped DEF AccountsOK
    <3>2. \A d \in Dimensions : /\ \A t \in Tickets : Held(c, d)[t] = 0
                                /\ \A p \in Procs : Coming(c, d)[p] = 0
      BY <2>1 DEF Held, Coming
    <3> QED BY <3>1, <3>2, TotalOfZeros
  <2>3. Total(Owed(c)) = 0 /\ Total(charged[c]) = 0
    <3>1. Owed(c) \in [Tickets -> Nat] /\ charged[c] \in [Tickets -> Nat]
      BY <1>8, AccountsTyped DEF AccountsOK, Dimensions
    <3>2. \A t \in Tickets : Owed(c)[t] = 0 /\ charged[c][t] = 0
      BY <1>3, <2>1 DEF Owed
    <3> QED BY <3>1, <3>2, TotalOfZeros
  <2>4. lease[c].spent = 0 /\ lease[c].reserved = 0 /\ lease[c].reservedUnits = 0
    BY DEF Init, Undisturbed
  <2>5. \A d \in Dimensions : Reserved(lease[c], d) = 0
    BY <2>4 DEF Reserved
  <2> QED BY <2>2, <2>3, <2>4, <2>5 DEF Balanced, ChargesBalance
<1> QED BY <1>5, <1>6, <1>7, <1>9 DEF Accounted

LEMMA AccountsInvariant ==
  ASSUME Undisturbed
  PROVE  Spec => [](TypeOK /\ Accounted)
<1> DEFINE Kept == Orderly /\ Accounted
<1>1. Sweepers = {}
  BY DEF Undisturbed
<1>2. Init => Kept
  BY InitTyped, InitOrder, InitKnows, InitAccounted DEF Orderly
<1>3. ASSUME Kept, [Next]_vars PROVE Kept'
  <2>1. TypeOK' /\ OrderInv' /\ KnowledgeInv'
    BY <1>1, <1>3, NextTyped, NextKeepsOrder, NextKeepsKnowledge DEF Orderly
  <2>2. OneCloser' /\ KeysAreOwn'
    BY <1>3, NextKeepsClosers DEF Orderly
  <2>3. ChargesKnown'
    BY <1>3, NextKeepsCharges
  <2>4. Accounted'
    BY <1>3, <2>1, <2>2, NextAccounted
  <2> QED BY <2>1, <2>2, <2>3, <2>4 DEF Orderly
<1>4. Kept => TypeOK /\ Accounted
  BY DEF Orderly
<1> QED BY <1>2, <1>3, <1>4, PTL DEF Spec

(* While nothing disturbs the accounts, a lease holds exactly what its open         *)
(* reservations hold, in money and in units: no headroom leaks, and no hold is    *)
(* given back or consumed twice.                                             *)
THEOREM AccountsHold ==
  ASSUME Undisturbed
  PROVE  Spec => []HoldsAccounted
<1>1. TypeOK /\ Accounted => HoldsAccounted
  BY DEF Accounted, Balanced, HoldsAccounted
<1> QED BY <1>1, AccountsInvariant, PTL

(* And a lease never records more spend than the far end charged, whatever it      *)
(* charged: what was performed and not yet settled is exactly what is missing.   *)
THEOREM NoDoubleSpend ==
  ASSUME Undisturbed
  PROVE  Spec => []NothingSpentTwice
<1>1. ASSUME TypeOK, Accounted PROVE NothingSpentTwice
  <2> SUFFICES ASSUME NEW c \in Cells PROVE lease[c].spent <= Total(charged[c])
    BY DEF NothingSpentTwice
  <2>1. Total(charged[c]) = lease[c].spent + Total(Owed(c))
    BY <1>1 DEF Accounted, ChargesBalance
  <2>2. Total(Owed(c)) \in Nat /\ lease[c].spent \in Nat
    BY <1>1, AccountsTyped DEF AccountsOK, Dimensions
  <2> QED BY <2>1, <2>2
<1> QED BY <1>1, AccountsInvariant, PTL

(* And once everything a cell started is closed, the lease has paid exactly what     *)
(* the far end charged and holds nothing.                                     *)
THEOREM ClosedAccountsBalance ==
  ASSUME Undisturbed
  PROVE  Spec => []AccountsBalance
<1>1. ASSUME TypeOK, Accounted PROVE AccountsBalance
  <2> SUFFICES ASSUME NEW c \in Cells, \A t \in Tickets : ~Open(resv[c][t]),
                      \A p \in Procs : proc[p].step = "idle"
               PROVE  /\ lease[c].spent = Total(charged[c])
                      /\ lease[c].reserved = 0 /\ lease[c].reservedUnits = 0
    BY DEF AccountsBalance
  <2>1. /\ \A t \in Tickets, d \in Dimensions : HeldFor(c, t, d) = 0
        /\ \A p \in Procs, d \in Dimensions : ComingFor(c, p, d) = 0
        /\ \A t \in Tickets : OwedFor(c, t) = 0
    BY DEF HeldFor, Holds, ComingFor, Keyless, OwedFor, Dimensions
  <2>2. \A d \in Dimensions : Total(Held(c, d)) = 0 /\ Total(Coming(c, d)) = 0
    <3>1. \A d \in Dimensions : Held(c, d) \in [Tickets -> Nat] /\ Coming(c, d) \in [Procs -> Nat]
      BY <1>1, AccountsTyped DEF AccountsOK
    <3>2. \A d \in Dimensions : /\ \A t \in Tickets : Held(c, d)[t] = 0
                                /\ \A p \in Procs : Coming(c, d)[p] = 0
      BY <2>1 DEF Held, Coming
    <3> QED BY <3>1, <3>2, TotalOfZeros
  <2>3. Total(Owed(c)) = 0
    <3>1. Owed(c) \in [Tickets -> Nat]
      BY <1>1, AccountsTyped DEF AccountsOK, Dimensions
    <3>2. \A t \in Tickets : Owed(c)[t] = 0
      BY <2>1 DEF Owed
    <3> QED BY <3>1, <3>2, TotalOfZeros
  <2>4. \A d \in Dimensions : Reserved(lease[c], d) = 0
    BY <1>1, <2>2 DEF Accounted, Balanced
  <2>5. lease[c].spent \in Nat /\ Total(charged[c]) = lease[c].spent + 0
    BY <1>1, <2>3, AccountsTyped DEF AccountsOK, Dimensions, Accounted, ChargesBalance
  <2> QED BY <2>4, <2>5 DEF Reserved, Dimensions
<1> QED BY <1>1, AccountsInvariant, PTL
================================================================================
