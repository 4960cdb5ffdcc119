---------------------------- MODULE EffectProtocol -----------------------------
(***************************************************************************)
(* How a factory performs an action that happens once in the world: a board *)
(* order, a print, a light switched.  effect/ (reservations and connectors),*)
(* the effectful branch of loop/, and the leases of authority/ they spend   *)
(* from.                                                                   *)
(*                                                                         *)
(* Two kinds of ref are shared by compare-and-swap: lease[c], in the        *)
(* factory-coordination repository, and resv[c][t], the reservation of      *)
(* ticket t under cell c's own prefix, in the project repository.  No step  *)
(* writes both.  Refs hold content hashes, so a swap succeeds exactly when  *)
(* the content is what the writer read.                                     *)
(*                                                                         *)
(* The actors: processes running a cell's loop (two of them may run one     *)
(* cell), connectors that hold a vendor's credentials, principals who       *)
(* resolve actions of unknown outcome, the expiry sweep, and the overseer   *)
(* who owns the envelope and issues the leases.  Two accesses are one step   *)
(* only when the second is a swap against what the first read, or when both  *)
(* are reads of what an actor then swaps: it loses the swap of whatever moved. *)
(***************************************************************************)
EXTENDS Authority, FiniteSets

CONSTANTS
  Cells,        \* cell identities
  Procs,        \* processes running a cell's loop
  CellOf,       \* the cell each process runs
  Tickets,      \* effectful tickets, each naming one action
  Free,         \* the tickets whose capability declares no cost model
  Served,       \* the tickets whose interface a connector serves
  Connectors,   \* connector identities
  Principals,   \* who may resolve an unknown outcome; none of them a cell
  Sweepers,     \* runs of the expiry sweep (none in the built binary)
  Quotes,       \* the quotes a vendor may return: [amount, units]
  Actuals,      \* what an invoice may say; 0 means "as quoted"
  Yield,        \* Cell.YieldToFreshClaims
  Nobody,       \* an empty TakenBy
  NoTicket,     \* no ticket in hand
  InitLease,    \* each cell's lease as issued
  InitCeiling,  \* the envelope's ceiling for the priced capability
  Amounts,      \* the allocations the overseer may re-issue a lease with
  Ceilings,     \* the ceilings the owner may set
  MaxCrashes,   \* bound on crashes of processes
  MaxOverseer   \* bound on the overseer's and the owner's writes

ASSUME ActorAssumption ==
  /\ CellOf \in [Procs -> Cells]
  /\ Nobody \notin Cells \cup Connectors
  /\ NoTicket \notin Tickets
  /\ Free \subseteq Tickets /\ Served \subseteq Tickets
  /\ Yield \in BOOLEAN

ASSUME AmountAssumption ==
  /\ Quotes \subseteq [amount : Nat, units : Nat]
  /\ Actuals \subseteq Nat /\ Amounts \subseteq Nat
  /\ InitLease \in [Cells -> Lease] /\ \A c \in Cells : ValidLease(InitLease[c])
  /\ InitCeiling \in Ceiling /\ Ceilings \subseteq Ceiling
  /\ MaxCrashes \in Nat /\ MaxOverseer \in Nat

VARIABLES
  lease,     \* lease[c]: refs/factory/leases of the priced capability
  ceiling,   \* the ceiling in the overseer's envelope
  claims,    \* claims[c]: the tickets c holds a fresh claim on
  resv,      \* resv[c][t]: the reservation refs
  placed,    \* placed[c][t]: how often the far end performed c's action for t
  charged,   \* charged[c][t]: what the far end charged for it
  proc,      \* proc[p]: where process p is in its pass, and what it read
  conn,      \* conn[k]: what connector k is doing
  judge,     \* judge[j]: what principal j is doing
  sweep,     \* sweep[s]: what sweep s is doing
  crashes,   \* crashes of processes so far
  rulings    \* writes of the overseer so far

vars == <<lease, ceiling, claims, resv, placed, charged, proc, conn, judge, sweep,
          crashes, rulings>>

--------------------------------------------------------------------------------
(* Reservations. *)

States  == {"none", "offered", "pending", "reported", "done", "failed"}
Holders == Cells \cup Connectors \cup {Nobody}

(* "none" stands for a ref that does not exist.  posted: the offer carries a *)
(* take deadline.  released: the lease no longer holds headroom for it.      *)
(* resolved: the detail names the principal who settled the record.         *)
Reservation == [state : States, takenBy : Holders, amount : Nat, units : Nat, posted : BOOLEAN,
                released : BOOLEAN, actual : Nat, happened : BOOLEAN, resolved : BOOLEAN]

NoResv == [state |-> "none", takenBy |-> Nobody, amount |-> 0, units |-> 0,
           posted |-> FALSE, released |-> FALSE, actual |-> 0, happened |-> FALSE,
           resolved |-> FALSE]

Offered(amount, units) == [NoResv EXCEPT !.state = "offered", !.amount = amount, !.units = units]
Taken(r, h)            == [r EXCEPT !.state = "pending", !.takenBy = h]
(* Mutant: the report gives the hold up, as though it were the settlement. *)
ReportedAndReleased(r, yes, cost) ==
  [r EXCEPT !.state = "reported", !.happened = yes, !.actual = cost, !.released = TRUE]
Reported(r, yes, cost) == [r EXCEPT !.state = "reported", !.happened = yes, !.actual = cost]

Open(r)       == r.state \in {"offered", "pending", "reported"}
Closed(r)     == r.state \in {"done", "failed"}
Counts(r)     == r.state \in {"pending", "reported", "done"}
Priced(t)     == t \notin Free
Cost(r, cost) == IF cost = 0 THEN r.amount ELSE cost

(* What create-only and Take ask of the ref they are about to swap. *)
(* Mutants: the key is written over; a taken reservation is taken again. *)
KeyFreeAlways(c, t) == TRUE
KeyFree(c, t)       == resv[c][t].state = "none"
TakeableWhileOpen(r) == Open(r)
Takeable(r)          == r.state = "offered"

(* The record Settle writes, and the one Fail writes. *)
(* Mutant: what was saved on the quote is recorded instead of the cost. *)
SettledBySaving(r, cost) == [r EXCEPT !.state = "done", !.released = TRUE,
                                      !.actual = r.amount - Cost(r, cost)]
Settled(r, cost) == [r EXCEPT !.state = "done", !.released = TRUE,
                              !.actual = IF Cost(r, cost) # r.amount THEN cost ELSE @]
Refused(r, t)    == [r EXCEPT !.state = "failed", !.released = Priced(t) \/ @]

(* The record Resolve writes, over a record in whatever state it read: it keeps  *)
(* what an invoice said, though it charges the quote.                        *)
Resolved(r, t, happened) ==
  [r EXCEPT !.state = IF happened THEN "done" ELSE "failed",
            !.released = Priced(t) \/ @, !.resolved = TRUE]

ActionsToday(c, t) ==
  Cardinality({u \in Tickets : (u \in Free <=> t \in Free) /\ Counts(resv[c][u])})

(* PublishLease: a lease that validates, over the one the writer read. *)
(* Mutant: the last writer wins. *)
CanPublishBlind(c, old, new) == ValidLease(new)
CanPublish(c, old, new) == ValidLease(new) /\ lease[c] = old

SetResv(c, t, r) == resv' = [resv EXCEPT ![c][t] = r]

--------------------------------------------------------------------------------
(* The actors' private state. *)

NoLease == [amount |-> 0, quantity |-> 0, spent |-> 0, ordered |-> 0,
            reserved |-> 0, reservedUnits |-> 0]
NoCeiling == [listed |-> FALSE, spend |-> 0, quantity |-> 0, rate |-> 0]

ProcSteps == {"idle", "claim", "authorize", "look", "hold", "reserve", "unhold",
              "offer", "take", "execute", "settle", "mark"}
ProcState == [step : ProcSteps, task : Tickets \cup {NoTicket}, lease : Lease,
              ceiling : Ceiling, amount : Nat, units : Nat, resv : Reservation,
              happened : BOOLEAN, actual : Nat]
IdleProc == [step |-> "idle", task |-> NoTicket, lease |-> NoLease,
             ceiling |-> NoCeiling, amount |-> 0, units |-> 0, resv |-> NoResv,
             happened |-> FALSE, actual |-> 0]

ConnState == [step : {"idle", "act", "report"}, cell : Cells \cup {Nobody},
              task : Tickets \cup {NoTicket}, happened : BOOLEAN, actual : Nat]
IdleConn == [step |-> "idle", cell |-> Nobody, task |-> NoTicket,
             happened |-> FALSE, actual |-> 0]

JudgeState == [step : {"idle", "look", "load", "lease", "mark"}, cell : Cells \cup {Nobody},
               task : Tickets \cup {NoTicket}, lease : Lease, resv : Reservation,
               happened : BOOLEAN]
IdleJudge == [step |-> "idle", cell |-> Nobody, task |-> NoTicket,
              lease |-> NoLease, resv |-> NoResv, happened |-> FALSE]

SweepState == [step : {"idle", "release", "mark"}, cell : Cells \cup {Nobody},
               task : Tickets \cup {NoTicket}, lease : Lease, list : [Tickets -> Reservation]]
IdleSweep == [step |-> "idle", cell |-> Nobody, task |-> NoTicket,
              lease |-> NoLease, list |-> [t \in Tickets |-> NoResv]]

Become(p, state)  == proc' = [proc EXCEPT ![p] = state]
Stop(p)           == Become(p, IdleProc)
Go(p, step)       == Become(p, [proc[p] EXCEPT !.step = step])
ConnBecome(k, state)  == conn' = [conn EXCEPT ![k] = state]
JudgeBecome(j, state) == judge' = [judge EXCEPT ![j] = state]
SweepBecome(s, state) == sweep' = [sweep EXCEPT ![s] = state]

(* Whoever may still reach the far end for (c, t). *)
ProcLicensed(p, c, t) == proc[p].step = "execute" /\ CellOf[p] = c /\ proc[p].task = t
ConnLicensed(k, c, t) == conn[k].step = "act" /\ conn[k].cell = c /\ conn[k].task = t
Licensed(c, t) == \/ \E p \in Procs : ProcLicensed(p, c, t)
                  \/ \E k \in Connectors : ConnLicensed(k, c, t)

--------------------------------------------------------------------------------
(* A cell's pass over one effectful ticket: Once, then performEffect. *)

(* claim.Evaluate: one action per cell, ever, and politeness towards a fresh  *)
(* foreign claim.                                                           *)
Evaluate(p, t) ==
  /\ proc[p].step = "idle"
  /\ resv[CellOf[p]][t].state = "none"
  /\ Yield => \A d \in Cells \ {CellOf[p]} : t \notin claims[d]
  /\ Become(p, [IdleProc EXCEPT !.step = "claim", !.task = t])
  /\ UNCHANGED <<lease, ceiling, claims, resv, placed, charged, conn, judge, sweep, crashes, rulings>>

(* writeClaim, under the cell's own name so that cells never contend, and    *)
(* then the grant: the lease and the envelope as they are now.               *)
Claim(p) ==
  LET c == CellOf[p] t == proc[p].task
  IN /\ proc[p].step = "claim"
     /\ claims' = [claims EXCEPT ![c] = @ \cup {t}]
     /\ Become(p, [proc[p] EXCEPT !.step = "authorize",
                                  !.lease = IF Priced(t) THEN lease[c] ELSE @,
                                  !.ceiling = IF Priced(t) THEN ceiling ELSE @])
     /\ UNCHANGED <<lease, ceiling, resv, placed, charged, conn, judge, sweep, crashes, rulings>>

(* effect.Check: the quoted amount against the envelope, the day's actions    *)
(* and the envelope-bounded lease.  No overseer is configured for a free      *)
(* capability, so what it must pass is only that it costs nothing.            *)
Allowed(p, q) ==
  LET t == proc[p].task c == proc[p].ceiling l == proc[p].lease
  IN IF Priced(t)
     THEN /\ PermitCeiling(c, q.amount, q.units, ActionsToday(CellOf[p], t))
          /\ PermitSpend(Constrain(l, c), q.amount, q.units)
     ELSE q.amount = 0

Authorize(p) ==
  /\ proc[p].step = "authorize"
  /\ \E q \in Quotes :
       IF Allowed(p, q)
       THEN Become(p, [proc[p] EXCEPT !.step = "look", !.amount = q.amount, !.units = q.units])
       ELSE Stop(p)
  /\ UNCHANGED <<lease, ceiling, claims, resv, placed, charged, conn, judge, sweep, crashes, rulings>>

(* Reserve, first half: look, so that an action already reserved holds        *)
(* nothing twice.                                                           *)
Look(p) ==
  /\ proc[p].step = "look"
  /\ IF resv[CellOf[p]][proc[p].task].state # "none" THEN Stop(p)
     ELSE Go(p, IF Priced(proc[p].task) THEN "hold" ELSE "reserve")
  /\ UNCHANGED <<lease, ceiling, claims, resv, placed, charged, conn, judge, sweep, crashes, rulings>>

(* Then the headroom: checked against the bounded lease, written on the lease *)
(* as issued.                                                               *)
CanHoldNow(p) ==
  LET l == proc[p].lease a == proc[p].amount u == proc[p].units
  IN /\ CanHold(Constrain(l, proc[p].ceiling), a, u)
     /\ CanHold(l, a, u)
     /\ CanPublish(CellOf[p], l, Hold(l, a, u))

TakeHold(p) ==
  LET held == Hold(proc[p].lease, proc[p].amount, proc[p].units)
  IN /\ proc[p].step = "hold"
     /\ IF CanHoldNow(p)
        THEN /\ lease' = [lease EXCEPT ![CellOf[p]] = held]
             /\ Become(p, [proc[p] EXCEPT !.step = "reserve", !.lease = held])
        ELSE Stop(p) /\ UNCHANGED lease
     /\ UNCHANGED <<ceiling, claims, resv, placed, charged, conn, judge, sweep, crashes, rulings>>

(* Then the key: create-only. *)
ClaimKey(p) ==
  LET c == CellOf[p] t == proc[p].task r == Offered(proc[p].amount, proc[p].units)
  IN /\ proc[p].step = "reserve"
     /\ IF KeyFree(c, t)
        THEN /\ SetResv(c, t, r)
             /\ Become(p, [proc[p] EXCEPT !.step = IF t \in Served THEN "offer" ELSE "take",
                                          !.resv = r])
        ELSE /\ UNCHANGED resv
             /\ IF Priced(t) THEN Go(p, "unhold") ELSE Stop(p)
     /\ UNCHANGED <<lease, ceiling, claims, placed, charged, conn, judge, sweep, crashes, rulings>>

(* The key was claimed in between: the hold goes back, if nothing moved.      *)
Unhold(p) ==
  LET l == proc[p].lease
      back == Release(l, proc[p].amount, proc[p].units)
  IN /\ proc[p].step = "unhold"
     /\ IF CanRelease(l, proc[p].amount, proc[p].units) /\ CanPublish(CellOf[p], l, back)
        THEN lease' = [lease EXCEPT ![CellOf[p]] = back]
        ELSE UNCHANGED lease
     /\ Stop(p)
     /\ UNCHANGED <<ceiling, claims, resv, placed, charged, conn, judge, sweep, crashes, rulings>>

(* effect.Offer: the reservation is left for a connector. *)
Offer(p) ==
  LET c == CellOf[p] t == proc[p].task r == proc[p].resv
  IN /\ proc[p].step = "offer"
     /\ IF r.state = "offered" /\ resv[c][t] = r
        THEN SetResv(c, t, [r EXCEPT !.posted = TRUE])
        ELSE UNCHANGED resv
     /\ Stop(p)
     /\ UNCHANGED <<lease, ceiling, claims, placed, charged, conn, judge, sweep, crashes, rulings>>

(* effect.TakeSelf: the cell takes its own reservation the way a connector    *)
(* does, carrying its lease across.                                         *)
TakeSelf(p) ==
  LET c == CellOf[p] t == proc[p].task
  IN /\ proc[p].step = "take"
     /\ IF Takeable(resv[c][t])
        THEN /\ SetResv(c, t, Taken(resv[c][t], c))
             /\ Become(p, [proc[p] EXCEPT !.step = "execute", !.resv = Taken(resv[c][t], c)])
        ELSE UNCHANGED resv /\ Stop(p)
     /\ UNCHANGED <<lease, ceiling, claims, placed, charged, conn, judge, sweep, crashes, rulings>>

(* The far end performs the action and charges for it. *)
Charges(t, r, cost) == IF Priced(t) THEN Cost(r, cost) ELSE 0
Perform(c, t, r, cost) ==
  /\ placed' = [placed EXCEPT ![c][t] = @ + 1]
  /\ charged' = [charged EXCEPT ![c][t] = @ + Charges(t, r, cost)]

(* executor.Execute.  It performs the action and says so, is definitely       *)
(* rejected, or returns any other error, which leaves the outcome unknown:    *)
(* the action may have been performed.                                      *)
ExecuteDone(p) ==
  /\ proc[p].step = "execute"
  /\ \E cost \in Actuals :
       /\ Perform(CellOf[p], proc[p].task, proc[p].resv, cost)
       /\ Become(p, [proc[p] EXCEPT !.step = "settle", !.happened = TRUE, !.actual = cost])
  /\ UNCHANGED <<lease, ceiling, claims, resv, conn, judge, sweep, crashes, rulings>>

ExecuteRejected(p) ==
  /\ proc[p].step = "execute"
  /\ Become(p, [proc[p] EXCEPT !.step = "settle", !.happened = FALSE])
  /\ UNCHANGED <<lease, ceiling, claims, resv, placed, charged, conn, judge, sweep, crashes, rulings>>

(* Mutant: an error is read as a rejection. *)
ExecuteUnknownFails(p) ==
  /\ proc[p].step = "execute"
  /\ \/ Perform(CellOf[p], proc[p].task, proc[p].resv, 0)
     \/ UNCHANGED <<placed, charged>>
  /\ Become(p, [proc[p] EXCEPT !.step = "settle", !.happened = FALSE])
  /\ UNCHANGED <<lease, ceiling, claims, resv, conn, judge, sweep, crashes, rulings>>
ExecuteUnknown(p) ==
  /\ proc[p].step = "execute"
  /\ \/ Perform(CellOf[p], proc[p].task, proc[p].resv, 0)
     \/ UNCHANGED <<placed, charged>>
  /\ Stop(p)
  /\ UNCHANGED <<lease, ceiling, claims, resv, conn, judge, sweep, crashes, rulings>>

--------------------------------------------------------------------------------
(* Settling, for an action of this pass or a connector's report: the lease    *)
(* first, and only then the record.                                         *)

(* settleReports: a report of this cell, with the lease as it is now.  A free  *)
(* capability has no lease to load, and its report is passed over.            *)
LoadReport(p, t) ==
  LET c == CellOf[p] r == resv[c][t]
  IN /\ proc[p].step = "idle"
     /\ r.state = "reported" /\ Priced(t)
     /\ Become(p, [IdleProc EXCEPT !.step = "settle", !.task = t, !.lease = lease[c],
                     !.resv = r, !.happened = r.happened, !.actual = r.actual])
     /\ UNCHANGED <<lease, ceiling, claims, resv, placed, charged, conn, judge, sweep, crashes, rulings>>

(* Settle's and Fail's lease write.  A free action has none; Fail has none    *)
(* when the hold is already released; Settle refuses then.                    *)
SettleLease(p) ==
  LET c == CellOf[p] l == proc[p].lease r == proc[p].resv
      cost == Cost(r, proc[p].actual)
      paid == Convert(l, r.amount, cost, r.units, r.units)
      back == Release(l, r.amount, r.units)
  IN /\ proc[p].step = "settle"
     /\ \/ /\ ~Priced(proc[p].task) \/ (~proc[p].happened /\ r.released)
           /\ Go(p, "mark") /\ UNCHANGED lease
        \/ /\ Priced(proc[p].task) /\ proc[p].happened
           /\ IF ~r.released /\ CanConvert(l, r.amount, cost, r.units, r.units)
                             /\ CanPublish(c, l, paid)
              THEN lease' = [lease EXCEPT ![c] = paid] /\ Go(p, "mark")
              ELSE Stop(p) /\ UNCHANGED lease
        \/ /\ Priced(proc[p].task) /\ ~proc[p].happened /\ ~r.released
           /\ IF CanRelease(l, r.amount, r.units) /\ CanPublish(c, l, back)
              THEN lease' = [lease EXCEPT ![c] = back] /\ Go(p, "mark")
              ELSE Stop(p) /\ UNCHANGED lease
     /\ UNCHANGED <<ceiling, claims, resv, placed, charged, conn, judge, sweep, crashes, rulings>>

Mark(p) ==
  LET c == CellOf[p] t == proc[p].task r == proc[p].resv
  IN /\ proc[p].step = "mark"
     /\ IF resv[c][t] = r
        THEN SetResv(c, t, IF proc[p].happened THEN Settled(r, proc[p].actual) ELSE Refused(r, t))
        ELSE UNCHANGED resv
     /\ Stop(p)
     /\ UNCHANGED <<lease, ceiling, claims, placed, charged, conn, judge, sweep, crashes, rulings>>

(* The process dies between two steps; its next pass starts from the refs.    *)
Crash(p) ==
  /\ proc[p].step # "idle" /\ crashes < MaxCrashes
  /\ crashes' = crashes + 1
  /\ Stop(p)
  /\ UNCHANGED <<lease, ceiling, claims, resv, placed, charged, conn, judge, sweep, rulings>>

(* A claim's not-after passes.  Only a cell that yields ever looks. *)
LapseClaim(c, t) ==
  /\ Yield /\ t \in claims[c]
  /\ claims' = [claims EXCEPT ![c] = @ \ {t}]
  /\ UNCHANGED <<lease, ceiling, resv, placed, charged, proc, conn, judge, sweep, crashes, rulings>>

--------------------------------------------------------------------------------
(* A connector: it takes what is on offer, reaches the vendor, and reports    *)
(* what it knows.  It never touches a lease.                                 *)

Take(k, c, t) ==
  /\ conn[k].step = "idle"
  /\ Takeable(resv[c][t])
  /\ SetResv(c, t, Taken(resv[c][t], k))
  /\ ConnBecome(k, [IdleConn EXCEPT !.step = "act", !.cell = c, !.task = t])
  /\ UNCHANGED <<lease, ceiling, claims, placed, charged, proc, judge, sweep, crashes, rulings>>

ActDone(k) ==
  LET c == conn[k].cell t == conn[k].task
  IN /\ conn[k].step = "act"
     /\ \E cost \in Actuals :
          /\ Perform(c, t, resv[c][t], cost)
          /\ ConnBecome(k, [conn[k] EXCEPT !.step = "report", !.happened = TRUE, !.actual = cost])
     /\ UNCHANGED <<lease, ceiling, claims, resv, proc, judge, sweep, crashes, rulings>>

ActRefused(k) ==
  /\ conn[k].step = "act"
  /\ ConnBecome(k, [conn[k] EXCEPT !.step = "report", !.happened = FALSE])
  /\ UNCHANGED <<lease, ceiling, claims, resv, placed, charged, proc, judge, sweep, crashes, rulings>>

(* A connector that does not know must say nothing. *)
ActUnknown(k) ==
  LET c == conn[k].cell t == conn[k].task
  IN /\ conn[k].step = "act"
     /\ \/ Perform(c, t, resv[c][t], 0)
        \/ UNCHANGED <<placed, charged>>
     /\ ConnBecome(k, IdleConn)
     /\ UNCHANGED <<lease, ceiling, claims, resv, proc, judge, sweep, crashes, rulings>>

Report(k) ==
  LET c == conn[k].cell t == conn[k].task r == resv[c][t]
  IN /\ conn[k].step = "report"
     /\ IF r.takenBy = k /\ r.state = "pending"
        THEN SetResv(c, t, Reported(r, conn[k].happened, conn[k].actual))
        ELSE UNCHANGED resv
     /\ ConnBecome(k, IdleConn)
     /\ UNCHANGED <<lease, ceiling, claims, placed, charged, proc, judge, sweep, crashes, rulings>>

(* A connector may stop at any point; started again, it holds nothing. *)
ConnCrash(k) ==
  /\ conn[k].step # "idle"
  /\ ConnBecome(k, IdleConn)
  /\ UNCHANGED <<lease, ceiling, claims, resv, placed, charged, proc, judge, sweep, crashes, rulings>>

--------------------------------------------------------------------------------
(* A principal: it finds an action of unknown outcome, looks at the far end,   *)
(* and resolves it.  Nothing keeps a connector or a process from still acting, *)
(* reporting or settling meanwhile: what is pending is all the list says, and   *)
(* whoever resolves loads the lease and the record as they are by then.       *)

Pending(j, c, t) ==
  /\ judge[j].step = "idle"
  /\ resv[c][t].state = "pending"
  /\ JudgeBecome(j, [IdleJudge EXCEPT !.step = "look", !.cell = c, !.task = t])
  /\ UNCHANGED <<lease, ceiling, claims, resv, placed, charged, proc, conn, sweep, crashes, rulings>>

LookUp(j) ==
  /\ judge[j].step = "look"
  /\ JudgeBecome(j, [judge[j] EXCEPT !.step = "load",
                                    !.happened = placed[judge[j].cell][judge[j].task] > 0])
  /\ UNCHANGED <<lease, ceiling, claims, resv, placed, charged, proc, conn, sweep, crashes, rulings>>

LoadClaim(j) ==
  LET c == judge[j].cell t == judge[j].task
  IN /\ judge[j].step = "load"
     /\ JudgeBecome(j, [judge[j] EXCEPT !.step = "lease", !.lease = lease[c], !.resv = resv[c][t]])
     /\ UNCHANGED <<lease, ceiling, claims, resv, placed, charged, proc, conn, sweep, crashes, rulings>>

(* Resolve's lease write, in the code's five cases: no lease, a late charge    *)
(* after the hold was released, a conversion, nothing left to release, a      *)
(* release.                                                                 *)
ResolveLease(j) ==
  LET c == judge[j].cell t == judge[j].task l == judge[j].lease r == judge[j].resv
      late == Charge(l, r.amount, r.units)
      paid == Convert(l, r.amount, r.amount, r.units, r.units)
      back == Release(l, r.amount, r.units)
      Write(can, new) ==
        IF can /\ CanPublish(c, l, new)
        THEN lease' = [lease EXCEPT ![c] = new] /\ JudgeBecome(j, [judge[j] EXCEPT !.step = "mark"])
        ELSE UNCHANGED lease /\ JudgeBecome(j, IdleJudge)
  IN /\ judge[j].step = "lease"
     /\ \/ /\ ~Priced(t) \/ (~judge[j].happened /\ r.released)
           /\ UNCHANGED lease /\ JudgeBecome(j, [judge[j] EXCEPT !.step = "mark"])
        \/ /\ Priced(t) /\ judge[j].happened /\ r.released
           /\ Write(TRUE, late)
        \/ /\ Priced(t) /\ judge[j].happened /\ ~r.released
           /\ Write(CanConvert(l, r.amount, r.amount, r.units, r.units), paid)
        \/ /\ Priced(t) /\ ~judge[j].happened /\ ~r.released
           /\ Write(CanRelease(l, r.amount, r.units), back)
     /\ UNCHANGED <<ceiling, claims, resv, placed, charged, proc, conn, sweep, crashes, rulings>>

ResolveMark(j) ==
  LET c == judge[j].cell t == judge[j].task r == judge[j].resv
  IN /\ judge[j].step = "mark"
     /\ IF resv[c][t] = r
        THEN SetResv(c, t, Resolved(r, t, judge[j].happened))
        ELSE UNCHANGED resv
     /\ JudgeBecome(j, IdleJudge)
     /\ UNCHANGED <<lease, ceiling, claims, placed, charged, proc, conn, sweep, crashes, rulings>>

--------------------------------------------------------------------------------
(* ReleaseExpired, over the reservations it listed when it started.           *)

SweepStart(s, c) ==
  /\ sweep[s].step = "idle"
  /\ \E lapsed \in SUBSET {t \in Tickets : Priced(t) /\ Open(resv[c][t]) /\ ~resv[c][t].released} :
       /\ lapsed # {}
       /\ SweepBecome(s, [IdleSweep EXCEPT !.step = "release", !.cell = c, !.lease = lease[c],
            !.list = [t \in Tickets |-> IF t \in lapsed THEN resv[c][t] ELSE NoResv]])
  /\ UNCHANGED <<lease, ceiling, claims, resv, placed, charged, proc, conn, judge, crashes, rulings>>

SweepRelease(s, t) ==
  LET c == sweep[s].cell l == sweep[s].lease r == sweep[s].list[t]
      back == Release(l, r.amount, r.units)
  IN /\ sweep[s].step = "release" /\ r.state # "none"
     /\ IF CanRelease(l, r.amount, r.units) /\ CanPublish(c, l, back)
        THEN /\ lease' = [lease EXCEPT ![c] = back]
             /\ SweepBecome(s, [sweep[s] EXCEPT !.step = "mark", !.task = t, !.lease = back])
        ELSE UNCHANGED lease /\ SweepBecome(s, IdleSweep)
     /\ UNCHANGED <<ceiling, claims, resv, placed, charged, proc, conn, judge, crashes, rulings>>

(* The record written is the one listed, over whatever the ref holds now: the  *)
(* hash is resolved again, the reservation is not.                           *)
SweepMark(s) ==
  LET c == sweep[s].cell t == sweep[s].task r == sweep[s].list[t]
      rest == [sweep[s].list EXCEPT ![t] = NoResv]
  IN /\ sweep[s].step = "mark"
     /\ SetResv(c, t, [r EXCEPT !.released = TRUE])
     /\ SweepBecome(s, IF \A u \in Tickets : rest[u].state = "none" THEN IdleSweep
                       ELSE [sweep[s] EXCEPT !.step = "release", !.task = NoTicket, !.list = rest])
     /\ UNCHANGED <<lease, ceiling, claims, placed, charged, proc, conn, judge, crashes, rulings>>

--------------------------------------------------------------------------------
(* The overseer re-issues a lease with another allocation; the owner moves the *)
(* ceiling.  Both are ordinary swaps of their ref.                            *)

Reissue(c, a) ==
  LET l == [lease[c] EXCEPT !.amount = a]
  IN /\ rulings < MaxOverseer /\ l # lease[c] /\ ValidLease(l)
     /\ lease' = [lease EXCEPT ![c] = l]
     /\ rulings' = rulings + 1
     /\ UNCHANGED <<ceiling, claims, resv, placed, charged, proc, conn, judge, sweep, crashes>>

SetCeiling(e) ==
  /\ rulings < MaxOverseer /\ e # ceiling
  /\ ceiling' = e
  /\ rulings' = rulings + 1
  /\ UNCHANGED <<lease, claims, resv, placed, charged, proc, conn, judge, sweep, crashes>>

--------------------------------------------------------------------------------
Init ==
  /\ lease = InitLease
  /\ ceiling = InitCeiling
  /\ claims = [c \in Cells |-> {}]
  /\ resv = [c \in Cells |-> [t \in Tickets |-> NoResv]]
  /\ placed = [c \in Cells |-> [t \in Tickets |-> 0]]
  /\ charged = [c \in Cells |-> [t \in Tickets |-> 0]]
  /\ proc = [p \in Procs |-> IdleProc]
  /\ conn = [k \in Connectors |-> IdleConn]
  /\ judge = [j \in Principals |-> IdleJudge]
  /\ sweep = [s \in Sweepers |-> IdleSweep]
  /\ crashes = 0 /\ rulings = 0

(* One step of the pass a process is in, and one step of an actor's work. *)
PassStep(p) ==
  \/ Claim(p) \/ Authorize(p) \/ Look(p) \/ TakeHold(p) \/ ClaimKey(p) \/ Unhold(p)
  \/ Offer(p) \/ TakeSelf(p) \/ ExecuteDone(p) \/ ExecuteRejected(p) \/ ExecuteUnknown(p)
  \/ SettleLease(p) \/ Mark(p)
ConnStep(k)  == ActDone(k) \/ ActRefused(k) \/ ActUnknown(k) \/ Report(k)
JudgeStep(j) == LookUp(j) \/ LoadClaim(j) \/ ResolveLease(j) \/ ResolveMark(j)
SweepStep(s) == SweepMark(s) \/ \E t \in Tickets : SweepRelease(s, t)

Next ==
  \/ \E p \in Procs : PassStep(p) \/ Crash(p) \/ \E t \in Tickets : Evaluate(p, t) \/ LoadReport(p, t)
  \/ \E k \in Connectors : ConnStep(k) \/ ConnCrash(k) \/ \E c \in Cells, t \in Tickets : Take(k, c, t)
  \/ \E j \in Principals : JudgeStep(j) \/ \E c \in Cells, t \in Tickets : Pending(j, c, t)
  \/ \E s \in Sweepers : SweepStep(s) \/ \E c \in Cells : SweepStart(s, c)
  \/ \E c \in Cells : \/ \E t \in Tickets : LapseClaim(c, t)
                      \/ \E a \in Amounts : Reissue(c, a)
  \/ \E e \in Ceilings : SetCeiling(e)

Spec == Init /\ [][Next]_vars

(* A pass that started runs to its end, and Once goes through every report on    *)
(* every pass.  Where principals act, each of them keeps working through what   *)
(* is pending: no code obliges anybody to, so this is said of no passing run.   *)
(* Nothing obliges a connector, and nothing runs the sweep.                   *)
Fairness ==
  /\ \A p \in Procs : /\ WF_vars(PassStep(p))
                       /\ \A t \in Tickets : SF_vars(LoadReport(p, t))
  /\ \A j \in Principals : /\ WF_vars(JudgeStep(j))
                            /\ \A c \in Cells, t \in Tickets : SF_vars(Pending(j, c, t))

FairSpec == Spec /\ Fairness

--------------------------------------------------------------------------------
(* Every variable has its type: no amount of a lease goes below zero, whatever is   *)
(* held, settled, swept and re-issued, and whoever acts has an action to act on.     *)
TypeOK ==
  /\ lease \in [Cells -> Lease]
  /\ ceiling \in Ceiling
  /\ claims \in [Cells -> SUBSET Tickets]
  /\ resv \in [Cells -> [Tickets -> Reservation]]
  /\ placed \in [Cells -> [Tickets -> Nat]]
  /\ charged \in [Cells -> [Tickets -> Nat]]
  /\ proc \in [Procs -> ProcState]
  /\ conn \in [Connectors -> ConnState]
  /\ judge \in [Principals -> JudgeState]
  /\ sweep \in [Sweepers -> SweepState]
  /\ crashes \in 0..MaxCrashes /\ rulings \in 0..MaxOverseer
  /\ \A p \in Procs : proc[p].step # "idle" => proc[p].task \in Tickets
  /\ \A k \in Connectors : conn[k].step # "idle" => conn[k].cell \in Cells /\ conn[k].task \in Tickets
  /\ \A j \in Principals : judge[j].step # "idle" => judge[j].cell \in Cells /\ judge[j].task \in Tickets
  /\ \A s \in Sweepers : /\ sweep[s].step # "idle" => sweep[s].cell \in Cells
                         /\ sweep[s].step = "mark" => sweep[s].task \in Tickets

(* One action, one order: whatever crashes, races and restarts, a cell's       *)
(* action for a ticket reaches the far end at most once.  This is rule 2, the *)
(* idempotency key (effect/reservation.go, Reserve and Take).                 *)
AtMostOneOrder == \A c \in Cells, t \in Tickets : placed[c][t] <= 1

(* What makes it inductive: until an action is taken nobody may perform it     *)
(* and nobody has, a licence to perform it means it has not been performed,   *)
(* and only one actor ever has that licence.                                 *)
UntakenIsUntouched ==
  \A c \in Cells, t \in Tickets :
    resv[c][t].state \in {"none", "offered"} => placed[c][t] = 0 /\ ~Licensed(c, t)
LicenceIsUnused ==
  \A c \in Cells, t \in Tickets : Licensed(c, t) => placed[c][t] = 0
OneLicence ==
  \A c \in Cells, t \in Tickets :
    /\ \A p, q \in Procs : ProcLicensed(p, c, t) /\ ProcLicensed(q, c, t) => p = q
    /\ \A k, m \in Connectors : ConnLicensed(k, c, t) /\ ConnLicensed(m, c, t) => k = m
    /\ \A p \in Procs, k \in Connectors : ~(ProcLicensed(p, c, t) /\ ConnLicensed(k, c, t))

OrderInv == UntakenIsUntouched /\ LicenceIsUnused /\ OneLicence /\ AtMostOneOrder

(* What the machinery itself writes down is so: a report says what happened,    *)
(* and a record that no principal ruled on reads done only if the action was    *)
(* performed, and failed only if it was not and nobody can still perform it,   *)
(* whatever a principal does meanwhile (Settle, Fail, Report, SettleReported).  *)
OutcomeIsTrue ==
  \A c \in Cells, t \in Tickets :
    LET r == resv[c][t] IN
    /\ r.state = "reported" => (r.happened <=> placed[c][t] > 0) /\ ~Licensed(c, t)
    /\ r.state = "done" /\ ~r.resolved => placed[c][t] > 0
    /\ r.state = "failed" /\ ~r.resolved => placed[c][t] = 0 /\ ~Licensed(c, t)

(* What makes it inductive: what an actor that is about to write an outcome     *)
(* down believes is so, and stays so.  An action that was taken and that nobody *)
(* may perform any more has been decided for good; a process that settles and a *)
(* connector that reports know how, each of an action that was open when they  *)
(* read it, and so does the record.  A principal only knows that it was taken. *)
Decided(c, t, happened) ==
  /\ resv[c][t].state \notin {"none", "offered"}
  /\ ~Licensed(c, t)
  /\ happened <=> placed[c][t] > 0

SettlerKnows(p) ==
  /\ proc[p].step \in {"execute", "settle", "mark"} => proc[p].resv.state \in {"pending", "reported"}
  /\ proc[p].step \in {"settle", "mark"} => Decided(CellOf[p], proc[p].task, proc[p].happened)
ReporterKnows(k) ==
  conn[k].step = "report" => Decided(conn[k].cell, conn[k].task, conn[k].happened)
ResolverKnows(j) ==
  judge[j].step # "idle" => resv[judge[j].cell][judge[j].task].state \notin {"none", "offered"}
RecordKnows(c, t) ==
  LET r == resv[c][t] IN
  /\ r.state = "none" => ~r.resolved
  /\ r.state = "reported" => Decided(c, t, r.happened)
  /\ r.state = "done" /\ ~r.resolved => Decided(c, t, TRUE)
  /\ r.state = "failed" /\ ~r.resolved => Decided(c, t, FALSE)

KnowledgeInv ==
  /\ \A p \in Procs : SettlerKnows(p)
  /\ \A k \in Connectors : ReporterKnows(k)
  /\ \A j \in Principals : ResolverKnows(j)
  /\ \A c \in Cells, t \in Tickets : RecordKnows(c, t)

(* "The external service is confirmed to have rejected it, so no effect         *)
(* occurred" (effect/reservation.go:70).  False once a principal rules on an    *)
(* action that somebody still holds, as it may from the take deadline on       *)
(* (effect/connector.go:125).                                               *)
FailedIsRefused ==
  \A c \in Cells, t \in Tickets : resv[c][t].state = "failed" => placed[c][t] = 0

(* A hold is only ever taken within the envelope the cell read, in money and    *)
(* in units, also where the lease itself bounds no units (Reserve, against    *)
(* Grant.Bounded).                                                          *)
HoldsWithinEnvelope ==
  \A c \in Cells :
    \/ lease'[c].reserved > lease[c].reserved
    \/ lease'[c].reservedUnits > lease[c].reservedUnits
    => \E p \in Procs :
         /\ CellOf[p] = c /\ proc[p].step = "hold"
         /\ lease'[c].reserved > lease[c].reserved /\ proc[p].ceiling.spend > 0
              => Committed(lease'[c]) <= proc[p].ceiling.spend
         /\ lease'[c].reservedUnits > lease[c].reservedUnits /\ proc[p].ceiling.quantity > 0
              => CommittedUnits(lease'[c]) <= proc[p].ceiling.quantity
EnvelopeHonoured == [][HoldsWithinEnvelope]_vars

(* A report is settled: whatever the connector said reaches the lease and the     *)
(* record, however often the lease moves under the pass that settles it, unless *)
(* the lease has no room for what was invoiced (loop.settleReports, Convert).   *)
Unaffordable(c, r) ==
  r.happened /\ ~CanConvert(lease[c], r.amount, Cost(r, r.actual), r.units, r.units)
ReportsSettle ==
  \A c \in Cells, t \in Tickets :
    resv[c][t].state = "reported" /\ Priced(t)
      ~> resv[c][t].state \in {"done", "failed"} \/ Unaffordable(c, resv[c][t])

(* "The reservation is stuck until a principal resolves it" (effect/            *)
(* reservation.go:228): an action that nobody attends to any more does not stay  *)
(* pending, given a principal who keeps looking.  False after a crash between   *)
(* the lease and the record, since Resolve meets the same double-release guard. *)
Attended(c, t) ==
  \/ \E p \in Procs : /\ proc[p].step \in {"execute", "settle", "mark"}
                      /\ CellOf[p] = c /\ proc[p].task = t
  \/ \E k \in Connectors : conn[k].step # "idle" /\ conn[k].cell = c /\ conn[k].task = t
UnknownsResolved ==
  \A c \in Cells, t \in Tickets :
    resv[c][t].state = "pending" /\ ~Attended(c, t) ~> Closed(resv[c][t])

(* EffectProtocol implements the lifecycle of a reservation, each cell's key for *)
(* a ticket being one action.                                               *)
Keys == Cells \X Tickets
Lifecycle == INSTANCE EffectLifecycle WITH
  Actions <- Keys,
  state   <- [a \in Keys |-> resv[a[1]][a[2]].state],
  orders  <- [a \in Keys |-> placed[a[1]][a[2]]],
  live    <- [a \in Keys |-> Licensed(a[1], a[2])],
  ruled   <- [a \in Keys |-> resv[a[1]][a[2]].resolved]
ImplementsLifecycle == Lifecycle!Spec

================================================================================
