# TLA+ models of varvig-factory

varvig-factory runs *cells*: programs that pick tickets from a varvig repository,
attempt them with a model, verify one another's attempts, promote some of them
without a human, and perform actions in the physical world (order a board, start a
print) on money an overseer has leased to them. Everything cells share lives in
refs and notes of two repositories; there is no server and no lock. This directory
models that protocol, checks it with TLC and proves parts of it with TLAPS.

## 1. The system

| component | state it keeps | operations | how it meets the others | modelled in |
|---|---|---|---|---|
| `effect` | a reservation per (cell, ticket) in the project repository | Reserve, Offer, Take, TakeSelf, Execute, Report, Settle, Fail, Resolve, ReleaseExpired | writes reservations by compare-and-swap, leases through `authority` | `EffectProtocol` |
| `authority` | leases and envelopes in the coordination repository | Hold, Release, Convert, Constrain, Permit..., PublishLease, Reclaim, CheckExclusive, Exposure | compare-and-swap by overseer, clerk and cells; the report adds the leases up | `Authority`, `EffectProtocol`, `Overseer` |
| `loop` | the pass in progress (in memory) | sync, settle reports, verify peers, claim, perform or attempt, record and pin outputs, relieve the store, evaluate promotions | calls all the others in a fixed order | `Attempts`, `EffectProtocol`, `Promotion`, `Storage`, `Ledger` |
| `claim` | claim refs, one per (cell, ticket) | ParseRequirements, Evaluate, freshest | politeness between cells: it excludes nobody | `ClaimPolicy`, `Attempts` |
| `promote` | the switch file: mode and enabled paths | SetMode, Enable/DisableAutonomous, Promote, ObservePromotion | reads evidence, agreement, trust, the gate; asks varvig to promote | `Promotion` |
| `agreement`, `gate` | observations in ticket notes; none | Observe, Tally, Allow; Evaluate | two conditions of a promotion | `Promotion` (partly) |
| `budget` | a ledger file per cell, in memory and on disk | CanSpend, Spend, NewLedger, RelieveStoragePressure | asked before an attempt, told after; drives the store | `Ledger`, `Storage` |
| `artifact` | a directory of files named by content | Put, List, UsedBytes, Release | filled by attempts, emptied by relief | `Storage` |
| `cell` | formats | names of refs, evidence, environment classes, capabilities | used everywhere | where they are used |
| `varvigcli` | none of its own | refs with compare-and-swap, fetch and push, notes, speculation pool | the only way to a repository | `Attempts`, and as registers elsewhere |
| `robe`, `executor`, `decide`, `iface`, `reputation` | installed environments, subprocesses, registries, reports | resolve, run, look up, count | called by the loop | their outcomes are choices |
| `profile`, `cmd/*` | configuration | wiring, commands | start the processes | `connector` and `authority` commands, how the simulator issues a lease |
| `guard`, `conformance` | none | tests only | | |

**What is hard.** No step of an effect writes both repositories, so every crash
between two writes shows. The executing cell, a second process of it, connectors,
principals and an expiry sweep all write one reservation, and a principal may rule on it
while the others still act. Leases move while cells hold them, are issued one at a time
with nothing adding them up, and are reclaimed while something is in flight. A promotion decision reads seven things at seven moments, and takes as long
as a full re-verification, before it acts. Two processes of one cell number attempts,
pay from one budget and fill and empty one directory without a lock between them,
while peers exchange refs with the replica at any moment. The list of hazards, each at
its line, is in `PROJECT.json`.

**What makes each part correct.**

- effects: one action reaches the world at most once; what the machinery itself records
  of it is so; a settled action is a paid one; undisturbed, no lease pays twice or leaks a
  hold; holds stay inside the envelope; every report is eventually settled.
- overseer: all that is charged stays under what was allocated, settled spend is never
  forgotten, and what the report prints and judges holds until the next issue.
- attempts: numbers are not reused or skipped, an attempt is nowhere without its
  evidence, every attempt is answered by the other cells that see its ticket and can run
  its checks, a claim blocks nobody for good.
- claim policy: a cell claims only what it can do in full, and a refusal names what
  really is in the way.
- budget: a process stays below its caps; a restart does not reset them.
- storage: held content is whole, no record precedes its bytes, pins are given up
  last, and the store gets below its cap.
- promotion: nothing lands unless the evidence, the trust and the re-verification
  behind it still stand; the kill switch stops a running pass; agreement never exceeds
  observation.

## 2. The modules

| module | models | role |
|---|---|---|
| `Authority` | `authority/authority.go`: lease, envelope, permission | pure operators, used by the next two |
| `EffectProtocol` | `effect/`, `loop/effectful.go`, leases in `authority/store.go` | the protocol of one action, with crashes |
| `EffectLifecycle` | what a reservation promises | abstract specification; `EffectProtocol` implements it |
| `EffectMoney` | leases against reservations and invoices | the properties of `EffectProtocol` about amounts, and what makes them inductive |
| `Sums` | | the sum of a function, said without recursion so that it can be proved about |
| `Overseer` | `authority/store.go`, `cmdAuthority`, issuing as the simulator does | envelope, issue, reclaim, report and verdict over `Authority` |
| `Attempts` | `loop/loop.go`, `loop/verify.go`, `loop/peers.go`, fetch and push | cells, their processes and the exchange of refs |
| `AttemptBoard` | what attempt refs promise | abstract specification; `Attempts` implements it |
| `ClaimPolicy` | `claim/claim.go`, `effectGrants`, `Capabilities` | the policy of a claim, inside a loop of repair and service |
| `Ledger` | `budget/budget.go` and the loop around a call | processes, a file, midnight and faults |
| `Storage` | `artifact/artifact.go`, `recordArtifacts`, relief | processes and one directory |
| `Promotion` | `promote/`, `agreement/`, the promotion half of `loop/` | the promoter, its switch and its surroundings |
| `MCEffect`, `MCOverseer`, `MCAttempts`, `MCClaimPolicy`, `MCLedger`, `MCStorage`, `MCPromotion` | | instances for TLC |
| `Effect_proofs`, `Overseer_proofs`, `Attempts_proofs`, `Ledger_proofs`, `Storage_proofs`, `Promotion_proofs`, `ClaimPolicy_proofs` | | theorems |
| `Sums_proofs` | | what a sum does when its function changes; used by the proofs about money |

In all of them an operator named `...Blind`, `...Unchecked`, `...Always` or the like,
under a comment that begins "Mutant", is a plausible bug of the definition it stands
before. No specification uses it: `PROJECT.json` says which property notices it.

### EffectProtocol

Shared state: `lease[c]`, `ceiling` (the envelope), `claims[c]`, `resv[c][t]`.
Outside the cells: `placed[c][t]`, how often the far end really performed the
action, and `charged[c][t]`, what it charged for it. Each actor has a record of its own saying
where it is and what it read: `proc[p]` a process's pass, `conn[k]` a connector,
`judge[j]` a principal, `sweep[s]` a run of ReleaseExpired.

A pass is `Evaluate, Claim, Authorize, Look, TakeHold, ClaimKey`, then either
`Offer` (a connector serves the capability) or `TakeSelf, Execute..., SettleLease,
Mark`. `LoadReport` enters the same settlement for a connector's report. Each action
is one access to a shared ref. A read followed by a swap of the *same* ref is one
action, because the swap succeeds exactly when nothing moved in between; a read of
one ref used when another is written is always two. Every error path is in the
action that meets it: a lost swap, a refused hold, a refused conversion. `Crash`
and `ConnCrash` forget an actor's private record between any two steps.

A principal is `Pending, LookUp, LoadClaim, ResolveLease, ResolveMark`: it finds an
action pending, looks at the far end, and only then loads the lease and the record,
whatever they have become. Neither `Pending` nor `LoadClaim` nor `Resolve` asks whether a
connector or a process still acts, reports or settles, so nothing here does. What it
saw at the far end was so when it looked; that is all it knows. `Resolved` is the record
it writes, and its `resolved` stands for the detail "resolved by ...", by which a ruling
can be told from what the machinery wrote.

A reservation, a lease and a claim carry the fields some guard or property reads;
identifiers, times, details and currency names are left out. Expiry is a choice of the
sweep (any held reservation may have expired), a claim's end is `LapseClaim`.

Two cells share nothing here but claims, which the policy may respect (`Yield`) and
which exclude nobody, so the runs have one cell and let everything else race over it;
what several cells may do is in the proofs, and in `OneOrderPerTicket` below.

### Overseer

One capability. `ceiling` is the owner's, `lease[c]` a ref per cell, `paid` and
`ordered` what the world charged and delivered. The clerk stands for whoever issues a
lease: it reads the one there is (`LoadLease`) and publishes another over it
(`PublishLease`), which validates that lease, compares its hash, and asks nothing of the
envelope or of the other leases; between the two the owner tightens, cells spend and leases
are collected. A cell reads the lease and the ceiling (`Grant`), holds, acts, settles.
`Reclaim` is taken as written: it looks at spend and orders, and not at holds. `orphaned`
adds up what reclaimed leases still held; it is not state of the code. `Report` and
`Judge` are `varvig-factory authority`: the first lists the leases and prints their
headroom, the second loads the envelope afterwards and says whether `CheckExclusive` finds
the listing within it. Beside what is printed a report keeps what was charged or in flight when
it listed (`before`), without which headroom bounds nothing.

### Attempts

A replica per cell (all its processes work on it) and hubs. `refs[r]` are attempt
refs, `claims[r]` the claims a replica has heard of, `evidence[r]` its notes, `tickets[r]` the
tickets it knows, `needs[t]` the build and test tokens a ticket requires. A change is
who committed it and its number. A pass is `fetch, observe, read, list, verify, tickets,
author, record, push`; each step is one access to a replica. `Raise` puts a ticket at some
replica, from where it travels with fetches and, where tickets are refs, with pushes.
`Verify` passes over in silence what this cell answered before, what names a ticket this
pass did not observe and what needs a check the cell does not declare. `FetchFrom` and `PushTo` take what is
absent and overwrite nothing, or find the peer out of reach. `observed`, `own`, `seen` and `list` are
read once and used to the end of the pass. A claim runs out by `Lapse`; `Crash`,
`AttemptFails`, `VerifyFails` and `ObserveDrops` may come anywhere. That a pass may skip a ticket
(`Skip`) stands for the rest of the policy: the daily budget, decline, order.

### ClaimPolicy

A ticket's text is the sequence of its directives. `Obstacles` is the list of checks in
the order of `Evaluate` and `evaluateEffect`, and the verdict is the first that holds.
The system around it acts on the answer: `Repair` removes what the refusal names and
no more, `Serve` performs what was claimed, after which the ticket is asked about again.

### Ledger

`mem[p]` are a process's totals, `file` and `tmp` the two files all processes share. A
call is `Ask, Author, Spend`, then `OpenTmp, WriteTmp, Rename`: truncating a name another
process is writing, or renaming away what it wrote, is possible and so modelled. A
write may be torn by a crash. `paid` and `buried` are what the world charged, `lost` how
many payments a fault kept out of the file.

### Storage

`files` is the directory: final names and temporary ones, each with whose bytes it holds
and how many. An attempt copies its outputs, attaches them to the ticket, writes the
attempt and pins it; then the pass relieves the store: list once, release and
measure, and only when nothing is left to release give up pins. `disturbed` says that
another process changed the directory meanwhile.

### Promotion

The state of one ticket and the one path scope it writes to. `switch` and `tmp` are
the two files of the switch, `oper[o]` a command in progress (its whole in-memory copy
of the switch), `pool`, `score`, `evidence`, `trusted`, `branch` what varvig holds,
`seen` the scope's observations, `proc[p]` a promoter's pass. `late[p]` counts what `p`
landed since the mode was last made gated; it is not state of the code.

A pass is `Sync, ListAttempts`, then for each attempt in the order of the refs
`NextRequest` (evidence is read here), `ReadMode, ReadPaths, ReadAgreement, ReadTrust,
RunGate, Reverify, Defer` or `SpecPromote`, and after a promotion `ObserveTop,
ObservePromotion`. Each is one read of something others may change; the conditions
that read nothing new are evaluated with the read before them. Cells author in the
order of `Cell.attempt`: pool, evidence, attempt ref. A save of the switch is a write
and a rename. Any read may fail and any process may crash.

## 3. The runs

Runs that pass:

| run | instance | states | what it shows |
|---|---|---|---|
| `effect_leases` | 1 process, 2 priced tickets, a principal, a sweep, 1 crash, 1 write by the overseer or owner, invoices above the quote | 1.68 M | types; `SettledIsPaid`; `EnvelopeHonoured` |
| `effect_shared` | 2 processes of one cell, 2 connectors, a principal who rules at any moment, 1 ticket, 2 crashes of processes, any of connectors | 155 k | `AtMostOneOrder`; `OutcomeIsTrue`; `ImplementsLifecycle` |
| `effect_accounts` | 1 process, a connector that may stop anywhere, 3 tickets (served, not served, free), an invoice above the quote, 1 re-issue of the lease; fair | 159 k | `HoldsAccounted`, `AccountsBalance`, `NothingSpentTwice`, `ReportsSettle` |
| `overseer` | 2 cells, allocations of 1 and 2, reclaim timeouts none and 1, 3 issues, a wide, a narrow and no ceiling | 0.90 M | types; `SpendStaysAllocated`; `VerdictStands`; `ReportBoundsSpending`; `SpendIsKept` |
| `attempts` | 2 cells, 2 processes of one and a verifier, 1 ticket that may need a check only one cell has, 2 attempts, 1 fault | 1.14 M | types; `AttemptsAreBacked`; `ImplementsBoard`; no deadlock |
| `attempts_live` | 2 cells that attempt, verify and yield, meeting at a hub, the ticket raised anywhere and perhaps beyond one cell's checks; fair | 45 k | `AttemptsGetVerified`; `ClaimsNeverBlock`; no deadlock |
| `claim_policy` | every text of at most 2 directives of 13 fields and some longer ones, 5 cells, all worlds one obstacle from clear or from impossible | 174 k | types; `ClaimIsLicensed`; `EffectsAreNeverAuthored`; `ForeignClaimsOnlyDelay`; `RepairsAdvance`; no deadlock |
| `ledger` | 2 processes, caps 2 and 1, prices 2 and 1, 2 days, 1 fault | 1.05 M | types; `ProcessStaysCapped`; `RestartKeepsCap` |
| `storage` | 2 processes, outputs of 2 and 1 bytes under a cap of 1, 2 attempts, 1 fault; fair | 181 k | types; `HeldIsWhole`; `RecordedOrDropped`; `PinsAreLastResort`; `OverIsRelieved`; no deadlock |
| `promotion` | 2 cells, 1 process, 2 attempts (one recorded at the start), 1 operator with 1 command, 1 outside step, 1 pass, either switch | 0.52 M | types; `KillSwitchBites`; `PromotionsAreLicensed` |

Runs that show where the code and its comments part (`findings` in `PROJECT.json`):

| run | property | what happens |
|---|---|---|
| `promotion_wrong_change` | `NeverSelfVerified` | the conditions are about an attempt, varvig lands the ticket's best candidate |
| `overseer_reclaim` | `NoDoubleSpend` | a lease with an order in flight is collected and issued again; the authority command finds the leases within the ceiling, and more is charged |

**More divergences, without a run.** Each of these is a change of a configuration kept
here; the property named is then violated. The first three are what a principal's ruling, or
a crash before it, may do; what no ruling at any moment breaks is what `effect_leases` and
`effect_shared` check: one order per key, a paid settlement, and a true record of whatever
the machinery wrote.

| property | instance | what happens |
|---|---|---|
| `FailedIsRefused` | `EffectAccounts.cfg` with `Spec`, `Tickets = {t1}`, `Free = {}`, `Principals = {j1}`, `Quotes <- OneQuote` | a principal finds an action pending and not performed; the connector performs it meanwhile, and the record says failed (`reservation.go:70-72`, `connector.go:125-128`) |
| `NothingSpentTwice` | the same with `Actuals = {0}` | a principal finds an action pending; the report arrives, the cell settles it, and `Resolve` takes the released hold for an expired one and pays again: no crash, no sweep, one process (`reservation.go:503`, against `reservation.go:395`) |
| `UnknownsResolved` | the same with `FairSpec`, `Served = {}`, `Connectors = {}`, `MaxCrashes = 1` | a process dies between the lease and the record; the lease holds nothing for the action any more, and `Resolve` meets the double-release guard for ever (`reservation.go:226-229`, `:521`) |
| `LeasesWithinEnvelope` | `OverseerReclaim.cfg` | two leases are issued one after the other, each within the ceiling: nothing on the way adds them up (`store.go:68`, against `CELL.md:838`, `reservation_test.go:733-734`) |
| `NothingSpentTwice` | `EffectAccounts.cfg` with `Spec`, `Tickets = {t1, t2}`, `Free = {}`, `Served = {t1, t2}`, `Quotes <- OneQuote`, `Actuals = {0}`, `MaxCrashes = 1` | lease written, process dies, the report is settled again out of another action's hold |
| `AtMostOneOrder`, `OutcomeIsTrue`, `ImplementsLifecycle` | the same with `Tickets = {t1}`, `Served = {t1}`, `Connectors = {k1, k2}`, `Sweepers = {s1}`, `MaxCrashes = 0` | the sweep writes back a stale reservation over a taken one; a second connector takes it and both act, or one acts and the other's refusal is recorded |
| `HoldsAccounted` | `EffectAccounts.cfg` with `Spec` and one of `MaxCrashes = 1`, `Sweepers = {s1}`, `Principals = {j1}`, `Procs = {p1, p2}` | each takes away a part of `Undisturbed`: a pass dies with a hold and no key; the sweep releases the hold and the reservation stays open; a principal's lease write stands alone until its record, and for good where the record has moved; a pass that lost the key cannot give its hold back because the lease moved |
| `AccountsBalance` | `EffectAccounts.cfg` with `Spec`, `Tickets = {t1}`, `Free = {}`, `Principals = {j1}`, `Quotes <- OneQuote` | `Resolve` pays the quote: for an action whose invoice nobody reported, and also for a reported one, whose record keeps the invoice it did not pay |
| `OneOrderPerTicket` | `EffectShared.cfg` with `Cells = {c1, c2}`, `CellOf <- OwnCell`, `Connectors = {}`, `Principals = {}`, `MaxCrashes = 0` | two cells, two keys, two orders, with neither crash nor partition |
| `NoPromotionWhileGated` | `PromotionWrongChange.cfg` with `Attempts <- OneAttempt`, `MaxCommands = 1` | the mode is read before re-verification, the promotion comes after |
| `OnlyModeCommandsUngate` | the same with `Operators = {o1, o2}`, `MaxCommands = 2` | enabling a path saves the whole switch it loaded, undoing a `--mode gated` |

Others met while modelling are single steps: `budget.go:415-417` says that a cell over
its storage cap stops claiming, and `loop.go:1278` that it keeps claiming; a zero
budget permits everything (`budget.go:287`) where its comment says nothing
(`budget.go:35-36`); the key of a pin contains its expiry, so pinning again is a second
pin (`loop.go:957-978`); a copy that died leaves a temporary file at which every later
relief stops with an error (`artifact.go:82`).

**Hazards without a property.** The most telling hazards are in `PROJECT.json`. What is
left are single facts nobody races for: a free report is passed over (`effectful.go:377`);
a misspelt effect key makes a ticket code (`claim.go:205`); an edited action is a new one
(`effectful.go:335`); a failed authoring call costs nothing (`loop.go:818`); evidence whose
checks failed to run counts as an answer (`verify.go:126`); a promoted ticket is promoted
and observed again in every pass (`verify.go:233`); `connector report` stops at
`LoadClaim` (`connector.go:157`) and a connector's capability gets no grant
(`effectful.go:85`); free capabilities have no overseer (`effectful.go:167`); the varvig
command's errors are told apart by substrings (`varvigcli.go:359`).

**Why the bounds are enough.** Every hazard above is a race of two actors over one
ref, file or directory, or one crash between two writes. Two tickets are what it takes
for one action's settlement to consume another's hold; two processes of one cell, or
a process and a connector, for a double take; two attempts for a number to be skipped.
One crash or fault is enough because it can fall between any two steps. Leases of 3 and
of 2 let the last hold fit or not; in `Overseer` two cells and an allocation that
takes the whole ceiling are what a double issue needs, and the third issue is the
replenishment after it. In `Attempts` one check that only one cell can run, required or not,
and a ticket raised at either cell or the hub make each silent skip happen. In `Ledger` a cap one call reaches and two days make every
comparison go both ways; in `Storage` one output fits under the cap and the other does
not. In `Promotion` a second attempt is what tells "the attempt evaluated" from "the
attempt landed"; `InitRecorded` starts where one attempt is already verified by its
author, and `InitSeen` where the scope is one observation away from losing its
licence. `MinObservations` is 2 instead of 20: it is only compared. `MCEffect`,
`MCAttempts`, `MCLedger` and `MCOverseer` declare symmetry among processes or cells that differ in
nothing; no run with symmetry has a liveness property. `attempts`, in which no cell yields,
has a view without the claims, which then nothing reads.

**Deadlock** is checked where the system never stops: the runs of `Attempts`,
`ClaimPolicy` and `Storage`. Elsewhere it is not: tickets, crashes, commands and passes are bounded, and when
all is done the system stops; in `Ledger` it also stops with a torn file, which no
process starts from.

**Fairness**, only in the runs with liveness properties:

- `EffectProtocol!FairSpec`: a pass that started runs on (weak fairness of `PassStep`), as
  a Go function does; a cell that passes again and again settles each report it finds, as
  `settleReports` is the first thing every pass does (strong fairness of `LoadReport` for
  each report, since the process is busy in between). Nothing obliges a connector to act
  or the sweep to run. Where there are principals each keeps working through what is
  pending; no code obliges anybody to, so no run with a liveness property has one; it
  makes the counterexample to `UnknownsResolved` stronger, in which a principal who never
  tires does not resolve the action.
- `Attempts!FairSpec`: `Run` passes for ever (weak fairness of `PassStep`); a peer tried
  again and again is reached again and again (strong fairness of fetching and of
  pushing); a ticket the policy would claim is claimed in some pass (strong fairness of
  `Claim`: a daily budget comes back); time passes (`Lapse`). Nothing obliges a verifier
  to succeed at once, or two cells to meet at one moment.
- `Storage!FairSpec`: a process that runs goes on with its passes (weak fairness of `Steps`).
  Neither a crash nor a restart is obliged to happen, which is why `OverIsRelieved` is about
  a cell that has a process running.

## 4. What is proved

TLAPS proves these for every value of the constants under the modules' named
assumptions: any number of cells, processes, tickets and actors.

- `TypeCorrect` of `Effect_proofs`, `Promotion_proofs`, `Attempts_proofs`,
  `Ledger_proofs`, `Storage_proofs`, `Overseer_proofs`, `ClaimPolicy_proofs`: `Spec => []TypeOK`. Each says more than types: that
  `Release` and `Convert` never take a field of a lease below zero rests on their
  guards; agreements never exceed observations; no attempt is numbered beyond
  `MaxAttempts`, which needs that what a process counted is still there when it records;
  a process that runs has read totals and not a torn file; a relief gives up no more
  pins than it may.
- `Effect_proofs!OneOrderPerKey`: without an expiry sweep (`Sweepers = {}`, how
  the binary is built) `Spec => []AtMostOneOrder`. `placed <= 1` is not inductive: a
  step that performs an action must know that it was not performed before. The
  invariant `OrderInv` adds that an untaken reservation has no order and no licensed
  actor, that a licence (being in the step that may reach the far end) is unused,
  and that at most one actor has it. Most steps are *quiet* (they order nothing,
  license nobody and untake nothing), and one lemma disposes of all of them.
- `Effect_proofs!OutcomesAreTrue`: under the same hypothesis
  `Spec => []OutcomeIsTrue`, of reports and of records no principal ruled on. The writers
  of these write what they found out steps earlier. `KnowledgeInv` says what each knows:
  a pass that settles and a connector that reports carry an outcome that agrees with
  `placed`, and nobody is licensed to change it any more. A principal is known only to be
  about an action that was taken: what it writes may be wrong (`FailedIsRefused`, section 3), and the
  theorem is that it makes nobody else's record wrong, whenever it rules.
- `Effect_proofs!LifecycleImplemented`: `Spec => ImplementsLifecycle`, the refinement.
  `StepMoves` shows that a step moves at most one key, along one of the edges of
  `EffectLifecycle`; the record in hand and the record in the repository agree by
  `KnowledgeInv`, or the swap fails. A cell's closing is the edge `Settle`, which needs that
  nobody may act and takes the outcome from what happened; a principal's is `Rule`, which
  needs only that the action was taken, goes either way and marks the key for good.
- `Effect_proofs!SettlementsArePaid`: `Spec => []SettledIsPaid`, of every instance: crashes,
  sweeps, several processes and principals included. The invariant `PaidAhead` adds to
  what the record says the payments of those who have paid and not recorded it yet;
  `CostsAreReported`, that what they are about to record is what they paid. A step of a
  settlement moves an amount from one of the three sums to another, and a failed swap or
  a crash only lowers their total.
- `Effect_proofs!HoldsHonourEnvelope`: `Spec => EnvelopeHonoured`. Only `TakeHold` raises what
  a lease holds, and it does so within the lease as constrained by the envelope its
  pass read, although what it writes is the lease as issued.
- `Effect_proofs!AccountsHold`, `NoDoubleSpend`, `ClosedAccountsBalance`: the three equations
  about leases, reservations and invoices, where `Undisturbed` (no crash of a process, no sweep,
  no principal and one process per cell; any number of cells, tickets and connectors that stop
  anywhere, any invoices, re-issues and ceilings). Section 3 has a counterexample for each
  hypothesis: the code does not keep the accounts exact without them, and `SettledIsPaid` is the
  half it does keep. In the built binary no sweep runs and no command resolves an action, so
  what these theorems leave out is crashes and second processes. `OneCloser` says that an
  action being closed is attended to by one actor, whose copy of the record is the record;
  `KeysAreOwn`, that a pass which has looked at a key still finds it free; `ChargesKnown` and
  `ChargesOwed`, that whoever closes an action knows its charge, and that what the far end
  charged is what the lease has paid and what its open reservations still owe.
- `Promotion_proofs!KillSwitchBounded`: `Spec => []KillSwitchBites`. The invariant
  `KillInv` adds that a process which landed a promotion since the mode became
  gated no longer holds an autonomous decision; only `ReadMode` gives it one, and
  while the file says gated it does not. Racing commands of any number of operators
  are covered.
- `Promotion_proofs!Licensed`: `Spec => PromotionsAreLicensed`. The invariant
  `GroundedInv` says of every decision in progress what each condition it has not
  failed established: the evidence in hand is in the repository and about this
  attempt, somebody of the baseline's class vouches for it, the pass was current, and
  Home's passing re-verification is recorded. It is kept because each step only adds
  to what failed and evidence only grows (`EvidenceGrows`), so nobody's step can take
  a ground away; trust is read again by varvig itself when it promotes.
- `Attempts_proofs!IsBoard`: `Spec => Board!Spec`, the refinement, and `Backed`:
  `Spec => []AttemptsAreBacked`. The invariant says that an attempt is known at home
  and alone has its number there (`Homed`, `Gapless`), that what a process counted at the
  start of its pass is still a prefix of its cell's board, and that it holds evidence of
  what it is about to record. The create-only swap turns a number that was taken
  meanwhile into a failure; the rest follows because replicas only grow.
- `Ledger_proofs!StaysCapped`: `Spec => []ProcessStaysCapped`. A process's totals, as they
  would roll over now, are never behind what it paid, save for the call it has not
  recorded yet, and a process that calls was under its cap *today*: midnight lowers
  both sides. Nothing is said about the file, so whatever others do to it is covered.
- `Ledger_proofs!RestartsAreCapped`: `Spec => []RestartKeepsCap`. On a day on which one process
  has touched the ledger, its totals are behind what was paid by at most one call per
  fault, and the file, which a restart takes over, by one call more while a payment is
  being recorded (`MemCovers`, `FileCovers`). What it writes since it has paid are its
  totals, and nobody else can be writing: whoever is has touched the ledger (`Touched`). It
  calls only below the cap, so the day stays below the cap, the lost calls and the last one.
- `Overseer_proofs!SpendKept`: `Spec => SpendIsKept`. A writer publishes over the very
  lease it read, and everything it may write keeps what that one had recorded; a
  lease with anything recorded is not collected.
- `Overseer_proofs!SpendingIsAllocated`: `Spec => []SpendStaysAllocated`. `EnvelopeInv` says that what a
  cell was charged is recorded on its lease, held there by its action in flight, or orphaned by a
  reclaim (`Accounted`, `OrphansCounted`), and that an action a cell was granted fits the lease it
  read (`GrantsFit`); a lease records and holds no more than it allocates, which `ValidLease` asks of
  every write.
- `Overseer_proofs!VerdictsHold`: `Spec => []VerdictStands`. The listing `CheckExclusive` judges is
  older than the envelope it is judged by, yet until a lease is issued no allocation grows, so the
  leases there are stay within what was judged (`Allocated`), and the previous theorem bounds the charges.
- `Overseer_proofs!ReportsHold`: `Spec => []ReportBoundsSpending`, with `TypeCorrect`. `ReportStands` keeps the
  sum of spend, flights and exposure under what was printed and what was charged or in flight
  when it was: a hold moves headroom into flight, a settlement moves it into spend, a refusal
  gives it back, a tightening lowers nobody's lease.
- `Storage_proofs!HeldWhole`, `RecordedKept`, `PinsLast`: the invariants of `Storage`. A
  copy in progress has a temporary file of its own and only a whole one is renamed;
  what a process attaches is or was held; and while nobody else touches the directory, a
  relief's list is the directory and its opinion of being over the cap is right
  (`ReliefInv`), so that a pass that runs out of candidates has an empty store.
- `ClaimPolicy_proofs!ClaimsAreLicensed`, `NeverAuthored`, `ClaimsOnlyDelay`, `RepairsMakeProgress`:
  `ClaimIsLicensed`, `EffectsAreNeverAuthored`, `ForeignClaimsOnlyDelay` and the action
  property `RepairsAdvance`, for texts of any length, any coherent cells, any worlds and any
  finite set of claims. `PolicyInv` says that the answer is `Evaluate` of what is put before
  it now, and what is put before it is an input of the right kind: a coherent cell, and no
  attempts counted for a text that names an effect. An answer is the first place of a list at
  which a check holds (`SomethingHolds`, `PlaceOfFirst`), so two lists are compared place by
  place. `RepairsAdvance` needs two facts of every repair: the place it is about no longer
  holds (`MovesOn`), and no earlier one holds that did not. For a mended text the second is
  `FewerDefects`, one lemma per edit: a line the author adds or strikes out leaves what is said
  under every other key (`Written`, `StruckOut`, `SameReading`). At the last place, where
  one claim of several runs out, the number of claims to wait for falls (`RepairWait`).

**Sums.** `Total(f)` counts the pairs `<<x, i>>` with `i <= f[x]`, so that what a step does to a sum
follows from the library's facts about cardinalities (`Sums_proofs`): it changes by what
one element changes, it is monotone, and two sums add. A recursive sum computes the
same, but nothing could be proved of it here: the library's induction theorems take an
operator as a parameter, which the installed provers cannot instantiate.

**Hypotheses of theorems** are the weakest we found: each that is not an assumption of the
module on its constants (`Sweepers = {}`, `Undisturbed`) is one the divergences of section 3
show to be needed, and the passing runs have instances that meet it.

Every invariant and action property of the passing runs is stated by one of these theorems.
Only model-checked is liveness (`ReportsSettle`, `AttemptsGetVerified`, `ClaimsNeverBlock`,
`OverIsRelieved`), which this prover does not handle.

## 5. Assumptions and what is left out

- A repository is a set of registers with compare-and-swap. Replicas of the project
  repository, and being out of reach of one another, are in `Attempts`; in
  `EffectProtocol`, `Promotion` and `Overseer` each repository is one copy.
- Amounts are integers of one currency and do not overflow; one priced capability per
  cell; in `EffectProtocol` one day, so the rate counts every action.
- A connector reports what it knows: a lying one is bounded by the lease, which is a
  different question. It may take any reservation on offer, as `Take` allows, the
  cell's own not yet taken ones included.
- A principal rules on what it found at the far end when it looked; one who rules against it
  is a different question. Every principal reads the list of pending actions first, as
  `cmdAuthority` shows it; no command of the binary calls `Resolve`.
- A free capability has no overseer, as in the built binary (nothing sets
  `EffectOverseer`).
- In `Overseer` a vendor charges what it quoted.
- `Report` is `effect.Report` as its tests call it; the `connector report` command
  stops before it (`LoadClaim` with an empty lease), see the hazards.
- `Overseer` has one clerk at a time, and what it issues with is a choice. A swap there compares
  contents and not hashes, which lets more writes through than the code would. A lease of no
  money is checked against no amount (`Lease.Validate`), and one of unlimited quantity passes
  under any ceiling of units (`authority.go:306`): a lease with a hold could be issued again at
  zero and its hold would be in no sum. Money is bounded where every lease allocates some, units
  where every lease bounds them.
- An attempt is answered, and a claim stops blocking, only where the cell sees the ticket and
  declares the build and test tokens it requires: `verifyPeerAttempts` passes over the rest in
  silence for as long as that is so (`verify.go:64-76`). Nothing obliges a ticket to reach a
  cell: it does with a fetch from a replica that has it. No directive is edited there once a
  ticket is raised.
- `Attempts` takes tickets in any order: `rank` (`loop.go:648-695`) only chooses which
  first. `Storage` releases the largest first, ties in any order. `Replicate` has no caller
  outside the tests (`artifact.go:303`) and is not modelled: a relief may release the
  only copy.
- `OverIsRelieved` excludes a store in which a dead copy left its temporary file: the
  code does not recover from it.
- In `Ledger` two processes each have the whole day's budget and the later save drops
  the earlier total: what is stated is what each process, and a chain of restarts of
  one, can pay. `AcquireVerify` never refuses in a sequential loop.
- In `ClaimPolicy` a claim of another cell is its `not_after`; what a prior action is found
  by contains the payload, as in the code, so an edited ticket is acted on again. A
  directive its author strikes out leaves a line that asks for nothing, and the author may
  write whatever `Directives` has: its aliases and interfaces, JSON parameters and blank lines
  (`TextAssumption`). A cell starts with capabilities that `Validate` accepts (`CellAssumption`).
- In `Promotion`: one ticket, one scope, the switch of one cell; a peer's promotion is
  a promotion by hand; a tie in the pool may go either way; `MaxTrustAge` is unset, so
  a pass that synced is current; `os.WriteFile` of the temporary file is atomic.
- Not modelled: `robe`, `decide`, `executor`, `iface`, `reputation`, `profile`, `guard`,
  `conformance`. They choose by string matching, run subprocesses, wire, print or test;
  each outcome the rest reacts to (a build that fails, an answer without changes, a
  vendor that may have acted) is a choice in the modules above. Formatting, hashing,
  logging and output parsing likewise.

## 6. What could be added

1. The composition of `EffectProtocol` with the replicas of `Attempts`: reservations that
   travel by fetch and push, and partitions between a cell and its connector.
2. Several scopes and tickets in `Promotion`, with the ranking of gate modules.
3. The choice of a robe (`robe/resolve.go`) as a pure module against a reference definition.
