---------------------------- MODULE Attempts_proofs ----------------------------
(***************************************************************************)
(* Proofs about Attempts, for any cells, hubs, processes, tickets and faults,  *)
(* whoever meets whom: the types, that attempts are backed by evidence, and    *)
(* that attempt refs implement AttemptBoard.                                  *)
(***************************************************************************)
EXTENDS Attempts, FiniteSetTheorems, TLAPS

(* An attempt is known at home, where it alone has its number. *)
Homed == \A r \in Replicas : \A a \in refs[r] : a \in refs[a.cell]

(* The attempts of a cell at a ticket are numbered without a gap. *)
Gapless ==
  \A c \in Cells, t \in Tickets : \E k \in 0..MaxAttempts : Numbers(c, c, t) = 1..k

(* What a process counted, and the number it took, are still right in this: all      *)
(* numbers below are taken.  And it holds evidence of what it is about to record.    *)
ProcInv(p) ==
  /\ \A t \in Tickets : 1..proc[p].own[t] \subseteq Numbers(Home(p), Home(p), t)
  /\ proc[p].step \in {"author", "record"} =>
       /\ proc[p].task \in Tickets /\ proc[p].n \in 1..MaxAttempts
       /\ 1..(proc[p].n - 1) \subseteq Numbers(Home(p), Home(p), proc[p].task)
  /\ proc[p].step = "record" /\ proc[p].change # NoChange =>
       [cell |-> Home(p), change |-> proc[p].change] \in evidence[Home(p)]

Types ==
  /\ needs \in [Tickets -> SUBSET Checks]
  /\ tickets \in [Replicas -> SUBSET Tickets]
  /\ refs \in [Replicas -> SUBSET Attempt]
  /\ claims \in [Replicas -> [Cells -> [Tickets -> Nat]]]
  /\ lapsed \in [Cells -> [Tickets -> Nat]]
  /\ evidence \in [Replicas -> SUBSET Evidence]
  /\ commits \in [Procs -> Nat]
  /\ proc \in [Procs -> ProcState]
  /\ faults \in 0..MaxFaults

IInv ==
  /\ Types
  /\ Homed /\ Gapless /\ AttemptsAreBacked
  /\ \A p \in Procs : ProcInv(p)

--------------------------------------------------------------------------------
(* How processes change. *)

LEMMA HomeType == ASSUME NEW p \in Procs PROVE Home(p) \in Cells /\ Home(p) \in Replicas
BY CellOfAssumption DEF Home, Replicas

LEMMA Became ==
  ASSUME NEW p \in Procs, NEW r \in ProcState, proc \in [Procs -> ProcState], Become(p, r)
  PROVE  /\ proc' \in [Procs -> ProcState]
         /\ proc'[p] = r
         /\ \A q \in Procs : q # p => proc'[q] = proc[q]
BY DEF Become

LEMMA Faulted ==
  ASSUME faults \in 0..MaxFaults, Fault
  PROVE  faults' \in 0..MaxFaults
BY FaultsAssumption DEF Fault

LEMMA NoClaimsTyped == NoClaims \in [Cells -> [Tickets -> Nat]]
BY DEF NoClaims

LEMMA FreshTyped ==
  ASSUME NEW c \in Cells
  PROVE  /\ FreshPass(c) \in ProcState
         /\ FreshPass(c).step \in {"fetch", "observe"}
         /\ \A t \in Tickets : FreshPass(c).own[t] = 0
<1>1. Rendezvous[c] \subseteq Replicas
  BY RendezvousAssumption
<1>2. [t \in Tickets |-> 0] \in [Tickets -> Nat]
  OBVIOUS
<1>3. FreshPass(c) \in ProcState
  BY <1>1, <1>2, NoClaimsTyped, MaxAttemptsAssumption DEF FreshPass, ProcState, Steps
<1>4. FreshPass(c).step \in {"fetch", "observe"} /\ FreshPass(c).own = [t \in Tickets |-> 0]
  BY DEF FreshPass
<1> QED BY <1>3, <1>4

(* A record of a process at work on no ticket, with the counts it had or none.       *)
Resting(p, r) ==
  /\ r \in ProcState /\ r.step \notin {"author", "record"}
  /\ \A t \in Tickets : r.own[t] = 0 \/ r.own[t] = proc[p].own[t]

LEMMA RestKeeps ==
  ASSUME NEW p \in Procs, ProcInv(p), NEW r, Resting(p, r), proc'[p] = r,
         \A t \in Tickets : Numbers(Home(p), Home(p), t) \subseteq Numbers(Home(p), Home(p), t)'
  PROVE  ProcInv(p)'
<1>1. ASSUME NEW t \in Tickets PROVE 1..r.own[t] \subseteq Numbers(Home(p), Home(p), t)'
  <2>1. CASE r.own[t] = 0
    BY <2>1
  <2>2. CASE r.own[t] = proc[p].own[t]
    BY <2>2 DEF ProcInv
  <2> QED BY <2>1, <2>2 DEF Resting
<1> QED BY <1>1 DEF ProcInv, Resting, Home

LEMMA OthersKeep ==
  ASSUME NEW q \in Procs, ProcInv(q), proc'[q] = proc[q],
         \A t \in Tickets : Numbers(Home(q), Home(q), t) \subseteq Numbers(Home(q), Home(q), t)',
         evidence[Home(q)] \subseteq evidence'[Home(q)]
  PROVE  ProcInv(q)'
<1> DEFINE S(t) == Numbers(Home(q), Home(q), t)
           T(t) == Numbers(Home(q), Home(q), t)'
<1>1. \A t \in Tickets : S(t) \subseteq T(t)
  OBVIOUS
<1>2. /\ \A t \in Tickets : 1..proc[q].own[t] \subseteq T(t)
      /\ proc[q].step \in {"author", "record"} =>
           /\ proc[q].task \in Tickets /\ proc[q].n \in 1..MaxAttempts
           /\ 1..(proc[q].n - 1) \subseteq T(proc[q].task)
  <2>1. /\ \A t \in Tickets : 1..proc[q].own[t] \subseteq S(t)
        /\ proc[q].step \in {"author", "record"} =>
             /\ proc[q].task \in Tickets /\ proc[q].n \in 1..MaxAttempts
             /\ 1..(proc[q].n - 1) \subseteq S(proc[q].task)
    BY DEF ProcInv
  <2> HIDE DEF S, T
  <2> QED BY <1>1, <2>1
<1>3. proc[q].step = "record" /\ proc[q].change # NoChange =>
        [cell |-> Home(q), change |-> proc[q].change] \in evidence'[Home(q)]
  BY DEF ProcInv
<1> QED BY <1>2, <1>3 DEF ProcInv, Home

(* A step of one process that leaves refs and evidence alone. *)
LEMMA StepQuiet ==
  ASSUME IInv, NEW p \in Procs, NEW r, Resting(p, r), Become(p, r),
         UNCHANGED <<refs, evidence>>,
         claims' \in [Replicas -> [Cells -> [Tickets -> Nat]]],
         needs' = needs, tickets' \in [Replicas -> SUBSET Tickets],
         lapsed' = lapsed, commits' = commits, faults' \in 0..MaxFaults
  PROVE  IInv'
<1>1. /\ proc' \in [Procs -> ProcState] /\ proc'[p] = r
      /\ \A q \in Procs : q # p => proc'[q] = proc[q]
  BY Became DEF IInv, Types, Resting
<1>2. Types'
  BY <1>1 DEF IInv, Types
<1>3. \A c \in Cells, t \in Tickets : Numbers(c, c, t)' = Numbers(c, c, t)
  BY DEF Numbers
<1>4. Homed' /\ Gapless' /\ AttemptsAreBacked'
  BY <1>3 DEF IInv, Homed, Gapless, AttemptsAreBacked
<1>5. ASSUME NEW q \in Procs PROVE ProcInv(q)'
  <2>1. CASE q = p
    BY <1>1, <1>3, <2>1, HomeType, RestKeeps DEF IInv
  <2>2. CASE q # p
    BY <1>1, <1>3, <2>2, HomeType, OthersKeep DEF IInv
  <2> QED BY <2>1, <2>2
<1> QED BY <1>2, <1>4, <1>5 DEF IInv

LEMMA FreshRests ==
  ASSUME NEW p \in Procs
  PROVE  /\ Resting(p, FreshPass(Home(p)))
         /\ Resting(p, [FreshPass(Home(p)) EXCEPT !.step = "push"])
<1> DEFINE f == FreshPass(Home(p))
<1>1. /\ f \in ProcState /\ f.step \in {"fetch", "observe"}
      /\ \A t \in Tickets : f.own[t] = 0
  BY FreshTyped, HomeType
<1> HIDE DEF f
<1>2. Resting(p, f)
  BY <1>1 DEF Resting
<1>3. Resting(p, [f EXCEPT !.step = "push"])
  BY <1>1 DEF Resting, ProcState, Steps
<1> QED BY <1>2, <1>3 DEF f

LEMMA ToTicketRests ==
  ASSUME NEW p \in Procs, proc[p] \in ProcState, NEW todo \in SUBSET Tickets
  PROVE  Resting(p, ToTicket(p, todo))
<1> DEFINE r == [proc[p] EXCEPT !.step = "tickets", !.list = {}, !.todo = todo,
                                !.task = NoTicket, !.n = 0, !.change = NoChange]
<1>1. r \in ProcState /\ r.step = "tickets" /\ r.own = proc[p].own
  <2>1. 0 \in 0..MaxAttempts /\ "tickets" \in Steps
    BY MaxAttemptsAssumption DEF Steps
  <2> QED BY <2>1 DEF ProcState
<1>2. ToTicket(p, todo) \in {r, FreshPass(Home(p)), [FreshPass(Home(p)) EXCEPT !.step = "push"]}
  BY DEF ToTicket
<1> HIDE DEF r
<1>3. Resting(p, r)
  BY <1>1 DEF Resting
<1> QED BY <1>2, <1>3, FreshRests

LEMMA ToVerifyRests ==
  ASSUME NEW p \in Procs, proc[p] \in ProcState, NEW list \in SUBSET Changed
  PROVE  Resting(p, ToVerify(p, list))
<1> DEFINE r == [proc[p] EXCEPT !.step = "verify", !.list = list]
<1>1. CASE list = {}
  <2>1. proc[p].observed \in SUBSET Tickets
    BY DEF ProcState
  <2> QED BY <1>1, <2>1, ToTicketRests DEF ToVerify
<1>2. CASE list # {}
  <2>1. ToVerify(p, list) = r
    BY <1>2 DEF ToVerify
  <2>2. r \in ProcState /\ r.step = "verify" /\ r.own = proc[p].own
    BY DEF ProcState, Steps
  <2> HIDE DEF r
  <2> QED BY <2>1, <2>2 DEF Resting
<1> QED BY <1>1, <1>2

LEMMA VisitedRests ==
  ASSUME NEW p \in Procs, NEW x \in Replicas, NEW ok \in BOOLEAN, proc[p] \in ProcState,
         proc[p].step = "fetch", Visited(p, x, ok)
  PROVE  \E r : Resting(p, r) /\ Become(p, r)
<1> DEFINE left == proc[p].left \ {x}
           s == IF left = {} THEN "observe" ELSE proc[p].step
           reached == proc[p].reached \/ ok
           r == [proc[p] EXCEPT !.left = left, !.reached = reached, !.step = s]
<1>1. left \in SUBSET Replicas /\ s \in {"fetch", "observe"} /\ reached \in BOOLEAN
  BY DEF ProcState
<1>2. Become(p, r)
  BY DEF Visited
<1> HIDE DEF left, s, reached
<1>3. r \in ProcState /\ r.step = s /\ r.own = proc[p].own
  BY <1>1 DEF ProcState, Steps
<1> HIDE DEF r
<1>4. Resting(p, r)
  BY <1>1, <1>3 DEF Resting
<1> QED BY <1>2, <1>4

LEMMA PushedRests ==
  ASSUME NEW p \in Procs, NEW x \in Replicas, proc[p] \in ProcState,
         proc[p].step = "push", Pushed(p, x)
  PROVE  \E r : Resting(p, r) /\ Become(p, r)
<1> DEFINE left == proc[p].left \ {x}
           r == [proc[p] EXCEPT !.left = left]
<1>1. CASE Become(p, FreshPass(Home(p)))
  BY <1>1, FreshRests
<1>2. CASE Become(p, r)
  <2>1. r \in ProcState /\ r.step = "push" /\ r.own = proc[p].own
    BY DEF ProcState
  <2> HIDE DEF r
  <2>2. Resting(p, r)
    BY <2>1 DEF Resting
  <2> QED BY <1>2, <2>2
<1> QED BY <1>1, <1>2 DEF Pushed

--------------------------------------------------------------------------------
(* Replication. *)

Posted == UNION {refs[r] : r \in Replicas}

(* An exchange tells a replica of attempts and of evidence; no cell learns anything   *)
(* new of its own.                                                                *)
LEMMA Exchanged ==
  ASSUME IInv, NEW from \in Replicas, NEW to \in Replicas, Exchange(from, to)
  PROVE  /\ refs' \in [Replicas -> SUBSET Attempt]
         /\ claims' \in [Replicas -> [Cells -> [Tickets -> Nat]]]
         /\ evidence' \in [Replicas -> SUBSET Evidence]
         /\ \A r \in Replicas : refs[r] \subseteq refs'[r] /\ evidence[r] \subseteq evidence'[r]
         /\ Posted' = Posted
         /\ \A c \in Cells, t \in Tickets : Numbers(c, c, t)' = Numbers(c, c, t)
         /\ Homed' /\ AttemptsAreBacked'
<1>1. /\ refs \in [Replicas -> SUBSET Attempt]
      /\ claims \in [Replicas -> [Cells -> [Tickets -> Nat]]]
      /\ evidence \in [Replicas -> SUBSET Evidence]
      /\ Homed /\ AttemptsAreBacked
  BY DEF IInv, Types
<1>2. refs' = [refs EXCEPT ![to] = Merge(@, refs[from])]
  BY DEF Exchange
<1>3. evidence' = [evidence EXCEPT ![to] = @ \cup evidence[from]]
  BY DEF Exchange
<1>4. /\ refs[to] \subseteq Merge(refs[to], refs[from])
      /\ Merge(refs[to], refs[from]) \subseteq refs[to] \cup refs[from]
  BY DEF Merge
<1>5. /\ refs' \in [Replicas -> SUBSET Attempt]
      /\ \A r \in Replicas : refs[r] \subseteq refs'[r]
      /\ \A r \in Replicas : r # to => refs'[r] = refs[r]
      /\ refs'[to] = Merge(refs[to], refs[from])
  BY <1>1, <1>2, <1>4
<1>6. /\ evidence' \in [Replicas -> SUBSET Evidence]
      /\ \A r \in Replicas : evidence[r] \subseteq evidence'[r]
      /\ evidence'[to] = evidence[to] \cup evidence[from]
  BY <1>1, <1>3
<1>7. claims' \in [Replicas -> [Cells -> [Tickets -> Nat]]]
  BY <1>1 DEF Exchange
<1>8. Posted' = Posted
  BY <1>4, <1>5 DEF Posted
<1>9. ASSUME NEW c \in Cells, NEW a \in refs'[c], a.cell = c PROVE a \in refs[c]
  <2>1. c \in Replicas
    BY DEF Replicas
  <2>2. CASE c = to
    <3>1. CASE a \in refs[from]
      BY <1>1, <1>9, <3>1 DEF Homed
    <3> QED BY <1>4, <1>5, <1>9, <2>2, <3>1
  <2> QED BY <1>5, <1>9, <2>1, <2>2
<1>10. ASSUME NEW c \in Cells, NEW t \in Tickets PROVE Numbers(c, c, t)' = Numbers(c, c, t)
  <2>1. c \in Replicas /\ refs[c] \subseteq refs'[c]
    BY <1>5 DEF Replicas
  <2>2. {b \in refs'[c] : b.cell = c /\ b.task = t} = {b \in refs[c] : b.cell = c /\ b.task = t}
    BY <1>9, <2>1
  <2> QED BY <2>2 DEF Numbers
<1>11. Homed'
  <2> SUFFICES ASSUME NEW r \in Replicas, NEW a \in refs'[r] PROVE a \in refs'[a.cell]
    BY DEF Homed
  <2>1. PICK x \in Replicas : a \in refs[x]
    BY <1>4, <1>5
  <2>2. a \in refs[a.cell] /\ a.cell \in Replicas
    BY <1>1, <2>1 DEF Homed, Attempt, Replicas
  <2> QED BY <1>5, <2>2
<1>12. AttemptsAreBacked'
  <2> SUFFICES ASSUME NEW r \in Replicas, NEW a \in refs'[r], a.change # NoChange
               PROVE \E e \in evidence'[r] : e.change = a.change /\ e.cell = a.cell
    BY DEF AttemptsAreBacked
  <2>1. CASE a \in refs[r]
    <3>1. \E e \in evidence[r] : e.change = a.change /\ e.cell = a.cell
      BY <1>1, <2>1 DEF AttemptsAreBacked
    <3> QED BY <1>6, <3>1
  <2>2. CASE r = to /\ a \in refs[from]
    <3>1. \E e \in evidence[from] : e.change = a.change /\ e.cell = a.cell
      BY <1>1, <2>2 DEF AttemptsAreBacked
    <3> QED BY <1>6, <2>2, <3>1
  <2> QED BY <1>4, <1>5, <2>1, <2>2
<1> QED BY <1>5, <1>6, <1>7, <1>8, <1>10, <1>11, <1>12

LEMMA Told ==
  ASSUME IInv, NEW to \in Replicas, NEW from \in Replicas, Tell(to, tickets[from])
  PROVE  tickets' \in [Replicas -> SUBSET Tickets]
BY DEF Tell, IInv, Types

LEMMA ExchangeKeeps ==
  ASSUME IInv, NEW p \in Procs, NEW r, Resting(p, r), Become(p, r),
         NEW from \in Replicas, NEW to \in Replicas, Exchange(from, to),
         needs' = needs, tickets' \in [Replicas -> SUBSET Tickets],
         UNCHANGED <<lapsed, commits, faults>>
  PROVE  IInv'
<1>1. /\ proc' \in [Procs -> ProcState] /\ proc'[p] = r
      /\ \A q \in Procs : q # p => proc'[q] = proc[q]
  BY Became DEF IInv, Types, Resting
<1>2. /\ refs' \in [Replicas -> SUBSET Attempt]
      /\ claims' \in [Replicas -> [Cells -> [Tickets -> Nat]]]
      /\ evidence' \in [Replicas -> SUBSET Evidence]
      /\ \A x \in Replicas : evidence[x] \subseteq evidence'[x]
      /\ \A c \in Cells, t \in Tickets : Numbers(c, c, t)' = Numbers(c, c, t)
      /\ Homed' /\ AttemptsAreBacked'
  BY Exchanged
<1>3. Types'
  BY <1>1, <1>2 DEF IInv, Types
<1>4. Gapless'
  BY <1>2 DEF IInv, Gapless
<1>5. ASSUME NEW q \in Procs PROVE ProcInv(q)'
  <2>1. CASE q = p
    BY <1>1, <1>2, <2>1, HomeType, RestKeeps DEF IInv
  <2>2. CASE q # p
    BY <1>1, <1>2, <2>2, HomeType, OthersKeep DEF IInv
  <2> QED BY <2>1, <2>2
<1> QED BY <1>2, <1>3, <1>4, <1>5 DEF IInv

--------------------------------------------------------------------------------
(* The pass up to its tickets. *)

LEMMA FetchKeeps ==
  ASSUME IInv, NEW p \in Procs, NEW x \in Replicas, FetchFrom(p, x) \/ FetchMisses(p, x)
  PROVE  IInv'
<1>1. proc[p] \in ProcState
  BY DEF IInv, Types
<1>2. CASE FetchFrom(p, x)
  <2>1. \E r : Resting(p, r) /\ Become(p, r)
    BY <1>1, <1>2, VisitedRests DEF FetchFrom
  <2>2. tickets' \in [Replicas -> SUBSET Tickets]
    BY <1>2, HomeType, Told DEF FetchFrom
  <2> QED BY <1>2, <2>1, <2>2, HomeType, ExchangeKeeps DEF FetchFrom
<1>3. CASE FetchMisses(p, x)
  <2>1. \E r : Resting(p, r) /\ Become(p, r)
    BY <1>1, <1>3, VisitedRests DEF FetchMisses
  <2> QED BY <1>3, <2>1, StepQuiet DEF FetchMisses, IInv, Types
<1> QED BY <1>2, <1>3

LEMMA PushKeeps ==
  ASSUME IInv, NEW p \in Procs, NEW x \in Replicas, PushTo(p, x) \/ PushMisses(p, x)
  PROVE  IInv'
<1>1. proc[p] \in ProcState
  BY DEF IInv, Types
<1>2. CASE PushTo(p, x)
  <2>1. \E r : Resting(p, r) /\ Become(p, r)
    BY <1>1, <1>2, PushedRests DEF PushTo
  <2>2. tickets' \in [Replicas -> SUBSET Tickets]
    <3>1. CASE Tell(x, tickets[Home(p)])
      BY <3>1, HomeType, Told
    <3>2. CASE UNCHANGED tickets
      BY <3>2 DEF IInv, Types
    <3> QED BY <1>2, <3>1, <3>2 DEF PushTo
  <2> QED BY <1>2, <2>1, <2>2, HomeType, ExchangeKeeps DEF PushTo
<1>3. CASE PushMisses(p, x)
  <2>1. \E r : Resting(p, r) /\ Become(p, r)
    BY <1>1, <1>3, PushedRests DEF PushMisses
  <2> QED BY <1>3, <2>1, StepQuiet DEF PushMisses, IInv, Types
<1> QED BY <1>2, <1>3

LEMMA RaiseKeeps ==
  ASSUME IInv, NEW x \in Replicas, NEW t \in Tickets, Raise(x, t)
  PROVE  IInv'
<1>1. /\ tickets' \in [Replicas -> SUBSET Tickets]
      /\ UNCHANGED <<needs, refs, claims, lapsed, evidence, commits, proc, faults>>
  BY DEF Raise, IInv, Types
<1>2. Types'
  BY <1>1 DEF IInv, Types
<1>3. \A d \in Cells, u \in Tickets : Numbers(d, d, u)' = Numbers(d, d, u)
  BY <1>1 DEF Numbers
<1>4. Homed' /\ Gapless' /\ AttemptsAreBacked'
  BY <1>1, <1>3 DEF IInv, Homed, Gapless, AttemptsAreBacked
<1>5. \A q \in Procs : ProcInv(q)'
  BY <1>1, <1>3, HomeType, OthersKeep DEF IInv
<1> QED BY <1>2, <1>4, <1>5 DEF IInv

LEMMA ObserveKeeps ==
  ASSUME IInv, NEW p \in Procs, Observe(p) \/ \E t \in Tickets : ObserveDrops(p, t)
  PROVE  IInv'
<1>1. proc[p] \in ProcState /\ tickets[Home(p)] \in SUBSET Tickets
  BY HomeType DEF IInv, Types
<1>2. PICK ts \in SUBSET Tickets : Observed(p, ts)
  BY <1>1 DEF Observe, ObserveDrops
<1> DEFINE r == [proc[p] EXCEPT !.step = "read", !.observed = ts]
<1>3. Become(p, r) /\ UNCHANGED <<needs, tickets, refs, claims, lapsed, evidence, commits>>
  BY <1>2 DEF Observed
<1>4. faults' \in 0..MaxFaults
  BY Faulted DEF Observe, ObserveDrops, IInv, Types
<1>5. r \in ProcState /\ r.step = "read" /\ r.own = proc[p].own
  BY <1>1 DEF ProcState, Steps
<1> HIDE DEF r
<1>6. Resting(p, r)
  BY <1>5 DEF Resting
<1> QED BY <1>3, <1>4, <1>6, StepQuiet DEF IInv, Types

(* The count of one's own attempts is the last number taken. *)
LEMMA Counted ==
  ASSUME Gapless, NEW c \in Cells, NEW t \in Tickets
  PROVE  OwnCount(c, t) \in 0..MaxAttempts /\ 1..OwnCount(c, t) = Numbers(c, c, t)
<1>1. PICK k \in 0..MaxAttempts : Numbers(c, c, t) = 1..k
  BY DEF Gapless
<1>2. k \in Int /\ 0 <= k
  BY <1>1, MaxAttemptsAssumption
<1>3. Cardinality(1..k) = IF 1 > k THEN 0 ELSE k - 1 + 1
  BY <1>2, FS_Interval
<1>4. Cardinality(1..k) = k
  BY <1>2, <1>3
<1> QED BY <1>1, <1>4 DEF OwnCount

LEMMA ReadKeeps ==
  ASSUME IInv, NEW p \in Procs, ReadClaimState(p)
  PROVE  IInv'
<1> DEFINE c == Home(p)
           own == [t \in Tickets |-> OwnCount(c, t)]
           seen == [claims[c] EXCEPT ![c] = [t \in Tickets |-> 0]]
           r == [proc[p] EXCEPT !.step = "list", !.own = own, !.seen = seen]
<1>1. Become(p, r) /\ UNCHANGED <<needs, tickets, refs, claims, lapsed, evidence, commits, faults>>
  BY DEF ReadClaimState
<1>2. proc[p] \in ProcState /\ c \in Cells /\ c \in Replicas
  BY HomeType DEF IInv, Types
<1>3. own \in [Tickets -> Nat] /\ \A t \in Tickets : 1..own[t] = Numbers(c, c, t)
  BY <1>2, Counted, MaxAttemptsAssumption DEF IInv
<1>4. seen \in [Cells -> [Tickets -> Nat]]
  BY <1>2 DEF IInv, Types
<1> HIDE DEF own, seen
<1>5. r \in ProcState /\ r.step = "list" /\ r.own = own
  BY <1>2, <1>3, <1>4 DEF ProcState, Steps
<1> HIDE DEF r
<1>6. /\ proc' \in [Procs -> ProcState] /\ proc'[p] = r
      /\ \A q \in Procs : q # p => proc'[q] = proc[q]
  BY <1>1, <1>5, Became DEF IInv, Types
<1>7. Types'
  BY <1>1, <1>6 DEF IInv, Types
<1>8. \A d \in Cells, t \in Tickets : Numbers(d, d, t)' = Numbers(d, d, t)
  BY <1>1 DEF Numbers
<1>9. Homed' /\ Gapless' /\ AttemptsAreBacked'
  BY <1>1, <1>8 DEF IInv, Homed, Gapless, AttemptsAreBacked
<1>10. ProcInv(p)'
  BY <1>2, <1>3, <1>5, <1>6, <1>8 DEF ProcInv, Home
<1>11. ASSUME NEW q \in Procs, q # p PROVE ProcInv(q)'
  BY <1>1, <1>6, <1>8, <1>11, HomeType, OthersKeep DEF IInv
<1> QED BY <1>7, <1>9, <1>10, <1>11 DEF IInv

LEMMA ListPeersKeeps ==
  ASSUME IInv, NEW p \in Procs, ListPeers(p)
  PROVE  IInv'
<1>1. PICK list : /\ list \in {PeerAttempts(Home(p)), {}} /\ Become(p, ToVerify(p, list))
                  /\ UNCHANGED <<needs, tickets, refs, claims, lapsed, evidence, commits, faults>>
  BY DEF ListPeers
<1>2. PeerAttempts(Home(p)) \subseteq Changed
  BY HomeType DEF PeerAttempts, Changed, IInv, Types
<1>3. list \in SUBSET Changed /\ proc[p] \in ProcState
  BY <1>1, <1>2 DEF IInv, Types
<1>4. Resting(p, ToVerify(p, list))
  BY <1>3, ToVerifyRests
<1> QED BY <1>1, <1>4, StepQuiet DEF IInv, Types

(* Publishing evidence. *)
LEMMA Published ==
  ASSUME IInv, NEW p \in Procs, NEW k \in Changes, Publish(p, k)
  PROVE  /\ evidence' \in [Replicas -> SUBSET Evidence]
         /\ \A r \in Replicas : evidence[r] \subseteq evidence'[r]
         /\ [cell |-> Home(p), change |-> k] \in evidence'[Home(p)]
<1>1. [cell |-> Home(p), change |-> k] \in Evidence
  BY HomeType DEF Evidence
<1> QED BY <1>1, HomeType DEF IInv, Types, Publish

(* A step of one process that tells its replica of evidence, or not. *)
LEMMA StepEvidence ==
  ASSUME IInv, NEW p \in Procs, NEW r \in ProcState, Become(p, r), UNCHANGED refs,
         evidence' \in [Replicas -> SUBSET Evidence],
         \A x \in Replicas : evidence[x] \subseteq evidence'[x],
         claims' \in [Replicas -> [Cells -> [Tickets -> Nat]]],
         needs' = needs, tickets' = tickets, lapsed' = lapsed, commits' \in [Procs -> Nat], faults' \in 0..MaxFaults,
         proc'[p] = r => ProcInv(p)'
  PROVE  IInv'
<1>1. /\ proc' \in [Procs -> ProcState] /\ proc'[p] = r
      /\ \A q \in Procs : q # p => proc'[q] = proc[q]
  BY Became DEF IInv, Types
<1>2. Types'
  BY <1>1 DEF IInv, Types
<1>3. \A c \in Cells, t \in Tickets : Numbers(c, c, t)' = Numbers(c, c, t)
  BY DEF Numbers
<1>4. Homed' /\ Gapless'
  BY <1>3 DEF IInv, Homed, Gapless
<1>5. AttemptsAreBacked'
  <2> SUFFICES ASSUME NEW x \in Replicas, NEW a \in refs[x], a.change # NoChange
               PROVE \E e \in evidence'[x] : e.change = a.change /\ e.cell = a.cell
    BY DEF AttemptsAreBacked
  <2>1. \E e \in evidence[x] : e.change = a.change /\ e.cell = a.cell
    BY DEF IInv, AttemptsAreBacked
  <2> QED BY <2>1
<1>6. ASSUME NEW q \in Procs, q # p PROVE ProcInv(q)'
  BY <1>1, <1>3, <1>6, HomeType, OthersKeep DEF IInv
<1> QED BY <1>1, <1>2, <1>4, <1>5, <1>6 DEF IInv

LEMMA VerifyKeeps ==
  ASSUME IInv, NEW p \in Procs, NEW a \in proc[p].list, Verify(p, a) \/ VerifyFails(p, a)
  PROVE  IInv'
<1> DEFINE r == ToVerify(p, proc[p].list \ {a})
<1>1. proc[p] \in ProcState /\ a \in Changed /\ proc[p].list \ {a} \in SUBSET Changed
  BY DEF IInv, Types, ProcState
<1>2. Resting(p, r)
  BY <1>1, ToVerifyRests
<1>3. Become(p, r) /\ UNCHANGED <<needs, tickets, refs, claims, lapsed, commits>>
  BY DEF Verify, VerifyFails
<1>4. faults' \in 0..MaxFaults
  BY Faulted DEF Verify, VerifyFails, IInv, Types
<1> HIDE DEF r
<1>5. CASE UNCHANGED evidence
  BY <1>2, <1>3, <1>4, <1>5, StepQuiet DEF IInv, Types
<1>6. CASE Publish(p, a.change)
  <2>1. /\ evidence' \in [Replicas -> SUBSET Evidence]
        /\ \A x \in Replicas : evidence[x] \subseteq evidence'[x]
    <3>1. a.change \in Changes
      BY <1>1 DEF Changed, Attempt
    <3> QED BY <1>6, <3>1, Published
  <2>2. \A c \in Cells, t \in Tickets : Numbers(c, c, t)' = Numbers(c, c, t)
    BY <1>3 DEF Numbers
  <2>3. proc'[p] = r => ProcInv(p)'
    BY <1>2, <2>2, HomeType, RestKeeps DEF IInv
  <2> QED BY <1>2, <1>3, <1>4, <2>1, <2>3, StepEvidence DEF IInv, Types, Resting
<1> QED BY <1>5, <1>6 DEF Verify, VerifyFails

--------------------------------------------------------------------------------
(* An attempt. *)

LEMMA ClaimKeeps ==
  ASSUME IInv, NEW p \in Procs, NEW t \in Tickets, Claim(p, t)
  PROVE  IInv'
<1> DEFINE n == proc[p].own[t] + 1
           r == [proc[p] EXCEPT !.step = "author", !.task = t, !.n = n]
<1>1. /\ Evaluate(p, t) /\ Become(p, r)
      /\ claims' = [claims EXCEPT ![Home(p)][Home(p)][t] = @ + 1]
      /\ UNCHANGED <<needs, tickets, refs, lapsed, evidence, commits, faults>>
  BY DEF Claim
<1>2. proc[p] \in ProcState /\ ProcInv(p)
  BY DEF IInv, Types
<1>3. proc[p].own[t] \in Nat
  BY <1>2 DEF ProcState
<1>4. n \in 1..MaxAttempts /\ n - 1 = proc[p].own[t]
  BY <1>1, <1>3, MaxAttemptsAssumption DEF Evaluate
<1> HIDE DEF n
<1>5. r \in ProcState /\ r.step = "author" /\ r.task = t /\ r.n = n /\ r.own = proc[p].own
  <2>1. n \in 0..MaxAttempts /\ "author" \in Steps
    BY <1>4 DEF Steps
  <2> QED BY <1>2, <2>1 DEF ProcState
<1> HIDE DEF r
<1>6. claims' \in [Replicas -> [Cells -> [Tickets -> Nat]]]
  BY <1>1, HomeType DEF IInv, Types
<1>7. Numbers(Home(p), Home(p), t)' = Numbers(Home(p), Home(p), t)
      /\ \A u \in Tickets : Numbers(Home(p), Home(p), u)' = Numbers(Home(p), Home(p), u)
  BY <1>1 DEF Numbers
<1>8. 1..(n - 1) \subseteq Numbers(Home(p), Home(p), t)
  BY <1>2, <1>4 DEF ProcInv
<1>9. proc'[p] = r => ProcInv(p)'
  BY <1>2, <1>4, <1>5, <1>7, <1>8 DEF ProcInv, Home
<1> QED BY <1>1, <1>5, <1>6, <1>9, StepEvidence DEF IInv, Types

LEMMA SkipKeeps ==
  ASSUME IInv, NEW p \in Procs, NEW t \in Tickets, Skip(p, t)
  PROVE  IInv'
<1>1. proc[p] \in ProcState /\ proc[p].todo \ {t} \in SUBSET Tickets
  BY DEF IInv, Types, ProcState
<1>2. Resting(p, ToTicket(p, proc[p].todo \ {t}))
  BY <1>1, ToTicketRests
<1> QED BY <1>2, StepQuiet DEF Skip, IInv, Types

LEMMA AuthorKeeps ==
  ASSUME IInv, NEW p \in Procs, Author(p)
  PROVE  IInv'
<1>1. proc[p] \in ProcState /\ ProcInv(p) /\ proc[p].step = "author"
  BY DEF IInv, Types, Author
<1>2. UNCHANGED <<needs, tickets, refs, claims, lapsed, faults>>
  BY DEF Author
<1>3. \A t \in Tickets : Numbers(Home(p), Home(p), t)' = Numbers(Home(p), Home(p), t)
  BY <1>2 DEF Numbers
<1>4. CASE /\ UNCHANGED <<commits, evidence>>
           /\ Become(p, [proc[p] EXCEPT !.step = "record", !.change = NoChange])
  <2> DEFINE r == [proc[p] EXCEPT !.step = "record", !.change = NoChange]
  <2>1. /\ r \in ProcState /\ r.step = "record" /\ r.own = proc[p].own /\ r.task = proc[p].task
        /\ r.n = proc[p].n /\ r.change = NoChange
    BY <1>1 DEF ProcState, Steps
  <2>2. Become(p, r)
    BY <1>4
  <2> HIDE DEF r
  <2>3. proc'[p] = r => ProcInv(p)'
    BY <1>1, <1>3, <2>1 DEF ProcInv, Home
  <2> QED BY <1>2, <1>4, <2>1, <2>2, <2>3, StepEvidence DEF IInv, Types
<1> DEFINE change == <<p, commits[p] + 1>>
<1>5. CASE /\ commits' = [commits EXCEPT ![p] = @ + 1]
           /\ Publish(p, change)
           /\ Become(p, [proc[p] EXCEPT !.step = "record", !.change = change])
  <2> DEFINE r == [proc[p] EXCEPT !.step = "record", !.change = change]
  <2>1. change \in Changes /\ commits' \in [Procs -> Nat]
    BY <1>5 DEF IInv, Types, Changes
  <2> HIDE DEF change
  <2>2. /\ r \in ProcState /\ r.step = "record" /\ r.own = proc[p].own /\ r.task = proc[p].task
        /\ r.n = proc[p].n /\ r.change = change
    BY <1>1, <2>1 DEF ProcState, Steps
  <2>3. Become(p, r)
    BY <1>5
  <2> HIDE DEF r
  <2>4. /\ evidence' \in [Replicas -> SUBSET Evidence]
        /\ \A x \in Replicas : evidence[x] \subseteq evidence'[x]
        /\ [cell |-> Home(p), change |-> change] \in evidence'[Home(p)]
    BY <1>5, <2>1, Published
  <2>5. proc'[p] = r => ProcInv(p)'
    BY <1>1, <1>3, <2>2, <2>4 DEF ProcInv, Home
  <2> QED BY <1>2, <2>1, <2>2, <2>3, <2>4, <2>5, StepEvidence DEF IInv, Types
<1> QED BY <1>4, <1>5 DEF Author

LEMMA NextTicketRests ==
  ASSUME IInv, NEW p \in Procs, NextTicket(p)
  PROVE  \E r : Resting(p, r) /\ Become(p, r)
<1>1. proc[p] \in ProcState /\ proc[p].todo \ {proc[p].task} \in SUBSET Tickets
  BY DEF IInv, Types, ProcState
<1> QED BY <1>1, ToTicketRests DEF NextTicket

LEMMA AttemptFailsKeeps ==
  ASSUME IInv, NEW p \in Procs, AttemptFails(p)
  PROVE  IInv'
<1>1. \E r : Resting(p, r) /\ Become(p, r)
  BY NextTicketRests DEF AttemptFails
<1> QED BY <1>1, StepQuiet, Faulted DEF AttemptFails, IInv, Types

LEMMA CrashKeeps ==
  ASSUME IInv, NEW p \in Procs, Crash(p)
  PROVE  IInv'
BY FreshRests, StepQuiet, Faulted DEF Crash, IInv, Types

LEMMA LapseKeeps ==
  ASSUME IInv, NEW c \in Cells, NEW t \in Tickets, Lapse(c, t)
  PROVE  IInv'
<1>1. /\ lapsed' = [lapsed EXCEPT ![c][t] = @ + 1]
      /\ UNCHANGED <<needs, tickets, refs, claims, evidence, commits, proc, faults>>
  BY DEF Lapse
<1>2. Types'
  BY <1>1 DEF IInv, Types
<1>3. \A d \in Cells, u \in Tickets : Numbers(d, d, u)' = Numbers(d, d, u)
  BY <1>1 DEF Numbers
<1>4. Homed' /\ Gapless' /\ AttemptsAreBacked'
  BY <1>1, <1>3 DEF IInv, Homed, Gapless, AttemptsAreBacked
<1>5. \A q \in Procs : ProcInv(q)'
  BY <1>1, <1>3, HomeType, OthersKeep DEF IInv
<1> QED BY <1>2, <1>4, <1>5 DEF IInv

(* The attempt a process writes: of its cell, backed, and with the next number when    *)
(* that is free.                                                                 *)
Writes(p) ==
  [cell |-> Home(p), task |-> proc[p].task, n |-> proc[p].n, change |-> proc[p].change]

LEMMA Written ==
  ASSUME IInv, NEW p \in Procs, WriteAttempt(p), NEW a, a = Writes(p), RefFree(Home(p), a)
  PROVE  /\ a \in Attempt /\ a.cell = Home(p) /\ a.task = proc[p].task
         /\ a.n = proc[p].n /\ a.change = proc[p].change
         /\ refs' = [refs EXCEPT ![Home(p)] = @ \cup {a}]
         /\ Numbers(a.cell, a.cell, a.task) = 1..(a.n - 1)
         /\ Numbers(a.cell, a.cell, a.task)' = 1..a.n
         /\ \A c \in Cells, t \in Tickets :
              c # a.cell \/ t # a.task => Numbers(c, c, t)' = Numbers(c, c, t)
<1> DEFINE c == Home(p)
<1>0. PICK t, n : t = proc[p].task /\ n = proc[p].n
  OBVIOUS
<1>1. /\ proc[p].step = "record" /\ refs' = [refs EXCEPT ![c] = @ \cup {a}]
  BY DEF WriteAttempt, Writes
<1>2. /\ t \in Tickets /\ n \in 1..MaxAttempts /\ 1..(n - 1) \subseteq Numbers(c, c, t)
      /\ proc[p].change \in Changes \cup {NoChange} /\ c \in Cells /\ c \in Replicas
  BY <1>0, <1>1, HomeType DEF IInv, Types, ProcInv, ProcState
<1>3. a \in Attempt /\ a.cell = c /\ a.task = t /\ a.n = n /\ a.change = proc[p].change
  BY <1>0, <1>2 DEF Writes, Attempt
<1>4. n \notin Numbers(c, c, t)
  BY <1>3 DEF Numbers, RefFree, Lacks, SameRef
<1>5. Numbers(c, c, t) = 1..(n - 1)
  <2>1. PICK k \in 0..MaxAttempts : Numbers(c, c, t) = 1..k
    BY <1>2 DEF IInv, Gapless
  <2>2. k \in Nat /\ n \in Nat /\ n > 0
    BY <1>2, MaxAttemptsAssumption
  <2>3. k < n
    BY <1>4, <2>1, <2>2
  <2>4. n - 1 <= k
    <3>1. n - 1 > 0 => n - 1 \in 1..(n - 1)
      BY <2>2
    <3> QED BY <1>2, <2>1, <2>2, <3>1
  <2> QED BY <2>1, <2>2, <2>3, <2>4
<1>6. refs'[c] = refs[c] \cup {a} /\ \A r \in Replicas : r # c => refs'[r] = refs[r]
  BY <1>1, <1>2 DEF IInv, Types
<1>7. Numbers(c, c, t)' = Numbers(c, c, t) \cup {n}
  <2> DEFINE At(s) == {b \in s : b.cell = c /\ b.task = t}
  <2>1. At(refs'[c]) = At(refs[c]) \cup {a}
    BY <1>3, <1>6
  <2>2. Numbers(c, c, t) = {b.n : b \in At(refs[c])} /\ Numbers(c, c, t)' = {b.n : b \in At(refs'[c])}
    BY DEF Numbers
  <2> HIDE DEF At
  <2> QED BY <1>3, <2>1, <2>2
<1>8. Numbers(c, c, t)' = 1..n
  BY <1>2, <1>5, <1>7
<1>9. ASSUME NEW d \in Cells, NEW u \in Tickets, d # c \/ u # t
      PROVE Numbers(d, d, u)' = Numbers(d, d, u)
  <2>1. d \in Replicas
    BY DEF Replicas
  <2>2. {b \in refs'[d] : b.cell = d /\ b.task = u} = {b \in refs[d] : b.cell = d /\ b.task = u}
    BY <1>3, <1>6, <1>9, <2>1
  <2> QED BY <2>2 DEF Numbers
<1> QED BY <1>0, <1>1, <1>3, <1>5, <1>8, <1>9

LEMMA WriteAttemptKeeps ==
  ASSUME IInv, NEW p \in Procs, WriteAttempt(p)
  PROVE  IInv'
<1>0. PICK a : a = Writes(p)
  OBVIOUS
<1>1. PICK r : Resting(p, r) /\ Become(p, r)
  BY NextTicketRests DEF WriteAttempt
<1>2. /\ proc[p].step = "record" /\ UNCHANGED <<needs, tickets, claims, lapsed, evidence, commits, faults>>
      /\ refs' = IF RefFree(Home(p), a) THEN [refs EXCEPT ![Home(p)] = @ \cup {a}] ELSE refs
  BY <1>0 DEF WriteAttempt, Writes
<1>3. CASE ~RefFree(Home(p), a)
  BY <1>1, <1>2, <1>3, StepQuiet DEF IInv, Types
<1>4. CASE RefFree(Home(p), a)
  <2>1. /\ a \in Attempt /\ a.cell = Home(p) /\ a.task = proc[p].task
        /\ a.n = proc[p].n /\ a.change = proc[p].change
        /\ refs' = [refs EXCEPT ![Home(p)] = @ \cup {a}]
        /\ Numbers(a.cell, a.cell, a.task) = 1..(a.n - 1)
        /\ Numbers(a.cell, a.cell, a.task)' = 1..a.n
        /\ \A c \in Cells, t \in Tickets :
             c # a.cell \/ t # a.task => Numbers(c, c, t)' = Numbers(c, c, t)
    BY <1>0, <1>4, Written
  <2>2. a.cell \in Cells /\ a.cell \in Replicas /\ a.task \in Tickets /\ a.n \in 1..MaxAttempts
    BY <2>1 DEF Attempt, Replicas
  <2>3. /\ refs' \in [Replicas -> SUBSET Attempt]
        /\ refs'[a.cell] = refs[a.cell] \cup {a}
        /\ \A x \in Replicas : x # a.cell => refs'[x] = refs[x]
    BY <2>1, <2>2 DEF IInv, Types
  <2>4. \A c \in Cells, t \in Tickets : Numbers(c, c, t) \subseteq Numbers(c, c, t)'
    <3> SUFFICES ASSUME NEW c \in Cells, NEW t \in Tickets
                 PROVE Numbers(c, c, t) \subseteq Numbers(c, c, t)'
      OBVIOUS
    <3>1. CASE c = a.cell /\ t = a.task
      <4>1. 1..(a.n - 1) \subseteq 1..a.n
        BY <2>2
      <4> QED BY <2>1, <3>1, <4>1
    <3> QED BY <2>1, <3>1
  <2>5. /\ proc' \in [Procs -> ProcState] /\ proc'[p] = r
        /\ \A q \in Procs : q # p => proc'[q] = proc[q]
    BY <1>1, Became DEF IInv, Types, Resting
  <2>6. Types'
    BY <1>2, <2>3, <2>5 DEF IInv, Types
  <2>7. Homed'
    <3> SUFFICES ASSUME NEW x \in Replicas, NEW b \in refs'[x] PROVE b \in refs'[b.cell]
      BY DEF Homed
    <3>1. CASE b = a
      BY <2>3, <3>1
    <3>2. CASE b \in refs[x]
      <4>1. b \in refs[b.cell] /\ b.cell \in Replicas
        BY <3>2 DEF IInv, Types, Homed, Attempt, Replicas
      <4> QED BY <2>3, <4>1
    <3> QED BY <2>3, <3>1, <3>2
  <2>8. Gapless'
    <3> SUFFICES ASSUME NEW c \in Cells, NEW t \in Tickets
                 PROVE \E k \in 0..MaxAttempts : Numbers(c, c, t)' = 1..k
      BY DEF Gapless
    <3>1. CASE c = a.cell /\ t = a.task
      <4>1. a.n \in 0..MaxAttempts
        BY <2>2
      <4> QED BY <2>1, <3>1, <4>1
    <3>2. CASE ~(c = a.cell /\ t = a.task)
      BY <2>1, <3>2 DEF IInv, Gapless
    <3> QED BY <3>1, <3>2
  <2>9. AttemptsAreBacked'
    <3> SUFFICES ASSUME NEW x \in Replicas, NEW b \in refs'[x], b.change # NoChange
                 PROVE \E e \in evidence'[x] : e.change = b.change /\ e.cell = b.cell
      BY DEF AttemptsAreBacked
    <3>1. CASE b \in refs[x]
      BY <1>2, <3>1 DEF IInv, AttemptsAreBacked
    <3>2. CASE b = a /\ x = a.cell
      <4>1. [cell |-> Home(p), change |-> a.change] \in evidence[Home(p)]
        BY <1>2, <2>1, <3>2 DEF IInv, ProcInv
      <4> QED BY <1>2, <2>1, <3>2, <4>1
    <3> QED BY <2>3, <3>1, <3>2
  <2>10. ASSUME NEW q \in Procs PROVE ProcInv(q)'
    <3>1. CASE q = p
      BY <1>1, <2>4, <2>5, <3>1, HomeType, RestKeeps DEF IInv
    <3>2. CASE q # p
      BY <1>2, <2>4, <2>5, <3>2, HomeType, OthersKeep DEF IInv
    <3> QED BY <3>1, <3>2
  <2> QED BY <2>6, <2>7, <2>8, <2>9, <2>10 DEF IInv
<1> QED BY <1>3, <1>4

--------------------------------------------------------------------------------
(* The invariant holds of every behaviour. *)

LEMMA InitInv == Init => IInv
<1> SUFFICES ASSUME Init PROVE IInv
  OBVIOUS
<1>1. \A p \in Procs : /\ proc[p] \in ProcState /\ proc[p].step \in {"fetch", "observe"}
                       /\ \A t \in Tickets : proc[p].own[t] = 0
  BY CellOfAssumption, FreshTyped DEF Init
<1>2. proc \in [Procs -> ProcState]
  BY <1>1 DEF Init
<1>3. Types
  BY <1>2, NoClaimsTyped, FaultsAssumption DEF Init, Types, Replicas
<1>4. \A c \in Cells, t \in Tickets : Numbers(c, c, t) = {}
  BY DEF Init, Numbers, Replicas
<1>5. Gapless
  <2>1. 0 \in 0..MaxAttempts /\ 1..0 = {}
    BY MaxAttemptsAssumption
  <2> QED BY <1>4, <2>1 DEF Gapless
<1>6. Homed /\ AttemptsAreBacked
  BY DEF Init, Homed, AttemptsAreBacked
<1>7. \A p \in Procs : ProcInv(p)
  <2>1. 1..0 = {}
    OBVIOUS
  <2> QED BY <1>1, <2>1 DEF ProcInv
<1> QED BY <1>3, <1>5, <1>6, <1>7 DEF IInv

LEMMA StutterInv ==
  ASSUME IInv, UNCHANGED vars
  PROVE  IInv'
<1>1. /\ needs' = needs /\ tickets' = tickets /\ refs' = refs /\ claims' = claims /\ lapsed' = lapsed /\ evidence' = evidence
      /\ commits' = commits /\ proc' = proc /\ faults' = faults
  BY DEF vars
<1>2. Types'
  BY <1>1 DEF IInv, Types
<1>3. \A c \in Cells, t \in Tickets : Numbers(c, c, t)' = Numbers(c, c, t)
  BY <1>1 DEF Numbers
<1>4. Homed' /\ Gapless' /\ AttemptsAreBacked'
  BY <1>1, <1>3 DEF IInv, Homed, Gapless, AttemptsAreBacked
<1>5. \A q \in Procs : ProcInv(q)'
  BY <1>1, <1>3, HomeType, OthersKeep DEF IInv
<1> QED BY <1>2, <1>4, <1>5 DEF IInv

LEMMA NextInv ==
  ASSUME IInv, [Next]_vars
  PROVE  IInv'
<1>1. CASE UNCHANGED vars
  BY <1>1, StutterInv
<1>2. ASSUME NEW c \in Cells, NEW t \in Tickets, Lapse(c, t) PROVE IInv'
  BY <1>2, LapseKeeps
<1>3. ASSUME NEW p \in Procs,
             \/ PassStep(p) \/ Crash(p) \/ AttemptFails(p)
             \/ \E a \in proc[p].list : VerifyFails(p, a)
             \/ \E r \in Replicas : FetchFrom(p, r) \/ PushTo(p, r)
             \/ \E t \in Tickets : Claim(p, t) \/ ObserveDrops(p, t)
      PROVE IInv'
  <2>1. CASE PassStep(p)
    <3>1. CASE ReadClaimState(p) \/ ListPeers(p) \/ Author(p) \/ WriteAttempt(p)
      BY <3>1, ReadKeeps, ListPeersKeeps, AuthorKeeps, WriteAttemptKeeps
    <3>2. CASE \E r \in Replicas : FetchMisses(p, r) \/ PushMisses(p, r)
      BY <3>2, FetchKeeps, PushKeeps
    <3>3. CASE \E t \in Tickets : Skip(p, t)
      BY <3>3, SkipKeeps
    <3>4. CASE \E a \in proc[p].list : Verify(p, a)
      BY <3>4, VerifyKeeps
    <3>5. CASE Observe(p)
      BY <3>5, ObserveKeeps
    <3> QED BY <2>1, <3>1, <3>2, <3>3, <3>4, <3>5 DEF PassStep
  <2>2. CASE Crash(p) \/ AttemptFails(p)
    BY <2>2, CrashKeeps, AttemptFailsKeeps
  <2>3. CASE \E a \in proc[p].list : VerifyFails(p, a)
    BY <2>3, VerifyKeeps
  <2>4. CASE \E r \in Replicas : FetchFrom(p, r) \/ PushTo(p, r)
    BY <2>4, FetchKeeps, PushKeeps
  <2>5. CASE \E t \in Tickets : Claim(p, t) \/ ObserveDrops(p, t)
    BY <2>5, ClaimKeeps, ObserveKeeps
  <2> QED BY <1>3, <2>1, <2>2, <2>3, <2>4, <2>5
<1>4. ASSUME NEW r \in Replicas, NEW t \in Tickets, Raise(r, t) PROVE IInv'
  BY <1>4, RaiseKeeps
<1> QED BY <1>1, <1>2, <1>3, <1>4 DEF Next

LEMMA Invariance == Spec => []IInv
<1>1. IInv /\ [Next]_vars => IInv'
  BY NextInv
<1> QED BY <1>1, InitInv, PTL DEF Spec

(* Every variable keeps its type: in particular no cell numbers an attempt beyond    *)
(* Budget.Attempts (Evaluate, readClaimState), however many processes it runs.       *)
THEOREM TypeCorrect == Spec => []TypeOK
<1>1. IInv => TypeOK
  <2> SUFFICES ASSUME IInv, NEW p \in Procs, proc[p].step \in {"author", "record"}
               PROVE proc[p].task \in Tickets /\ proc[p].n > 0
    BY DEF IInv, Types, TypeOK
  <2>1. proc[p].task \in Tickets /\ proc[p].n \in 1..MaxAttempts
    BY DEF IInv, ProcInv
  <2> QED BY <2>1, MaxAttemptsAssumption
<1> QED BY <1>1, Invariance, PTL

(* A replica that holds an attempt holds its author's evidence about the change, so   *)
(* no attempt is ever known before it was checked (attempt, Fetch and Push).         *)
THEOREM Backed == Spec => []AttemptsAreBacked
<1>1. IInv => AttemptsAreBacked
  BY DEF IInv
<1> QED BY <1>1, Invariance, PTL

--------------------------------------------------------------------------------
(* Attempt refs are boards. *)

LEMMA BoardInit == Init => Board!Init
BY DEF Init, Board!Init

(* A step that posts nothing lets replicas learn of what was posted. *)
LEMMA LearnStep ==
  ASSUME IInv, refs' \in [Replicas -> SUBSET Attempt],
         \A r \in Replicas : refs[r] \subseteq refs'[r], Posted' = Posted
  PROVE  [Board!Next]_(Board!vars)
<1>1. \A r \in Replicas : refs'[r] \subseteq UNION {refs'[x] : x \in Replicas}
  OBVIOUS
<1>2. (UNION {refs[x] : x \in Replicas})' = UNION {refs[x] : x \in Replicas}
  BY DEF Posted
<1>3. DOMAIN refs' = Replicas
  OBVIOUS
<1> QED BY <1>1, <1>2, <1>3 DEF Board!Next, Board!Learn

LEMMA PostStep ==
  ASSUME IInv, NEW p \in Procs, WriteAttempt(p)
  PROVE  [Board!Next]_(Board!vars)
<1>0. PICK a : a = Writes(p)
  OBVIOUS
<1>1. refs' = IF RefFree(Home(p), a) THEN [refs EXCEPT ![Home(p)] = @ \cup {a}] ELSE refs
  BY <1>0 DEF WriteAttempt, Writes
<1>2. CASE ~RefFree(Home(p), a)
  BY <1>1, <1>2 DEF Board!vars
<1>3. CASE RefFree(Home(p), a)
  <2>1. /\ a \in Attempt /\ a.cell = Home(p)
        /\ refs' = [refs EXCEPT ![Home(p)] = @ \cup {a}]
        /\ Numbers(a.cell, a.cell, a.task) = 1..(a.n - 1)
    BY <1>0, <1>3, Written
  <2>2. a.cell \in Cells /\ a.cell \in Replicas /\ a.n \in 1..MaxAttempts
    BY <2>1 DEF Attempt, Replicas
  <2>3. refs \in [Replicas -> SUBSET Attempt] /\ Homed
    BY DEF IInv, Types
  <2>4. /\ refs'[a.cell] = refs[a.cell] \cup {a}
        /\ \A x \in Replicas : x # a.cell => refs'[x] = refs[x]
        /\ DOMAIN refs' = Replicas
    BY <2>1, <2>2, <2>3
  <2>5. Posted' = Posted \cup {a} /\ a \in Posted'
    BY <2>2, <2>3, <2>4 DEF Posted
  <2>6. Board!Numbers(a.cell, a.task) = Numbers(a.cell, a.cell, a.task)
    <3>1. {b \in Posted : b.cell = a.cell /\ b.task = a.task}
            = {b \in refs[a.cell] : b.cell = a.cell /\ b.task = a.task}
      BY <2>2, <2>3 DEF Posted, Homed
    <3> QED BY <3>1 DEF Board!Numbers, Numbers, Posted
  <2>7. a.n \notin 1..(a.n - 1) /\ \A m \in 1..(a.n - 1) : m \in 1..(a.n - 1)
    BY <2>2, MaxAttemptsAssumption
  <2>8. a \in Board!Attempt
    BY <2>1 DEF Attempt, Board!Attempt
  <2>9. Board!Post
    BY <2>1, <2>5, <2>6, <2>7, <2>8 DEF Board!Post, Posted
  <2>10. Board!Learn
    <3>1. \A r \in Replicas : refs[r] \subseteq refs'[r]
      BY <2>4
    <3> QED BY <2>4, <3>1 DEF Board!Learn
  <2> QED BY <2>9, <2>10 DEF Board!Next
<1> QED BY <1>2, <1>3

LEMMA BoardStep ==
  ASSUME IInv, [Next]_vars
  PROVE  [Board!Next]_(Board!vars)
<1>1. CASE UNCHANGED refs
  BY <1>1 DEF Board!vars
<1>2. CASE \E p \in Procs : WriteAttempt(p)
  BY <1>2, PostStep
<1>3. CASE \E from, to \in Replicas : Exchange(from, to)
  BY <1>3, Exchanged, LearnStep
<1>4. UNCHANGED refs \/ (\E p \in Procs : WriteAttempt(p))
      \/ (\E from, to \in Replicas : Exchange(from, to))
  <2>1. CASE UNCHANGED vars
    BY <2>1 DEF vars
  <2>2. ASSUME NEW c \in Cells, NEW t \in Tickets, Lapse(c, t) PROVE UNCHANGED refs
    BY <2>2 DEF Lapse
  <2>3. ASSUME NEW p \in Procs,
               \/ PassStep(p) \/ Crash(p) \/ AttemptFails(p)
               \/ \E a \in proc[p].list : VerifyFails(p, a)
               \/ \E t \in Tickets : Claim(p, t) \/ ObserveDrops(p, t)
        PROVE UNCHANGED refs \/ WriteAttempt(p)
    BY <2>3 DEF PassStep, ReadClaimState, ListPeers, Author, FetchMisses, PushMisses, Skip,
                Verify, Crash, AttemptFails, VerifyFails, Claim, Observe, ObserveDrops, Observed
  <2>4. ASSUME NEW p \in Procs, NEW r \in Replicas, FetchFrom(p, r) \/ PushTo(p, r)
        PROVE \E from, to \in Replicas : Exchange(from, to)
    BY <2>4, HomeType DEF FetchFrom, PushTo
  <2>5. ASSUME NEW r \in Replicas, NEW t \in Tickets, Raise(r, t) PROVE UNCHANGED refs
    BY <2>5 DEF Raise
  <2> QED BY <2>1, <2>2, <2>3, <2>4, <2>5 DEF Next
<1> QED BY <1>1, <1>2, <1>3, <1>4

(* Attempt refs implement AttemptBoard for any cells, hubs, processes and faults:     *)
(* each author's numbers have no gap and no second use, and no replica forgets or     *)
(* changes what it knows (readClaimState, writeAttempt, Fetch, Push).               *)
THEOREM IsBoard == Spec => ImplementsBoard
<1>1. Init => Board!Init
  BY BoardInit
<1>2. IInv /\ [Next]_vars => [Board!Next]_(Board!vars)
  BY BoardStep
<1> QED BY <1>1, <1>2, Invariance, PTL DEF Spec, ImplementsBoard, Board!Spec

================================================================================
