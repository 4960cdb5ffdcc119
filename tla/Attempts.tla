------------------------------- MODULE Attempts --------------------------------
(***************************************************************************)
(* How cells attempt tickets and hear of one another: the loop of           *)
(* loop.Once over ordinary tickets, with claims, attempt numbers, evidence,  *)
(* peer verification, and the exchange of refs and notes between replicas.  *)
(*                                                                         *)
(* Every cell has a replica of the project repository and every process of  *)
(* the cell works on that one replica; a hub is a replica nobody works on.  *)
(* A peer may be out of reach at any call.  What a cell learned in a pass   *)
(* (the tickets, its own attempts, foreign claims, the peers' attempts to   *)
(* verify) is read once and used until the pass ends.                       *)
(***************************************************************************)
EXTENDS Integers, FiniteSets

CONSTANTS
  Cells, Hubs,   \* replicas: one per cell, and the hubs they meet at
  Procs,         \* processes; two of one cell share its replica
  CellOf,        \* the cell a process runs
  Rendezvous,    \* the replicas a cell fetches from and pushes to
  Tickets,
  Checks,        \* build and test tokens
  Declares,      \* Capabilities.Build and Test: the tokens a cell declares
  Attempters, Verifiers,  \* the cells with each role
  MaxAttempts,   \* Budget.Attempts, the attempts a cell makes at a ticket
  Yield,         \* YieldToFreshClaims
  MaxFaults,     \* bound: crashes, failed authoring and failed writes
  NoTicket, NoChange

Replicas == Cells \cup Hubs

ASSUME ReplicasAssumption == Cells \cap Hubs = {}
ASSUME CellOfAssumption == CellOf \in [Procs -> Cells]
ASSUME RendezvousAssumption == Rendezvous \in [Cells -> SUBSET Replicas]
ASSUME RolesAssumption == Attempters \subseteq Cells /\ Verifiers \subseteq Cells
ASSUME DeclaresAssumption == Declares \in [Cells -> SUBSET Checks]
ASSUME MaxAttemptsAssumption == MaxAttempts \in Nat \ {0}
ASSUME YieldAssumption == Yield \in BOOLEAN
ASSUME FaultsAssumption == MaxFaults \in Nat
ASSUME NoTicketAssumption == NoTicket \notin Tickets

VARIABLES
  needs,     \* [Tickets -> SUBSET Checks]: the tokens a ticket's text requires
  tickets,   \* [Replicas -> SUBSET Tickets]: the tickets each replica has heard of
  refs,      \* [Replicas -> set of attempts]: refs/factory/attempts/...
  claims,    \* [Replicas -> [Cells -> [Tickets -> Nat]]]: which of the cell's
             \* claims the replica holds; 0 is none
  lapsed,    \* [Cells -> [Tickets -> Nat]]: claims up to this one are past not_after
  evidence,  \* [Replicas -> set of evidence notes]
  commits,   \* [Procs -> Nat]: changes committed so far; a change is who
             \* committed it and its number
  proc, faults

vars == <<needs, tickets, refs, claims, lapsed, evidence, commits, proc, faults>>

Changes  == Procs \X (Nat \ {0})
Attempt  == [cell : Cells, task : Tickets, n : 1..MaxAttempts, change : Changes \cup {NoChange}]
(* Those that leave something to verify. *)
Changed  == {a \in Attempt : a.change # NoChange}
Evidence == [cell : Cells, change : Changes]

NoClaims == [c \in Cells |-> [t \in Tickets |-> 0]]
FreshPass(c) ==
  [step |-> IF Rendezvous[c] = {} THEN "observe" ELSE "fetch", left |-> Rendezvous[c],
   reached |-> FALSE, observed |-> {}, own |-> [t \in Tickets |-> 0], seen |-> NoClaims, list |-> {},
   todo |-> {}, task |-> NoTicket, n |-> 0, change |-> NoChange]

Home(p) == CellOf[p]
Become(p, s) == proc' = [proc EXCEPT ![p] = s]
Fault == faults < MaxFaults /\ faults' = faults + 1

(* Capabilities.Missing: the required tokens that the cell does not declare. *)
Missing(c, t) == needs[t] \ Declares[c]

(* Outside: whoever wants it done raises a ticket, at one replica. *)
Raise(r, t) ==
  /\ \A x \in Replicas : t \notin tickets[x]
  /\ tickets' = [tickets EXCEPT ![r] = @ \cup {t}]
  /\ UNCHANGED <<needs, refs, claims, lapsed, evidence, commits, proc, faults>>

--------------------------------------------------------------------------------
(* Replication.  A replica takes what it lacks and never overwrites: a ref that *)
(* exists with another value is reported and left, and everything else of the  *)
(* exchange still applies.  Fetch and Push are the same rule, seen from the    *)
(* two sides.                                                               *)

SameRef(a, b) == a.cell = b.cell /\ a.task = b.task /\ a.n = b.n
Lacks(held, a) == \A b \in held : ~SameRef(a, b)

Merge(held, new) == held \cup {a \in new : Lacks(held, a)}

Exchange(from, to) ==
  /\ refs' = [refs EXCEPT ![to] = Merge(@, refs[from])]
  /\ claims' = [claims EXCEPT ![to] =
       [c \in Cells |-> [t \in Tickets |-> IF @[c][t] = 0 THEN claims[from][c][t] ELSE @[c][t]]]]
  /\ evidence' = [evidence EXCEPT ![to] = @ \cup evidence[from]]

(* Tickets go with a fetch.  With a push they do where a ticket is a ref (Exec)  *)
(* and do not where it is not (Fake).                                        *)
Tell(to, ts) == tickets' = [tickets EXCEPT ![to] = @ \cup ts]

--------------------------------------------------------------------------------
(* Step 1: fetch from every rendezvous peer.  The cell is offline when it has  *)
(* peers and reached none.                                                  *)

Visited(p, r, ok) ==
  LET left == proc[p].left \ {r}
  IN Become(p, [proc[p] EXCEPT !.left = left, !.reached = @ \/ ok,
                               !.step = IF left = {} THEN "observe" ELSE @])

FetchFrom(p, r) ==
  /\ proc[p].step = "fetch" /\ r \in proc[p].left
  /\ Exchange(r, Home(p)) /\ Tell(Home(p), tickets[r])
  /\ Visited(p, r, TRUE)
  /\ UNCHANGED <<needs, lapsed, commits, faults>>

FetchMisses(p, r) ==
  /\ proc[p].step = "fetch" /\ r \in proc[p].left
  /\ Visited(p, r, FALSE)
  /\ UNCHANGED <<needs, tickets, refs, claims, lapsed, evidence, commits, faults>>

Offline(p) == Rendezvous[Home(p)] # {} /\ ~proc[p].reached

(* Step 2: observe lists the tickets, dropping one it fails to read. *)
Observed(p, ts) ==
  /\ proc[p].step = "observe"
  /\ Become(p, [proc[p] EXCEPT !.step = "read", !.observed = ts])
  /\ UNCHANGED <<needs, tickets, refs, claims, lapsed, evidence, commits>>

Observe(p) == Observed(p, tickets[Home(p)]) /\ UNCHANGED faults
ObserveDrops(p, t) ==
  /\ t \in tickets[Home(p)] /\ Fault
  /\ Observed(p, tickets[Home(p)] \ {t})

(* readClaimState, in one listing of the refs. *)
Numbers(r, c, t) == {a.n : a \in {b \in refs[r] : b.cell = c /\ b.task = t}}
OwnCount(c, t) == Cardinality(Numbers(c, c, t))

ReadClaimState(p) ==
  LET c == Home(p)
  IN /\ proc[p].step = "read"
     /\ Become(p, [proc[p] EXCEPT !.step = "list",
          !.own = [t \in Tickets |-> OwnCount(c, t)],
          !.seen = [claims[c] EXCEPT ![c] = [t \in Tickets |-> 0]]])
     /\ UNCHANGED <<needs, tickets, refs, claims, lapsed, evidence, commits, faults>>

--------------------------------------------------------------------------------
(* Verifying peers' attempts: those with a change, listed once, then one after  *)
(* the other.                                                                *)

PeerAttempts(c) == {a \in refs[c] : a.cell # c /\ a.change # NoChange}

(* The pass ends with its last ticket: step 9 pushes to every peer, unless the   *)
(* fetch found the cell offline.                                             *)
ToTicket(p, todo) ==
  IF todo # {} THEN [proc[p] EXCEPT !.step = "tickets", !.list = {}, !.todo = todo,
                                    !.task = NoTicket, !.n = 0, !.change = NoChange]
  ELSE IF Offline(p) \/ Rendezvous[Home(p)] = {} THEN FreshPass(Home(p))
  ELSE [FreshPass(Home(p)) EXCEPT !.step = "push"]

(* The pass goes on to the tickets it observed when nothing is left to verify. *)
ToVerify(p, list) ==
  IF list # {} THEN [proc[p] EXCEPT !.step = "verify", !.list = list]
  ELSE ToTicket(p, proc[p].observed)

ListPeers(p) ==
  /\ proc[p].step = "list"
  /\ LET list == IF Home(p) \in Verifiers THEN PeerAttempts(Home(p)) ELSE {}
     IN Become(p, ToVerify(p, list))
  /\ UNCHANGED <<needs, tickets, refs, claims, lapsed, evidence, commits, faults>>

(* Mutant: anybody's evidence is an answer, the author's too. *)
HaveEvidenceOfAnybody(p, change) == \E e \in evidence[Home(p)] : e.change = change
HaveEvidenceFor(p, change) ==
  \E e \in evidence[Home(p)] : e.change = change /\ e.cell = Home(p)

Publish(p, change) ==
  evidence' = [evidence EXCEPT ![Home(p)] = @ \cup {[cell |-> Home(p), change |-> change]}]

(* What this cell answered before, what names a ticket it did not observe and     *)
(* what needs a check it cannot run is passed over in silence.                 *)
CanVerify(p, a) ==
  /\ ~HaveEvidenceFor(p, a.change)
  /\ a.task \in proc[p].observed
  /\ Missing(Home(p), a.task) = {}

(* verifyAttempt takes as long as the checks do; what another process of the    *)
(* cell publishes meanwhile is the same answer again.                         *)
Verify(p, a) ==
  /\ proc[p].step = "verify" /\ a \in proc[p].list
  /\ IF CanVerify(p, a) THEN Publish(p, a.change) ELSE UNCHANGED evidence
  /\ Become(p, ToVerify(p, proc[p].list \ {a}))
  /\ UNCHANGED <<needs, tickets, refs, claims, lapsed, commits, faults>>

VerifyFails(p, a) ==
  /\ proc[p].step = "verify" /\ a \in proc[p].list /\ Fault
  /\ CanVerify(p, a)
  /\ Become(p, ToVerify(p, proc[p].list \ {a}))
  /\ UNCHANGED <<needs, tickets, refs, claims, lapsed, evidence, commits>>

--------------------------------------------------------------------------------
(* Steps 3 to 8, ticket by ticket. *)

(* Mutant: a claim past its not_after still counts. *)
FreshForeignForever(p, t) == \E d \in Cells \ {Home(p)} : proc[p].seen[d][t] > 0
FreshForeign(p, t) == \E d \in Cells \ {Home(p)} : proc[p].seen[d][t] > lapsed[d][t]

(* claim.Evaluate, over the state read at the start of the pass and the clock   *)
(* as it is now.  Mutant: the attempts made are not counted.                    *)
EvaluateUncapped(p, t) ==
  /\ Home(p) \in Attempters
  /\ Missing(Home(p), t) = {}
  /\ Yield => ~FreshForeign(p, t)
Evaluate(p, t) ==
  /\ Home(p) \in Attempters
  /\ Missing(Home(p), t) = {}
  /\ proc[p].own[t] < MaxAttempts
  /\ Yield => ~FreshForeign(p, t)

(* writeClaim resolves the cell's own claim ref and swaps it.  It excludes      *)
(* nobody: another process of the cell renews it just the same.               *)
Claim(p, t) ==
  /\ proc[p].step = "tickets" /\ t \in proc[p].todo
  /\ Evaluate(p, t)
  /\ claims' = [claims EXCEPT ![Home(p)][Home(p)][t] = @ + 1]
  /\ Become(p, [proc[p] EXCEPT !.step = "author", !.task = t, !.n = proc[p].own[t] + 1])
  /\ UNCHANGED <<needs, tickets, refs, lapsed, evidence, commits, faults>>

(* The policy declines, for one of the reasons above or for one that reads      *)
(* nothing modelled here (budget, executor, scope, veto, blockers), or the     *)
(* swap of the claim is lost.                                                *)
Skip(p, t) ==
  /\ proc[p].step = "tickets" /\ t \in proc[p].todo
  /\ Become(p, ToTicket(p, proc[p].todo \ {t}))
  /\ UNCHANGED <<needs, tickets, refs, claims, lapsed, evidence, commits, faults>>

NextTicket(p) == Become(p, ToTicket(p, proc[p].todo \ {proc[p].task}))

(* Mutant: the evidence comes after the attempt ref. *)
AuthorUnchecked(p) ==
  /\ proc[p].step = "author"
  /\ commits' = [commits EXCEPT ![p] = @ + 1]
  /\ Become(p, [proc[p] EXCEPT !.step = "record", !.change = <<p, commits[p] + 1>>])
  /\ UNCHANGED <<needs, tickets, refs, claims, lapsed, evidence, faults>>

(* The model answers: with changes, which are committed and checked, or with     *)
(* none.  Until its evidence is written nobody looks for a change.              *)
Author(p) ==
  /\ proc[p].step = "author"
  /\ \/ LET change == <<p, commits[p] + 1>>
        IN /\ commits' = [commits EXCEPT ![p] = @ + 1]
           /\ Publish(p, change)
           /\ Become(p, [proc[p] EXCEPT !.step = "record", !.change = change])
     \/ /\ UNCHANGED <<commits, evidence>>
        /\ Become(p, [proc[p] EXCEPT !.step = "record", !.change = NoChange])
  /\ UNCHANGED <<needs, tickets, refs, claims, lapsed, faults>>

(* task start, the model, its output, the commit or a note fails: no attempt is  *)
(* recorded and the next pass tries again, under the same number.              *)
AttemptFails(p) ==
  /\ proc[p].step \in {"author", "record"} /\ Fault
  /\ NextTicket(p)
  /\ UNCHANGED <<needs, tickets, refs, claims, lapsed, evidence, commits>>

(* Mutant: the swap of the attempt ref expects whatever is there. *)
RefFreeAlways(c, a) == TRUE

(* writeAttempt is create-only.  The attempt of a process that lost the number  *)
(* is an error of the pass; its change and evidence stay.                    *)
RefFree(c, a) == Lacks(refs[c], a)

WriteAttempt(p) ==
  LET c == Home(p)
      a == [cell |-> c, task |-> proc[p].task, n |-> proc[p].n, change |-> proc[p].change]
  IN /\ proc[p].step = "record"
     /\ refs' = IF RefFree(c, a) THEN [refs EXCEPT ![c] = @ \cup {a}] ELSE refs
     /\ NextTicket(p)
     /\ UNCHANGED <<needs, tickets, claims, lapsed, evidence, commits, faults>>

--------------------------------------------------------------------------------
Pushed(p, r) ==
  LET left == proc[p].left \ {r}
  IN Become(p, IF left = {} THEN FreshPass(Home(p)) ELSE [proc[p] EXCEPT !.left = left])

PushTo(p, r) ==
  /\ proc[p].step = "push" /\ r \in proc[p].left
  /\ Exchange(Home(p), r)
  /\ Tell(r, tickets[Home(p)]) \/ UNCHANGED tickets
  /\ Pushed(p, r)
  /\ UNCHANGED <<needs, lapsed, commits, faults>>

PushMisses(p, r) ==
  /\ proc[p].step = "push" /\ r \in proc[p].left
  /\ Pushed(p, r)
  /\ UNCHANGED <<needs, tickets, refs, claims, lapsed, evidence, commits, faults>>

(* The process dies; its next pass starts from the refs. *)
Crash(p) ==
  /\ proc[p] # FreshPass(Home(p)) /\ Fault
  /\ Become(p, FreshPass(Home(p)))
  /\ UNCHANGED <<needs, tickets, refs, claims, lapsed, evidence, commits>>

(* Time passes: a cell's oldest claim that still counts runs out.  Only cells   *)
(* that yield ever look.                                                      *)
Lapse(c, t) ==
  /\ Yield /\ lapsed[c][t] < claims[c][c][t]
  /\ lapsed' = [lapsed EXCEPT ![c][t] = @ + 1]
  /\ UNCHANGED <<needs, tickets, refs, claims, evidence, commits, proc, faults>>

--------------------------------------------------------------------------------
Init ==
  /\ needs \in [Tickets -> SUBSET Checks]
  /\ tickets = [r \in Replicas |-> {}]
  /\ refs = [r \in Replicas |-> {}]
  /\ claims = [r \in Replicas |-> NoClaims]
  /\ lapsed = NoClaims
  /\ evidence = [r \in Replicas |-> {}]
  /\ commits = [p \in Procs |-> 0]
  /\ proc = [p \in Procs |-> FreshPass(CellOf[p])]
  /\ faults = 0

(* What a pass does next, but for the outcomes it does not choose: whether a    *)
(* peer answers, whether something fails, and what the policy declines.        *)
PassStep(p) ==
  \/ Observe(p) \/ ReadClaimState(p) \/ ListPeers(p) \/ Author(p) \/ WriteAttempt(p)
  \/ \E r \in Replicas : FetchMisses(p, r) \/ PushMisses(p, r)
  \/ \E t \in Tickets : Skip(p, t)
  \/ \E a \in proc[p].list : Verify(p, a)

Next ==
  \/ \E p \in Procs :
       \/ PassStep(p) \/ Crash(p) \/ AttemptFails(p)
       \/ \E a \in proc[p].list : VerifyFails(p, a)
       \/ \E r \in Replicas : FetchFrom(p, r) \/ PushTo(p, r)
       \/ \E t \in Tickets : Claim(p, t) \/ ObserveDrops(p, t)
  \/ \E r \in Replicas, t \in Tickets : Raise(r, t)
  \/ \E c \in Cells, t \in Tickets : Lapse(c, t)

Spec == Init /\ [][Next]_vars

(* Run passes for ever; a peer that is tried again and again answers again and   *)
(* again, the policy that would claim does so in some pass (the budget is a     *)
(* day's), and time passes.                                                  *)
Fairness ==
  /\ \A p \in Procs :
       /\ WF_vars(PassStep(p))
       /\ SF_vars(\E r \in Replicas : FetchFrom(p, r))
       /\ SF_vars(\E r \in Replicas : PushTo(p, r))
       /\ \A t \in Tickets : SF_vars(Claim(p, t))
  /\ \A c \in Cells, t \in Tickets : WF_vars(Lapse(c, t))

FairSpec == Spec /\ Fairness

--------------------------------------------------------------------------------
Steps == {"fetch", "observe", "read", "list", "verify", "tickets", "author", "record", "push"}
ProcState ==
  [step : Steps, left : SUBSET Replicas, reached : BOOLEAN,
   observed : SUBSET Tickets, own : [Tickets -> Nat], seen : [Cells -> [Tickets -> Nat]],
   list : SUBSET Changed, todo : SUBSET Tickets, task : Tickets \cup {NoTicket}, n : 0..MaxAttempts,
   change : Changes \cup {NoChange}]

(* Every variable has its type: among other things no attempt is numbered beyond    *)
(* MaxAttempts, however many processes and crashes (claim.go Evaluate).           *)
TypeOK ==
  /\ needs \in [Tickets -> SUBSET Checks]
  /\ tickets \in [Replicas -> SUBSET Tickets]
  /\ refs \in [Replicas -> SUBSET Attempt]
  /\ claims \in [Replicas -> [Cells -> [Tickets -> Nat]]]
  /\ lapsed \in [Cells -> [Tickets -> Nat]]
  /\ evidence \in [Replicas -> SUBSET Evidence]
  /\ commits \in [Procs -> Nat]
  /\ proc \in [Procs -> ProcState]
  /\ faults \in 0..MaxFaults
  /\ \A p \in Procs :
       proc[p].step \in {"author", "record"} => proc[p].task \in Tickets /\ proc[p].n > 0

(* What an attempt ref names was checked before the ref existed, and the ref     *)
(* travels with what was found: a replica that holds an attempt holds its       *)
(* author's evidence (attempt steps 5 and 7, Fetch and Push).                  *)
AttemptsAreBacked ==
  \A r \in Replicas : \A a \in refs[r] :
    a.change # NoChange => \E e \in evidence[r] : e.change = a.change /\ e.cell = a.cell

Board == INSTANCE AttemptBoard WITH
  Authors <- Cells, Changes <- Changes \cup {NoChange},
  posted <- UNION {refs[r] : r \in Replicas}, knows <- refs

(* Attempts are boards: numbered from one without a gap, never more than          *)
(* MaxAttempts, never changed, the same wherever they are known (CELL.md         *)
(* section 2; readClaimState, writeAttempt, Fetch, Push).                      *)
ImplementsBoard == Board!Spec

Made(r, c, t, n) == \E a \in refs[r] : a.cell = c /\ a.task = t /\ a.n = n

(* Whatever cannot be exchanged today, an attempt reaches every cell in the end,   *)
(* and every other cell that sees its ticket and declares the checks it requires   *)
(* answers for its change (syncProject, push, verifyPeerAttempts).               *)
AttemptsGetVerified ==
  \A c \in Cells : \A d \in Verifiers \ {c}, t \in Tickets, n \in 1..MaxAttempts :
    /\ Made(c, c, t, n) ~> Made(d, c, t, n)
    /\ Made(d, c, t, n) /\ t \in tickets[d] /\ Missing(d, t) = {}
         ~> \E a \in refs[d] :
              /\ a.cell = c /\ a.task = t /\ a.n = n
              /\ a.change # NoChange =>
                   \E e \in evidence[d] : e.change = a.change /\ e.cell = d

(* A claim is politeness: it never keeps another cell from the ticket for good     *)
(* once that cell sees it and can run its checks (freshest, Evaluate).           *)
ClaimsNeverBlock ==
  \A c \in Attempters, t \in Tickets :
    t \in tickets[c] /\ Missing(c, t) = {} ~> \E a \in refs[c] : a.cell = c /\ a.task = t
================================================================================
