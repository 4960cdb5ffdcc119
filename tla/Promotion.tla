------------------------------- MODULE Promotion -------------------------------
(***************************************************************************)
(* How a cell promotes: promote/ (the conditions and the kill switch),      *)
(* agreement/ (the measurement that licenses autonomy), gate/ and the       *)
(* promotion half of loop/, for one ticket and the one path scope it        *)
(* writes to.                                                              *)
(*                                                                         *)
(* The actors: the processes of one cell, Home, that decide promotions; the *)
(* cells, Home among them, that author attempts and verify those of others; *)
(* operators running `varvig-factory promote`; and, outside src/, whoever   *)
(* scores candidates, keeps the trust store and promotes by hand.           *)
(***************************************************************************)
EXTENDS Integers, FiniteSets

CONSTANTS
  Cells,           \* cell identities
  Home,            \* the cell whose promoter is modelled
  Procs,           \* processes of Home
  Operators,       \* processes that edit Home's switch
  Attempts,        \* attempts at the ticket, numbered in the order of their refs
  AuthorOf,        \* the cell each attempt is by
  ClassOf,         \* each cell's environment class against the declared baseline
  NoAttempt,       \* no attempt in hand, or the branch as it was
  MinObservations, \* agreement.Gate.MinObservations
  InitSwitches,    \* how the operators may have left the switch file
  InitSeen,        \* what the ticket namespace already records for the scope
  InitRecorded,    \* the attempts already made, pooled, scored 1 and good by their authors
  MaxScore,        \* bound on a candidate's score
  MaxMoves,        \* bound on the steps taken outside src/
  MaxCommands,     \* bound on the operators' commands
  MaxPasses        \* bound on a process's passes

Modes   == {"gated", "autonomous"}
Classes == {"same", "cross", "unknown"}
Switch  == [mode : Modes, enabled : BOOLEAN]
Rate    == [observations : Nat, agreements : Nat]
Evidence == [attempt : Attempts, cell : Cells, passed : BOOLEAN]

ASSUME PromotionAssumption ==
  /\ Home \in Cells
  /\ Attempts \subseteq Nat /\ NoAttempt \in Int \ Attempts
  /\ AuthorOf \in [Attempts -> Cells] /\ ClassOf \in [Cells -> Classes]
  /\ InitSeen \in Rate /\ InitSeen.agreements =< InitSeen.observations
  /\ InitSwitches \subseteq Switch /\ InitRecorded \subseteq Attempts
  /\ MinObservations \in Nat /\ MaxScore \in Nat /\ MaxMoves \in Nat
  /\ MaxCommands \in Nat /\ MaxPasses \in Nat

VARIABLES
  switch,    \* the switch file: the mode, and whether the scope is enabled
  tmp,       \* the temporary file every save goes through
  oper,      \* oper[o]: where operator o's command is, and the state it will save
  commands,  \* commands so far
  stage,     \* stage[a]: how far the author of a has come
  pool,      \* the speculation candidates of the ticket
  score,     \* score[a]: 0 while a is unscored
  evidence,  \* every evidence note
  trusted,   \* the trust store grants Home's key `promote` at the scope
  branch,    \* what the branch points at
  moves,     \* steps taken outside src/ so far
  seen,      \* the agreement observations of the scope
  proc,      \* proc[p]: where process p is in its pass, and what it read
  passes,    \* passes[p]: passes begun
  late       \* late[p]: p's promotions since the mode was last made gated

vars == <<switch, tmp, oper, commands, stage, pool, score, evidence, trusted,
          branch, moves, seen, proc, passes, late>>
world == <<stage, pool, score, trusted>>
console == <<switch, tmp, oper, commands>>

Stages     == {"none", "pooled", "checked", "recorded"}
Conditions == {"independent-evidence", "environment-class", "re-verified",
               "path-scope-enabled", "agreement-metric", "trust-grant",
               "fresh-trust-state", "gate-verdict", "mode"}
Steps      == {"idle", "list", "next", "mode", "paths", "agreement", "trust",
               "gate", "reverify", "decide", "top", "resolve"}

ProcState == [step : Steps, todo : SUBSET Attempts, att : Attempts \cup {NoAttempt},
              known : SUBSET Evidence, fresh : BOOLEAN, mode : Modes,
              failed : SUBSET Conditions, top : Attempts \cup {NoAttempt}]
Idle == [step |-> "idle", todo |-> {}, att |-> NoAttempt, known |-> {}, fresh |-> FALSE,
         mode |-> "gated", failed |-> {}, top |-> NoAttempt]

NoFile == [mode |-> "absent", enabled |-> FALSE]
AtRest == [step |-> "idle", copy |-> [mode |-> "gated", enabled |-> FALSE], asked |-> "mode"]

Init ==
  /\ switch \in InitSwitches
  /\ tmp = NoFile
  /\ oper = [o \in Operators |-> AtRest]
  /\ commands = 0
  /\ stage = [a \in Attempts |-> IF a \in InitRecorded THEN "recorded" ELSE "none"]
  /\ pool = InitRecorded
  /\ score = [a \in Attempts |-> IF a \in InitRecorded THEN 1 ELSE 0]
  /\ evidence = {[attempt |-> a, cell |-> AuthorOf[a], passed |-> TRUE] : a \in InitRecorded}
  /\ trusted = TRUE
  /\ branch = NoAttempt
  /\ moves = 0
  /\ seen = InitSeen
  /\ proc = [p \in Procs |-> Idle]
  /\ passes = [p \in Procs |-> 0]
  /\ late = [p \in Procs |-> 0]

--------------------------------------------------------------------------------
(* The operators of the conditions. *)

(* Evidence.Independent. *)
(* Mutant: an author's word on its own attempt counts. *)
IndependentOfNobody(e) == TRUE
Independent(e) == e.cell # AuthorOf[e.attempt]

Vouching(known) == {e \in known : Independent(e) /\ e.passed}

(* Gate.Allow, at the default threshold of 80%. *)
Allowed(rate) ==
  /\ rate.observations > 0
  /\ rate.observations >= MinObservations
  /\ 5 * rate.agreements >= 4 * rate.observations

(* Observe and Tally. *)
(* Mutant: an agreement is counted instead of the observation, not beside it. *)
TalliedApart(rate, top, promoted) ==
  [observations |-> rate.observations + (IF top = promoted THEN 0 ELSE 1),
   agreements   |-> rate.agreements + (IF top = promoted THEN 1 ELSE 0)]
Tallied(rate, top, promoted) ==
  [observations |-> rate.observations + 1,
   agreements   |-> rate.agreements + (IF top = promoted THEN 1 ELSE 0)]

Best(candidates) == {a \in candidates : \A b \in candidates : score[b] =< score[a]}
Scored           == {a \in pool : score[a] > 0}

Unless(cond, name) == IF cond THEN {} ELSE {name}

--------------------------------------------------------------------------------
(* Authors and verifiers: any cell. *)

(* Cell.attempt: the candidate enters the pool (or could not), its author's  *)
(* evidence is recorded, and only then the attempt ref is written.          *)
AddCandidate(a) ==
  /\ stage[a] = "none"
  /\ stage' = [stage EXCEPT ![a] = "pooled"]
  /\ \/ pool' = pool \cup {a}
     \/ pool' = pool
  /\ UNCHANGED <<console, score, evidence, trusted, branch, moves, seen, proc, passes, late>>

RecordEvidence(a, passed) ==
  /\ stage[a] = "pooled"
  /\ stage' = [stage EXCEPT ![a] = "checked"]
  /\ evidence' = evidence \cup {[attempt |-> a, cell |-> AuthorOf[a], passed |-> passed]}
  /\ UNCHANGED <<console, pool, score, trusted, branch, moves, seen, proc, passes, late>>

WriteAttempt(a) ==
  /\ stage[a] = "checked"
  /\ stage' = [stage EXCEPT ![a] = "recorded"]
  /\ UNCHANGED <<console, pool, score, evidence, trusted, branch, moves, seen, proc, passes, late>>

(* Cell.verifyPeerAttempts, for one attempt c has not verified yet. *)
VerifyPeerAttempt(c, a, passed) ==
  /\ stage[a] = "recorded" /\ c # AuthorOf[a]
  /\ \A e \in evidence : ~ (e.attempt = a /\ e.cell = c)
  /\ evidence' = evidence \cup {[attempt |-> a, cell |-> c, passed |-> passed]}
  /\ UNCHANGED <<console, world, branch, moves, seen, proc, passes, late>>

--------------------------------------------------------------------------------
(* Outside src/: scoring, promotion by hand, the trust store. *)

Outside == moves < MaxMoves /\ moves' = moves + 1
           /\ UNCHANGED <<console, stage, pool, evidence, seen, proc, passes, late>>

SpecScore(a, n) ==
  /\ Outside /\ a \in pool /\ score[a] = 0
  /\ score' = [score EXCEPT ![a] = n]
  /\ UNCHANGED <<trusted, branch>>

(* A principal promotes a candidate, the best or another. *)
PromoteByHand(a) ==
  /\ Outside /\ a \in pool
  /\ branch' = a
  /\ UNCHANGED <<score, trusted>>

(* The allowed_keys line is reverted. *)
RevokeKey ==
  /\ Outside /\ trusted
  /\ trusted' = FALSE
  /\ UNCHANGED <<score, branch>>

--------------------------------------------------------------------------------
(* The switch.  Each command loads the file, changes it in memory and saves *)
(* it through one temporary file: write, then rename.                      *)

Load(o, asked, copy) ==
  /\ oper[o].step = "idle" /\ commands < MaxCommands
  /\ oper' = [oper EXCEPT ![o] = [step |-> "write", copy |-> copy, asked |-> asked]]
  /\ commands' = commands + 1
  /\ UNCHANGED <<switch, tmp, world, evidence, branch, moves, seen, proc, passes, late>>

SetMode(o, m) == Load(o, "mode", [switch EXCEPT !.mode = m])

EnableAutonomous(o) == ~ switch.enabled /\ Load(o, "path", [switch EXCEPT !.enabled = TRUE])
DisableAutonomous(o) == Load(o, "path", [switch EXCEPT !.enabled = FALSE])

SaveTemp(o) ==
  /\ oper[o].step = "write"
  /\ tmp' = oper[o].copy
  /\ oper' = [oper EXCEPT ![o].step = "rename"]
  /\ UNCHANGED <<switch, commands, world, evidence, branch, moves, seen, proc, passes, late>>

(* The command fails if another's rename took the file away. *)
SaveRename(o) ==
  /\ oper[o].step = "rename"
  /\ oper' = [oper EXCEPT ![o] = AtRest]
  /\ tmp' = NoFile
  /\ IF tmp = NoFile
     THEN UNCHANGED <<switch, late>>
     ELSE /\ switch' = tmp
          /\ late' = IF switch.mode # "gated" /\ tmp.mode = "gated"
                     THEN [p \in Procs |-> 0] ELSE late
  /\ UNCHANGED <<commands, world, evidence, branch, moves, seen, proc, passes>>

--------------------------------------------------------------------------------
(* The promoter: Cell.evaluatePromotions and Promoter.Promote. *)

At(p, step) == proc[p].step = step
Frame       == UNCHANGED <<console, world, passes>>
Move(p, s)  == proc' = [proc EXCEPT ![p] = s]
Done(p)     == [proc[p] EXCEPT !.step = "next", !.att = NoAttempt, !.known = {},
                               !.failed = {}, !.top = NoAttempt]
Quiet       == UNCHANGED <<evidence, branch, moves, seen, late>> /\ Frame

(* Step 1 of the pass: c.sync says whether trust state is current. *)
Sync(p, fresh) ==
  /\ At(p, "idle") /\ passes[p] < MaxPasses
  /\ passes' = [passes EXCEPT ![p] = @ + 1]
  /\ Move(p, [Idle EXCEPT !.step = "list", !.fresh = fresh])
  /\ UNCHANGED <<console, world, evidence, branch, moves, seen, late>>

(* allAttempts. *)
ListAttempts(p) ==
  /\ At(p, "list")
  /\ Move(p, [proc[p] EXCEPT !.step = "next", !.todo = {a \in Attempts : stage[a] = "recorded"}])
  /\ Quiet

(* promotionRequest: the next attempt, in the order of the refs, and the     *)
(* evidence known now.                                                     *)
NextRequest(p) ==
  /\ At(p, "next")
  /\ \E a \in proc[p].todo :
       /\ \A b \in proc[p].todo : a =< b
       /\ Move(p, [proc[p] EXCEPT !.step = "mode", !.todo = @ \ {a}, !.att = a,
                                  !.known = {e \in evidence : e.attempt = a},
                                  !.failed = {}, !.top = NoAttempt])
  /\ Quiet

EndPass(p) ==
  /\ At(p, "next") /\ proc[p].todo = {}
  /\ Move(p, Idle)
  /\ Quiet

(* Mutant: the mode is read once a pass, while no attempt was evaluated yet. *)
ModeOncePerPass(p) ==
  IF proc[p].mode = "autonomous" THEN proc[p].mode ELSE switch.mode
ModeNow(p) == switch.mode

ReadMode(p) ==
  /\ At(p, "mode")
  /\ Move(p, [proc[p] EXCEPT !.step = "paths", !.mode = ModeNow(p)])
  /\ Quiet

(* Conditions 4, 1 and 2. *)
ReadPaths(p) ==
  /\ At(p, "paths")
  /\ LET vouching == Vouching(proc[p].known) IN
     Move(p, [proc[p] EXCEPT !.step = "agreement", !.known = {}, !.failed =
       Unless(switch.enabled, "path-scope-enabled")
       \cup Unless(vouching # {}, "independent-evidence")
       \cup Unless(vouching # {} /\ \A e \in vouching : ClassOf[e.cell] = "same",
                   "environment-class")])
  /\ Quiet

(* Condition 5. *)
ReadAgreement(p) ==
  /\ At(p, "agreement")
  /\ Move(p, [proc[p] EXCEPT !.step = "trust",
                             !.failed = @ \cup Unless(Allowed(seen), "agreement-metric")])
  /\ Quiet

(* checkTrust, whose store may be unreadable, and authority.Permit on what   *)
(* the pass knows of its currency (no MaxTrustAge: reachability decides).   *)
ReadTrust(p, readable) ==
  /\ At(p, "trust")
  /\ Move(p, [proc[p] EXCEPT !.step = "gate",
                !.failed = @ \cup Unless(readable /\ trusted, "trust-grant")
                             \cup Unless(proc[p].fresh, "fresh-trust-state")])
  /\ Quiet

(* gate.Evaluate: whatever the bound modules answer, the most cautious one;  *)
(* none bound, or none that could run, reads as a deferral.                 *)
Verdicts == {"promote", "refuse", "defer"}

(* The verdict runs in every mode; then whether re-verification is worth its cost. *)
WorthReverifying(p, failed) ==
  failed = {} \/ (failed = {"path-scope-enabled"} /\ proc[p].mode = "gated")

RunGate(p, verdict) ==
  /\ At(p, "gate")
  /\ LET failed == proc[p].failed \cup Unless(verdict = "promote", "gate-verdict") IN
     Move(p, IF WorthReverifying(p, failed)
             THEN [proc[p] EXCEPT !.step = "reverify", !.failed = failed]
             ELSE [proc[p] EXCEPT !.step = "decide", !.failed = failed \cup {"re-verified"}])
  /\ Quiet

(* Condition 3: the checks run again, and what they find is recorded. *)
Reverify(p, passed) ==
  /\ At(p, "reverify")
  /\ evidence' = evidence \cup {[attempt |-> proc[p].att, cell |-> Home, passed |-> passed]}
  /\ Move(p, [proc[p] EXCEPT !.step = "decide", !.failed = @ \cup Unless(passed, "re-verified")])
  /\ UNCHANGED <<branch, moves, seen, late>> /\ Frame

ReverifyFails(p) ==
  /\ At(p, "reverify")
  /\ Move(p, [proc[p] EXCEPT !.step = "decide", !.failed = @ \cup {"re-verified"}])
  /\ Quiet

Unmet(p) == proc[p].failed \cup Unless(proc[p].mode = "autonomous", "mode")

Defer(p) ==
  /\ At(p, "decide") /\ Unmet(p) # {}
  /\ Move(p, Done(p))
  /\ Quiet

(* SpecPromote is asked for the ticket, not for the attempt: varvig lands the *)
(* best candidate, if its own checkpoint and the trust store let it.        *)
SpecPromote(p, a) ==
  /\ At(p, "decide") /\ Unmet(p) = {}
  /\ trusted /\ a \in Best(pool)
  /\ branch' = a
  /\ late' = IF switch.mode = "gated" THEN [late EXCEPT ![p] = @ + 1] ELSE late
  /\ Move(p, [proc[p] EXCEPT !.step = "top"])
  /\ UNCHANGED <<evidence, moves, seen>> /\ Frame

SpecPromoteRefused(p) ==
  /\ At(p, "decide") /\ Unmet(p) = {}
  /\ Move(p, Done(p))
  /\ Quiet

(* ObservePromotion: the pool's best scored candidate, then the ref. *)
ObserveTop(p) ==
  /\ At(p, "top")
  /\ \/ \E a \in Best(Scored) : Move(p, [proc[p] EXCEPT !.step = "resolve", !.top = a])
     \/ Scored = {} /\ Move(p, Done(p))
  /\ Quiet

ObservePromotion(p) ==
  /\ At(p, "resolve")
  /\ seen' = Tallied(seen, proc[p].top, branch)
  /\ Move(p, Done(p))
  /\ UNCHANGED <<evidence, branch, moves, late>> /\ Frame

(* A read fails and the attempt is passed over. *)
ReadError(p) ==
  /\ proc[p].step \in {"mode", "paths", "agreement", "top", "resolve"}
  /\ Move(p, Done(p))
  /\ Quiet

Crash(p) ==
  /\ ~ At(p, "idle")
  /\ Move(p, Idle)
  /\ Quiet

--------------------------------------------------------------------------------
OperatorNext(o) ==
  \/ \E m \in Modes : SetMode(o, m)
  \/ EnableAutonomous(o) \/ DisableAutonomous(o)
  \/ SaveTemp(o) \/ SaveRename(o)

PromoterNext(p) ==
  \/ \E fresh \in BOOLEAN : Sync(p, fresh)
  \/ ListAttempts(p) \/ NextRequest(p) \/ EndPass(p) \/ ReadMode(p) \/ ReadPaths(p)
  \/ ReadAgreement(p)
  \/ \E readable \in BOOLEAN : ReadTrust(p, readable)
  \/ \E verdict \in Verdicts : RunGate(p, verdict)
  \/ \E passed \in BOOLEAN : Reverify(p, passed)
  \/ ReverifyFails(p) \/ Defer(p)
  \/ \E a \in Attempts : SpecPromote(p, a)
  \/ SpecPromoteRefused(p) \/ ObserveTop(p) \/ ObservePromotion(p)
  \/ ReadError(p) \/ Crash(p)

CellsNext ==
  \E a \in Attempts :
    \/ AddCandidate(a) \/ WriteAttempt(a)
    \/ \E passed \in BOOLEAN : RecordEvidence(a, passed)
    \/ \E c \in Cells, passed \in BOOLEAN : VerifyPeerAttempt(c, a, passed)

WorldNext ==
  \/ \E a \in Attempts, n \in 1..MaxScore : SpecScore(a, n)
  \/ \E a \in Attempts : PromoteByHand(a)
  \/ RevokeKey

Next ==
  \/ CellsNext \/ WorldNext
  \/ \E o \in Operators : OperatorNext(o)
  \/ \E p \in Procs : PromoterNext(p)

Spec == Init /\ [][Next]_vars

--------------------------------------------------------------------------------
(* Properties. *)

(* Everything has its type, and the agreements of a scope never exceed the  *)
(* observations they are a share of (agreement.Tally): a rate over 100% would *)
(* license any scope.                                                      *)
TypeOK ==
  /\ switch \in Switch /\ tmp \in Switch \cup {NoFile}
  /\ oper \in [Operators -> [step : {"idle", "write", "rename"}, copy : Switch,
                             asked : {"mode", "path"}]]
  /\ commands \in Nat
  /\ stage \in [Attempts -> Stages] /\ pool \subseteq Attempts
  /\ score \in [Attempts -> Nat] /\ evidence \subseteq Evidence /\ trusted \in BOOLEAN
  /\ branch \in Attempts \cup {NoAttempt} /\ moves \in Nat
  /\ seen \in Rate /\ seen.agreements =< seen.observations
  /\ proc \in [Procs -> ProcState] /\ passes \in [Procs -> Nat] /\ late \in [Procs -> Nat]
  /\ \A p \in Procs : proc[p].step \in {"idle", "list", "next"} \/ proc[p].att \in Attempts

Promotes(p) == At(p, "decide") /\ proc'[p].step = "top"

(* What a promotion rests on, at the moment it lands, although every part of *)
(* it was read earlier and by then others have moved: another cell than the  *)
(* author vouched for the attempt from the baseline's environment class, Home *)
(* itself has seen it pass, its key is trusted, and the pass synced.         *)
PromotionsAreLicensed ==
  [][\A p \in Procs : Promotes(p) =>
       LET a == proc[p].att IN
       /\ \E e \in evidence : e.attempt = a /\ e.cell # AuthorOf[a] /\ e.passed
                              /\ ClassOf[e.cell] = "same"
       /\ [attempt |-> a, cell |-> Home, passed |-> TRUE] \in evidence
       /\ trusted /\ proc[p].fresh]_vars

(* Once the mode is gated a process lands at most the one promotion it had   *)
(* already decided on (Switch is re-read on every decision): it never works   *)
(* through the rest of its pass.                                           *)
KillSwitchBites == \A p \in Procs : late[p] =< 1

(* Autonomy comes only from a command that asked for it: enabling or disabling *)
(* a path never turns a gated cell autonomous (EnableAutonomous).           *)
OnlyModeCommandsUngate ==
  [][switch.mode = "gated" /\ switch'.mode = "autonomous" =>
       \E o \in Operators : oper[o].step = "rename" /\ oper'[o].step = "idle"
                            /\ oper[o].asked = "mode"]_vars

(* README: there is "no window in which the switch has been thrown and the   *)
(* cell is still promoting".                                               *)
NoPromotionWhileGated ==
  [][\A p \in Procs : Promotes(p) => switch.mode = "autonomous"]_vars

(* promote.go: "Self-verified attempts are never autonomously promotable":   *)
(* what a process lands has passed another cell's checks than its author's.  *)
NeverSelfVerified ==
  [][\A p \in Procs : Promotes(p) =>
       \E e \in evidence : e.attempt = branch' /\ e.cell # AuthorOf[branch'] /\ e.passed]_vars
================================================================================
