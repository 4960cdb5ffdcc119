--------------------------- MODULE Promotion_proofs ----------------------------
(***************************************************************************)
(* Proofs about Promotion, for any number of cells, processes, operators    *)
(* and attempts.                                                            *)
(***************************************************************************)
EXTENDS Promotion, TLAPS

(* What a process's step writes to its own state, and to nothing else of the   *)
(* process table.                                                            *)
LEMMA Moved ==
  ASSUME NEW p \in Procs, NEW s \in ProcState, proc \in [Procs -> ProcState], Move(p, s)
  PROVE  /\ proc' \in [Procs -> ProcState]
         /\ proc'[p] = s
         /\ \A q \in Procs : q # p => proc'[q] = proc[q]
BY DEF Move

(* The records the steps build. *)
LEMMA IdleTyped ==
  ASSUME NEW step \in Steps, NEW fresh \in BOOLEAN
  PROVE  Idle \in ProcState /\ [Idle EXCEPT !.step = step, !.fresh = fresh] \in ProcState
BY DEF Idle, ProcState, Steps, Modes

LEMMA StepTyped ==
  ASSUME NEW r \in ProcState, NEW step \in Steps
  PROVE  [r EXCEPT !.step = step] \in ProcState
BY DEF ProcState

LEMMA TodoTyped ==
  ASSUME NEW r \in ProcState, NEW step \in Steps, NEW todo \in SUBSET Attempts
  PROVE  [r EXCEPT !.step = step, !.todo = todo] \in ProcState
BY DEF ProcState

LEMMA ModeTyped ==
  ASSUME NEW r \in ProcState, NEW step \in Steps, NEW m \in Modes
  PROVE  [r EXCEPT !.step = step, !.mode = m] \in ProcState
BY DEF ProcState

LEMMA TopTyped ==
  ASSUME NEW r \in ProcState, NEW step \in Steps, NEW a \in Attempts
  PROVE  [r EXCEPT !.step = step, !.top = a] \in ProcState
BY DEF ProcState

LEMMA FailedTyped ==
  ASSUME NEW r \in ProcState, NEW step \in Steps, NEW f \in SUBSET Conditions
  PROVE  /\ [r EXCEPT !.step = step, !.failed = f] \in ProcState
         /\ [r EXCEPT !.step = step, !.known = {}, !.failed = f] \in ProcState
<1>1. [r EXCEPT !.step = step, !.failed = f] \in ProcState
  BY DEF ProcState
<1>2. [r EXCEPT !.step = step, !.known = {}, !.failed = f] \in ProcState
  BY DEF ProcState
<1> QED BY <1>1, <1>2

LEMMA DoneTyped ==
  ASSUME NEW p \in Procs, proc[p] \in ProcState
  PROVE  Done(p) \in ProcState
BY DEF Done, ProcState, Steps

LEMMA RequestTyped ==
  ASSUME NEW r \in ProcState, NEW a \in Attempts, NEW known \in SUBSET Evidence
  PROVE  [r EXCEPT !.step = "mode", !.todo = @ \ {a}, !.att = a, !.known = known,
                   !.failed = {}, !.top = NoAttempt] \in ProcState
BY DEF ProcState, Steps

--------------------------------------------------------------------------------
(* Types. *)

LEMMA InitTyped == Init => TypeOK
<1> SUFFICES ASSUME Init PROVE TypeOK
  OBVIOUS
<1>1. switch \in Switch /\ tmp \in Switch \cup {NoFile}
  BY PromotionAssumption DEF Init
<1>2. oper \in [Operators -> [step : {"idle", "write", "rename"}, copy : Switch,
                              asked : {"mode", "path"}]]
  BY DEF Init, AtRest, Switch, Modes
<1>3. evidence \subseteq Evidence
  <2>1. \A a \in InitRecorded :
          [attempt |-> a, cell |-> AuthorOf[a], passed |-> TRUE] \in Evidence
    BY PromotionAssumption DEF Evidence
  <2> QED BY <2>1 DEF Init
<1>4. stage \in [Attempts -> Stages] /\ pool \subseteq Attempts /\ score \in [Attempts -> Nat]
  BY PromotionAssumption DEF Init, Stages
<1>5. /\ proc \in [Procs -> ProcState]
      /\ \A p \in Procs : proc[p].step \in {"idle", "list", "next"} \/ proc[p].att \in Attempts
  BY IdleTyped DEF Init, Steps, Idle
<1>6. seen \in Rate /\ seen.agreements =< seen.observations
  BY PromotionAssumption DEF Init
<1> QED BY <1>1, <1>2, <1>3, <1>4, <1>5, <1>6 DEF Init, TypeOK

(* What a process's step writes to its own state: a typed one, with an attempt *)
(* in hand while it decides.                                                 *)
HandsFull(r) == r.step \in {"idle", "list", "next"} \/ r.att \in Attempts

LEMMA ProcTyped ==
  ASSUME TypeOK, NEW p \in Procs, NEW s \in ProcState, HandsFull(s), Move(p, s)
  PROVE  /\ proc' \in [Procs -> ProcState]
         /\ \A q \in Procs : proc'[q].step \in {"idle", "list", "next"} \/ proc'[q].att \in Attempts
BY Moved DEF TypeOK, HandsFull

(* A step that changes nothing but the process table. *)
LEMMA QuietTyped ==
  ASSUME TypeOK, NEW p \in Procs, NEW s \in ProcState, HandsFull(s), Move(p, s), Quiet
  PROVE  TypeOK'
BY ProcTyped DEF TypeOK, Quiet, Frame, console, world

LEMMA CellsTyped == TypeOK /\ CellsNext => TypeOK'
<1> SUFFICES ASSUME TypeOK, NEW a \in Attempts,
                    \/ AddCandidate(a) \/ WriteAttempt(a)
                    \/ \E passed \in BOOLEAN : RecordEvidence(a, passed)
                    \/ \E c \in Cells, passed \in BOOLEAN : VerifyPeerAttempt(c, a, passed)
             PROVE  TypeOK'
  BY DEF CellsNext
<1>1. CASE AddCandidate(a)
  BY <1>1 DEF AddCandidate, TypeOK, Stages, console
<1>2. CASE WriteAttempt(a)
  BY <1>2 DEF WriteAttempt, TypeOK, Stages, console
<1>3. ASSUME NEW passed \in BOOLEAN, RecordEvidence(a, passed) PROVE TypeOK'
  <2>1. [attempt |-> a, cell |-> AuthorOf[a], passed |-> passed] \in Evidence
    BY PromotionAssumption DEF Evidence
  <2>2. evidence' \subseteq Evidence
    BY <1>3, <2>1 DEF RecordEvidence, TypeOK
  <2> QED BY <1>3, <2>2 DEF RecordEvidence, TypeOK, Stages, console
<1>4. ASSUME NEW c \in Cells, NEW passed \in BOOLEAN, VerifyPeerAttempt(c, a, passed) PROVE TypeOK'
  <2>1. [attempt |-> a, cell |-> c, passed |-> passed] \in Evidence
    BY DEF Evidence
  <2>2. evidence' \subseteq Evidence
    BY <1>4, <2>1 DEF VerifyPeerAttempt, TypeOK
  <2> QED BY <1>4, <2>2 DEF VerifyPeerAttempt, TypeOK, world, console
<1> QED BY <1>1, <1>2, <1>3, <1>4

LEMMA WorldTyped == TypeOK /\ WorldNext => TypeOK'
<1> SUFFICES ASSUME TypeOK, WorldNext PROVE TypeOK'
  OBVIOUS
<1>0. moves + 1 \in Nat
  BY DEF TypeOK
<1>1. ASSUME NEW a \in Attempts, NEW n \in 1..MaxScore, SpecScore(a, n) PROVE TypeOK'
  <2>1. n \in Nat
    BY PromotionAssumption
  <2> QED BY <1>0, <1>1, <2>1 DEF SpecScore, Outside, TypeOK, console
<1>2. ASSUME NEW a \in Attempts, PromoteByHand(a) PROVE TypeOK'
  BY <1>0, <1>2 DEF PromoteByHand, Outside, TypeOK, console
<1>3. CASE RevokeKey
  BY <1>0, <1>3 DEF RevokeKey, Outside, TypeOK, console
<1> QED BY <1>1, <1>2, <1>3 DEF WorldNext

LEMMA LoadTyped ==
  ASSUME TypeOK, NEW o \in Operators, NEW asked \in {"mode", "path"}, NEW copy \in Switch,
         Load(o, asked, copy)
  PROVE  TypeOK'
<1>1. commands' \in Nat
  BY DEF Load, TypeOK
<1>2. oper' \in [Operators -> [step : {"idle", "write", "rename"}, copy : Switch,
                               asked : {"mode", "path"}]]
  BY DEF Load, TypeOK
<1> QED BY <1>1, <1>2 DEF Load, TypeOK, world

LEMMA SaveTyped ==
  ASSUME TypeOK, NEW o \in Operators, SaveTemp(o) \/ SaveRename(o)
  PROVE  TypeOK'
<1>1. CASE SaveTemp(o)
  <2>1. oper[o].copy \in Switch
    BY DEF TypeOK
  <2>2. oper' \in [Operators -> [step : {"idle", "write", "rename"}, copy : Switch,
                                 asked : {"mode", "path"}]]
    BY <1>1 DEF SaveTemp, TypeOK
  <2> QED BY <1>1, <2>1, <2>2 DEF SaveTemp, TypeOK, world
<1>2. CASE SaveRename(o)
  <2>1. AtRest \in [step : {"idle", "write", "rename"}, copy : Switch, asked : {"mode", "path"}]
    BY DEF AtRest, Switch, Modes
  <2>2. oper' \in [Operators -> [step : {"idle", "write", "rename"}, copy : Switch,
                                 asked : {"mode", "path"}]]
    BY <1>2, <2>1 DEF SaveRename, TypeOK
  <2>3. switch' \in Switch /\ tmp' \in Switch \cup {NoFile}
    BY <1>2 DEF SaveRename, TypeOK
  <2>4. late' \in [Procs -> Nat]
    BY <1>2 DEF SaveRename, TypeOK
  <2> QED BY <1>2, <2>2, <2>3, <2>4 DEF SaveRename, TypeOK, world
<1> QED BY <1>1, <1>2

LEMMA OperatorTyped ==
  ASSUME TypeOK, NEW o \in Operators, OperatorNext(o)
  PROVE  TypeOK'
<1>1. ASSUME NEW m \in Modes, SetMode(o, m) PROVE TypeOK'
  <2>1. [switch EXCEPT !.mode = m] \in Switch
    BY DEF TypeOK, Switch
  <2> QED BY <1>1, <2>1, LoadTyped DEF SetMode
<1>2. CASE EnableAutonomous(o)
  <2>1. [switch EXCEPT !.enabled = TRUE] \in Switch
    BY DEF TypeOK, Switch
  <2> QED BY <1>2, <2>1, LoadTyped DEF EnableAutonomous
<1>3. CASE DisableAutonomous(o)
  <2>1. [switch EXCEPT !.enabled = FALSE] \in Switch
    BY DEF TypeOK, Switch
  <2> QED BY <1>3, <2>1, LoadTyped DEF DisableAutonomous
<1> QED BY <1>1, <1>2, <1>3, SaveTyped DEF OperatorNext

LEMMA PromoterTyped ==
  ASSUME TypeOK, NEW p \in Procs, PromoterNext(p)
  PROVE  TypeOK'
<1> DEFINE r == proc[p]
<1>0. r \in ProcState
  BY DEF TypeOK
<1>a. /\ r.failed \in SUBSET Conditions /\ r.known \in SUBSET Evidence
      /\ r.todo \in SUBSET Attempts
      /\ r.step \in {"idle", "list", "next"} \/ r.att \in Attempts
  BY <1>0 DEF ProcState, TypeOK
<1>b. /\ \A cond, name : name \in Conditions => Unless(cond, name) \in SUBSET Conditions
      /\ {"independent-evidence", "environment-class", "re-verified", "path-scope-enabled",
          "agreement-metric", "trust-grant", "fresh-trust-state", "gate-verdict", "mode"}
         = Conditions
  BY DEF Unless, Conditions
<1>c. {"idle", "list", "next", "mode", "paths", "agreement", "trust", "gate", "reverify",
       "decide", "top", "resolve"} = Steps
  BY DEF Steps
<1>d. Done(p) \in ProcState /\ HandsFull(Done(p)) /\ Idle \in ProcState /\ HandsFull(Idle)
  <2>1. Done(p) \in ProcState
    BY <1>0, DoneTyped
  <2>2. Done(p).step = "next" /\ Idle.step = "idle"
    BY <1>0 DEF Done, Idle, ProcState
  <2>3. Idle \in ProcState
    BY <1>c, IdleTyped
  <2> QED BY <2>1, <2>2, <2>3 DEF HandsFull
<1>1. ASSUME NEW fresh \in BOOLEAN, Sync(p, fresh) PROVE TypeOK'
  <2> DEFINE s == [Idle EXCEPT !.step = "list", !.fresh = fresh]
  <2>1. s \in ProcState
    BY <1>c, IdleTyped
  <2>2. HandsFull(s) /\ Move(p, s)
    BY <1>1 DEF HandsFull, Idle, Sync
  <2>3. passes' \in [Procs -> Nat]
    BY <1>1 DEF Sync, TypeOK
  <2> HIDE DEF s
  <2> QED BY <1>1, <2>1, <2>2, <2>3, ProcTyped DEF Sync, TypeOK, console, world
<1>2. CASE ListAttempts(p)
  <2> DEFINE todo == {a \in Attempts : stage[a] = "recorded"}
             s    == [r EXCEPT !.step = "next", !.todo = todo]
  <2>1. todo \in SUBSET Attempts
    OBVIOUS
  <2>2. s \in ProcState
    BY <2>1, <1>0, <1>c, TodoTyped
  <2>3. HandsFull(s) /\ Move(p, s) /\ Quiet
    BY <1>0, <1>2 DEF HandsFull, ListAttempts, ProcState
  <2> HIDE DEF s
  <2> QED BY <2>2, <2>3, QuietTyped
<1>3. CASE NextRequest(p)
  <2>1. PICK a : a \in r.todo /\
          Move(p, [r EXCEPT !.step = "mode", !.todo = @ \ {a}, !.att = a,
                            !.known = {e \in evidence : e.attempt = a},
                            !.failed = {}, !.top = NoAttempt])
    BY <1>3 DEF NextRequest
  <2> DEFINE known == {e \in evidence : e.attempt = a}
             s == [r EXCEPT !.step = "mode", !.todo = @ \ {a}, !.att = a, !.known = known,
                            !.failed = {}, !.top = NoAttempt]
  <2>2. a \in Attempts /\ known \in SUBSET Evidence
    <3>1. a \in r.todo
      BY <2>1, Zenon
    <3>2. a \in Attempts
      BY <1>a, <3>1
    <3>3. known \in SUBSET Evidence
      BY DEF TypeOK
    <3> QED BY <3>2, <3>3
  <2>3. s \in ProcState
    BY <2>2, <1>0, RequestTyped
  <2>4. HandsFull(s) /\ Move(p, s) /\ Quiet
    BY <1>0, <1>3, <2>1, <2>2 DEF HandsFull, NextRequest, ProcState
  <2> HIDE DEF s
  <2> QED BY <2>3, <2>4, QuietTyped
<1>4. CASE EndPass(p)
  BY <1>4, <1>d, QuietTyped DEF EndPass
<1>5. CASE ReadMode(p)
  <2> DEFINE s == [r EXCEPT !.step = "paths", !.mode = ModeNow(p)]
  <2>1. ModeNow(p) \in Modes
    BY DEF ModeNow, TypeOK, Switch
  <2>2. s \in ProcState
    BY <2>1, <1>0, <1>c, ModeTyped
  <2>3. HandsFull(s) /\ Move(p, s) /\ Quiet
    BY <1>a, <1>5, <1>0 DEF HandsFull, ReadMode, At, ProcState
  <2> HIDE DEF s
  <2> QED BY <2>2, <2>3, QuietTyped
<1>6. CASE ReadPaths(p)
  <2> DEFINE f == Unless(switch.enabled, "path-scope-enabled")
       \cup Unless(Vouching(r.known) # {}, "independent-evidence")
       \cup Unless(Vouching(r.known) # {} /\ \A e \in Vouching(r.known) : ClassOf[e.cell] = "same",
                   "environment-class")
             s == [r EXCEPT !.step = "agreement", !.known = {}, !.failed = f]
  <2>1. f \in SUBSET Conditions
    BY <1>b
  <2>2. Move(p, s) /\ Quiet /\ r.att \in Attempts
    BY <1>a, <1>6 DEF ReadPaths, At
  <2> HIDE DEF f
  <2>3. s \in ProcState
    BY <2>1, <1>0, <1>c, FailedTyped
  <2>4. HandsFull(s)
    BY <2>2, <1>0 DEF HandsFull, ProcState
  <2> HIDE DEF s
  <2> QED BY <2>2, <2>3, <2>4, QuietTyped
<1>e. ASSUME NEW f \in SUBSET Conditions, NEW step \in Steps, r.att \in Attempts,
             Move(p, [r EXCEPT !.step = step, !.failed = f])
      PROVE  /\ proc' \in [Procs -> ProcState]
             /\ \A q \in Procs : proc'[q].step \in {"idle", "list", "next"} \/ proc'[q].att \in Attempts
             /\ Quiet => TypeOK'
  <2> DEFINE s == [r EXCEPT !.step = step, !.failed = f]
  <2>1. s \in ProcState
    BY <1>0, FailedTyped
  <2>2. HandsFull(s) /\ Move(p, s)
    BY <1>e, <1>0 DEF HandsFull, ProcState
  <2> HIDE DEF s
  <2> QED BY <2>1, <2>2, ProcTyped, QuietTyped
<1>7. CASE ReadAgreement(p)
  <2> DEFINE f == r.failed \cup Unless(Allowed(seen), "agreement-metric")
  <2>1. f \in SUBSET Conditions
    BY <1>a, <1>b
  <2>2. Move(p, [r EXCEPT !.step = "trust", !.failed = f]) /\ Quiet /\ r.att \in Attempts
    BY <1>a, <1>7 DEF ReadAgreement, At
  <2> HIDE DEF f
  <2> QED BY <1>c, <2>1, <2>2, <1>e
<1>8. ASSUME NEW readable \in BOOLEAN, ReadTrust(p, readable) PROVE TypeOK'
  <2> DEFINE f == r.failed \cup Unless(readable /\ trusted, "trust-grant")
                          \cup Unless(r.fresh, "fresh-trust-state")
  <2>1. f \in SUBSET Conditions
    BY <1>a, <1>b
  <2>2. Move(p, [r EXCEPT !.step = "gate", !.failed = f]) /\ Quiet /\ r.att \in Attempts
    BY <1>a, <1>8 DEF ReadTrust, At
  <2> HIDE DEF f
  <2> QED BY <1>c, <2>1, <2>2, <1>e
<1>9. ASSUME NEW verdict \in Verdicts, RunGate(p, verdict) PROVE TypeOK'
  <2> DEFINE f == r.failed \cup Unless(verdict = "promote", "gate-verdict")
  <2>1. f \in SUBSET Conditions /\ f \cup {"re-verified"} \in SUBSET Conditions
    BY <1>a, <1>b
  <2>2. /\ \/ Move(p, [r EXCEPT !.step = "reverify", !.failed = f])
           \/ Move(p, [r EXCEPT !.step = "decide", !.failed = f \cup {"re-verified"}])
        /\ Quiet /\ r.att \in Attempts
    BY <1>a, <1>9 DEF RunGate, At
  <2> HIDE DEF f
  <2> QED BY <1>c, <2>1, <2>2, <1>e
<1>10. ASSUME NEW passed \in BOOLEAN, Reverify(p, passed) PROVE TypeOK'
  <2> DEFINE f == r.failed \cup Unless(passed, "re-verified")
  <2>1. f \in SUBSET Conditions
    BY <1>a, <1>b
  <2>2. Move(p, [r EXCEPT !.step = "decide", !.failed = f]) /\ r.att \in Attempts
    BY <1>a, <1>10 DEF Reverify, At
  <2>3. [attempt |-> r.att, cell |-> Home, passed |-> passed] \in Evidence
    BY <2>2, PromotionAssumption DEF Evidence
  <2>4. evidence' \subseteq Evidence
    BY <1>10, <2>3 DEF Reverify, TypeOK
  <2> HIDE DEF f
  <2>5. /\ proc' \in [Procs -> ProcState]
        /\ \A q \in Procs : proc'[q].step \in {"idle", "list", "next"} \/ proc'[q].att \in Attempts
    BY <1>c, <2>1, <2>2, <1>e
  <2> QED BY <1>10, <2>4, <2>5 DEF Reverify, TypeOK, Frame, console, world
<1>11. CASE ReverifyFails(p)
  <2>1. r.failed \cup {"re-verified"} \in SUBSET Conditions
    BY <1>a, <1>b
  <2>2. Move(p, [r EXCEPT !.step = "decide", !.failed = r.failed \cup {"re-verified"}])
        /\ Quiet /\ r.att \in Attempts
    BY <1>a, <1>11 DEF ReverifyFails, At
  <2> QED BY <1>c, <2>1, <2>2, <1>e
<1>f. ASSUME NEW step \in Steps, r.att \in Attempts, Move(p, [r EXCEPT !.step = step])
      PROVE  /\ proc' \in [Procs -> ProcState]
             /\ \A q \in Procs : proc'[q].step \in {"idle", "list", "next"} \/ proc'[q].att \in Attempts
  <2> DEFINE s == [r EXCEPT !.step = step]
  <2>1. s \in ProcState
    BY <1>0, StepTyped
  <2>2. HandsFull(s) /\ Move(p, s)
    BY <1>f, <1>0 DEF HandsFull, ProcState
  <2> HIDE DEF s
  <2> QED BY <2>1, <2>2, ProcTyped
<1>12. ASSUME NEW a \in Attempts, SpecPromote(p, a) PROVE TypeOK'
  <2>1. /\ proc' \in [Procs -> ProcState]
        /\ \A q \in Procs : proc'[q].step \in {"idle", "list", "next"} \/ proc'[q].att \in Attempts
    BY <1>12, <1>a, <1>c, <1>f DEF SpecPromote, At
  <2>2. late' \in [Procs -> Nat]
    BY <1>12 DEF SpecPromote, TypeOK
  <2> QED BY <1>12, <2>1, <2>2 DEF SpecPromote, TypeOK, Frame, console, world
<1>13. CASE ObserveTop(p)
  <2>1. CASE \E a \in Best(Scored) : Move(p, [r EXCEPT !.step = "resolve", !.top = a])
    <3>1. PICK a \in Best(Scored) : Move(p, [r EXCEPT !.step = "resolve", !.top = a])
      BY <2>1
    <3> DEFINE s == [r EXCEPT !.step = "resolve", !.top = a]
    <3>2. a \in Attempts
      BY DEF Best, Scored, TypeOK
    <3>3. s \in ProcState
      BY <3>2, <1>0, <1>c, TopTyped
    <3>4. HandsFull(s) /\ Move(p, s) /\ Quiet
      BY <3>1, <1>0, <1>13, <1>a DEF HandsFull, ObserveTop, At, ProcState
    <3> HIDE DEF s
    <3> QED BY <3>3, <3>4, QuietTyped
  <2>2. CASE Move(p, Done(p))
    BY <2>2, <1>13, <1>d, QuietTyped DEF ObserveTop
  <2> QED BY <1>13, <2>1, <2>2 DEF ObserveTop
<1>14. CASE ObservePromotion(p)
  <2>1. /\ seen.observations \in Nat /\ seen.agreements \in Nat
        /\ seen.agreements =< seen.observations
    BY DEF TypeOK, Rate
  <2>2. seen' \in Rate /\ seen'.agreements =< seen'.observations
    BY <1>14, <2>1 DEF ObservePromotion, Tallied, Rate
  <2>3. /\ proc' \in [Procs -> ProcState]
        /\ \A q \in Procs : proc'[q].step \in {"idle", "list", "next"} \/ proc'[q].att \in Attempts
    BY <1>14, <1>d, ProcTyped DEF ObservePromotion
  <2> QED BY <1>14, <2>2, <2>3 DEF ObservePromotion, TypeOK, Frame, console, world
<1>15. CASE Defer(p) \/ SpecPromoteRefused(p) \/ ReadError(p)
  BY <1>15, <1>d, QuietTyped DEF Defer, SpecPromoteRefused, ReadError
<1>16. CASE Crash(p)
  BY <1>16, <1>d, QuietTyped DEF Crash
<1> QED
  BY <1>1, <1>2, <1>3, <1>4, <1>5, <1>6, <1>7, <1>8, <1>9, <1>10, <1>11, <1>12, <1>13, <1>14,
     <1>15, <1>16 DEF PromoterNext

LEMMA NextTyped == TypeOK /\ [Next]_vars => TypeOK'
<1> SUFFICES ASSUME TypeOK, [Next]_vars PROVE TypeOK'
  OBVIOUS
<1>1. CASE UNCHANGED vars
  BY <1>1 DEF vars, TypeOK
<1>2. CASE Next
  BY <1>2, CellsTyped, WorldTyped, OperatorTyped, PromoterTyped DEF Next
<1> QED BY <1>1, <1>2

(* Every state the promoter reaches is well typed: in particular the agreements *)
(* of a scope never exceed its observations (agreement.Tally), so no rate above *)
(* 100% ever licenses autonomy.                                              *)
THEOREM TypeCorrect == Spec => []TypeOK
BY InitTyped, NextTyped, PTL DEF Spec

--------------------------------------------------------------------------------
(* The kill switch.  A process that landed a promotion since the mode was made  *)
(* gated holds no autonomous decision any more: the one it held is spent, and   *)
(* while the file says gated it reads no new one.                             *)

Holding(r) == /\ r.step \in {"paths", "agreement", "trust", "gate", "reverify", "decide"}
              /\ r.mode = "autonomous"

KillInv ==
  \A p \in Procs : /\ late[p] =< 1
                   /\ switch.mode = "gated" /\ late[p] = 1 => ~ Holding(proc[p])

(* Only ReadMode gives a process a decision it did not hold. *)
LEMMA HoldingKept ==
  ASSUME TypeOK, NEW p \in Procs, PromoterNext(p), ~ ReadMode(p), Holding(proc'[p])
  PROVE  Holding(proc[p])
<1> DEFINE r == proc[p]
<1>0. r \in ProcState /\ proc \in [Procs -> ProcState]
  BY DEF TypeOK
<1>1. ASSUME NEW fresh \in BOOLEAN, Sync(p, fresh) PROVE FALSE
  <2>1. proc'[p] = [Idle EXCEPT !.step = "list", !.fresh = fresh]
    BY <1>0, <1>1 DEF Move, Sync
  <2> QED BY <2>1 DEF Holding, Idle
<1>2. CASE ListAttempts(p)
  <2>1. proc'[p].step = "next"
    BY <1>0, <1>2 DEF Move, ListAttempts, ProcState
  <2> QED BY <2>1 DEF Holding
<1>3. CASE NextRequest(p)
  <2>1. proc'[p].step = "mode"
    BY <1>0, <1>3 DEF Move, NextRequest, ProcState
  <2> QED BY <2>1 DEF Holding
<1>4. CASE EndPass(p) \/ Crash(p)
  <2>1. proc'[p] = Idle
    BY <1>0, <1>4 DEF Move, EndPass, Crash
  <2> QED BY <2>1 DEF Holding, Idle
<1>5. CASE ReadPaths(p)
  <2>1. r.step = "paths" /\ proc'[p].mode = r.mode
    BY <1>0, <1>5 DEF Move, ReadPaths, At, ProcState
  <2> QED BY <2>1 DEF Holding
<1>6. CASE ReadAgreement(p)
  <2>1. r.step = "agreement" /\ proc'[p].mode = r.mode
    BY <1>0, <1>6 DEF Move, ReadAgreement, At, ProcState
  <2> QED BY <2>1 DEF Holding
<1>7. ASSUME NEW readable \in BOOLEAN, ReadTrust(p, readable) PROVE Holding(proc[p])
  <2>1. r.step = "trust" /\ proc'[p].mode = r.mode
    BY <1>0, <1>7 DEF Move, ReadTrust, At, ProcState
  <2> QED BY <2>1 DEF Holding
<1>8. ASSUME NEW verdict \in Verdicts, RunGate(p, verdict) PROVE Holding(proc[p])
  <2> DEFINE f == r.failed \cup Unless(verdict = "promote", "gate-verdict")
  <2>1. \/ Move(p, [r EXCEPT !.step = "reverify", !.failed = f])
        \/ Move(p, [r EXCEPT !.step = "decide", !.failed = f \cup {"re-verified"}])
    BY <1>8 DEF RunGate
  <2>2. r.step = "gate" /\ proc'[p].mode = r.mode
    BY <1>0, <1>8, <2>1 DEF Move, RunGate, At, ProcState
  <2> QED BY <2>2 DEF Holding
<1>9. ASSUME NEW passed \in BOOLEAN, Reverify(p, passed) PROVE Holding(proc[p])
  <2>1. r.step = "reverify" /\ proc'[p].mode = r.mode
    BY <1>0, <1>9 DEF Move, Reverify, At, ProcState
  <2> QED BY <2>1 DEF Holding
<1>10. CASE ReverifyFails(p)
  <2>1. r.step = "reverify" /\ proc'[p].mode = r.mode
    BY <1>0, <1>10 DEF Move, ReverifyFails, At, ProcState
  <2> QED BY <2>1 DEF Holding
<1>11. ASSUME NEW a \in Attempts, SpecPromote(p, a) PROVE FALSE
  <2>1. proc'[p].step = "top"
    BY <1>0, <1>11 DEF Move, SpecPromote, ProcState
  <2> QED BY <2>1 DEF Holding
<1>12. CASE Move(p, Done(p))
  <2>1. proc'[p].step = "next"
    BY <1>0, <1>12 DEF Move, Done, ProcState
  <2> QED BY <2>1 DEF Holding
<1>13. CASE ObserveTop(p)
  <2>1. CASE \E a \in Best(Scored) : Move(p, [r EXCEPT !.step = "resolve", !.top = a])
    <3>1. proc'[p].step = "resolve"
      BY <1>0, <2>1 DEF Move, ProcState
    <3> QED BY <3>1 DEF Holding
  <2> QED BY <1>13, <1>12, <2>1 DEF ObserveTop
<1>14. CASE Defer(p) \/ SpecPromoteRefused(p) \/ ObservePromotion(p) \/ ReadError(p)
  BY <1>12, <1>14 DEF Defer, SpecPromoteRefused, ObservePromotion, ReadError
<1> QED
  BY <1>1, <1>2, <1>3, <1>4, <1>5, <1>6, <1>7, <1>8, <1>9, <1>10, <1>11, <1>13, <1>14
     DEF PromoterNext

(* A process's step moves itself alone. *)
LEMMA OthersStay ==
  ASSUME TypeOK, NEW p \in Procs, PromoterNext(p), NEW q \in Procs, q # p
  PROVE  proc'[q] = proc[q]
BY DEF PromoterNext, Sync, ListAttempts, NextRequest, EndPass, ReadMode, ReadPaths, ReadAgreement,
       ReadTrust, RunGate, Reverify, ReverifyFails, Defer, SpecPromote, SpecPromoteRefused,
       ObserveTop, ObservePromotion, ReadError, Crash, Move, TypeOK

LEMMA KillInit == Init => KillInv
BY DEF Init, KillInv

(* A step of the promoter other than a promotion counts nothing, and leaves    *)
(* the switch alone.                                                         *)
LEMMA QuietPromoter ==
  ASSUME NEW p \in Procs, PromoterNext(p), ~ \E a \in Attempts : SpecPromote(p, a)
  PROVE  late' = late /\ switch' = switch
BY DEF PromoterNext, Sync, ListAttempts, NextRequest, EndPass, ReadMode, ReadPaths, ReadAgreement,
       ReadTrust, RunGate, Reverify, ReverifyFails, Defer, SpecPromoteRefused,
       ObserveTop, ObservePromotion, ReadError, Crash, Quiet, Frame, console

(* A promotion spends the decision it rests on. *)
LEMMA PromotionSpends ==
  ASSUME TypeOK, KillInv, NEW p \in Procs, NEW a \in Attempts, SpecPromote(p, a)
  PROVE  KillInv'
<1>1. /\ proc \in [Procs -> ProcState] /\ late \in [Procs -> Nat] /\ switch' = switch
      /\ \A q \in Procs : q # p => proc'[q] = proc[q]
  BY DEF TypeOK, SpecPromote, Move, Frame, console
<1>2. proc'[p].step = "top"
  BY <1>1 DEF SpecPromote, Move, ProcState
<1>3. proc[p].mode = "autonomous" /\ proc[p].step = "decide"
  BY DEF SpecPromote, Unmet, Unless, At
<1>4. Holding(proc[p]) /\ ~ Holding(proc'[p])
  BY <1>2, <1>3 DEF Holding
<1>5. late' = IF switch.mode = "gated" THEN [late EXCEPT ![p] = @ + 1] ELSE late
  BY DEF SpecPromote
<1>6. \A q \in Procs : late'[q] =< 1
  BY <1>1, <1>4, <1>5 DEF KillInv
<1>7. ASSUME NEW q \in Procs, switch'.mode = "gated", late'[q] = 1
      PROVE  ~ Holding(proc'[q])
  <2>1. CASE q = p
    BY <1>4, <2>1
  <2>2. CASE q # p
    <3>1. late'[q] = late[q] /\ proc'[q] = proc[q]
      BY <1>1, <1>5, <2>2
    <3> QED BY <1>1, <1>7, <3>1 DEF KillInv
  <2> QED BY <2>1, <2>2
<1> QED BY <1>6, <1>7 DEF KillInv

(* Nothing else of the promoter gives a gated cell's process a decision back. *)
LEMMA PromoterKill ==
  ASSUME TypeOK, KillInv, NEW p \in Procs, PromoterNext(p)
  PROVE  KillInv'
<1>1. CASE \E a \in Attempts : SpecPromote(p, a)
  BY <1>1, PromotionSpends
<1>2. CASE ~ \E a \in Attempts : SpecPromote(p, a)
  <2>1. late' = late /\ switch' = switch
    BY <1>2, QuietPromoter
  <2>2. ASSUME NEW q \in Procs, switch.mode = "gated", Holding(proc'[q])
        PROVE  Holding(proc[q])
    <3>1. CASE q # p
      BY <2>2, <3>1, OthersStay
    <3>2. CASE q = p /\ ReadMode(p)
      <4>1. proc'[p].mode = "gated"
        BY <2>2, <3>2 DEF ReadMode, ModeNow, Move, TypeOK, ProcState
      <4> QED BY <2>2, <3>2, <4>1 DEF Holding
    <3>3. CASE q = p /\ ~ ReadMode(p)
      BY <2>2, <3>3, HoldingKept
    <3> QED BY <3>1, <3>2, <3>3
  <2> QED BY <2>1, <2>2 DEF KillInv
<1> QED BY <1>1, <1>2

(* An operator's save may make the cell gated, which starts the count again; a *)
(* save that finds it gated already leaves the count, and the promises, alone. *)
LEMMA OperatorKill ==
  ASSUME TypeOK, KillInv, NEW o \in Operators, OperatorNext(o)
  PROVE  KillInv'
<1>1. proc' = proc
  BY DEF OperatorNext, SetMode, EnableAutonomous, DisableAutonomous, Load, SaveTemp, SaveRename
<1>2. CASE switch' = switch /\ late' = late
  BY <1>1, <1>2 DEF KillInv
<1>3. CASE SaveRename(o) /\ tmp # NoFile
  <2>1. switch' = tmp /\ late' = IF switch.mode # "gated" /\ tmp.mode = "gated"
                                 THEN [q \in Procs |-> 0] ELSE late
    BY <1>3 DEF SaveRename
  <2> QED BY <1>1, <2>1 DEF KillInv
<1> QED BY <1>2, <1>3 DEF OperatorNext, SetMode, EnableAutonomous, DisableAutonomous, Load,
           SaveTemp, SaveRename

LEMMA NextKill == TypeOK /\ KillInv /\ [Next]_vars => KillInv'
<1> SUFFICES ASSUME TypeOK, KillInv, [Next]_vars PROVE KillInv'
  OBVIOUS
<1>1. CASE UNCHANGED vars
  BY <1>1 DEF vars, KillInv
<1>2. CASE CellsNext
  BY <1>2 DEF CellsNext, AddCandidate, RecordEvidence, WriteAttempt, VerifyPeerAttempt, console, KillInv
<1>3. CASE WorldNext
  BY <1>3 DEF WorldNext, SpecScore, PromoteByHand, RevokeKey, Outside, console, KillInv
<1> QED BY <1>1, <1>2, <1>3, OperatorKill, PromoterKill DEF Next

(* After the operator has made the cell gated, no process lands more than the   *)
(* one promotion it had already decided on, however many attempts its pass      *)
(* still has before it, for any number of processes and operators (Switch is    *)
(* re-read on every decision, promote.go).                                     *)
THEOREM KillSwitchBounded == Spec => []KillSwitchBites
<1>1. KillInv => KillSwitchBites
  BY DEF KillInv, KillSwitchBites
<1> QED BY <1>1, TypeCorrect, KillInit, NextKill, PTL DEF Spec

--------------------------------------------------------------------------------
(* What a promotion rests on.  A decision that has passed a condition keeps     *)
(* something true in the repository that no later step of anybody takes back:   *)
(* evidence only grows, and what a pass knows of its own currency stays.       *)

Vouched(a, ev) ==
  \E e \in ev : e.attempt = a /\ e.cell # AuthorOf[a] /\ e.passed /\ ClassOf[e.cell] = "same"

HomePass(a) == [attempt |-> a, cell |-> Home, passed |-> TRUE]

Grounded(r, ev) ==
  /\ r.step = "mode" \/ r.step = "paths" => \A e \in r.known : e \in ev /\ e.attempt = r.att
  /\ /\ r.step \in {"agreement", "trust", "gate", "reverify", "decide"}
     /\ "independent-evidence" \notin r.failed /\ "environment-class" \notin r.failed
     => Vouched(r.att, ev)
  /\ r.step \in {"gate", "reverify", "decide"} /\ "fresh-trust-state" \notin r.failed => r.fresh
  /\ r.step = "decide" /\ "re-verified" \notin r.failed => HomePass(r.att) \in ev

LEMMA GroundedGrows ==
  ASSUME NEW r, NEW ev, NEW more, Grounded(r, ev), ev \subseteq more
  PROVE  Grounded(r, more)
BY DEF Grounded, Vouched

(* Outside the steps of a decision there is nothing to be grounded. *)
LEMMA GroundedIdly ==
  ASSUME NEW r, NEW ev, r.step \in {"idle", "list", "next", "top", "resolve"}
  PROVE  Grounded(r, ev)
BY DEF Grounded

(* The step that evaluates the evidence: if it fails neither condition, somebody *)
(* of the baseline's class vouches for the attempt.                           *)
LEMMA GroundedByPaths ==
  ASSUME NEW r \in ProcState, NEW ev \in SUBSET Evidence, NEW f \in SUBSET Conditions,
         r.step = "paths", Grounded(r, ev),
         Vouching(r.known) = {} => "independent-evidence" \in f,
         ~ (\A e \in Vouching(r.known) : ClassOf[e.cell] = "same") => "environment-class" \in f
  PROVE  Grounded([r EXCEPT !.step = "agreement", !.known = {}, !.failed = f], ev)
<1> DEFINE s == [r EXCEPT !.step = "agreement", !.known = {}, !.failed = f]
<1>1. s.step = "agreement" /\ s.failed = f /\ s.att = r.att
  BY DEF ProcState
<1>2. ASSUME "independent-evidence" \notin f, "environment-class" \notin f
      PROVE  Vouched(r.att, ev)
  <2>1. PICK e : e \in Vouching(r.known)
    BY <1>2
  <2>2. e \in ev /\ e.attempt = r.att /\ e.cell # AuthorOf[r.att] /\ e.passed
    BY <2>1 DEF Vouching, Independent, Grounded
  <2>3. ClassOf[e.cell] = "same"
    BY <1>2, <2>1
  <2> QED BY <2>2, <2>3 DEF Vouched
<1> HIDE DEF s
<1>3. Grounded(s, ev)
  BY <1>1, <1>2 DEF Grounded
<1> QED BY <1>3 DEF s

(* Every later step only adds to what has failed, and each condition it lets    *)
(* pass is one it has established.                                           *)
LEMMA GroundedByFailing ==
  ASSUME NEW r \in ProcState, NEW ev \in SUBSET Evidence, NEW f \in SUBSET Conditions,
         NEW step \in {"trust", "gate", "reverify", "decide"},
         r.step \in {"agreement", "trust", "gate", "reverify", "decide"}, Grounded(r, ev),
         r.failed \subseteq f,
         \/ step = "trust"
         \/ r.step \in {"gate", "reverify", "decide"}
         \/ "fresh-trust-state" \in f
         \/ r.fresh,
         step = "decide" => "re-verified" \in f \/ HomePass(r.att) \in ev
  PROVE  Grounded([r EXCEPT !.step = step, !.failed = f], ev)
<1> DEFINE s == [r EXCEPT !.step = step, !.failed = f]
<1>1. s.step = step /\ s.failed = f /\ s.att = r.att /\ s.fresh = r.fresh
  BY DEF ProcState
<1> HIDE DEF s
<1>2. Grounded(s, ev)
  BY <1>1 DEF Grounded
<1> QED BY <1>2 DEF s

GroundedInv == \A p \in Procs : Grounded(proc[p], evidence)

LEMMA EvidenceGrows == [Next]_vars => evidence \subseteq evidence'
<1> SUFFICES ASSUME [Next]_vars PROVE evidence \subseteq evidence'
  OBVIOUS
<1>1. CASE UNCHANGED vars
  BY <1>1 DEF vars
<1>2. CASE CellsNext
  BY <1>2 DEF CellsNext, AddCandidate, RecordEvidence, WriteAttempt, VerifyPeerAttempt
<1>3. CASE WorldNext
  BY <1>3 DEF WorldNext, SpecScore, PromoteByHand, RevokeKey, Outside
<1>4. CASE \E o \in Operators : OperatorNext(o)
  BY <1>4 DEF OperatorNext, SetMode, EnableAutonomous, DisableAutonomous, Load, SaveTemp, SaveRename
<1>5. CASE \E p \in Procs : PromoterNext(p)
  BY <1>5 DEF PromoterNext, Sync, ListAttempts, NextRequest, EndPass, ReadMode, ReadPaths,
       ReadAgreement, ReadTrust, RunGate, Reverify, ReverifyFails, Defer, SpecPromote,
       SpecPromoteRefused, ObserveTop, ObservePromotion, ReadError, Crash, Quiet
<1> QED BY <1>1, <1>2, <1>3, <1>4, <1>5 DEF Next

(* A process that moves to a grounded record is grounded. *)
LEMMA GroundedMove ==
  ASSUME TypeOK, NEW p \in Procs, NEW s, Move(p, s), Grounded(s, evidence),
         evidence \subseteq evidence'
  PROVE  Grounded(proc'[p], evidence')
<1>1. proc'[p] = s
  BY DEF TypeOK, Move
<1> QED BY <1>1, GroundedGrows

LEMMA PromoterGrounds ==
  ASSUME TypeOK, NEW p \in Procs, PromoterNext(p), Grounded(proc[p], evidence),
         evidence \subseteq evidence'
  PROVE  Grounded(proc'[p], evidence')
<1> DEFINE r == proc[p]
<1>0. /\ r \in ProcState /\ proc \in [Procs -> ProcState] /\ evidence \in SUBSET Evidence
      /\ r.failed \in SUBSET Conditions
  BY DEF TypeOK, ProcState
<1>a. {"independent-evidence", "environment-class", "re-verified", "path-scope-enabled",
       "agreement-metric", "trust-grant", "fresh-trust-state", "gate-verdict", "mode"} = Conditions
  BY DEF Conditions
<1>1. CASE proc'[p].step \in {"idle", "list", "next", "top", "resolve"}
  BY <1>1, GroundedIdly
<1>2. CASE NextRequest(p)
  <2>1. PICK a : Move(p, [r EXCEPT !.step = "mode", !.todo = @ \ {a}, !.att = a,
                                   !.known = {e \in evidence : e.attempt = a},
                                   !.failed = {}, !.top = NoAttempt])
    BY <1>2 DEF NextRequest
  <2> DEFINE s == [r EXCEPT !.step = "mode", !.todo = @ \ {a}, !.att = a,
                            !.known = {e \in evidence : e.attempt = a},
                            !.failed = {}, !.top = NoAttempt]
  <2>2. s.step = "mode" /\ s.att = a /\ s.known = {e \in evidence : e.attempt = a}
    BY <1>0 DEF ProcState
  <2>3. Move(p, s)
    BY <2>1
  <2> HIDE DEF s
  <2>4. Grounded(s, evidence)
    BY <2>2 DEF Grounded
  <2> QED BY <2>3, <2>4, GroundedMove
<1>3. CASE ReadMode(p)
  <2> DEFINE s == [r EXCEPT !.step = "paths", !.mode = ModeNow(p)]
  <2>1. s.step = "paths" /\ s.known = r.known /\ s.att = r.att /\ r.step = "mode"
    BY <1>0, <1>3 DEF ReadMode, At, ProcState
  <2>2. Move(p, s)
    BY <1>3 DEF ReadMode
  <2> HIDE DEF s
  <2>3. Grounded(s, evidence)
    BY <2>1 DEF Grounded
  <2> QED BY <2>2, <2>3, GroundedMove
<1>4. CASE ReadPaths(p)
  <2> DEFINE v == Vouching(r.known)
             f == Unless(switch.enabled, "path-scope-enabled")
                  \cup Unless(v # {}, "independent-evidence")
                  \cup Unless(v # {} /\ \A e \in v : ClassOf[e.cell] = "same", "environment-class")
             s == [r EXCEPT !.step = "agreement", !.known = {}, !.failed = f]
  <2>1. f \in SUBSET Conditions
    BY <1>a DEF Unless
  <2>2. /\ v = {} => "independent-evidence" \in f
        /\ ~ (\A e \in v : ClassOf[e.cell] = "same") => "environment-class" \in f
    BY DEF Unless
  <2>3. r.step = "paths" /\ Move(p, s)
    BY <1>4 DEF ReadPaths, At
  <2> HIDE DEF f
  <2>4. Grounded(s, evidence)
    BY <1>0, <2>1, <2>2, <2>3, GroundedByPaths
  <2> HIDE DEF s
  <2> QED BY <2>3, <2>4, GroundedMove
<1>5. CASE ReadAgreement(p)
  <2> DEFINE f == r.failed \cup Unless(Allowed(seen), "agreement-metric")
             s == [r EXCEPT !.step = "trust", !.failed = f]
  <2>1. f \in SUBSET Conditions /\ r.failed \subseteq f
    BY <1>0, <1>a DEF Unless
  <2>2. r.step = "agreement" /\ Move(p, s)
    BY <1>5 DEF ReadAgreement, At
  <2> HIDE DEF f
  <2>3. Grounded(s, evidence)
    BY <1>0, <2>1, <2>2, GroundedByFailing
  <2> HIDE DEF s
  <2> QED BY <2>2, <2>3, GroundedMove
<1>6. ASSUME NEW readable \in BOOLEAN, ReadTrust(p, readable)
      PROVE  Grounded(proc'[p], evidence')
  <2> DEFINE f == r.failed \cup Unless(readable /\ trusted, "trust-grant")
                           \cup Unless(r.fresh, "fresh-trust-state")
             s == [r EXCEPT !.step = "gate", !.failed = f]
  <2>1. f \in SUBSET Conditions /\ r.failed \subseteq f
    BY <1>0, <1>a DEF Unless
  <2>2. r.fresh \/ "fresh-trust-state" \in f
    BY DEF Unless
  <2>3. r.step = "trust" /\ Move(p, s)
    BY <1>6 DEF ReadTrust, At
  <2> HIDE DEF f
  <2>4. Grounded(s, evidence)
    BY <1>0, <2>1, <2>2, <2>3, GroundedByFailing
  <2> HIDE DEF s
  <2> QED BY <2>3, <2>4, GroundedMove
<1>7. ASSUME NEW verdict \in Verdicts, RunGate(p, verdict)
      PROVE  Grounded(proc'[p], evidence')
  <2> DEFINE f == r.failed \cup Unless(verdict = "promote", "gate-verdict")
             g == f \cup {"re-verified"}
             s == [r EXCEPT !.step = "reverify", !.failed = f]
             u == [r EXCEPT !.step = "decide", !.failed = g]
  <2>1. /\ f \in SUBSET Conditions /\ r.failed \subseteq f
        /\ g \in SUBSET Conditions /\ r.failed \subseteq g /\ "re-verified" \in g
    BY <1>0, <1>a DEF Unless
  <2>2. r.step = "gate" /\ (Move(p, s) \/ Move(p, u))
    BY <1>7 DEF RunGate, At
  <2> HIDE DEF f, g
  <2>3. Grounded(s, evidence)
    BY <1>0, <2>1, <2>2, GroundedByFailing
  <2>4. Grounded(u, evidence)
    BY <1>0, <2>1, <2>2, GroundedByFailing
  <2> HIDE DEF s, u
  <2> QED BY <2>2, <2>3, <2>4, GroundedMove
<1>8. ASSUME NEW passed \in BOOLEAN, Reverify(p, passed)
      PROVE  Grounded(proc'[p], evidence')
  <2> DEFINE f == r.failed \cup Unless(passed, "re-verified")
             s == [r EXCEPT !.step = "decide", !.failed = f]
  <2>1. f \in SUBSET Conditions /\ r.failed \subseteq f
    BY <1>0, <1>a DEF Unless
  <2>2. r.step = "reverify" /\ Move(p, s)
    BY <1>8 DEF Reverify, At
  <2>3. "re-verified" \in f \/ HomePass(r.att) \in evidence'
    BY <1>8 DEF Reverify, HomePass, Unless
  <2>4. evidence' \in SUBSET Evidence
    <3>1. r.att \in Attempts /\ Home \in Cells
      BY <2>2, PromotionAssumption DEF TypeOK
    <3> QED BY <1>0, <1>8, <3>1 DEF Reverify, Evidence
  <2>5. Grounded(r, evidence')
    BY GroundedGrows
  <2> HIDE DEF f
  <2>6. Grounded(s, evidence')
    BY <1>0, <2>1, <2>2, <2>3, <2>4, <2>5, GroundedByFailing
  <2> HIDE DEF s
  <2>7. proc'[p] = s
    BY <1>0, <2>2 DEF Move
  <2> QED BY <2>6, <2>7
<1>9. CASE ReverifyFails(p)
  <2> DEFINE f == r.failed \cup {"re-verified"}
             s == [r EXCEPT !.step = "decide", !.failed = f]
  <2>1. f \in SUBSET Conditions /\ r.failed \subseteq f /\ "re-verified" \in f
    BY <1>0, <1>a
  <2>2. r.step = "reverify" /\ Move(p, s)
    BY <1>9 DEF ReverifyFails, At
  <2> HIDE DEF f
  <2>3. Grounded(s, evidence)
    BY <1>0, <2>1, <2>2, GroundedByFailing
  <2> HIDE DEF s
  <2> QED BY <2>2, <2>3, GroundedMove
<1>10. ASSUME NEW fresh \in BOOLEAN, Sync(p, fresh) PROVE proc'[p].step = "list"
  BY <1>0, <1>10 DEF Sync, Move, Idle
<1>11. ASSUME ListAttempts(p) PROVE proc'[p].step = "next"
  BY <1>0, <1>11 DEF ListAttempts, Move, ProcState
<1>12. ASSUME Move(p, Idle) PROVE proc'[p].step = "idle"
  BY <1>0, <1>12 DEF Move, Idle
<1>13. ASSUME Move(p, Done(p)) PROVE proc'[p].step = "next"
  BY <1>0, <1>13 DEF Move, Done, ProcState
<1>14. ASSUME NEW a \in Attempts, SpecPromote(p, a) PROVE proc'[p].step = "top"
  BY <1>0, <1>14 DEF SpecPromote, Move, ProcState
<1>15. ASSUME NEW a, Move(p, [r EXCEPT !.step = "resolve", !.top = a]) PROVE proc'[p].step = "resolve"
  BY <1>0, <1>15 DEF Move, ProcState
<1>16. CASE \/ ListAttempts(p) \/ EndPass(p) \/ Defer(p) \/ SpecPromoteRefused(p)
            \/ ObserveTop(p) \/ ObservePromotion(p) \/ ReadError(p) \/ Crash(p)
  BY <1>1, <1>11, <1>12, <1>13, <1>15, <1>16
     DEF EndPass, Defer, SpecPromoteRefused, ObserveTop, ObservePromotion, ReadError, Crash
<1> QED
  BY <1>1, <1>2, <1>3, <1>4, <1>5, <1>6, <1>7, <1>8, <1>9, <1>10, <1>14, <1>16 DEF PromoterNext

LEMMA GroundedInit == Init => GroundedInv
BY GroundedIdly DEF Init, Idle, GroundedInv

LEMMA GroundedNext == TypeOK /\ GroundedInv /\ [Next]_vars => GroundedInv'
<1> SUFFICES ASSUME TypeOK, GroundedInv, [Next]_vars, NEW q \in Procs
             PROVE  Grounded(proc'[q], evidence')
  BY DEF GroundedInv
<1>1. evidence \subseteq evidence' /\ Grounded(proc[q], evidence)
  BY EvidenceGrows DEF GroundedInv
<1>2. CASE proc'[q] = proc[q]
  BY <1>1, <1>2, GroundedGrows
<1>3. CASE \E p \in Procs : PromoterNext(p)
  <2>1. PICK p \in Procs : PromoterNext(p)
    BY <1>3
  <2>2. CASE p = q
    BY <1>1, <2>1, <2>2, PromoterGrounds
  <2>3. CASE p # q
    BY <1>2, <2>1, <2>3, OthersStay
  <2> QED BY <2>2, <2>3
<1>4. CASE CellsNext
  BY <1>2, <1>4 DEF CellsNext, AddCandidate, RecordEvidence, WriteAttempt, VerifyPeerAttempt
<1>5. CASE WorldNext
  BY <1>2, <1>5 DEF WorldNext, SpecScore, PromoteByHand, RevokeKey, Outside
<1>6. CASE \E o \in Operators : OperatorNext(o)
  BY <1>2, <1>6 DEF OperatorNext, SetMode, EnableAutonomous, DisableAutonomous, Load, SaveTemp,
                    SaveRename
<1>7. CASE UNCHANGED vars
  BY <1>2, <1>7 DEF vars
<1> QED BY <1>3, <1>4, <1>5, <1>6, <1>7 DEF Next

(* Only SpecPromote takes a process from its decision to a promotion, and all   *)
(* its conditions hold.                                                      *)
LEMMA PromotesByPromoting ==
  ASSUME TypeOK, [Next]_vars, NEW p \in Procs, Promotes(p)
  PROVE  proc[p].failed = {} /\ trusted
<1>0. proc[p] \in ProcState /\ proc \in [Procs -> ProcState] /\ proc[p].step = "decide"
      /\ proc'[p].step = "top"
  BY DEF TypeOK, Promotes, At
<1>1. proc' # proc
  BY <1>0
<1>2. PICK q \in Procs : PromoterNext(q)
  BY <1>1 DEF vars, Next, CellsNext, AddCandidate, RecordEvidence, WriteAttempt, VerifyPeerAttempt,
     WorldNext, SpecScore, PromoteByHand, RevokeKey, Outside, OperatorNext, SetMode,
     EnableAutonomous, DisableAutonomous, Load, SaveTemp, SaveRename
<1>3. q = p
  BY <1>0, <1>2, OthersStay
<1>4. ~ Defer(p) /\ ~ SpecPromoteRefused(p) /\ ~ Crash(p)
  <2>1. ~ Move(p, Idle)
    BY <1>0 DEF Move, Idle
  <2>2. ~ Move(p, Done(p))
    <3>1. ASSUME Move(p, Done(p)) PROVE proc'[p].step = "next"
      BY <1>0, <3>1 DEF Move, Done, ProcState
    <3> QED BY <1>0, <3>1
  <2> QED BY <2>1, <2>2 DEF Defer, SpecPromoteRefused, Crash
<1>5. \E a \in Attempts : SpecPromote(p, a)
  BY <1>0, <1>2, <1>3, <1>4 DEF PromoterNext, At, Sync, ListAttempts, NextRequest, EndPass, ReadMode,
     ReadPaths, ReadAgreement, ReadTrust, RunGate, Reverify, ReverifyFails, ObserveTop,
     ObservePromotion, ReadError
<1> QED BY <1>5 DEF SpecPromote, Unmet, Unless

(* A promotion lands only on evidence of another cell of the baseline's class,  *)
(* on Home's own passing re-verification, on a key trusted at that moment and a *)
(* pass that had synced, although each was read earlier and every other actor   *)
(* went on meanwhile (promote.go, conditions 1 to 3 and the trust conditions). *)
THEOREM Licensed == Spec => PromotionsAreLicensed
<1>1. ASSUME TypeOK, GroundedInv, [Next]_vars, NEW p \in Procs, Promotes(p)
      PROVE  /\ \E e \in evidence : e.attempt = proc[p].att /\ e.cell # AuthorOf[proc[p].att]
                                    /\ e.passed /\ ClassOf[e.cell] = "same"
             /\ [attempt |-> proc[p].att, cell |-> Home, passed |-> TRUE] \in evidence
             /\ trusted /\ proc[p].fresh
  <2>1. proc[p].failed = {} /\ trusted /\ proc[p].step = "decide"
    BY <1>1, PromotesByPromoting DEF Promotes, At
  <2>2. Grounded(proc[p], evidence)
    BY <1>1 DEF GroundedInv
  <2> QED BY <2>1, <2>2 DEF Grounded, Vouched, HomePass
<1>2. TypeOK /\ GroundedInv /\ [Next]_vars
        => [\A p \in Procs : Promotes(p) =>
              LET a == proc[p].att IN
              /\ \E e \in evidence : e.attempt = a /\ e.cell # AuthorOf[a] /\ e.passed
                                     /\ ClassOf[e.cell] = "same"
              /\ [attempt |-> a, cell |-> Home, passed |-> TRUE] \in evidence
              /\ trusted /\ proc[p].fresh]_vars
  BY <1>1
<1> QED BY <1>2, TypeCorrect, GroundedInit, GroundedNext, PTL DEF Spec, PromotionsAreLicensed
================================================================================
