----------------------------- MODULE Ledger_proofs -----------------------------
(***************************************************************************)
(* Proofs about Ledger, for any number of processes, any caps, prices and     *)
(* usages: the types, that no process overspends a day, and that a restart does *)
(* not reset the cap.                                                        *)
(***************************************************************************)
EXTENDS Ledger, TLAPS

ProcState ==
  [step : {"down", "ask", "call", "spend", "persist", "write", "rename"},
   offline : BOOLEAN, price : {0} \cup {Price(u) : u \in Usages},
   snap : DayTotals \cup {NoFile}, handle : {"none", "tmp", "file", "gone"}]

(* What a process has paid today and its totals do not count yet. *)
Owed(p) == IF proc[p].step = "spend" THEN proc[p].price ELSE 0
OwedOffline(p) == IF proc[p].step = "spend" /\ proc[p].offline THEN proc[p].price ELSE 0

(* The totals a process will ask are not behind its payments, and it calls only      *)
(* when they are below the caps: midnight lowers both sides.                        *)
ProcInv(p) ==
  /\ paid[p] <= Rolled(mem[p]).spent + Owed(p)
  /\ paidOffline[p] <= Rolled(mem[p]).offline + OwedOffline(p)
  /\ proc[p].step = "call" => CanSpend(Rolled(mem[p]), proc[p].offline)
  /\ proc[p].step = "down" => paid[p] = 0 /\ paidOffline[p] = 0
  /\ proc[p].step = "write" => proc[p].snap \in DayTotals

Capped(p) ==
  InferenceDaily > 0 =>
    \A dearest \in Nat : (\A u \in Usages : Price(u) <= dearest) =>
      /\ paid[p] < InferenceDaily + dearest
      /\ paidOffline[p] > 0 => paidOffline[p] < OfflineCap + dearest

Types ==
  /\ day \in 1..MaxDays
  /\ mem \in [Procs -> DayTotals]
  /\ \A p \in Procs : mem[p].day \in 1..day
  /\ file \in DayTotals \cup {NoFile, Torn} /\ tmp \in DayTotals \cup {NoFile, Torn}
  /\ proc \in [Procs -> ProcState]
  /\ paid \in [Procs -> Nat] /\ paidOffline \in [Procs -> Nat] /\ buried \in Nat
  /\ spenders \subseteq Procs /\ lost \in Nat /\ faults \in 0..MaxFaults

IInv == Types /\ \A p \in Procs : ProcInv(p) /\ Capped(p)

--------------------------------------------------------------------------------
(* Prices, caps and totals. *)

LEMMA PriceNat ==
  ASSUME NEW u \in Usages
  PROVE  Price(u) \in Nat
<1>1. u[1] \in Nat /\ u[2] \in Nat
  <2>1. u \in Nat \X Nat
    BY UsagesAssumption
  <2> QED BY <2>1
<1>2. \A n, k \in Nat : PerTokens(n, k) \in Nat
  <2> SUFFICES ASSUME NEW n \in Nat, NEW k \in Nat PROVE PerTokens(n, k) \in Nat
    OBVIOUS
  <2> DEFINE m == n * k
  <2>1. m \in Nat
    OBVIOUS
  <2> HIDE DEF m
  <2>2. (m + 500) \div 1000 \in Nat
    BY <2>1
  <2> QED BY <2>2 DEF PerTokens, m
<1>3. ByTokens(u) \in Nat
  <2>1. PerTokens(u[1], CostPerKTokenIn) \in Nat /\ PerTokens(u[2], CostPerKTokenOut) \in Nat
    BY <1>1, <1>2, BudgetAssumption
  <2> QED BY <2>1 DEF ByTokens
<1> QED BY <1>3, BudgetAssumption DEF Price

LEMMA CapNat == OfflineCap \in Nat /\ InferenceDaily \in Nat
BY BudgetAssumption DEF OfflineCap

LEMMA TotalsTyped ==
  ASSUME day \in 1..MaxDays, NEW s \in Nat, NEW o \in Nat
  PROVE  /\ Totals(day, s, o) \in DayTotals
         /\ Totals(day, s, o).spent = s /\ Totals(day, s, o).offline = o
         /\ Totals(day, s, o).day = day
BY DEF Totals, DayTotals

LEMMA RolledTyped ==
  ASSUME day \in 1..MaxDays, NEW l \in DayTotals
  PROVE  /\ Rolled(l) \in DayTotals /\ Rolled(l).day = day
         /\ Rolled(l).spent \in Nat /\ Rolled(l).offline \in Nat
<1>1. Rolled(l) \in DayTotals /\ Rolled(l).day = day
  BY TotalsTyped DEF Rolled
<1> QED BY <1>1 DEF DayTotals

LEMMA IdleTyped == Idle \in ProcState /\ Idle.step = "ask"
BY DEF Idle, ProcState

LEMMA GoneTyped ==
  ASSUME NEW s \in {"down", "ask", "persist", "rename"}
  PROVE  LET r == [Idle EXCEPT !.step = s]
         IN r \in ProcState /\ r.step = s
BY IdleTyped DEF ProcState

LEMMA Became ==
  ASSUME NEW p \in Procs, NEW r \in ProcState, proc \in [Procs -> ProcState], Become(p, r)
  PROVE  /\ proc' \in [Procs -> ProcState]
         /\ proc'[p] = r
         /\ \A q \in Procs : q # p => proc'[q] = proc[q]
BY DEF Become

LEMMA Faulted ==
  ASSUME faults \in 0..MaxFaults, Fault
  PROVE  faults' \in 0..MaxFaults
BY BoundsAssumption DEF Fault

(* What a step of one process has to show on a day. *)
LEMMA StepOne ==
  ASSUME IInv, NEW p \in Procs, Types', day' = day,
         \A q \in Procs : q # p => proc'[q] = proc[q] /\ mem'[q] = mem[q]
                                   /\ paid'[q] = paid[q] /\ paidOffline'[q] = paidOffline[q],
         ProcInv(p)', Capped(p)'
  PROVE  IInv'
<1>1. ASSUME NEW q \in Procs, q # p PROVE ProcInv(q)' /\ Capped(q)'
  <2>1. /\ proc'[q] = proc[q] /\ mem'[q] = mem[q]
        /\ paid'[q] = paid[q] /\ paidOffline'[q] = paidOffline[q]
    BY <1>1
  <2>2. ProcInv(q) /\ Capped(q)
    BY DEF IInv
  <2>3. Rolled(mem[q])' = Rolled(mem[q])
    BY <2>1 DEF Rolled, Totals
  <2>4. Capped(q)'
    BY <2>1, <2>2 DEF Capped
  <2>5. ProcInv(q)'
    BY <2>1, <2>2, <2>3 DEF ProcInv, Owed, OwedOffline, CanSpend
  <2> QED BY <2>4, <2>5
<1> QED BY <1>1 DEF IInv

(* The same of a step that neither pays nor changes the process's totals. *)
LEMMA StepUnpaid ==
  ASSUME IInv, NEW p \in Procs, Types', day' = day,
         \A q \in Procs : q # p => proc'[q] = proc[q],
         mem' = mem, paid' = paid, paidOffline' = paidOffline,
         proc[p].step # "spend",
         proc'[p].step \in {"ask", "persist", "write", "rename"},
         proc'[p].step = "write" => proc'[p].snap \in DayTotals
  PROVE  IInv'
<1>1. ProcInv(p) /\ Capped(p)
  BY DEF IInv
<1>2. Rolled(mem[p])' = Rolled(mem[p])
  BY DEF Rolled, Totals
<1>3. ProcInv(p)'
  BY <1>1, <1>2 DEF ProcInv, Owed, OwedOffline
<1>4. Capped(p)'
  BY <1>1 DEF Capped
<1> QED BY <1>3, <1>4, StepOne

--------------------------------------------------------------------------------
(* Around a call. *)

LEMMA NewLedgerKeeps ==
  ASSUME IInv, NEW p \in Procs, NewLedger(p)
  PROVE  IInv'
<1>1. /\ proc[p].step = "down" /\ file # Torn /\ mem' = [mem EXCEPT ![p] = Loaded]
      /\ UNCHANGED <<day, file, tmp, payments, faults>>
  BY DEF NewLedger, At
<1> DEFINE r == [Idle EXCEPT !.step = "ask"]
<1>2. r \in ProcState /\ r.step = "ask" /\ Become(p, r)
  BY GoneTyped DEF NewLedger, GoTo
<1> HIDE DEF r
<1>3. /\ proc' \in [Procs -> ProcState] /\ proc'[p] = r
      /\ \A q \in Procs : q # p => proc'[q] = proc[q]
  BY <1>2, Became DEF IInv, Types
<1>4. Loaded \in DayTotals /\ Loaded.day = day
  <2>1. CASE file # NoFile /\ file.day = day
    BY <1>1, <2>1 DEF IInv, Types, Loaded
  <2>2. CASE ~(file # NoFile /\ file.day = day)
    <3>1. Loaded = Totals(day, 0, 0)
      BY <2>2 DEF Loaded
    <3> QED BY <3>1, TotalsTyped DEF IInv, Types
  <2> QED BY <2>1, <2>2
<1> HIDE DEF Loaded
<1>5. mem' \in [Procs -> DayTotals] /\ mem'[p] = Loaded
      /\ \A q \in Procs : q # p => mem'[q] = mem[q]
  BY <1>1, <1>4 DEF IInv, Types
<1>6. Types'
  <2>1. \A q \in Procs : mem'[q].day \in 1..day'
    BY <1>1, <1>4, <1>5 DEF IInv, Types
  <2> QED BY <2>1, <1>1, <1>3, <1>5 DEF IInv, Types, payments
<1>7. ProcInv(p) /\ Capped(p) /\ paid'[p] = paid[p] /\ paidOffline'[p] = paidOffline[p]
  BY <1>1 DEF IInv, payments
<1>8. Rolled(mem[p])'.spent \in Nat /\ Rolled(mem[p])'.offline \in Nat
  <2>1. Rolled(mem[p])' = Rolled(Loaded)
    BY <1>1, <1>5 DEF Rolled, Totals
  <2> QED BY <1>4, <2>1, RolledTyped DEF IInv, Types
<1>9. ProcInv(p)'
  BY <1>1, <1>2, <1>3, <1>7, <1>8 DEF ProcInv, Owed, OwedOffline
<1>10. Capped(p)'
  BY <1>7 DEF Capped
<1>11. \A q \in Procs : q # p => paid'[q] = paid[q] /\ paidOffline'[q] = paidOffline[q]
  BY <1>1 DEF payments
<1> QED BY <1>1, <1>3, <1>5, <1>6, <1>9, <1>10, <1>11, StepOne

LEMMA AskKeeps ==
  ASSUME IInv, NEW p \in Procs, Ask(p)
  PROVE  IInv'
<1>1. PICK offline \in BOOLEAN :
        /\ proc[p].step = "ask"
        /\ mem' = [mem EXCEPT ![p] = Rolled(@)]
        /\ IF CanSpend(mem'[p], offline)
           THEN Become(p, [Idle EXCEPT !.step = "call", !.offline = offline])
           ELSE UNCHANGED proc
        /\ UNCHANGED <<day, file, tmp, payments, faults>>
  BY DEF Ask, At
<1> DEFINE l == Rolled(mem[p])
<1>2. l \in DayTotals /\ l.day = day
  BY RolledTyped DEF IInv, Types
<1>3. mem' \in [Procs -> DayTotals] /\ mem'[p] = l
      /\ \A q \in Procs : q # p => mem'[q] = mem[q]
  <2>1. mem' = [mem EXCEPT ![p] = l]
    BY <1>1
  <2> HIDE DEF l
  <2> QED BY <1>2, <2>1 DEF IInv, Types
<1>4. Rolled(mem[p])' = l
  BY <1>1, <1>2, <1>3 DEF Rolled
<1> HIDE DEF l
<1>5. /\ proc' \in [Procs -> ProcState]
      /\ \A q \in Procs : q # p => proc'[q] = proc[q]
      /\ proc'[p].step \in {"ask", "call"}
      /\ proc'[p].step = "call" => CanSpend(l, proc'[p].offline)
  <2>1. CASE CanSpend(l, offline)
    <3> DEFINE r == [Idle EXCEPT !.step = "call", !.offline = offline]
    <3>1. r \in ProcState /\ r.step = "call" /\ r.offline = offline
      BY IdleTyped DEF ProcState
    <3>2. Become(p, r)
      BY <1>1, <1>3, <2>1
    <3> HIDE DEF r
    <3> QED BY <2>1, <3>1, <3>2, Became DEF IInv, Types
  <2>2. CASE ~CanSpend(l, offline)
    <3>1. proc' = proc
      BY <1>1, <1>3, <2>2
    <3> QED BY <1>1, <3>1 DEF IInv, Types
  <2> QED BY <2>1, <2>2
<1>6. Types'
  <2>1. \A q \in Procs : mem'[q].day \in 1..day'
    BY <1>1, <1>2, <1>3 DEF IInv, Types
  <2> QED BY <2>1, <1>1, <1>3, <1>5 DEF IInv, Types, payments
<1>7. ProcInv(p) /\ Capped(p) /\ paid'[p] = paid[p] /\ paidOffline'[p] = paidOffline[p]
  BY <1>1 DEF IInv, payments
<1>8. CanSpend(l, proc'[p].offline) => CanSpend(Rolled(mem[p]), proc[p].offline)'
  BY <1>4 DEF CanSpend
<1>9. ProcInv(p)'
  BY <1>1, <1>4, <1>5, <1>7, <1>8 DEF ProcInv, Owed, OwedOffline, l
<1>10. Capped(p)'
  BY <1>7 DEF Capped
<1>11. \A q \in Procs : q # p => paid'[q] = paid[q] /\ paidOffline'[q] = paidOffline[q]
  BY <1>1 DEF payments
<1> QED BY <1>1, <1>3, <1>5, <1>6, <1>9, <1>10, <1>11, StepOne

LEMMA AuthorKeeps ==
  ASSUME IInv, NEW p \in Procs, Author(p)
  PROVE  IInv'
<1>1. PICK u \in Usages :
        /\ proc[p].step = "call"
        /\ Become(p, [proc[p] EXCEPT !.step = "spend", !.price = Price(u)])
        /\ paid' = [paid EXCEPT ![p] = @ + Price(u)]
        /\ paidOffline' = [paidOffline EXCEPT ![p] = IF proc[p].offline THEN @ + Price(u) ELSE @]
        /\ spenders' = spenders \cup {p}
        /\ UNCHANGED <<day, mem, file, tmp, buried, lost, faults>>
  BY DEF Author, At
<1>2. PICK cost \in Nat : cost = Price(u)
  BY PriceNat
<1> DEFINE r == [proc[p] EXCEPT !.step = "spend", !.price = Price(u)]
<1>3. proc[p] \in ProcState /\ ProcInv(p)
  BY DEF IInv, Types
<1>4. r \in ProcState /\ r.step = "spend" /\ r.price = Price(u) /\ r.offline = proc[p].offline
  BY <1>3 DEF ProcState
<1>5. Become(p, r)
  BY <1>1
<1> HIDE DEF r
<1>6. /\ proc' \in [Procs -> ProcState] /\ proc'[p] = r
      /\ \A q \in Procs : q # p => proc'[q] = proc[q]
  BY <1>4, <1>5, Became DEF IInv, Types
<1>7. paid[p] \in Nat /\ paidOffline[p] \in Nat /\ proc[p].offline \in BOOLEAN
  BY <1>3 DEF IInv, Types, ProcState
<1>8. /\ paid' \in [Procs -> Nat] /\ paid'[p] = paid[p] + cost
      /\ \A q \in Procs : q # p => paid'[q] = paid[q]
  BY <1>1, <1>2, <1>7 DEF IInv, Types
<1>9. /\ paidOffline' \in [Procs -> Nat]
      /\ paidOffline'[p] = IF proc[p].offline THEN paidOffline[p] + cost ELSE paidOffline[p]
      /\ \A q \in Procs : q # p => paidOffline'[q] = paidOffline[q]
  BY <1>1, <1>2, <1>7 DEF IInv, Types
<1>10. Types'
  BY <1>1, <1>6, <1>8, <1>9 DEF IInv, Types
<1> DEFINE l == Rolled(mem[p])
<1>11. l.spent \in Nat /\ l.offline \in Nat
  BY RolledTyped DEF IInv, Types
<1>12. Rolled(mem[p])' = l
  BY <1>1 DEF Rolled, Totals
<1>13. /\ paid[p] <= l.spent /\ paidOffline[p] <= l.offline
       /\ CanSpend(l, proc[p].offline)
  BY <1>1, <1>3, <1>7, <1>11 DEF ProcInv, Owed, OwedOffline
<1> HIDE DEF l
<1>14. ProcInv(p)'
  BY <1>2, <1>4, <1>6, <1>7, <1>8, <1>9, <1>11, <1>12, <1>13 DEF ProcInv, Owed, OwedOffline
<1>15. Capped(p)'
  <2> SUFFICES ASSUME InferenceDaily > 0,
                      NEW dearest \in Nat, \A v \in Usages : Price(v) <= dearest
               PROVE  /\ paid'[p] < InferenceDaily + dearest
                      /\ paidOffline'[p] > 0 => paidOffline'[p] < OfflineCap + dearest
    BY DEF Capped
  <2>1. cost <= dearest
    BY <1>2
  <2>2. paid[p] < InferenceDaily
    BY <1>7, <1>11, <1>13, CapNat DEF CanSpend
  <2>3. proc[p].offline => paidOffline[p] < OfflineCap
    BY <1>7, <1>11, <1>13, CapNat DEF CanSpend
  <2>4. paidOffline[p] > 0 => paidOffline[p] < OfflineCap + dearest
    BY DEF IInv, Capped
  <2> QED BY <1>7, <1>8, <1>9, <2>1, <2>2, <2>3, <2>4, CapNat
<1> QED BY <1>1, <1>6, <1>8, <1>9, <1>10, <1>14, <1>15, StepOne

LEMMA SpendKeeps ==
  ASSUME IInv, NEW p \in Procs, Spend(p)
  PROVE  IInv'
<1> DEFINE l == Rolled(mem[p])
           cost == proc[p].price
           off == IF proc[p].offline THEN cost ELSE 0
           m == Totals(day, l.spent + cost, l.offline + off)
<1>1. /\ proc[p].step = "spend" /\ mem' = [mem EXCEPT ![p] = m] /\ GoTo(p, "persist")
      /\ UNCHANGED <<day, file, tmp, payments, faults>>
  BY DEF Spend, At
<1>2. proc[p] \in ProcState /\ ProcInv(p) /\ Capped(p)
  BY DEF IInv, Types
<1>3. cost \in Nat /\ off \in Nat /\ proc[p].offline \in BOOLEAN
  BY <1>2, PriceNat DEF ProcState
<1>4. l.spent \in Nat /\ l.offline \in Nat
  BY RolledTyped DEF IInv, Types
<1>5. paid[p] <= l.spent + cost /\ paidOffline[p] <= l.offline + off
  BY <1>1, <1>2 DEF ProcInv, Owed, OwedOffline
<1> HIDE DEF l, cost, off
<1>6. m \in DayTotals /\ m.spent = l.spent + cost /\ m.offline = l.offline + off /\ m.day = day
  <2>1. l.spent + cost \in Nat /\ l.offline + off \in Nat
    BY <1>3, <1>4
  <2>2. day \in 1..MaxDays
    BY DEF IInv, Types
  <2> QED BY <2>1, <2>2, TotalsTyped
<1> HIDE DEF m
<1>7. mem' \in [Procs -> DayTotals] /\ mem'[p] = m
      /\ \A q \in Procs : q # p => mem'[q] = mem[q]
  BY <1>1, <1>6 DEF IInv, Types
<1> DEFINE r == [Idle EXCEPT !.step = "persist"]
<1>8. r \in ProcState /\ r.step = "persist" /\ Become(p, r)
  BY <1>1, GoneTyped DEF GoTo
<1> HIDE DEF r
<1>9. /\ proc' \in [Procs -> ProcState] /\ proc'[p] = r
      /\ \A q \in Procs : q # p => proc'[q] = proc[q]
  BY <1>8, Became DEF IInv, Types
<1>10. Types'
  <2>1. \A q \in Procs : mem'[q].day \in 1..day'
    BY <1>1, <1>6, <1>7 DEF IInv, Types
  <2> QED BY <2>1, <1>1, <1>7, <1>9 DEF IInv, Types, payments
<1>11. Rolled(mem[p])' = m
  BY <1>1, <1>6, <1>7 DEF Rolled
<1>12. paid' = paid /\ paidOffline' = paidOffline
  BY <1>1 DEF payments
<1>13. paid[p] \in Nat /\ paidOffline[p] \in Nat
  BY DEF IInv, Types
<1>14. ProcInv(p)'
  BY <1>3, <1>4, <1>5, <1>6, <1>8, <1>9, <1>11, <1>12, <1>13 DEF ProcInv, Owed, OwedOffline
<1>15. Capped(p)'
  BY <1>2, <1>12 DEF Capped
<1> QED BY <1>1, <1>7, <1>9, <1>10, <1>12, <1>14, <1>15, StepOne

--------------------------------------------------------------------------------
(* The file. *)

LEMMA FilesKept ==
  ASSUME IInv, proc' \in [Procs -> ProcState],
         UNCHANGED <<day, mem, payments, faults>>,
         file' \in DayTotals \cup {NoFile, Torn}, tmp' \in DayTotals \cup {NoFile, Torn}
  PROVE  Types' /\ day' = day /\ mem' = mem /\ paid' = paid /\ paidOffline' = paidOffline
BY DEF IInv, Types, payments

LEMMA OpenTmpKeeps ==
  ASSUME IInv, NEW p \in Procs, OpenTmp(p)
  PROVE  IInv'
<1> DEFINE r == [Idle EXCEPT !.step = "write", !.snap = mem[p], !.handle = "tmp"]
<1>1. /\ proc[p].step = "persist" /\ Become(p, r) /\ tmp' = Torn
      /\ UNCHANGED <<day, mem, file, payments, faults>>
  BY DEF OpenTmp, At
<1>2. mem[p] \in DayTotals
  BY DEF IInv, Types
<1>3. r \in ProcState /\ r.step = "write" /\ r.snap = mem[p]
  BY <1>2, IdleTyped DEF ProcState
<1> HIDE DEF r
<1>4. /\ proc' \in [Procs -> ProcState] /\ proc'[p] = r
      /\ \A q \in Procs : q # p => proc'[q] = proc[q]
  BY <1>1, <1>3, Became DEF IInv, Types
<1>5. file' \in DayTotals \cup {NoFile, Torn}
  BY <1>1 DEF IInv, Types
<1>6. Types' /\ day' = day /\ mem' = mem /\ paid' = paid /\ paidOffline' = paidOffline
  BY <1>1, <1>4, <1>5, FilesKept
<1> QED BY <1>1, <1>2, <1>3, <1>4, <1>6, StepUnpaid

LEMMA WriteTmpKeeps ==
  ASSUME IInv, NEW p \in Procs, WriteTmp(p)
  PROVE  IInv'
<1>1. /\ proc[p].step = "write" /\ GoTo(p, "rename")
      /\ UNCHANGED <<day, mem, payments, faults>>
  BY DEF WriteTmp, At
<1> DEFINE r == [Idle EXCEPT !.step = "rename"]
<1>2. r \in ProcState /\ r.step = "rename" /\ Become(p, r)
  BY <1>1, GoneTyped DEF GoTo
<1> HIDE DEF r
<1>3. /\ proc' \in [Procs -> ProcState] /\ proc'[p] = r
      /\ \A q \in Procs : q # p => proc'[q] = proc[q]
  BY <1>2, Became DEF IInv, Types
<1>4. proc[p].snap \in DayTotals
  BY <1>1 DEF IInv, ProcInv
<1>5. /\ tmp' = tmp \/ tmp' \in {proc[p].snap, Torn}
      /\ file' = file \/ file' \in {proc[p].snap, Torn}
  BY DEF WriteTmp, Overwrite
<1>6. Types' /\ day' = day /\ mem' = mem /\ paid' = paid /\ paidOffline' = paidOffline
  <2>1. file' \in DayTotals \cup {NoFile, Torn} /\ tmp' \in DayTotals \cup {NoFile, Torn}
    BY <1>4, <1>5 DEF IInv, Types
  <2> QED BY <1>1, <1>3, <2>1, FilesKept
<1> QED BY <1>1, <1>2, <1>3, <1>6, StepUnpaid

(* A rename moves the open file of whoever was writing it. *)
LEMMA RenameKeeps ==
  ASSUME IInv, NEW p \in Procs, Rename(p)
  PROVE  IInv'
<1>1. proc[p].step = "rename" /\ UNCHANGED <<day, mem, payments, faults>>
  BY DEF Rename, At
<1>2. CASE /\ tmp # NoFile /\ file' = tmp /\ tmp' = NoFile
           /\ proc' = [q \in Procs |-> IF q = p THEN Idle
                                       ELSE [proc[q] EXCEPT !.handle = Moved(@)]]
  <2> DEFINE M(q) == [proc[q] EXCEPT !.handle = Moved(@)]
  <2>1. \A q \in Procs : /\ M(q) \in ProcState /\ M(q).step = proc[q].step
                         /\ M(q).offline = proc[q].offline /\ M(q).price = proc[q].price
                         /\ M(q).snap = proc[q].snap
    <3> SUFFICES ASSUME NEW q \in Procs
                 PROVE  /\ M(q) \in ProcState /\ M(q).step = proc[q].step
                        /\ M(q).offline = proc[q].offline /\ M(q).price = proc[q].price
                        /\ M(q).snap = proc[q].snap
      OBVIOUS
    <3>1. proc[q] \in ProcState
      BY DEF IInv, Types
    <3>2. Moved(proc[q].handle) \in {"none", "tmp", "file", "gone"}
      BY <3>1 DEF ProcState, Moved
    <3> HIDE DEF Moved
    <3> QED BY <3>1, <3>2 DEF ProcState
  <2>2. proc' = [q \in Procs |-> IF q = p THEN Idle ELSE M(q)]
    BY <1>2
  <2> HIDE DEF M
  <2>3. proc' \in [Procs -> ProcState]
    BY <2>1, <2>2, IdleTyped
  <2>4. file' \in DayTotals \cup {NoFile, Torn} /\ tmp' \in DayTotals \cup {NoFile, Torn}
    BY <1>2 DEF IInv, Types
  <2>5. Types' /\ day' = day /\ mem' = mem /\ paid' = paid /\ paidOffline' = paidOffline
    BY <1>1, <2>3, <2>4, FilesKept
  <2>6. ASSUME NEW q \in Procs PROVE ProcInv(q)' /\ Capped(q)'
    <3>1. ProcInv(q) /\ Capped(q)
      BY DEF IInv
    <3>2. Rolled(mem[q])' = Rolled(mem[q])
      BY <2>5 DEF Rolled, Totals
    <3>3. Capped(q)'
      BY <2>5, <3>1 DEF Capped
    <3>4. CASE q = p
      <4>1. proc'[q].step = "ask"
        BY <2>2, <3>4, IdleTyped
      <4> QED BY <1>1, <2>5, <3>1, <3>2, <3>3, <3>4, <4>1 DEF ProcInv, Owed, OwedOffline
    <3>5. CASE q # p
      <4>1. /\ proc'[q].step = proc[q].step /\ proc'[q].offline = proc[q].offline
            /\ proc'[q].price = proc[q].price /\ proc'[q].snap = proc[q].snap
        BY <2>1, <2>2, <3>5
      <4> QED BY <2>5, <3>1, <3>2, <3>3, <4>1 DEF ProcInv, Owed, OwedOffline, CanSpend
    <3> QED BY <3>4, <3>5
  <2> QED BY <2>5, <2>6 DEF IInv
<1>3. CASE tmp = NoFile /\ UNCHANGED <<file, tmp>> /\ GoTo(p, "ask")
  <2> DEFINE r == [Idle EXCEPT !.step = "ask"]
  <2>1. r \in ProcState /\ r.step = "ask" /\ Become(p, r)
    BY <1>3, GoneTyped DEF GoTo
  <2> HIDE DEF r
  <2>2. /\ proc' \in [Procs -> ProcState] /\ proc'[p] = r
        /\ \A q \in Procs : q # p => proc'[q] = proc[q]
    BY <2>1, Became DEF IInv, Types
  <2>3. Types' /\ day' = day /\ mem' = mem /\ paid' = paid /\ paidOffline' = paidOffline
    BY <1>1, <1>3, <2>2, FilesKept DEF IInv, Types
  <2> QED BY <1>1, <2>1, <2>2, <2>3, StepUnpaid
<1> QED BY <1>2, <1>3 DEF Rename

--------------------------------------------------------------------------------
(* What goes wrong. *)

LEMMA AuthorFailsKeeps ==
  ASSUME IInv, NEW p \in Procs, AuthorFails(p)
  PROVE  IInv'
<1> DEFINE r == [Idle EXCEPT !.step = "ask"]
<1>1. /\ proc[p].step = "call" /\ r \in ProcState /\ r.step = "ask" /\ Become(p, r)
      /\ UNCHANGED <<day, mem, file, tmp, payments, faults>>
  BY GoneTyped DEF AuthorFails, GoTo, At
<1> HIDE DEF r
<1>2. /\ proc' \in [Procs -> ProcState] /\ proc'[p] = r
      /\ \A q \in Procs : q # p => proc'[q] = proc[q]
  BY <1>1, Became DEF IInv, Types
<1>3. Types' /\ day' = day /\ mem' = mem /\ paid' = paid /\ paidOffline' = paidOffline
  BY <1>1, <1>2 DEF IInv, Types, payments
<1> QED BY <1>1, <1>2, <1>3, StepUnpaid

LEMMA PersistFailsKeeps ==
  ASSUME IInv, NEW p \in Procs, PersistFails(p)
  PROVE  IInv'
<1> DEFINE r == [Idle EXCEPT !.step = "ask"]
<1>1. /\ proc[p].step \in {"persist", "write", "rename"} /\ Fault
      /\ r \in ProcState /\ r.step = "ask" /\ Become(p, r)
      /\ lost' = lost + 1
      /\ UNCHANGED <<day, mem, file, tmp, paid, paidOffline, buried, spenders>>
  BY GoneTyped DEF PersistFails, GoTo
<1> HIDE DEF r
<1>2. /\ proc' \in [Procs -> ProcState] /\ proc'[p] = r
      /\ \A q \in Procs : q # p => proc'[q] = proc[q]
  BY <1>1, Became DEF IInv, Types
<1>3. faults' \in 0..MaxFaults /\ lost' \in Nat
  BY <1>1, Faulted DEF IInv, Types
<1>4. Types' /\ day' = day /\ mem' = mem /\ paid' = paid /\ paidOffline' = paidOffline
  BY <1>1, <1>2, <1>3 DEF IInv, Types
<1> QED BY <1>1, <1>2, <1>4, StepUnpaid

LEMMA CrashKeeps ==
  ASSUME IInv, NEW p \in Procs, Crash(p)
  PROVE  IInv'
<1> DEFINE r == [Idle EXCEPT !.step = "down"]
<1>1. /\ Fault /\ r \in ProcState /\ r.step = "down" /\ Become(p, r)
      /\ lost' = IF Recording(p) THEN lost + 1 ELSE lost
      /\ buried' = buried + paid[p]
      /\ paid' = [paid EXCEPT ![p] = 0] /\ paidOffline' = [paidOffline EXCEPT ![p] = 0]
      /\ UNCHANGED <<day, mem, file, tmp, spenders>>
  BY GoneTyped DEF Crash, GoTo
<1> HIDE DEF r
<1>2. /\ proc' \in [Procs -> ProcState] /\ proc'[p] = r
      /\ \A q \in Procs : q # p => proc'[q] = proc[q]
  BY <1>1, Became DEF IInv, Types
<1>3. faults' \in 0..MaxFaults /\ lost' \in Nat /\ buried' \in Nat
  BY <1>1, Faulted DEF IInv, Types
<1>4. /\ paid' \in [Procs -> Nat] /\ paid'[p] = 0
      /\ paidOffline' \in [Procs -> Nat] /\ paidOffline'[p] = 0
      /\ \A q \in Procs : q # p => paid'[q] = paid[q] /\ paidOffline'[q] = paidOffline[q]
  BY <1>1 DEF IInv, Types
<1>5. Types'
  BY <1>1, <1>2, <1>3, <1>4 DEF IInv, Types
<1>6. Rolled(mem[p])'.spent \in Nat /\ Rolled(mem[p])'.offline \in Nat
  <2>1. mem[p] \in DayTotals /\ Rolled(mem[p])' = Rolled(mem[p])
    BY <1>1 DEF IInv, Types, Rolled, Totals
  <2> QED BY <2>1, RolledTyped DEF IInv, Types
<1>7. ProcInv(p)'
  BY <1>1, <1>2, <1>4, <1>6 DEF ProcInv, Owed, OwedOffline
<1>8. Capped(p)'
  <2> SUFFICES ASSUME InferenceDaily > 0, NEW dearest \in Nat, \A u \in Usages : Price(u) <= dearest
               PROVE  0 < InferenceDaily + dearest
    BY <1>4 DEF Capped
  <2> QED BY CapNat
<1> QED BY <1>1, <1>2, <1>4, <1>5, <1>7, <1>8, StepOne

(* Midnight: nothing is paid yet today, and the totals of yesterday roll over. *)
LEMMA NextDayKeeps ==
  ASSUME IInv, NextDay
  PROVE  IInv'
<1>1. /\ day < MaxDays /\ day' = day + 1
      /\ paid' = [p \in Procs |-> 0] /\ paidOffline' = [p \in Procs |-> 0] /\ buried' = 0
      /\ spenders' = {p \in Procs : Recording(p)} /\ lost' = 0
      /\ UNCHANGED <<mem, file, tmp, proc, faults>>
  BY DEF NextDay
<1>2. Types'
  <2>1. day' \in 1..MaxDays
    BY <1>1, BoundsAssumption DEF IInv, Types
  <2> QED BY <1>1, <2>1 DEF IInv, Types
<1>3. ASSUME NEW p \in Procs PROVE ProcInv(p)' /\ Capped(p)'
  <2>1. ProcInv(p) /\ paid'[p] = 0 /\ paidOffline'[p] = 0 /\ proc' = proc /\ proc[p] \in ProcState
    BY <1>1 DEF IInv, Types
  <2>2. proc[p].price \in Nat
    BY <2>1, PriceNat DEF ProcState
  <2> DEFINE l == Rolled(mem[p])'
  <2>3. l.spent \in Nat /\ l.offline \in Nat
    <3>1. day' \in 1..MaxDays /\ mem'[p] \in DayTotals
      BY <1>2 DEF Types
    <3>2. CASE mem'[p].day = day'
      BY <3>1, <3>2 DEF Rolled, DayTotals
    <3>3. CASE mem'[p].day # day'
      BY <3>3 DEF Rolled, Totals
    <3> QED BY <3>2, <3>3
  <2>4. proc[p].step = "call" => CanSpend(Rolled(mem[p]), proc[p].offline)'
    <3> SUFFICES ASSUME proc[p].step = "call", InferenceDaily > 0
                 PROVE  l.spent < InferenceDaily /\ (proc[p].offline => l.offline < OfflineCap)
      BY <2>1 DEF CanSpend
    <3>1. CanSpend(Rolled(mem[p]), proc[p].offline)
      BY <2>1 DEF ProcInv
    <3>2. day \in 1..MaxDays /\ mem[p] \in DayTotals
      BY DEF IInv, Types
    <3>3. mem[p].day # day' => l.spent = 0 /\ l.offline = 0
      BY <1>1 DEF Rolled, Totals
    <3>4. proc[p].offline => OfflineCap > 0
      BY <3>1, <3>2, RolledTyped, CapNat DEF CanSpend
    <3>5. mem[p].day # day'
      BY <1>1, <3>2 DEF IInv, Types
    <3> QED BY <3>3, <3>4, <3>5
  <2> HIDE DEF l
  <2>5. ProcInv(p)'
    BY <1>1, <2>1, <2>2, <2>3, <2>4 DEF ProcInv, Owed, OwedOffline, l
  <2>6. Capped(p)'
    BY <2>1, CapNat DEF Capped
  <2> QED BY <2>5, <2>6
<1> QED BY <1>2, <1>3 DEF IInv

--------------------------------------------------------------------------------
(* The invariant holds of every behaviour. *)

LEMMA InitInv == Init => IInv
<1> SUFFICES ASSUME Init PROVE IInv
  OBVIOUS
<1>1. Totals(1, 0, 0) \in DayTotals /\ day \in 1..MaxDays /\ day = 1
      /\ Totals(1, 0, 0).day = 1 /\ Totals(1, 0, 0).spent = 0 /\ Totals(1, 0, 0).offline = 0
  BY BoundsAssumption DEF Init, Totals, DayTotals
<1>2. Types
  BY <1>1, IdleTyped, BoundsAssumption DEF Init, Types
<1>3. ASSUME NEW p \in Procs PROVE ProcInv(p) /\ Capped(p)
  <2>1. proc[p].step = "ask" /\ paid[p] = 0 /\ paidOffline[p] = 0 /\ mem[p] = Totals(1, 0, 0)
    BY IdleTyped DEF Init
  <2>2. Rolled(mem[p]).spent = 0 /\ Rolled(mem[p]).offline = 0
    BY <1>1, <2>1 DEF Rolled
  <2>3. ProcInv(p)
    BY <2>1, <2>2 DEF ProcInv, Owed, OwedOffline
  <2>4. Capped(p)
    BY <2>1, CapNat DEF Capped
  <2> QED BY <2>3, <2>4
<1> QED BY <1>2, <1>3 DEF IInv

LEMMA StutterInv ==
  ASSUME IInv, UNCHANGED vars
  PROVE  IInv'
<1>1. /\ day' = day /\ mem' = mem /\ file' = file /\ tmp' = tmp /\ proc' = proc
      /\ paid' = paid /\ paidOffline' = paidOffline /\ buried' = buried
      /\ spenders' = spenders /\ lost' = lost /\ faults' = faults
  BY DEF vars, payments
<1>2. Types'
  BY <1>1 DEF IInv, Types
<1>3. ASSUME NEW p \in Procs PROVE ProcInv(p)' /\ Capped(p)'
  <2>1. ProcInv(p) /\ Capped(p)
    BY DEF IInv
  <2>2. Rolled(mem[p])' = Rolled(mem[p])
    BY <1>1 DEF Rolled, Totals
  <2> QED BY <1>1, <2>1, <2>2 DEF ProcInv, Capped, Owed, OwedOffline, CanSpend
<1> QED BY <1>2, <1>3 DEF IInv

LEMMA NextInv ==
  ASSUME IInv, [Next]_vars
  PROVE  IInv'
<1>1. CASE UNCHANGED vars
  BY <1>1, StutterInv
<1>2. CASE NextDay
  BY <1>2, NextDayKeeps
<1>3. ASSUME NEW p \in Procs,
             \/ NewLedger(p) \/ Ask(p) \/ Author(p) \/ AuthorFails(p) \/ Spend(p)
             \/ OpenTmp(p) \/ WriteTmp(p) \/ Rename(p) \/ PersistFails(p) \/ Crash(p)
      PROVE IInv'
  BY <1>3, NewLedgerKeeps, AskKeeps, AuthorKeeps, AuthorFailsKeeps, SpendKeeps,
     OpenTmpKeeps, WriteTmpKeeps, RenameKeeps, PersistFailsKeeps, CrashKeeps
<1> QED BY <1>1, <1>2, <1>3 DEF Next

LEMMA Invariance == Spec => []IInv
<1>1. IInv /\ [Next]_vars => IInv'
  BY NextInv
<1> QED BY <1>1, InitInv, PTL DEF Spec

(* Every variable keeps its type: in particular a process's totals always come from  *)
(* a whole ledger file or from none, never from a torn one (NewLedger).             *)
THEOREM TypeCorrect == Spec => []TypeOK
<1>1. IInv => TypeOK
  BY DEF IInv, Types, ProcInv, ProcState, TypeOK, At
<1> QED BY <1>1, Invariance, PTL

(* No process pays more in a day than the cap and its last call, online and offline,  *)
(* over midnight, crashes, failing writes and whatever others do to the file (Ask's    *)
(* CanSpend, Author, Spend's rollover).                                            *)
THEOREM StaysCapped == Spec => []ProcessStaysCapped
<1>1. IInv => ProcessStaysCapped
  BY PriceNat DEF IInv, Capped, ProcessStaysCapped
<1> QED BY <1>1, Invariance, PTL

--------------------------------------------------------------------------------
(* A day on which one process uses the ledger.                                   *)

(* What the process and those before it have paid today. *)
PaidToday(p) == buried + paid[p]

Dearest(d) == \A u \in Usages : Price(u) <= d

(* Who pays, and who is recording a payment, has touched the ledger. *)
Touched ==
  /\ \A p \in Procs : Recording(p) \/ paid[p] > 0 => p \in spenders
  /\ buried > 0 => spenders # {}

(* Its totals are behind by what faults kept from them; those of the file, which it   *)
(* takes over when it restarts, by the payment being recorded as well; and what it is   *)
(* writing since it has paid are its totals.                                       *)
MemCovers(p, d) ==
  proc[p].step # "down" => PaidToday(p) <= Rolled(mem[p]).spent + Owed(p) + lost * d
FileCovers(p, d) ==
  file # Torn => PaidToday(p) <= Loaded.spent + lost * d + (IF Recording(p) THEN d ELSE 0)
WritesTotals(p) ==
  PaidToday(p) > 0 =>
    /\ proc[p].step \in {"persist", "write", "rename"} => mem[p].day = day
    /\ proc[p].step = "write" => proc[p].handle = "tmp" /\ tmp = Torn /\ proc[p].snap = mem[p]
    /\ proc[p].step = "rename" => tmp = mem[p]
WithinCap(p, d) == InferenceDaily > 0 => PaidToday(p) < InferenceDaily + lost * d + d

Covered(p, d) == MemCovers(p, d) /\ FileCovers(p, d) /\ WritesTotals(p) /\ WithinCap(p, d)
AloneCovered ==
  \A p \in Procs, d \in Nat : spenders \subseteq {p} /\ Dearest(d) => Covered(p, d)

RestartInv == Touched /\ AloneCovered

LEMMA LoadedTyped ==
  ASSUME day \in 1..MaxDays, file \in DayTotals \cup {NoFile, Torn}, file # Torn
  PROVE  Loaded \in DayTotals /\ Loaded.day = day /\ Loaded.spent \in Nat
<1>1. CASE file # NoFile /\ file.day = day
  BY <1>1 DEF Loaded, DayTotals
<1>2. CASE ~(file # NoFile /\ file.day = day)
  <2>1. Loaded = Totals(day, 0, 0)
    BY <1>2 DEF Loaded
  <2> QED BY <2>1, TotalsTyped
<1> QED BY <1>1, <1>2

LEMMA AmountsTyped ==
  ASSUME IInv, NEW p \in Procs, NEW d \in Nat
  PROVE  /\ buried \in Nat /\ paid[p] \in Nat /\ PaidToday(p) \in Nat
         /\ Rolled(mem[p]).spent \in Nat /\ Rolled(mem[p]).day = day
         /\ file # Torn => Loaded.spent \in Nat /\ Loaded.day = day /\ Loaded \in DayTotals
         /\ Owed(p) \in Nat /\ lost * d \in Nat /\ lost \in Nat
<1>1. proc[p].price \in Nat
  BY PriceNat DEF IInv, Types, ProcState
<1> QED BY <1>1, RolledTyped, LoadedTyped DEF IInv, Types, PaidToday, Owed

(* Of a step on a day, only what it does to the process that takes it is to be shown: *)
(* one that touches the ledger is the only one to use it.                          *)
LEMMA AloneStep ==
  ASSUME RestartInv, NEW p \in Procs, Touched', day' = day, spenders \subseteq spenders',
         p \notin spenders' =>
           /\ file' = file /\ tmp' = tmp /\ lost' = lost /\ buried' = buried
           /\ \A q \in Procs : q # p => proc'[q] = proc[q] /\ mem'[q] = mem[q] /\ paid'[q] = paid[q],
         \A d \in Nat : spenders' \subseteq {p} /\ Dearest(d) /\ Covered(p, d) => Covered(p, d)'
  PROVE  RestartInv'
<1> SUFFICES ASSUME NEW q \in Procs, NEW d \in Nat, spenders' \subseteq {q}, Dearest(d)
             PROVE  Covered(q, d)'
  BY DEF RestartInv, AloneCovered, Dearest
<1>1. Covered(q, d)
  BY DEF RestartInv, AloneCovered
<1>2. CASE q = p
  BY <1>1, <1>2
<1>3. CASE q # p
  <2>1. /\ file' = file /\ tmp' = tmp /\ lost' = lost /\ buried' = buried
        /\ proc'[q] = proc[q] /\ mem'[q] = mem[q] /\ paid'[q] = paid[q]
    BY <1>3
  <2>2. /\ Rolled(mem[q])' = Rolled(mem[q]) /\ Loaded' = Loaded
        /\ PaidToday(q)' = PaidToday(q) /\ Owed(q)' = Owed(q) /\ (Recording(q)' <=> Recording(q))
    BY <2>1 DEF Rolled, Loaded, Totals, PaidToday, Owed, Recording
  <2>3. MemCovers(q, d)' /\ FileCovers(q, d)'
    BY <1>1, <2>1, <2>2 DEF Covered, MemCovers, FileCovers, Torn
  <2>4. WritesTotals(q)' /\ WithinCap(q, d)'
    BY <1>1, <2>1, <2>2 DEF Covered, WritesTotals, WithinCap, Torn
  <2> QED BY <2>3, <2>4 DEF Covered
<1> QED BY <1>2, <1>3

(* Such a step leaves to show of Touched what concerns its process. *)
LEMMA TouchedStep ==
  ASSUME RestartInv, NEW p \in Procs, spenders \subseteq spenders',
         \A q \in Procs : q # p => proc'[q].step = proc[q].step /\ paid'[q] = paid[q],
         proc'[p].step \in {"spend", "persist", "write", "rename"} \/ paid'[p] > 0
           => p \in spenders',
         buried' > 0 => spenders' # {}
  PROVE  Touched'
BY DEF RestartInv, Touched, Recording

LEMMA NewLedgerCovers ==
  ASSUME IInv, RestartInv, IInv', NEW p \in Procs, NewLedger(p)
  PROVE  RestartInv'
<1> DEFINE r == [Idle EXCEPT !.step = "ask"]
<1>1. /\ proc[p].step = "down" /\ file # Torn /\ mem' = [mem EXCEPT ![p] = Loaded]
      /\ UNCHANGED <<day, file, tmp, paid, buried, spenders, lost>>
      /\ r \in ProcState /\ r.step = "ask" /\ Become(p, r)
  BY GoneTyped DEF NewLedger, At, GoTo, payments
<1> HIDE DEF r
<1>2. proc'[p] = r /\ \A q \in Procs : q # p => proc'[q] = proc[q]
  BY <1>1, Became DEF IInv, Types
<1>3. mem'[p] = Loaded /\ \A q \in Procs : q # p => mem'[q] = mem[q]
  BY <1>1 DEF IInv, Types
<1>4. Touched'
  <2>1. paid[p] > 0 => p \in spenders
    BY DEF RestartInv, Touched
  <2>2. buried > 0 => spenders # {}
    BY DEF RestartInv, Touched
  <2> QED BY <1>1, <1>2, <2>1, <2>2, TouchedStep
<1>5. ASSUME NEW d \in Nat, Covered(p, d) PROVE Covered(p, d)'
  <2>1. PaidToday(p) <= Loaded.spent + lost * d
    BY <1>1, <1>5, AmountsTyped DEF Covered, FileCovers, Recording
  <2>2. /\ Loaded' = Loaded /\ Loaded.day = day /\ PaidToday(p)' = PaidToday(p)
        /\ proc'[p].step = "ask"
    BY <1>1, <1>2, AmountsTyped DEF Loaded, Totals, PaidToday
  <2>3. Rolled(mem[p])' = Loaded
    BY <1>1, <1>3, <2>2 DEF Rolled
  <2>4. MemCovers(p, d)' /\ FileCovers(p, d)'
    BY <1>1, <2>1, <2>2, <2>3, AmountsTyped DEF MemCovers, FileCovers, Owed, Recording
  <2>5. WritesTotals(p)' /\ WithinCap(p, d)'
    BY <1>1, <1>5, <2>2 DEF Covered, WritesTotals, WithinCap
  <2> QED BY <2>4, <2>5 DEF Covered
<1> QED BY <1>1, <1>2, <1>3, <1>4, <1>5, AloneStep

LEMMA AskCovers ==
  ASSUME IInv, RestartInv, IInv', NEW p \in Procs, Ask(p)
  PROVE  RestartInv'
<1>1. /\ proc[p].step = "ask" /\ mem' = [mem EXCEPT ![p] = Rolled(@)]
      /\ UNCHANGED <<day, file, tmp, paid, buried, spenders, lost>>
  BY DEF Ask, At, payments
<1>2. proc'[p].step \in {"ask", "call"} /\ \A q \in Procs : q # p => proc'[q] = proc[q]
  <2>1. PICK offline \in BOOLEAN :
          proc' = proc \/ Become(p, [Idle EXCEPT !.step = "call", !.offline = offline])
    BY DEF Ask
  <2> DEFINE r == [Idle EXCEPT !.step = "call", !.offline = offline]
  <2>2. r \in ProcState /\ r.step = "call"
    BY IdleTyped DEF ProcState
  <2>3. proc' = proc \/ Become(p, r)
    BY <2>1
  <2> HIDE DEF r
  <2> QED BY <1>1, <2>2, <2>3, Became DEF IInv, Types
<1>3. mem'[p] = Rolled(mem[p]) /\ \A q \in Procs : q # p => mem'[q] = mem[q]
  BY <1>1 DEF IInv, Types
<1>4. Touched'
  <2>1. paid[p] > 0 => p \in spenders
    BY DEF RestartInv, Touched
  <2>2. buried > 0 => spenders # {}
    BY DEF RestartInv, Touched
  <2> QED BY <1>1, <1>2, <2>1, <2>2, TouchedStep
<1>5. ASSUME NEW d \in Nat, Covered(p, d) PROVE Covered(p, d)'
  <2>1. /\ Loaded' = Loaded /\ PaidToday(p)' = PaidToday(p)
        /\ ~Recording(p) /\ ~Recording(p)' /\ Owed(p) = 0 /\ Owed(p)' = 0
    BY <1>1, <1>2 DEF Loaded, Totals, PaidToday, Recording, Owed
  <2>2. Rolled(mem[p])' = Rolled(mem[p])
    BY <1>1, <1>3, AmountsTyped DEF Rolled
  <2>3. MemCovers(p, d)' /\ FileCovers(p, d)'
    BY <1>1, <1>5, <2>1, <2>2 DEF Covered, MemCovers, FileCovers, Torn
  <2>4. WritesTotals(p)' /\ WithinCap(p, d)'
    BY <1>1, <1>2, <1>5, <2>1 DEF Covered, WritesTotals, WithinCap
  <2> QED BY <2>3, <2>4 DEF Covered
<1> QED BY <1>1, <1>2, <1>3, <1>4, <1>5, AloneStep

(* It calls only below the cap, so its totals can hide no more than what was lost. *)
LEMMA AuthorCovers ==
  ASSUME IInv, RestartInv, IInv', NEW p \in Procs, Author(p)
  PROVE  RestartInv'
<1>1. PICK u \in Usages :
        /\ proc[p].step = "call"
        /\ Become(p, [proc[p] EXCEPT !.step = "spend", !.price = Price(u)])
        /\ paid' = [paid EXCEPT ![p] = @ + Price(u)]
        /\ spenders' = spenders \cup {p}
        /\ UNCHANGED <<day, mem, file, tmp, buried, lost>>
  BY DEF Author, At
<1>2. PICK cost \in Nat : cost = Price(u)
  BY PriceNat
<1> DEFINE r == [proc[p] EXCEPT !.step = "spend", !.price = Price(u)]
<1>3. r \in ProcState /\ r.step = "spend" /\ r.price = cost
  <2>1. proc[p] \in ProcState
    BY DEF IInv, Types
  <2> QED BY <1>2, <2>1 DEF ProcState
<1>4. Become(p, r)
  BY <1>1
<1> HIDE DEF r
<1>5. proc'[p] = r /\ \A q \in Procs : q # p => proc'[q] = proc[q]
  BY <1>3, <1>4, Became DEF IInv, Types
<1>6. paid'[p] = paid[p] + cost /\ \A q \in Procs : q # p => paid'[q] = paid[q]
  BY <1>1, <1>2 DEF IInv, Types
<1>7. Touched'
  BY <1>1, <1>5, <1>6, TouchedStep
<1>8. ASSUME NEW d \in Nat, Dearest(d), Covered(p, d) PROVE Covered(p, d)'
  <2>1. cost <= d
    BY <1>2, <1>8 DEF Dearest
  <2>2. /\ Loaded' = Loaded /\ Rolled(mem[p])' = Rolled(mem[p])
        /\ PaidToday(p)' = PaidToday(p) + cost
        /\ ~Recording(p) /\ Recording(p)' /\ Owed(p) = 0 /\ Owed(p)' = cost
    <3>1. buried \in Nat /\ paid[p] \in Nat
      BY AmountsTyped
    <3>2. PaidToday(p)' = PaidToday(p) + cost
      BY <1>1, <1>6, <3>1 DEF PaidToday
    <3> QED BY <1>1, <1>3, <1>5, <3>2 DEF Loaded, Rolled, Totals, Recording, Owed
  <2>3. PaidToday(p) <= Rolled(mem[p]).spent + lost * d
    BY <1>1, <1>8, <2>2, AmountsTyped DEF Covered, MemCovers
  <2>4. MemCovers(p, d)'
    BY <1>1, <2>2, <2>3, AmountsTyped DEF MemCovers
  <2>5. FileCovers(p, d)'
    BY <1>1, <1>8, <2>1, <2>2, AmountsTyped DEF Covered, FileCovers, Torn
  <2>6. WritesTotals(p)'
    BY <1>3, <1>5 DEF WritesTotals
  <2>7. InferenceDaily > 0 => Rolled(mem[p]).spent < InferenceDaily
    BY <1>1 DEF IInv, ProcInv, CanSpend
  <2>8. WithinCap(p, d)'
    BY <1>1, <2>1, <2>2, <2>3, <2>7, AmountsTyped, CapNat DEF WithinCap
  <2> QED BY <2>4, <2>5, <2>6, <2>8 DEF Covered
<1> QED BY <1>1, <1>7, <1>8, AloneStep

LEMMA AuthorFailsCovers ==
  ASSUME IInv, RestartInv, IInv', NEW p \in Procs, AuthorFails(p)
  PROVE  RestartInv'
<1> DEFINE r == [Idle EXCEPT !.step = "ask"]
<1>1. /\ proc[p].step = "call" /\ r \in ProcState /\ r.step = "ask" /\ Become(p, r)
      /\ UNCHANGED <<day, mem, file, tmp, paid, buried, spenders, lost>>
  BY GoneTyped DEF AuthorFails, At, GoTo, payments
<1> HIDE DEF r
<1>2. proc'[p] = r /\ \A q \in Procs : q # p => proc'[q] = proc[q]
  BY <1>1, Became DEF IInv, Types
<1>3. Touched'
  <2>1. (paid[p] > 0 => p \in spenders) /\ (buried > 0 => spenders # {})
    BY DEF RestartInv, Touched
  <2> QED BY <1>1, <1>2, <2>1, TouchedStep
<1>4. ASSUME NEW d \in Nat, Covered(p, d) PROVE Covered(p, d)'
  <2>1. /\ Loaded' = Loaded /\ Rolled(mem[p])' = Rolled(mem[p]) /\ PaidToday(p)' = PaidToday(p)
        /\ ~Recording(p) /\ ~Recording(p)' /\ Owed(p) = 0 /\ Owed(p)' = 0
    BY <1>1, <1>2 DEF Loaded, Rolled, Totals, PaidToday, Recording, Owed
  <2>2. MemCovers(p, d)' /\ FileCovers(p, d)'
    BY <1>1, <1>4, <2>1 DEF Covered, MemCovers, FileCovers, Torn
  <2>3. WritesTotals(p)' /\ WithinCap(p, d)'
    BY <1>1, <1>2, <1>4, <2>1 DEF Covered, WritesTotals, WithinCap
  <2> QED BY <2>2, <2>3 DEF Covered
<1> QED BY <1>1, <1>2, <1>3, <1>4, AloneStep

(* A step of a process that is recording a payment, the only one to use the ledger. *)
LEMMA RecordingStep ==
  ASSUME IInv, RestartInv, NEW p \in Procs, Recording(p), day' = day,
         UNCHANGED <<paid, buried, spenders>>,
         \A q \in Procs : q # p => proc'[q].step = proc[q].step,
         \A d \in Nat : Covered(p, d) => Covered(p, d)'
  PROVE  RestartInv'
<1>1. p \in spenders /\ (buried > 0 => spenders # {})
  BY DEF RestartInv, Touched
<1>2. Touched'
  BY <1>1, TouchedStep
<1> QED BY <1>1, <1>2, AloneStep

LEMMA SpendCovers ==
  ASSUME IInv, RestartInv, IInv', NEW p \in Procs, Spend(p)
  PROVE  RestartInv'
<1> DEFINE l == Rolled(mem[p])
           cost == proc[p].price
           off == IF proc[p].offline THEN cost ELSE 0
           m == Totals(day, l.spent + cost, l.offline + off)
           r == [Idle EXCEPT !.step = "persist"]
<1>1. /\ proc[p].step = "spend" /\ mem' = [mem EXCEPT ![p] = m]
      /\ UNCHANGED <<day, file, tmp, paid, buried, spenders, lost>>
      /\ r \in ProcState /\ r.step = "persist" /\ Become(p, r)
  BY GoneTyped DEF Spend, At, GoTo, payments
<1>2. Owed(p) = cost /\ Owed(p) \in Nat /\ l.spent \in Nat
  BY <1>1, AmountsTyped DEF Owed
<1>3. m.spent = l.spent + cost /\ m.day = day
  BY DEF Totals
<1> HIDE DEF m, r, l, cost, off
<1>4. proc'[p] = r /\ \A q \in Procs : q # p => proc'[q] = proc[q]
  BY <1>1, Became DEF IInv, Types
<1>5. mem'[p] = m /\ \A q \in Procs : q # p => mem'[q] = mem[q]
  BY <1>1 DEF IInv, Types
<1>6. ASSUME NEW d \in Nat, Covered(p, d) PROVE Covered(p, d)'
  <2>1. /\ Loaded' = Loaded /\ PaidToday(p)' = PaidToday(p)
        /\ Recording(p) /\ Recording(p)' /\ Owed(p)' = 0
    BY <1>1, <1>4 DEF Loaded, Totals, PaidToday, Recording, Owed
  <2>2. Rolled(mem[p])' = m
    BY <1>1, <1>3, <1>5 DEF Rolled
  <2>3. PaidToday(p) <= l.spent + cost + lost * d
    BY <1>1, <1>2, <1>6 DEF Covered, MemCovers, l
  <2>4. MemCovers(p, d)'
    BY <1>1, <1>2, <1>3, <2>1, <2>2, <2>3, AmountsTyped DEF MemCovers
  <2>5. FileCovers(p, d)' /\ WithinCap(p, d)'
    BY <1>1, <1>6, <2>1 DEF Covered, FileCovers, WithinCap, Torn
  <2>6. WritesTotals(p)'
    BY <1>1, <1>3, <1>4, <1>5 DEF WritesTotals
  <2> QED BY <2>4, <2>5, <2>6 DEF Covered
<1>7. Recording(p) /\ \A q \in Procs : q # p => proc'[q].step = proc[q].step
  BY <1>1, <1>4 DEF Recording
<1> QED BY <1>1, <1>6, <1>7, RecordingStep

LEMMA OpenTmpCovers ==
  ASSUME IInv, RestartInv, IInv', NEW p \in Procs, OpenTmp(p)
  PROVE  RestartInv'
<1> DEFINE r == [Idle EXCEPT !.step = "write", !.snap = mem[p], !.handle = "tmp"]
<1>1. /\ proc[p].step = "persist" /\ Become(p, r) /\ tmp' = Torn
      /\ UNCHANGED <<day, mem, file, paid, buried, spenders, lost>>
  BY DEF OpenTmp, At, payments
<1>2. r \in ProcState /\ r.step = "write" /\ r.snap = mem[p] /\ r.handle = "tmp"
  <2>1. mem[p] \in DayTotals
    BY DEF IInv, Types
  <2> QED BY <2>1, IdleTyped DEF ProcState
<1> HIDE DEF r
<1>3. proc'[p] = r /\ \A q \in Procs : q # p => proc'[q] = proc[q]
  BY <1>1, <1>2, Became DEF IInv, Types
<1>4. ASSUME NEW d \in Nat, Covered(p, d) PROVE Covered(p, d)'
  <2>1. /\ Loaded' = Loaded /\ Rolled(mem[p])' = Rolled(mem[p]) /\ PaidToday(p)' = PaidToday(p)
        /\ Recording(p) /\ Recording(p)' /\ Owed(p) = 0 /\ Owed(p)' = 0
    BY <1>1, <1>2, <1>3 DEF Loaded, Rolled, Totals, PaidToday, Recording, Owed
  <2>2. MemCovers(p, d)' /\ FileCovers(p, d)' /\ WithinCap(p, d)'
    BY <1>1, <1>4, <2>1 DEF Covered, MemCovers, FileCovers, WithinCap, Torn
  <2>3. WritesTotals(p)'
    BY <1>1, <1>2, <1>3, <1>4, <2>1 DEF Covered, WritesTotals, Torn
  <2> QED BY <2>2, <2>3 DEF Covered
<1>5. Recording(p) /\ \A q \in Procs : q # p => proc'[q].step = proc[q].step
  BY <1>1, <1>3 DEF Recording
<1> QED BY <1>1, <1>4, <1>5, RecordingStep

(* A process that has not paid today may write anywhere, and anything. *)
LEMMA WriteTmpCovers ==
  ASSUME IInv, RestartInv, IInv', NEW p \in Procs, WriteTmp(p)
  PROVE  RestartInv'
<1> DEFINE r == [Idle EXCEPT !.step = "rename"]
<1>1. /\ proc[p].step = "write" /\ r \in ProcState /\ r.step = "rename" /\ Become(p, r)
      /\ UNCHANGED <<day, mem, paid, buried, spenders, lost>>
  BY GoneTyped DEF WriteTmp, At, GoTo, payments
<1> HIDE DEF r
<1>2. proc'[p] = r /\ \A q \in Procs : q # p => proc'[q] = proc[q]
  BY <1>1, Became DEF IInv, Types
<1>3. ASSUME NEW d \in Nat, Covered(p, d) PROVE Covered(p, d)'
  <2>1. /\ Rolled(mem[p])' = Rolled(mem[p]) /\ PaidToday(p)' = PaidToday(p)
        /\ Recording(p) /\ Recording(p)' /\ Owed(p) = 0 /\ Owed(p)' = 0
    BY <1>1, <1>2 DEF Rolled, Totals, PaidToday, Recording, Owed
  <2>2. MemCovers(p, d)' /\ WithinCap(p, d)'
    BY <1>1, <1>3, <2>1 DEF Covered, MemCovers, WithinCap
  <2>3. CASE PaidToday(p) > 0
    <3>1. proc[p].handle = "tmp" /\ tmp = Torn /\ proc[p].snap = mem[p] /\ mem[p].day = day
      BY <1>1, <1>3, <2>3 DEF Covered, WritesTotals
    <3>2. tmp' = mem[p] /\ file' = file
      BY <3>1 DEF WriteTmp, Overwrite
    <3>3. WritesTotals(p)'
      BY <1>1, <1>2, <3>1, <3>2 DEF WritesTotals
    <3>4. FileCovers(p, d)'
      BY <1>1, <1>3, <2>1, <3>2 DEF Covered, FileCovers, Torn, Loaded, Totals
    <3> QED BY <2>2, <3>3, <3>4 DEF Covered
  <2>4. CASE ~(PaidToday(p) > 0)
    <3>1. PaidToday(p)' = 0
      BY <2>1, <2>4, AmountsTyped
    <3>2. WritesTotals(p)'
      BY <3>1 DEF WritesTotals
    <3>3. FileCovers(p, d)'
      <4>1. (file # Torn)' => Loaded'.spent \in Nat
        BY <1>1, LoadedTyped DEF IInv, Types, Loaded, Torn, NoFile, Totals, DayTotals
      <4>2. (lost * d)' \in Nat
        BY <1>1, AmountsTyped
      <4> QED BY <2>1, <3>1, <4>1, <4>2 DEF FileCovers
    <3> QED BY <2>2, <3>2, <3>3 DEF Covered
  <2> QED BY <2>3, <2>4
<1>4. Recording(p) /\ \A q \in Procs : q # p => proc'[q].step = proc[q].step
  BY <1>1, <1>2 DEF Recording
<1> QED BY <1>1, <1>3, <1>4, RecordingStep

LEMMA RenameCovers ==
  ASSUME IInv, RestartInv, IInv', NEW p \in Procs, Rename(p)
  PROVE  RestartInv'
<1>1. proc[p].step = "rename" /\ UNCHANGED <<day, mem, paid, buried, spenders, lost>>
  BY DEF Rename, At, payments
<1>2. proc'[p].step = "ask" /\ \A q \in Procs : q # p => proc'[q].step = proc[q].step
  <2>1. CASE proc' = [q \in Procs |-> IF q = p THEN Idle
                                      ELSE [proc[q] EXCEPT !.handle = Moved(@)]]
    <3>1. ASSUME NEW q \in Procs, q # p PROVE proc'[q].step = proc[q].step
      <4>1. proc[q] \in ProcState /\ proc'[q] = [proc[q] EXCEPT !.handle = Moved(@)]
        BY <2>1, <3>1 DEF IInv, Types
      <4> QED BY <4>1 DEF ProcState
    <3>2. proc'[p] = Idle
      BY <2>1
    <3> QED BY <3>1, <3>2, IdleTyped
  <2>2. CASE GoTo(p, "ask")
    <3> DEFINE r == [Idle EXCEPT !.step = "ask"]
    <3>1. r \in ProcState /\ r.step = "ask" /\ Become(p, r)
      BY <2>2, GoneTyped DEF GoTo
    <3> HIDE DEF r
    <3> QED BY <3>1, Became DEF IInv, Types
  <2> QED BY <2>1, <2>2 DEF Rename
<1>3. ASSUME NEW d \in Nat, Covered(p, d) PROVE Covered(p, d)'
  <2>1. /\ Rolled(mem[p])' = Rolled(mem[p]) /\ PaidToday(p)' = PaidToday(p)
        /\ ~Recording(p)' /\ Owed(p) = 0 /\ Owed(p)' = 0
    BY <1>1, <1>2 DEF Rolled, Totals, PaidToday, Recording, Owed
  <2>2. MemCovers(p, d)' /\ WithinCap(p, d)' /\ WritesTotals(p)'
    BY <1>1, <1>2, <1>3, <2>1 DEF Covered, MemCovers, WithinCap, WritesTotals
  <2>3. CASE PaidToday(p) > 0
    <3>1. tmp = mem[p] /\ mem[p].day = day /\ mem[p] \in DayTotals
      BY <1>1, <1>3, <2>3 DEF Covered, WritesTotals, IInv, Types
    <3>2. mem[p] # NoFile
      BY <3>1 DEF DayTotals, NoFile
    <3>3. file' = mem[p]
      BY <3>1, <3>2 DEF Rename
    <3>4. Loaded' = mem[p] /\ Rolled(mem[p]) = mem[p]
      BY <1>1, <3>1, <3>2, <3>3 DEF Loaded, NoFile, Rolled
    <3>5. PaidToday(p) <= mem[p].spent + lost * d
      BY <1>1, <1>3, <2>1, <3>4, AmountsTyped DEF Covered, MemCovers
    <3>6. mem[p].spent \in Nat
      BY <3>1 DEF DayTotals
    <3>7. FileCovers(p, d)'
      BY <1>1, <2>1, <3>4, <3>5, <3>6, AmountsTyped DEF FileCovers
    <3> QED BY <2>2, <3>7 DEF Covered
  <2>4. CASE ~(PaidToday(p) > 0)
    <3>1. PaidToday(p)' = 0
      BY <2>1, <2>4, AmountsTyped
    <3>2. (file # Torn)' => Loaded'.spent \in Nat
      BY <1>1, LoadedTyped DEF IInv, Types, Loaded, Torn, NoFile, Totals, DayTotals
    <3>3. (lost * d)' \in Nat
      BY <1>1, AmountsTyped
    <3>4. FileCovers(p, d)'
      BY <2>1, <3>1, <3>2, <3>3 DEF FileCovers
    <3> QED BY <2>2, <3>4 DEF Covered
  <2> QED BY <2>3, <2>4
<1>4. Recording(p)
  BY <1>1 DEF Recording
<1> QED BY <1>1, <1>2, <1>3, <1>4, RecordingStep

(* What a fault keeps from the file is one payment, at most the dearest. *)
LEMMA OneMoreLost ==
  ASSUME NEW n \in Nat, NEW d \in Nat
  PROVE  (n + 1) * d = n * d + d
OBVIOUS

LEMMA PersistFailsCovers ==
  ASSUME IInv, RestartInv, IInv', NEW p \in Procs, PersistFails(p)
  PROVE  RestartInv'
<1> DEFINE r == [Idle EXCEPT !.step = "ask"]
<1>1. /\ proc[p].step \in {"persist", "write", "rename"} /\ lost' = lost + 1
      /\ r \in ProcState /\ r.step = "ask" /\ Become(p, r)
      /\ UNCHANGED <<day, mem, file, tmp, paid, buried, spenders>>
  BY GoneTyped DEF PersistFails, GoTo
<1> HIDE DEF r
<1>2. proc'[p] = r /\ \A q \in Procs : q # p => proc'[q] = proc[q]
  BY <1>1, Became DEF IInv, Types
<1>3. ASSUME NEW d \in Nat, Covered(p, d) PROVE Covered(p, d)'
  <2>1. /\ Loaded' = Loaded /\ Rolled(mem[p])' = Rolled(mem[p]) /\ PaidToday(p)' = PaidToday(p)
        /\ Recording(p) /\ ~Recording(p)' /\ Owed(p) = 0 /\ Owed(p)' = 0
    BY <1>1, <1>2 DEF Loaded, Rolled, Totals, PaidToday, Recording, Owed
  <2>2. (lost * d)' = lost * d + d /\ lost * d \in Nat
    BY <1>1, OneMoreLost, AmountsTyped
  <2> HIDE DEF Covered
  <2>3. PaidToday(p) \in Nat /\ Rolled(mem[p]).spent \in Nat /\ (file # Torn => Loaded.spent \in Nat)
    BY AmountsTyped
  <2>4. MemCovers(p, d)'
    <3>1. PaidToday(p) <= Rolled(mem[p]).spent + lost * d
      BY <1>1, <1>3, <2>1, <2>2, <2>3 DEF Covered, MemCovers
    <3> QED BY <2>1, <2>2, <2>3, <3>1 DEF MemCovers
  <2>5. FileCovers(p, d)'
    <3>1. file # Torn => PaidToday(p) <= Loaded.spent + lost * d + d
      BY <1>3, <2>1 DEF Covered, FileCovers
    <3>2. (file # Torn)' <=> file # Torn
      BY <1>1 DEF Torn
    <3> QED BY <2>1, <2>2, <2>3, <3>1, <3>2 DEF FileCovers
  <2>6. WithinCap(p, d)'
    <3>1. InferenceDaily > 0 => PaidToday(p) < InferenceDaily + lost * d + d
      BY <1>3 DEF Covered, WithinCap
    <3> QED BY <2>1, <2>2, <2>3, <3>1, CapNat DEF WithinCap
  <2>7. WritesTotals(p)'
    BY <1>1, <1>2 DEF WritesTotals
  <2> QED BY <2>4, <2>5, <2>6, <2>7 DEF Covered
<1>4. Recording(p) /\ \A q \in Procs : q # p => proc'[q].step = proc[q].step
  BY <1>1, <1>2 DEF Recording
<1> QED BY <1>1, <1>3, <1>4, RecordingStep

(* A process that has not touched the ledger has nothing to lose. *)
LEMMA CrashCovers ==
  ASSUME IInv, RestartInv, IInv', NEW p \in Procs, Crash(p)
  PROVE  RestartInv'
<1> DEFINE r == [Idle EXCEPT !.step = "down"]
<1>1. /\ r \in ProcState /\ r.step = "down" /\ Become(p, r)
      /\ lost' = IF Recording(p) THEN lost + 1 ELSE lost
      /\ buried' = buried + paid[p] /\ paid' = [paid EXCEPT ![p] = 0]
      /\ UNCHANGED <<day, mem, file, tmp, spenders>>
  BY GoneTyped DEF Crash, GoTo
<1> HIDE DEF r
<1>2. proc'[p] = r /\ \A q \in Procs : q # p => proc'[q] = proc[q]
  BY <1>1, Became DEF IInv, Types
<1>3. buried \in Nat /\ paid[p] \in Nat
      /\ paid'[p] = 0 /\ \A q \in Procs : q # p => paid'[q] = paid[q]
  BY <1>1 DEF IInv, Types
<1>4. (Recording(p) \/ paid[p] > 0 => p \in spenders) /\ (buried > 0 => spenders # {})
  BY DEF RestartInv, Touched
<1>5. Touched'
  <2>1. buried' > 0 => spenders' # {}
    BY <1>1, <1>3, <1>4
  <2> QED BY <1>1, <1>2, <1>3, <2>1, TouchedStep
<1>6. p \notin spenders => lost' = lost /\ buried' = buried
  BY <1>1, <1>3, <1>4
<1>7. ASSUME NEW d \in Nat, Covered(p, d) PROVE Covered(p, d)'
  <2>1. /\ Loaded' = Loaded /\ PaidToday(p)' = PaidToday(p) /\ ~Recording(p)'
    BY <1>1, <1>2, <1>3 DEF Loaded, Totals, PaidToday, Recording
  <2>2. /\ Recording(p) => (lost * d)' = lost * d + d
        /\ ~Recording(p) => (lost * d)' = lost * d
        /\ lost * d \in Nat
    BY <1>1, OneMoreLost, AmountsTyped
  <2>3. PaidToday(p) \in Nat /\ (file # Torn => Loaded.spent \in Nat)
    BY AmountsTyped
  <2>4. MemCovers(p, d)' /\ WritesTotals(p)'
    BY <1>1, <1>2 DEF MemCovers, WritesTotals
  <2>5. FileCovers(p, d)'
    <3>1. file # Torn =>
            PaidToday(p) <= Loaded.spent + lost * d + (IF Recording(p) THEN d ELSE 0)
      BY <1>7 DEF Covered, FileCovers
    <3>2. (file # Torn)' <=> file # Torn
      BY <1>1 DEF Torn
    <3> QED BY <2>1, <2>2, <2>3, <3>1, <3>2 DEF FileCovers
  <2>6. WithinCap(p, d)'
    <3>1. InferenceDaily > 0 => PaidToday(p) < InferenceDaily + lost * d + d
      BY <1>7 DEF Covered, WithinCap
    <3> QED BY <2>1, <2>2, <2>3, <3>1, CapNat DEF WithinCap
  <2> QED BY <2>4, <2>5, <2>6 DEF Covered
<1> QED BY <1>1, <1>2, <1>3, <1>5, <1>6, <1>7, AloneStep

(* On a new day nothing is paid, so nothing is behind. *)
LEMMA NextDayCovers ==
  ASSUME IInv, RestartInv, IInv', NextDay
  PROVE  RestartInv'
<1>1. /\ paid' = [p \in Procs |-> 0] /\ buried' = 0 /\ lost' = 0
      /\ spenders' = {p \in Procs : Recording(p)} /\ proc' = proc
  BY DEF NextDay
<1>2. Touched'
  BY <1>1 DEF Touched, Recording
<1>3. ASSUME NEW p \in Procs, NEW d \in Nat PROVE Covered(p, d)'
  <2>1. PaidToday(p)' = 0 /\ (lost * d)' = 0
    BY <1>1 DEF PaidToday
  <2>2. Rolled(mem[p])'.spent \in Nat
    <3>1. CASE mem'[p].day = day'
      BY <3>1 DEF IInv, Types, Rolled, DayTotals
    <3>2. CASE mem'[p].day # day'
      BY <3>2 DEF Rolled, Totals
    <3> QED BY <3>1, <3>2
  <2>3. (file # Torn)' => Loaded'.spent \in Nat
    <3>1. CASE file' # NoFile' /\ file'.day = day'
      BY <3>1 DEF IInv, Types, Loaded, Torn, NoFile, DayTotals
    <3>2. CASE ~(file' # NoFile' /\ file'.day = day')
      BY <3>2 DEF Loaded, Totals
    <3> QED BY <3>1, <3>2
  <2>4. Owed(p)' \in Nat
    <3>1. proc[p].price \in Nat
      BY PriceNat DEF IInv, Types, ProcState
    <3> QED BY <1>1, <3>1 DEF Owed
  <2>5. MemCovers(p, d)' /\ FileCovers(p, d)' /\ WritesTotals(p)'
    BY <2>1, <2>2, <2>3, <2>4 DEF MemCovers, FileCovers, WritesTotals
  <2>6. WithinCap(p, d)'
    BY <2>1, CapNat DEF WithinCap
  <2> QED BY <2>5, <2>6 DEF Covered
<1> QED BY <1>2, <1>3 DEF RestartInv, AloneCovered

LEMMA InitCovers == Init => RestartInv
<1> SUFFICES ASSUME Init PROVE RestartInv
  OBVIOUS
<1>1. /\ paid = [p \in Procs |-> 0] /\ buried = 0 /\ lost = 0 /\ file = NoFile
      /\ \A p \in Procs : proc[p].step = "ask"
  BY IdleTyped DEF Init
<1>2. Touched
  BY <1>1 DEF Touched, Recording
<1>3. ASSUME NEW p \in Procs, NEW d \in Nat PROVE Covered(p, d)
  <2>1. PaidToday(p) = 0 /\ lost * d = 0 /\ Owed(p) = 0
    BY <1>1 DEF PaidToday, Owed
  <2>2. IInv
    BY InitInv
  <2>3. MemCovers(p, d) /\ FileCovers(p, d) /\ WritesTotals(p)
    BY <2>1, <2>2, AmountsTyped DEF MemCovers, FileCovers, WritesTotals
  <2>4. WithinCap(p, d)
    BY <2>1, CapNat DEF WithinCap
  <2> QED BY <2>3, <2>4 DEF Covered
<1> QED BY <1>2, <1>3 DEF RestartInv, AloneCovered

LEMMA StutterCovers ==
  ASSUME RestartInv, UNCHANGED vars
  PROVE  RestartInv'
<1>1. /\ day' = day /\ mem' = mem /\ file' = file /\ tmp' = tmp /\ proc' = proc
      /\ paid' = paid /\ buried' = buried /\ spenders' = spenders /\ lost' = lost
  BY DEF vars, payments
<1>2. Touched'
  BY <1>1 DEF RestartInv, Touched, Recording
<1>3. ASSUME NEW p \in Procs, NEW d \in Nat, spenders \subseteq {p}, Dearest(d)
      PROVE  Covered(p, d)'
  <2>1. Covered(p, d)
    BY <1>3 DEF RestartInv, AloneCovered
  <2>2. /\ Rolled(mem[p])' = Rolled(mem[p]) /\ Loaded' = Loaded
        /\ PaidToday(p)' = PaidToday(p) /\ Owed(p)' = Owed(p) /\ (Recording(p)' <=> Recording(p))
    BY <1>1 DEF Rolled, Loaded, Totals, PaidToday, Owed, Recording
  <2>3. MemCovers(p, d)' /\ FileCovers(p, d)'
    BY <1>1, <2>1, <2>2 DEF Covered, MemCovers, FileCovers, Torn
  <2>4. WritesTotals(p)' /\ WithinCap(p, d)'
    BY <1>1, <2>1, <2>2 DEF Covered, WritesTotals, WithinCap, Torn
  <2> QED BY <2>3, <2>4 DEF Covered
<1> QED BY <1>1, <1>2, <1>3 DEF RestartInv, AloneCovered, Dearest

LEMMA NextCovers ==
  ASSUME IInv, RestartInv, [Next]_vars, IInv'
  PROVE  RestartInv'
<1>1. CASE UNCHANGED vars
  BY <1>1, StutterCovers
<1>2. CASE NextDay
  BY <1>2, NextDayCovers
<1>3. ASSUME NEW p \in Procs,
             \/ NewLedger(p) \/ Ask(p) \/ Author(p) \/ AuthorFails(p) \/ Spend(p)
             \/ OpenTmp(p) \/ WriteTmp(p) \/ Rename(p) \/ PersistFails(p) \/ Crash(p)
      PROVE RestartInv'
  BY <1>3, NewLedgerCovers, AskCovers, AuthorCovers, AuthorFailsCovers, SpendCovers,
     OpenTmpCovers, WriteTmpCovers, RenameCovers, PersistFailsCovers, CrashCovers
<1> QED BY <1>1, <1>2, <1>3 DEF Next

LEMMA RestartInvariance == Spec => []RestartInv
<1>1. IInv /\ RestartInv /\ [Next]_vars /\ IInv' => RestartInv'
  BY NextCovers
<1> QED BY <1>1, InitCovers, Invariance, PTL DEF Spec

(* A day on which one process uses the ledger costs no more than the cap, the last    *)
(* call, and one more for each fault that kept a payment out of the file, however often  *)
(* the process dies and starts again (NewLedger, Ask's CanSpend, Spend, persist).       *)
THEOREM RestartsAreCapped == Spec => []RestartKeepsCap
<1>1. ASSUME IInv, RestartInv PROVE RestartKeepsCap
  <2> SUFFICES ASSUME InferenceDaily > 0, NEW p \in Procs,
                      NEW dearest \in {Price(u) : u \in Usages}, spenders = {p},
                      \A u \in Usages : Price(u) <= dearest
               PROVE  buried + paid[p] < InferenceDaily + (1 + lost) * dearest
    BY DEF RestartKeepsCap
  <2>1. dearest \in Nat
    BY PriceNat
  <2>2. PaidToday(p) < InferenceDaily + lost * dearest + dearest
    BY <1>1, <2>1 DEF RestartInv, AloneCovered, Dearest, Covered, WithinCap
  <2>3. lost \in Nat /\ lost * dearest \in Nat
    BY <1>1, <2>1, AmountsTyped
  <2>4. (1 + lost) * dearest = lost * dearest + dearest
    <3>1. (lost + 1) * dearest = lost * dearest + dearest /\ 1 + lost = lost + 1
      BY <2>1, <2>3, OneMoreLost
    <3> QED BY <3>1
  <2> DEFINE kept == lost * dearest
             more == (1 + lost) * dearest
  <2>5. kept \in Nat /\ more = kept + dearest /\ PaidToday(p) < InferenceDaily + kept + dearest
    BY <2>2, <2>3, <2>4
  <2> HIDE DEF kept, more
  <2>6. PaidToday(p) < InferenceDaily + more
    BY <2>1, <2>5, CapNat
  <2> QED BY <2>6 DEF PaidToday, more
<1> QED BY <1>1, Invariance, RestartInvariance, PTL

================================================================================
