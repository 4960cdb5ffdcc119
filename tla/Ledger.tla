-------------------------------- MODULE Ledger ---------------------------------
(***************************************************************************)
(* The inference budget of a cell (budget.go): the ledger file every process  *)
(* of the cell shares, and what the loop does around a call (loop.go Once and  *)
(* attempt).                                                                *)
(*                                                                         *)
(* A process keeps the day's totals in memory from NewLedger on.  It asks     *)
(* before a call, pays, adds, and writes the totals to ledger.json by way of   *)
(* ledger.json.tmp, a name all processes share.  Midnight, a crash and a       *)
(* failing write may come between any two of these.                          *)
(***************************************************************************)
EXTENDS Integers, FiniteSets

CONSTANTS
  Procs,
  InferenceDaily, OfflineInferenceDaily,          \* caps; 0 is unset
  PerCallCost, CostPerKTokenIn, CostPerKTokenOut,  \* prices
  Usages,                                         \* what calls report: <<tokens in, tokens out>>
  MaxDays, MaxFaults                              \* bounds

ASSUME BudgetAssumption ==
  /\ InferenceDaily \in Nat /\ OfflineInferenceDaily \in 0..InferenceDaily
  /\ PerCallCost \in Nat /\ CostPerKTokenIn \in Nat /\ CostPerKTokenOut \in Nat
ASSUME UsagesAssumption == Usages \subseteq Nat \X Nat
ASSUME BoundsAssumption == MaxDays \in Nat \ {0} /\ MaxFaults \in Nat

VARIABLES
  day,
  mem,        \* [Procs -> totals]
  file, tmp,  \* ledger.json and ledger.json.tmp: totals, NoFile or Torn
  proc,
  paid, paidOffline,  \* [Procs -> Nat]: what a process, since it started, paid today
  buried,     \* what processes that died today had paid
  spenders,   \* the processes that may have touched the ledger today
  lost,       \* payments that a fault may have kept out of the file
  faults

payments == <<paid, paidOffline, buried, spenders, lost>>
vars == <<day, mem, file, tmp, proc, payments, faults>>

--------------------------------------------------------------------------------
(* Prices and caps. *)

(* To the nearest unit. *)
PerTokens(n, perK) == (n * perK + 500) \div 1000
ByTokens(u) == PerTokens(u[1], CostPerKTokenIn) + PerTokens(u[2], CostPerKTokenOut)

(* A call without usage, or with too little to count, costs PerCallCost. *)
Price(u) == IF ByTokens(u) = 0 THEN PerCallCost ELSE ByTokens(u)

(* An explicit cap is at most the daily one (Validate); a derived one rounds down. *)
OfflineCap ==
  IF OfflineInferenceDaily > 0 THEN OfflineInferenceDaily ELSE InferenceDaily \div 4

Totals(d, s, o) == [state |-> "ok", day |-> d, spent |-> s, offline |-> o]
NoFile == [state |-> "none"]
Torn   == [state |-> "torn"]

Rolled(l) == IF l.day = day THEN l ELSE Totals(day, 0, 0)

(* No cap is no enforcement.                                                *)

(* Mutant: while offline only the offline total counts. *)
CanSpendOfflineOnly(l, offline) ==
  InferenceDaily > 0 => IF offline THEN l.offline < OfflineCap ELSE l.spent < InferenceDaily
CanSpend(l, offline) ==
  InferenceDaily > 0 => /\ l.spent < InferenceDaily
                        /\ offline => l.offline < OfflineCap

--------------------------------------------------------------------------------
Idle == [step |-> "ask", offline |-> FALSE, price |-> 0, snap |-> NoFile, handle |-> "none"]

At(p, s) == proc[p].step = s
Become(p, r) == proc' = [proc EXCEPT ![p] = r]
GoTo(p, s) == Become(p, [Idle EXCEPT !.step = s])
Fault == faults < MaxFaults /\ faults' = faults + 1

(* NewLedger: totals of another day are not taken over, and a file that cannot    *)
(* be read keeps the process from starting.                                   *)

(* Mutants: a process starts with nothing spent; a missing file is read all the same. *)
LoadedNothing == Totals(day, 0, 0)
LoadedMissing == file
Loaded == IF file # NoFile /\ file.day = day THEN file ELSE Totals(day, 0, 0)

NewLedger(p) ==
  /\ At(p, "down") /\ file # Torn
  /\ mem' = [mem EXCEPT ![p] = Loaded]
  /\ GoTo(p, "ask")
  /\ UNCHANGED <<day, file, tmp, payments, faults>>

(* The policy asks the ledger; a pass may find the cell offline or not. *)
Ask(p) ==
  \E offline \in BOOLEAN :
    /\ At(p, "ask")
    /\ mem' = [mem EXCEPT ![p] = Rolled(@)]
    /\ IF CanSpend(mem'[p], offline)
       THEN Become(p, [Idle EXCEPT !.step = "call", !.offline = offline])
       ELSE UNCHANGED proc
    /\ UNCHANGED <<day, file, tmp, payments, faults>>

(* The executor does its work, which is paid from then on. *)
Author(p) ==
  \E u \in Usages :
    /\ At(p, "call")
    /\ Become(p, [proc[p] EXCEPT !.step = "spend", !.price = Price(u)])
    /\ paid' = [paid EXCEPT ![p] = @ + Price(u)]
    /\ paidOffline' = [paidOffline EXCEPT ![p] = IF proc[p].offline THEN @ + Price(u) ELSE @]
    /\ spenders' = spenders \cup {p}
    /\ UNCHANGED <<day, mem, file, tmp, buried, lost, faults>>

AuthorFails(p) ==
  /\ At(p, "call")
  /\ GoTo(p, "ask")
  /\ UNCHANGED <<day, mem, file, tmp, payments, faults>>

Spend(p) ==
  LET l == Rolled(mem[p])
      cost == proc[p].price
  IN /\ At(p, "spend")
     /\ mem' = [mem EXCEPT ![p] =
          Totals(day, l.spent + cost, l.offline + IF proc[p].offline THEN cost ELSE 0)]
     /\ GoTo(p, "persist")
     /\ UNCHANGED <<day, file, tmp, payments, faults>>

(* persist: a snapshot, os.WriteFile, which truncates and then writes, and        *)
(* os.Rename.  An open file stays the file it was when a rename moves it.          *)
OpenTmp(p) ==
  /\ At(p, "persist")
  /\ Become(p, [Idle EXCEPT !.step = "write", !.snap = mem[p], !.handle = "tmp"])
  /\ tmp' = Torn
  /\ UNCHANGED <<day, mem, file, payments, faults>>

(* Over a longer text that another process wrote meanwhile, a tail stays. *)
Overwrite(old, new) == IF old = Torn THEN {new} ELSE {new, Torn}

WriteTmp(p) ==
  /\ At(p, "write")
  /\ \/ proc[p].handle = "tmp"  /\ tmp' \in Overwrite(tmp, proc[p].snap) /\ UNCHANGED file
     \/ proc[p].handle = "file" /\ file' \in Overwrite(file, proc[p].snap) /\ UNCHANGED tmp
     \/ proc[p].handle = "gone" /\ UNCHANGED <<file, tmp>>
  /\ GoTo(p, "rename")
  /\ UNCHANGED <<day, mem, payments, faults>>

Moved(handle) ==
  CASE handle = "tmp" -> "file" [] handle = "file" -> "gone" [] OTHER -> handle

Rename(p) ==
  /\ At(p, "rename")
  /\ \/ /\ tmp # NoFile
        /\ file' = tmp /\ tmp' = NoFile
        /\ proc' = [q \in Procs |-> IF q = p THEN Idle ELSE [proc[q] EXCEPT !.handle = Moved(@)]]
     \/ /\ tmp = NoFile
        /\ UNCHANGED <<file, tmp>> /\ GoTo(p, "ask")
  /\ UNCHANGED <<day, mem, payments, faults>>

Recording(p) == proc[p].step \in {"spend", "persist", "write", "rename"}

(* Spend ignores the error of persist. *)
PersistFails(p) ==
  /\ proc[p].step \in {"persist", "write", "rename"} /\ Fault
  /\ GoTo(p, "ask")
  /\ lost' = lost + 1
  /\ UNCHANGED <<day, mem, file, tmp, paid, paidOffline, buried, spenders>>

(* A process that dies leaves the two files as they are. *)
Crash(p) ==
  /\ ~At(p, "down") /\ Fault
  /\ GoTo(p, "down")
  /\ lost' = IF Recording(p) THEN lost + 1 ELSE lost
  /\ buried' = buried + paid[p]
  /\ paid' = [paid EXCEPT ![p] = 0]
  /\ paidOffline' = [paidOffline EXCEPT ![p] = 0]
  /\ UNCHANGED <<day, mem, file, tmp, spenders>>

(* Midnight, UTC. *)
NextDay ==
  /\ day < MaxDays
  /\ day' = day + 1
  /\ paid' = [p \in Procs |-> 0] /\ paidOffline' = [p \in Procs |-> 0] /\ buried' = 0
  /\ spenders' = {p \in Procs : Recording(p)} /\ lost' = 0
  /\ UNCHANGED <<mem, file, tmp, proc, faults>>

--------------------------------------------------------------------------------
Init ==
  /\ day = 1
  /\ mem = [p \in Procs |-> Totals(1, 0, 0)]
  /\ file = NoFile /\ tmp = NoFile
  /\ proc = [p \in Procs |-> Idle]
  /\ paid = [p \in Procs |-> 0] /\ paidOffline = [p \in Procs |-> 0] /\ buried = 0
  /\ spenders = {} /\ lost = 0
  /\ faults = 0

Next ==
  \/ \E p \in Procs :
       \/ NewLedger(p) \/ Ask(p) \/ Author(p) \/ AuthorFails(p) \/ Spend(p)
       \/ OpenTmp(p) \/ WriteTmp(p) \/ Rename(p) \/ PersistFails(p) \/ Crash(p)
  \/ NextDay

Spec == Init /\ [][Next]_vars

--------------------------------------------------------------------------------
DayTotals == [state : {"ok"}, day : 1..MaxDays, spent : Nat, offline : Nat]

(* Every variable has its type: among other things a process that runs has read a   *)
(* ledger that could be read, and nothing it writes is torn (NewLedger, persist).   *)
TypeOK ==
  /\ day \in 1..MaxDays
  /\ mem \in [Procs -> DayTotals]
  /\ file \in DayTotals \cup {NoFile, Torn} /\ tmp \in DayTotals \cup {NoFile, Torn}
  /\ proc \in [Procs -> [step : {"down", "ask", "call", "spend", "persist", "write", "rename"},
                         offline : BOOLEAN, price : {0} \cup {Price(u) : u \in Usages},
                         snap : DayTotals \cup {NoFile},
                         handle : {"none", "tmp", "file", "gone"}]]
  /\ \A p \in Procs : At(p, "write") => proc[p].snap \in DayTotals
  /\ paid \in [Procs -> Nat] /\ paidOffline \in [Procs -> Nat] /\ buried \in Nat
  /\ spenders \subseteq Procs /\ lost \in Nat /\ faults \in 0..MaxFaults

(* What a process pays in a day stays below the cap but for its last call, and what   *)
(* it pays offline below the offline cap, over midnight and whatever other processes    *)
(* do to the file: the totals it asks are never behind its payments (CanSpend, Spend,   *)
(* rollover).                                                                 *)
ProcessStaysCapped ==
  InferenceDaily > 0 =>
    \A p \in Procs : \A dearest \in {Price(u) : u \in Usages} :
      (\A u \in Usages : Price(u) <= dearest) =>
        /\ paid[p] < InferenceDaily + dearest
        /\ paidOffline[p] > 0 => paidOffline[p] < OfflineCap + dearest

(* "A restart does not reset the cap": while one process uses the ledger, the whole     *)
(* day stays below the cap but for the last call, and one more for each fault that kept   *)
(* a payment out of the file (NewLedger, Spend, persist).                            *)
RestartKeepsCap ==
  InferenceDaily > 0 =>
    \A p \in Procs : \A dearest \in {Price(u) : u \in Usages} :
      spenders = {p} /\ (\A u \in Usages : Price(u) <= dearest) =>
        buried + paid[p] < InferenceDaily + (1 + lost) * dearest
================================================================================
