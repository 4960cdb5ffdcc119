-------------------------------- MODULE Storage --------------------------------
(***************************************************************************)
(* The artifact store of a cell and its relief (artifact.go LocalCAS, loop.go *)
(* recordArtifacts and relieveStorage, budget.go RelieveStoragePressure,       *)
(* verify.go releasePins).                                                  *)
(*                                                                         *)
(* The processes of the cell share one directory.  A pass may attempt a ticket, *)
(* which copies its outputs in, records them on the ticket, writes the attempt *)
(* and pins its change; then it relieves the store.  A file is [of, len]: whose *)
(* bytes it holds and how many are there.                                     *)
(***************************************************************************)
EXTENDS Integers, FiniteSets, FiniteSetsExt

CONSTANTS
  Procs,
  Artifacts, Size,          \* contents a build may produce and their bytes
  Temps,                    \* names of temporary files
  StorageBytes,             \* the cap; 0 is none
  PinsPerReliefPass,
  MaxAttempts, MaxFaults    \* bounds

ASSUME StorageAssumption ==
  /\ Size \in [Artifacts -> Nat \ {0}]
  /\ Artifacts \cap Temps = {}
  /\ StorageBytes \in Nat /\ PinsPerReliefPass \in Nat \ {0}
  /\ MaxAttempts \in Nat /\ MaxFaults \in Nat

VARIABLES
  files,     \* the directory: a function from the names in it
  recorded,  \* artifacts attached to a ticket
  named,     \* artifacts the attempts written name
  pins,      \* pins held, as their place in the order of expiry
  pinned,    \* how many pins were ever taken
  dropped,   \* artifacts relief has released at some time
  proc, attempts, faults

store == <<files, recorded, named, pins, pinned, dropped>>
vars == <<store, proc, attempts, faults>>

Names == Artifacts \cup Temps

--------------------------------------------------------------------------------
(* The directory. *)

(* What a walk over the directory adds up, beginning with nothing. *)
Bytes(f) == IF DOMAIN f = {} THEN 0 ELSE MapThenSumSet(LAMBDA n : f[n].len, DOMAIN f)
UsedBytes == Bytes(files)
Over == StorageBytes > 0 /\ UsedBytes > StorageBytes

With(n, file) == [m \in DOMAIN files \cup {n} |-> IF m = n THEN file ELSE files[m]]
Without(ns) == [m \in DOMAIN files \ ns |-> files[m]]
Renamed(t, a) == [m \in (DOMAIN files \ {t}) \cup {a} |-> IF m = a THEN files[t] ELSE files[m]]

(* Mutant: a copy under way counts. *)
HeldOrComing(a) == \E n \in DOMAIN files : files[n].of = a
Held(a) == a \in DOMAIN files

(* Mutant: the copy is made under its final name. *)
CopyNamesInPlace(a) == {a}
CopyNames(a) == Temps \ DOMAIN files

(* Every file of the directory, temporary ones included, with the size it had.    *)

(* Mutant: what a ticket refers to is not offered. *)
ListUnrecorded == {[name |-> n, size |-> files[n].len] : n \in DOMAIN files \ recorded}
List == {[name |-> n, size |-> files[n].len] : n \in DOMAIN files}

(* Largest first; the name of a temporary file sorts before a hash. *)
LargestOf(l) ==
  LET largest == {e \in l : \A f \in l : f.size <= e.size}
      copies == {e \in largest : e.name \in Temps}
  IN IF copies # {} THEN copies ELSE largest

--------------------------------------------------------------------------------
NoFiles == [n \in {} |-> 0]

ProcState ==
  [step : {"down", "idle", "put", "copy", "attach", "pin", "relieve", "list", "release", "measure", "unpin"},
   work : SUBSET Artifacts, out : SUBSET Artifacts, art : SUBSET Artifacts, temp : SUBSET Names,
   listed : SUBSET [name : Names, size : Nat], over : BOOLEAN,
   toUnpin : SUBSET Nat, released : 0..PinsPerReliefPass, disturbed : BOOLEAN]

Idle == [step |-> "idle", work |-> {}, out |-> {}, art |-> {}, temp |-> {}, listed |-> {},
         over |-> FALSE, toUnpin |-> {}, released |-> 0, disturbed |-> FALSE]

At(p, s) == proc[p].step = s
Become(p, r) == proc' = [proc EXCEPT ![p] = r]
GoTo(p, s) == Become(p, [Idle EXCEPT !.step = s])
Fault == faults < MaxFaults /\ faults' = faults + 1

(* Whoever changes the directory has disturbed those that are relieving it.        *)
Touches(p, r) ==
  proc' = [q \in Procs |->
             IF q = p THEN r
             ELSE [proc[q] EXCEPT !.disturbed = @ \/ proc[q].step \in {"list", "release", "measure"}]]

--------------------------------------------------------------------------------
(* An attempt and its outputs. *)

Attempt(p) ==
  \E outputs \in SUBSET Artifacts :
    /\ At(p, "idle") /\ attempts < MaxAttempts
    /\ attempts' = attempts + 1
    /\ Become(p, [Idle EXCEPT !.step = "put", !.work = outputs])
    /\ UNCHANGED <<store, faults>>

NoAttempt(p) ==
  /\ At(p, "idle")
  /\ GoTo(p, "relieve")
  /\ UNCHANGED <<store, attempts, faults>>

(* Put: what is held is not copied again. *)
PutHeld(p) ==
  \E a \in proc[p].work :
    /\ At(p, "put") /\ Held(a)
    /\ Become(p, [proc[p] EXCEPT !.step = "attach", !.art = {a}])
    /\ UNCHANGED <<store, attempts, faults>>

PutNew(p) ==
  \E a \in proc[p].work, t \in Names :
    /\ At(p, "put") /\ ~Held(a)
    /\ t \in CopyNames(a)
    /\ files' = With(t, [of |-> a, len |-> 0])
    /\ Touches(p, [proc[p] EXCEPT !.step = "copy", !.art = {a}, !.temp = {t}])
    /\ UNCHANGED <<recorded, named, pins, pinned, dropped, attempts, faults>>

Copy(p) ==
  \E a \in proc[p].art, t \in proc[p].temp :
    /\ At(p, "copy")
    /\ \E n \in files[t].len + 1 .. Size[a] : files' = With(t, [of |-> a, len |-> n])
    /\ Touches(p, proc[p])
    /\ UNCHANGED <<recorded, named, pins, pinned, dropped, attempts, faults>>

Rename(p) ==
  \E a \in proc[p].art, t \in proc[p].temp :
    /\ At(p, "copy") /\ files[t].len = Size[a]
    /\ files' = Renamed(t, a)
    /\ Touches(p, [proc[p] EXCEPT !.step = "attach", !.temp = {}])
    /\ UNCHANGED <<recorded, named, pins, pinned, dropped, attempts, faults>>

(* A copy that fails removes its temporary file; the outputs left are given up.    *)
CopyFails(p) ==
  /\ At(p, "copy") /\ Fault
  /\ files' = Without(proc[p].temp)
  /\ Touches(p, [proc[p] EXCEPT !.step = "put", !.work = {}, !.art = {}, !.temp = {}])
  /\ UNCHANGED <<recorded, named, pins, pinned, dropped, attempts>>

AttachArtifact(p) ==
  /\ At(p, "attach")
  /\ recorded' = recorded \cup proc[p].art
  /\ Become(p, [proc[p] EXCEPT !.step = "put", !.work = @ \ proc[p].art, !.art = {},
                               !.out = @ \cup proc[p].art])
  /\ UNCHANGED <<files, named, pins, pinned, dropped, attempts, faults>>

AttachFails(p) ==
  /\ At(p, "attach") /\ Fault
  /\ Become(p, [proc[p] EXCEPT !.step = "put", !.work = {}, !.art = {}])
  /\ UNCHANGED <<store, attempts>>

WriteAttempt(p) ==
  /\ At(p, "put") /\ proc[p].work = {}
  /\ named' = named \cup proc[p].out
  /\ GoTo(p, "pin")
  /\ UNCHANGED <<files, recorded, pins, pinned, dropped, attempts, faults>>

Pin(p) ==
  /\ At(p, "pin")
  /\ pinned' = pinned + 1 /\ pins' = pins \cup {pinned + 1}
  /\ GoTo(p, "relieve")
  /\ UNCHANGED <<files, recorded, named, dropped, attempts, faults>>

PinFails(p) ==
  /\ At(p, "pin") /\ Fault
  /\ GoTo(p, "relieve")
  /\ UNCHANGED <<store, attempts>>

--------------------------------------------------------------------------------
(* Relief. *)

Relieve(p) ==
  /\ At(p, "relieve")
  /\ IF Over
     THEN Become(p, [Idle EXCEPT !.step = "list", !.over = TRUE])
     ELSE GoTo(p, "idle")
  /\ UNCHANGED <<store, attempts, faults>>

Candidates(p) ==
  /\ At(p, "list")
  /\ Become(p, [proc[p] EXCEPT !.step = "release", !.listed = List])
  /\ UNCHANGED <<store, attempts, faults>>

More(p) == proc[p].over /\ proc[p].listed # {}

(* A file that is gone is released all the same. *)
Release(p) ==
  \E e \in LargestOf(proc[p].listed) :
    /\ At(p, "release") /\ More(p)
    /\ e.name \in Artifacts
    /\ files' = Without({e.name})
    /\ dropped' = dropped \cup {e.name}
    /\ Touches(p, [proc[p] EXCEPT !.step = "measure", !.listed = @ \ {e}])
    /\ UNCHANGED <<recorded, named, pins, pinned, attempts, faults>>

(* The name of a temporary file is no hash: the pass ends with an error.           *)
ReleaseRefused(p) ==
  \E e \in LargestOf(proc[p].listed) :
    /\ At(p, "release") /\ More(p)
    /\ e.name \in Temps
    /\ GoTo(p, "idle")
    /\ UNCHANGED <<store, attempts, faults>>

(* Mutant: what the release freed is not looked at. *)
MeasuredOnce(p) == proc[p].over
Measured(p) == UsedBytes > StorageBytes

Measure(p) ==
  /\ At(p, "measure")
  /\ Become(p, [proc[p] EXCEPT !.step = "release", !.over = Measured(p)])
  /\ UNCHANGED <<store, attempts, faults>>

StillOver(p) == proc[p].over

Relieved(p) ==
  /\ At(p, "release") /\ ~More(p)
  /\ IF StillOver(p)
     THEN Become(p, [proc[p] EXCEPT !.step = "unpin", !.listed = {}, !.toUnpin = pins])
     ELSE GoTo(p, "idle")
  /\ UNCHANGED <<store, attempts, faults>>

(* Mutant: one pin too many. *)
EnoughAndOne(p) == proc[p].released > PinsPerReliefPass
Enough(p) == proc[p].released >= PinsPerReliefPass

(* releasePins: soonest-expiring first; one that is gone does not count.           *)
Unpin(p) ==
  LET soonest == Min(proc[p].toUnpin)
  IN /\ At(p, "unpin") /\ proc[p].toUnpin # {} /\ ~Enough(p)
     /\ pins' = pins \ {soonest}
     /\ Become(p, [proc[p] EXCEPT !.toUnpin = @ \ {soonest},
                     !.released = IF soonest \in pins THEN @ + 1 ELSE @])
     /\ UNCHANGED <<files, recorded, named, pinned, dropped, attempts, faults>>

UnpinFails(p) ==
  /\ At(p, "unpin") /\ proc[p].toUnpin # {} /\ ~Enough(p) /\ Fault
  /\ GoTo(p, "idle")
  /\ UNCHANGED <<store, attempts>>

(* varvig sweeps its objects, which are not in this directory.                    *)
GC(p) ==
  /\ At(p, "unpin") /\ (proc[p].toUnpin = {} \/ Enough(p))
  /\ GoTo(p, "idle")
  /\ UNCHANGED <<store, attempts, faults>>

--------------------------------------------------------------------------------
(* A process that dies leaves what it was copying, and starts again later.         *)
Crash(p) ==
  /\ proc[p].step # "down" /\ Fault
  /\ GoTo(p, "down")
  /\ UNCHANGED <<store, attempts>>

Restart(p) ==
  /\ At(p, "down")
  /\ GoTo(p, "idle")
  /\ UNCHANGED <<store, attempts, faults>>

Steps(p) ==
  \/ NoAttempt(p)
  \/ PutHeld(p) \/ PutNew(p) \/ Copy(p) \/ Rename(p)
  \/ AttachArtifact(p) \/ WriteAttempt(p) \/ Pin(p)
  \/ Relieve(p) \/ Candidates(p) \/ Release(p) \/ ReleaseRefused(p) \/ Measure(p) \/ Relieved(p)
  \/ Unpin(p) \/ GC(p)

Next == \E p \in Procs :
  \/ Steps(p)
  \/ Attempt(p) \/ Restart(p)
  \/ CopyFails(p) \/ AttachFails(p) \/ PinFails(p) \/ UnpinFails(p) \/ Crash(p)

Init ==
  /\ files = NoFiles /\ recorded = {} /\ named = {}
  /\ pins = {} /\ pinned = 0 /\ dropped = {}
  /\ proc = [p \in Procs |-> Idle]
  /\ attempts = 0 /\ faults = 0

Spec == Init /\ [][Next]_vars

(* A running process goes on with its passes; nothing makes anybody restart it.    *)
FairSpec == Spec /\ \A p \in Procs : WF_vars(Steps(p))

--------------------------------------------------------------------------------
(* Every variable has its type: among other things no pass gives up more pins than *)
(* pinsPerReliefPass (loop.go:1286).                                               *)
TypeOK ==
  /\ DOMAIN files \subseteq Names
  /\ \A n \in DOMAIN files : files[n].of \in Artifacts /\ files[n].len \in 0..Size[files[n].of]
  /\ recorded \subseteq Artifacts /\ named \subseteq Artifacts /\ dropped \subseteq Artifacts
  /\ pinned \in Nat /\ pins \subseteq 1..pinned
  /\ attempts \in 0..MaxAttempts /\ faults \in 0..MaxFaults
  /\ proc \in [Procs -> ProcState]

(* A file under the name of a content hash holds all of that content, whoever      *)
(* copies, fails or dies at the time (artifact.go copyFile): nothing checks a hash *)
(* on the way out, so a truncated file there would never be noticed.               *)
HeldIsWhole == \A a \in Artifacts \cap DOMAIN files : files[a] = [of |-> a, len |-> Size[a]]

(* What an attempt names is recorded on its ticket, and what is recorded is held   *)
(* here unless a relief has released it: no record ever precedes its bytes         *)
(* (loop.go recordArtifacts).                                                      *)
RecordedOrDropped ==
  /\ named \subseteq recorded
  /\ recorded \subseteq DOMAIN files \cup dropped

(* A cell gives up its pins only when another process touched the store while it   *)
(* relieved: alone, a pass gets below the cap by releasing bytes, or stops at a    *)
(* file it cannot name (loop.go relieveStorage, budget.go StillOver).              *)
PinsAreLastResort == \A p \in Procs : At(p, "unpin") => proc[p].disturbed

(* Nobody is copying into it any more. *)
Leftover == \E t \in Temps \cap DOMAIN files : \A p \in Procs : t \notin proc[p].temp
Running == \E p \in Procs : ~At(p, "down")

(* A store over its cap gets below it, while a process runs and no copy that died  *)
(* has left a temporary file (budget.go RelieveStoragePressure).                   *)
OverIsRelieved == (Over /\ ~Leftover) ~> (~Over \/ Leftover \/ ~Running)

================================================================================
