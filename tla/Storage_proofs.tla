---------------------------- MODULE Storage_proofs -----------------------------
(***************************************************************************)
(* Proofs about Storage, for any number of processes, artifacts and           *)
(* temporary files, whatever their sizes and the cap.                          *)
(***************************************************************************)
EXTENDS Storage, TLAPS

Relieving == {"list", "release", "measure"}

FileOK(f) ==
  /\ f = [of |-> f.of, len |-> f.len]
  /\ f.of \in Artifacts /\ f.len \in 0..Size[f.of]

(* The store: well typed, and whole under the names of its contents. *)
StoreInv ==
  /\ files = [n \in DOMAIN files |-> files[n]] /\ DOMAIN files \subseteq Names
  /\ \A n \in DOMAIN files : FileOK(files[n])
  /\ HeldIsWhole
  /\ dropped \subseteq Artifacts /\ recorded \subseteq Artifacts
  /\ RecordedOrDropped
  /\ pinned \in Nat /\ pins \subseteq 1..pinned
  /\ attempts \in 0..MaxAttempts /\ faults \in 0..MaxFaults

(* A process copies into a temporary file, attaches what is or was held, and what   *)
(* it has attached is recorded.                                                    *)
ProcInv(p) ==
  /\ proc[p].out \subseteq recorded
  /\ proc[p].step # "copy" => proc[p].temp = {}
  /\ proc[p].step = "copy" =>
       \E a \in Artifacts, t \in Temps \cap DOMAIN files :
         proc[p].art = {a} /\ proc[p].temp = {t} /\ files[t].of = a
  /\ proc[p].step = "attach" => proc[p].art \subseteq DOMAIN files \cup dropped

(* No two processes copy into one file. *)
OwnTemps == \A p, q \in Procs : p # q => proc[p].temp \cap proc[q].temp = {}

(* While nobody else touches the store, a process that relieves it knows what is in  *)
(* it and whether that is too much.                                                *)
ReliefInv(p) ==
  ~proc[p].disturbed =>
    /\ proc[p].step = "list" => proc[p].over /\ UsedBytes > StorageBytes
    /\ proc[p].step \in {"release", "measure"} =>
         /\ \A n : n \in DOMAIN files <=> \E e \in proc[p].listed : e.name = n
         /\ \A e, f \in proc[p].listed : e.name = f.name => e = f
    /\ proc[p].step = "release" => (proc[p].over <=> UsedBytes > StorageBytes)
    /\ proc[p].step # "unpin"

IInv ==
  /\ StoreInv
  /\ proc \in [Procs -> ProcState]
  /\ \A p \in Procs : ProcInv(p) /\ ReliefInv(p)
  /\ OwnTemps

--------------------------------------------------------------------------------
(* How processes change. *)

LEMMA Became ==
  ASSUME NEW p \in Procs, NEW r \in ProcState, proc \in [Procs -> ProcState], Become(p, r)
  PROVE  /\ proc' \in [Procs -> ProcState]
         /\ proc'[p] = r
         /\ \A q \in Procs : q # p => proc'[q] = proc[q]
BY DEF Become

(* Two records that differ at most in that the second was disturbed while it       *)
(* relieved.                                                                       *)
Alike(r, s) ==
  /\ r.step = s.step /\ r.work = s.work /\ r.out = s.out /\ r.art = s.art
  /\ r.temp = s.temp /\ r.released = s.released
  /\ r.disturbed = (s.disturbed \/ s.step \in Relieving)

LEMMA Touched ==
  ASSUME NEW p \in Procs, NEW r \in ProcState, proc \in [Procs -> ProcState], Touches(p, r)
  PROVE  /\ proc' \in [Procs -> ProcState]
         /\ proc'[p] = r
         /\ \A q \in Procs : q # p => Alike(proc'[q], proc[q])
<1> DEFINE D(q) == [proc[q] EXCEPT !.disturbed = @ \/ proc[q].step \in {"list", "release", "measure"}]
<1>1. \A q \in Procs : D(q) \in ProcState /\ Alike(D(q), proc[q])
  BY DEF ProcState, Alike, Relieving
<1>2. proc' = [q \in Procs |-> IF q = p THEN r ELSE D(q)]
  BY DEF Touches
<1> HIDE DEF D
<1> QED BY <1>1, <1>2

LEMMA IdleTyped == Idle \in ProcState
BY StorageAssumption DEF Idle, ProcState

LEMMA IdleAt ==
  ASSUME NEW s \in {"down", "idle", "pin", "relieve"}
  PROVE  LET r == [Idle EXCEPT !.step = s]
         IN r \in ProcState /\ r.step = s /\ r.out = {} /\ r.temp = {} /\ r.disturbed = FALSE
<1>1. Idle.out = {} /\ Idle.temp = {} /\ Idle.disturbed = FALSE
  BY DEF Idle
<1> QED BY IdleTyped, <1>1 DEF ProcState

(* What a step that changes the directory has to show: the store keeps its          *)
(* invariant, records and bytes only grow but for what is dropped, the files others  *)
(* copy into are left alone, and the process keeps its own invariants.              *)
LEMMA StepTouch ==
  ASSUME IInv, NEW p \in Procs,
         proc' \in [Procs -> ProcState],
         \A q \in Procs : q # p => Alike(proc'[q], proc[q]),
         StoreInv',
         recorded \subseteq recorded',
         \A a \in Artifacts : a \in DOMAIN files \cup dropped => a \in DOMAIN files' \cup dropped',
         \A q \in Procs : q # p => \A t \in proc[q].temp :
            t \in DOMAIN files => t \in DOMAIN files' /\ files'[t].of = files[t].of,
         ProcInv(p)', ReliefInv(p)',
         \A q \in Procs : q # p => proc'[p].temp \cap proc[q].temp = {}
  PROVE  IInv'
<1>1. ASSUME NEW q \in Procs, q # p PROVE ProcInv(q)'
  <2>1. Alike(proc'[q], proc[q]) /\ ProcInv(q) /\ proc[q] \in ProcState
    BY <1>1 DEF IInv
  <2>2. proc[q].out \subseteq recorded'
    BY <2>1 DEF ProcInv
  <2>3. ASSUME proc[q].step = "copy"
        PROVE \E a \in Artifacts, t \in Temps \cap DOMAIN files' :
                proc[q].art = {a} /\ proc[q].temp = {t} /\ files'[t].of = a
    <3>1. PICK a \in Artifacts, t \in Temps \cap DOMAIN files :
             proc[q].art = {a} /\ proc[q].temp = {t} /\ files[t].of = a
      BY <2>1, <2>3 DEF ProcInv
    <3>2. t \in DOMAIN files' /\ files'[t].of = a
      BY <3>1, <1>1
    <3> QED BY <3>1, <3>2
  <2>4. proc[q].step = "attach" => proc[q].art \subseteq DOMAIN files' \cup dropped'
    <3>1. proc[q].art \subseteq Artifacts
      BY <2>1 DEF ProcState
    <3> QED BY <2>1, <3>1 DEF ProcInv
  <2> QED BY <2>1, <2>2, <2>3, <2>4 DEF ProcInv, Alike
<1>2. ASSUME NEW q \in Procs, q # p PROVE ReliefInv(q)'
  <2>1. Alike(proc'[q], proc[q]) /\ ReliefInv(q)
    BY <1>2 DEF IInv
  <2> QED BY <2>1 DEF ReliefInv, Alike, Relieving
<1>3. OwnTemps'
  <2> SUFFICES ASSUME NEW q \in Procs, NEW s \in Procs, q # s
               PROVE proc'[q].temp \cap proc'[s].temp = {}
    BY DEF OwnTemps
  <2>1. \A u \in Procs : u # p => proc'[u].temp = proc[u].temp
    BY DEF Alike
  <2>2. proc[q].temp \cap proc[s].temp = {}
    BY DEF IInv, OwnTemps
  <2>3. CASE q = p
    BY <2>1, <2>3
  <2>4. CASE s = p
    BY <2>1, <2>4
  <2>5. CASE q # p /\ s # p
    BY <2>1, <2>2, <2>5
  <2> QED BY <2>3, <2>4, <2>5
<1> QED BY <1>1, <1>2, <1>3 DEF IInv

(* The same of a step that leaves the directory alone. *)
LEMMA StepQuiet ==
  ASSUME IInv, NEW p \in Procs,
         proc' \in [Procs -> ProcState],
         \A q \in Procs : q # p => proc'[q] = proc[q],
         files' = files, dropped' = dropped, recorded \subseteq recorded',
         StoreInv', ProcInv(p)', ReliefInv(p)',
         proc'[p].temp \subseteq proc[p].temp
  PROVE  IInv'
<1>1. ASSUME NEW q \in Procs, q # p PROVE ProcInv(q)'
  BY <1>1 DEF IInv, ProcInv
<1>2. ASSUME NEW q \in Procs, q # p PROVE ReliefInv(q)'
  <2>1. ReliefInv(q) /\ proc'[q] = proc[q]
    BY <1>2 DEF IInv
  <2>2. UsedBytes' = UsedBytes
    BY DEF UsedBytes
  <2> QED BY <2>1, <2>2 DEF ReliefInv
<1>3. OwnTemps'
  <2>1. \A q \in Procs : proc'[q].temp \subseteq proc[q].temp
    OBVIOUS
  <2> QED BY <2>1 DEF IInv, OwnTemps
<1> QED BY <1>1, <1>2, <1>3 DEF IInv

(* What a step leaves of the store's invariant when it leaves the store alone.      *)
LEMMA StoreKept ==
  ASSUME StoreInv, UNCHANGED store, attempts' \in 0..MaxAttempts, faults' \in 0..MaxFaults
  PROVE  StoreInv'
BY DEF StoreInv, store, HeldIsWhole, RecordedOrDropped

LEMMA Faulted ==
  ASSUME faults \in 0..MaxFaults, Fault
  PROVE  faults' \in 0..MaxFaults
BY StorageAssumption DEF Fault

(* A process that goes to a step with nothing in hand. *)
LEMMA Goes ==
  ASSUME IInv, NEW p \in Procs, NEW s \in {"down", "idle", "pin", "relieve"}, GoTo(p, s),
         files' = files, dropped' = dropped, recorded' = recorded, StoreInv'
  PROVE  IInv'
<1> DEFINE r == [Idle EXCEPT !.step = s]
<1>1. r \in ProcState /\ r.step = s /\ r.out = {} /\ r.temp = {} /\ r.disturbed = FALSE
  BY IdleAt
<1>2. Become(p, r)
  BY DEF GoTo
<1> HIDE DEF r
<1>3. /\ proc' \in [Procs -> ProcState] /\ proc'[p] = r
      /\ \A q \in Procs : q # p => proc'[q] = proc[q]
  BY <1>1, <1>2, Became DEF IInv
<1>4. ProcInv(p)'
  BY <1>1, <1>3 DEF ProcInv
<1>5. ReliefInv(p)'
  BY <1>1, <1>3 DEF ReliefInv
<1> QED BY <1>1, <1>3, <1>4, <1>5, StepQuiet

--------------------------------------------------------------------------------
(* An attempt and its outputs. *)

LEMMA AttemptKeeps ==
  ASSUME IInv, NEW p \in Procs, Attempt(p)
  PROVE  IInv'
<1>1. PICK outputs \in SUBSET Artifacts :
         /\ attempts < MaxAttempts /\ attempts' = attempts + 1
         /\ Become(p, [Idle EXCEPT !.step = "put", !.work = outputs])
         /\ UNCHANGED <<store, faults>>
  BY DEF Attempt
<1> DEFINE r == [Idle EXCEPT !.step = "put", !.work = outputs]
<1>2. r \in ProcState /\ r.step = "put" /\ r.out = {} /\ r.temp = {} /\ r.disturbed = FALSE
  <2>1. Idle.out = {} /\ Idle.temp = {} /\ Idle.disturbed = FALSE
    BY DEF Idle
  <2> QED BY <2>1, IdleTyped DEF ProcState
<1>3. Become(p, r)
  BY <1>1
<1> HIDE DEF r
<1>4. /\ proc' \in [Procs -> ProcState] /\ proc'[p] = r
      /\ \A q \in Procs : q # p => proc'[q] = proc[q]
  BY <1>2, <1>3, Became DEF IInv
<1>5. attempts' \in 0..MaxAttempts /\ faults' \in 0..MaxFaults
  BY <1>1, StorageAssumption DEF IInv, StoreInv
<1>6. StoreInv'
  BY <1>1, <1>5, StoreKept DEF IInv
<1>7. ProcInv(p)' /\ ReliefInv(p)'
  BY <1>2, <1>4 DEF ProcInv, ReliefInv
<1>8. files' = files /\ dropped' = dropped /\ recorded' = recorded
  BY <1>1 DEF store
<1> QED BY <1>2, <1>4, <1>6, <1>7, <1>8, StepQuiet

(* Steps that only put the process elsewhere. *)
LEMMA GoKeeps ==
  ASSUME IInv, NEW p \in Procs, NEW s \in {"down", "idle", "pin", "relieve"}, GoTo(p, s),
         UNCHANGED <<store, attempts>>, UNCHANGED faults \/ Fault
  PROVE  IInv'
<1>1. attempts' \in 0..MaxAttempts /\ faults' \in 0..MaxFaults
  BY Faulted DEF IInv, StoreInv
<1>2. StoreInv'
  BY <1>1, StoreKept DEF IInv
<1> QED BY <1>2, Goes DEF store

LEMMA PutHeldKeeps ==
  ASSUME IInv, NEW p \in Procs, PutHeld(p)
  PROVE  IInv'
<1>1. PICK a \in proc[p].work :
         /\ At(p, "put") /\ Held(a)
         /\ Become(p, [proc[p] EXCEPT !.step = "attach", !.art = {a}])
         /\ UNCHANGED <<store, attempts, faults>>
  BY DEF PutHeld
<1> DEFINE r == [proc[p] EXCEPT !.step = "attach", !.art = {a}]
<1>2. proc[p] \in ProcState /\ a \in Artifacts /\ ProcInv(p)
  BY DEF IInv, ProcState
<1>3. r \in ProcState /\ r.step = "attach" /\ r.art = {a} /\ r.out = proc[p].out /\ r.temp = proc[p].temp
  BY <1>2 DEF ProcState
<1>4. Become(p, r)
  BY <1>1
<1> HIDE DEF r
<1>5. /\ proc' \in [Procs -> ProcState] /\ proc'[p] = r
      /\ \A q \in Procs : q # p => proc'[q] = proc[q]
  BY <1>3, <1>4, Became DEF IInv
<1>6. StoreInv'
  BY <1>1, StoreKept DEF IInv, StoreInv
<1>7. files' = files /\ dropped' = dropped /\ recorded' = recorded
  BY <1>1 DEF store
<1>8. ProcInv(p)'
  BY <1>1, <1>2, <1>3, <1>5, <1>7 DEF ProcInv, At, Held
<1>9. ReliefInv(p)'
  BY <1>3, <1>5 DEF ReliefInv
<1> QED BY <1>3, <1>5, <1>6, <1>7, <1>8, <1>9, StepQuiet

LEMMA AttachKeeps ==
  ASSUME IInv, NEW p \in Procs, AttachArtifact(p)
  PROVE  IInv'
<1> DEFINE r == [proc[p] EXCEPT !.step = "put", !.work = @ \ proc[p].art, !.art = {},
                                !.out = @ \cup proc[p].art]
<1>1. proc[p] \in ProcState /\ ProcInv(p) /\ At(p, "attach")
  BY DEF IInv, AttachArtifact
<1>2. r \in ProcState /\ r.step = "put" /\ r.out = proc[p].out \cup proc[p].art /\ r.temp = proc[p].temp
  BY <1>1 DEF ProcState
<1>3. Become(p, r) /\ recorded' = recorded \cup proc[p].art
  BY DEF AttachArtifact
<1> HIDE DEF r
<1>4. /\ proc' \in [Procs -> ProcState] /\ proc'[p] = r
      /\ \A q \in Procs : q # p => proc'[q] = proc[q]
  BY <1>2, <1>3, Became DEF IInv
<1>5. UNCHANGED <<files, named, pins, pinned, dropped, attempts, faults>>
  BY DEF AttachArtifact
<1>6. proc[p].art \subseteq DOMAIN files \cup dropped /\ proc[p].art \subseteq Artifacts
  BY <1>1 DEF ProcInv, At, ProcState
<1>7. StoreInv'
  BY <1>3, <1>5, <1>6 DEF IInv, StoreInv, HeldIsWhole, RecordedOrDropped
<1>8. ProcInv(p)'
  BY <1>1, <1>2, <1>3, <1>4 DEF ProcInv, At
<1>9. ReliefInv(p)'
  BY <1>2, <1>4 DEF ReliefInv
<1> QED BY <1>2, <1>3, <1>4, <1>5, <1>7, <1>8, <1>9, StepQuiet

LEMMA AttachFailsKeeps ==
  ASSUME IInv, NEW p \in Procs, AttachFails(p)
  PROVE  IInv'
<1> DEFINE r == [proc[p] EXCEPT !.step = "put", !.work = {}, !.art = {}]
<1>1. proc[p] \in ProcState /\ ProcInv(p) /\ At(p, "attach")
  BY DEF IInv, AttachFails
<1>2. r \in ProcState /\ r.step = "put" /\ r.out = proc[p].out /\ r.temp = proc[p].temp
  BY <1>1 DEF ProcState
<1>3. Become(p, r) /\ UNCHANGED <<store, attempts>> /\ Fault
  BY DEF AttachFails
<1> HIDE DEF r
<1>4. /\ proc' \in [Procs -> ProcState] /\ proc'[p] = r
      /\ \A q \in Procs : q # p => proc'[q] = proc[q]
  BY <1>2, <1>3, Became DEF IInv
<1>5. attempts' \in 0..MaxAttempts /\ faults' \in 0..MaxFaults
  BY <1>3, Faulted DEF IInv, StoreInv
<1>6. StoreInv'
  BY <1>3, <1>5, StoreKept DEF IInv
<1>7. files' = files /\ dropped' = dropped /\ recorded' = recorded
  BY <1>3 DEF store
<1>8. ProcInv(p)'
  BY <1>1, <1>2, <1>4, <1>7 DEF ProcInv, At
<1>9. ReliefInv(p)'
  BY <1>2, <1>4 DEF ReliefInv
<1> QED BY <1>2, <1>4, <1>6, <1>7, <1>8, <1>9, StepQuiet

(* Writing the attempt and pinning it. *)
LEMMA WriteAttemptKeeps ==
  ASSUME IInv, NEW p \in Procs, WriteAttempt(p)
  PROVE  IInv'
<1>1. /\ named' = named \cup proc[p].out /\ GoTo(p, "pin")
      /\ UNCHANGED <<files, recorded, pins, pinned, dropped, attempts, faults>>
  BY DEF WriteAttempt
<1>2. proc[p].out \subseteq recorded
  BY DEF IInv, ProcInv
<1>3. StoreInv'
  BY <1>1, <1>2 DEF IInv, StoreInv, HeldIsWhole, RecordedOrDropped
<1> QED BY <1>1, <1>3, Goes

LEMMA PinKeeps ==
  ASSUME IInv, NEW p \in Procs, Pin(p)
  PROVE  IInv'
<1>1. /\ pinned' = pinned + 1 /\ pins' = pins \cup {pinned + 1} /\ GoTo(p, "relieve")
      /\ UNCHANGED <<files, recorded, named, dropped, attempts, faults>>
  BY DEF Pin
<1>2. pinned' \in Nat /\ pins' \subseteq 1..pinned'
  BY <1>1 DEF IInv, StoreInv
<1>3. StoreInv'
  BY <1>1, <1>2 DEF IInv, StoreInv, HeldIsWhole, RecordedOrDropped
<1> QED BY <1>1, <1>3, Goes

--------------------------------------------------------------------------------
(* Copying. *)

(* Writing a temporary file. *)
LEMMA Written ==
  ASSUME StoreInv, NEW t \in Temps, NEW f, FileOK(f), files' = With(t, f),
         UNCHANGED <<recorded, named, pins, pinned, dropped, attempts, faults>>
  PROVE  /\ StoreInv'
         /\ DOMAIN files' = DOMAIN files \cup {t} /\ files'[t] = f
         /\ \A n \in DOMAIN files : n # t => files'[n] = files[n]
<1>1. /\ DOMAIN files' = DOMAIN files \cup {t} /\ files'[t] = f
      /\ \A n \in DOMAIN files : n # t => files'[n] = files[n]
      /\ files' = [n \in DOMAIN files' |-> files'[n]]
  BY DEF With
<1>2. \A n \in DOMAIN files' : FileOK(files'[n])
  BY <1>1 DEF StoreInv
<1>3. HeldIsWhole'
  BY <1>1, StorageAssumption DEF StoreInv, HeldIsWhole
<1>4. RecordedOrDropped'
  BY <1>1 DEF StoreInv, RecordedOrDropped
<1> HIDE DEF FileOK
<1> QED BY <1>1, <1>2, <1>3, <1>4 DEF StoreInv, Names

LEMMA PutNewKeeps ==
  ASSUME IInv, NEW p \in Procs, PutNew(p)
  PROVE  IInv'
<1>1. PICK a \in proc[p].work, t \in Names :
         /\ t \in CopyNames(a)
         /\ files' = With(t, [of |-> a, len |-> 0])
         /\ Touches(p, [proc[p] EXCEPT !.step = "copy", !.art = {a}, !.temp = {t}])
         /\ UNCHANGED <<recorded, named, pins, pinned, dropped, attempts, faults>>
  BY DEF PutNew
<1> DEFINE r == [proc[p] EXCEPT !.step = "copy", !.art = {a}, !.temp = {t}]
           f == [of |-> a, len |-> 0]
<1>2. proc[p] \in ProcState /\ a \in Artifacts /\ t \in Temps /\ t \notin DOMAIN files /\ ProcInv(p)
  BY <1>1 DEF IInv, ProcState, CopyNames
<1>3. r \in ProcState /\ r.step = "copy" /\ r.art = {a} /\ r.out = proc[p].out /\ r.temp = {t}
  BY <1>2 DEF ProcState, Names
<1>4. Touches(p, r) /\ files' = With(t, f)
  BY <1>1
<1>5. FileOK(f) /\ f.of = a
  BY <1>2, StorageAssumption DEF FileOK
<1> HIDE DEF r, f
<1>6. /\ proc' \in [Procs -> ProcState] /\ proc'[p] = r
      /\ \A q \in Procs : q # p => Alike(proc'[q], proc[q])
  BY <1>3, <1>4, Touched DEF IInv
<1>7. /\ StoreInv'
      /\ DOMAIN files' = DOMAIN files \cup {t} /\ files'[t] = f
      /\ \A n \in DOMAIN files : n # t => files'[n] = files[n]
  BY <1>1, <1>2, <1>4, <1>5, Written DEF IInv
<1>8. ProcInv(p)'
  BY <1>1, <1>2, <1>3, <1>5, <1>6, <1>7 DEF ProcInv
<1>9. ReliefInv(p)'
  BY <1>3, <1>6 DEF ReliefInv
<1>10. \A q \in Procs : q # p => proc'[p].temp \cap proc[q].temp = {}
  BY <1>2, <1>3, <1>6 DEF IInv, ProcInv
<1>11. \A q \in Procs : q # p => \A u \in proc[q].temp :
          u \in DOMAIN files => u \in DOMAIN files' /\ files'[u].of = files[u].of
  BY <1>2, <1>7
<1> QED BY <1>1, <1>6, <1>7, <1>8, <1>9, <1>10, <1>11, StepTouch

LEMMA CopyKeeps ==
  ASSUME IInv, NEW p \in Procs, Copy(p)
  PROVE  IInv'
<1>0. PICK a \in proc[p].art, t \in proc[p].temp :
         /\ At(p, "copy")
         /\ \E n \in files[t].len + 1 .. Size[a] : files' = With(t, [of |-> a, len |-> n])
         /\ Touches(p, proc[p])
         /\ UNCHANGED <<recorded, named, pins, pinned, dropped, attempts, faults>>
  BY DEF Copy
<1>1. PICK n \in files[t].len + 1 .. Size[a] : files' = With(t, [of |-> a, len |-> n])
  BY <1>0
<1> DEFINE f == [of |-> a, len |-> n]
<1>2. proc[p] \in ProcState /\ ProcInv(p) /\ proc[p].step = "copy"
  BY <1>0 DEF IInv, At
<1>3. /\ a \in Artifacts /\ t \in Temps /\ t \in DOMAIN files /\ files[t].of = a
      /\ proc[p].art = {a} /\ proc[p].temp = {t}
  BY <1>0, <1>2 DEF ProcInv
<1>4. files' = With(t, f)
  BY <1>1
<1>5. FileOK(f) /\ f.of = a
  <2>1. files[t].len \in Nat /\ Size[a] \in Nat
    BY <1>3, StorageAssumption DEF IInv, StoreInv, FileOK
  <2> QED BY <1>1, <1>3, <2>1 DEF FileOK
<1> HIDE DEF f
<1>6. /\ proc' \in [Procs -> ProcState] /\ proc'[p] = proc[p]
      /\ \A q \in Procs : q # p => Alike(proc'[q], proc[q])
  BY <1>0, <1>2, Touched DEF IInv
<1>7. /\ StoreInv'
      /\ DOMAIN files' = DOMAIN files \cup {t} /\ files'[t] = f
      /\ \A m \in DOMAIN files : m # t => files'[m] = files[m]
  BY <1>0, <1>3, <1>4, <1>5, Written DEF IInv
<1>8. ProcInv(p)'
  <2>1. t \in Temps \cap DOMAIN files' /\ files'[t].of = a
    BY <1>3, <1>5, <1>7
  <2>2. proc'[p].out \subseteq recorded' /\ proc'[p].step = "copy"
    BY <1>0, <1>2, <1>6 DEF ProcInv
  <2> QED BY <1>3, <1>6, <2>1, <2>2 DEF ProcInv
<1>9. ReliefInv(p)'
  BY <1>2, <1>6 DEF ReliefInv
<1>10. \A q \in Procs : q # p => proc'[p].temp \cap proc[q].temp = {}
  BY <1>6 DEF IInv, OwnTemps
<1>11. \A q \in Procs : q # p => \A u \in proc[q].temp :
          u \in DOMAIN files => u \in DOMAIN files' /\ files'[u].of = files[u].of
  BY <1>3, <1>5, <1>7
<1> QED BY <1>0, <1>6, <1>7, <1>8, <1>9, <1>10, <1>11, StepTouch

LEMMA RenameKeeps ==
  ASSUME IInv, NEW p \in Procs, Rename(p)
  PROVE  IInv'
<1>1. PICK a \in proc[p].art, t \in proc[p].temp :
         /\ At(p, "copy") /\ files[t].len = Size[a]
         /\ files' = Renamed(t, a)
         /\ Touches(p, [proc[p] EXCEPT !.step = "attach", !.temp = {}])
         /\ UNCHANGED <<recorded, named, pins, pinned, dropped, attempts, faults>>
  BY DEF Rename
<1> DEFINE r == [proc[p] EXCEPT !.step = "attach", !.temp = {}]
<1>2. proc[p] \in ProcState /\ ProcInv(p) /\ proc[p].step = "copy"
  BY <1>1 DEF IInv, At
<1>3. /\ a \in Artifacts /\ t \in Temps /\ t \in DOMAIN files /\ files[t].of = a
      /\ proc[p].art = {a} /\ proc[p].temp = {t} /\ t # a
  BY <1>1, <1>2, StorageAssumption DEF ProcInv
<1>4. r \in ProcState /\ r.step = "attach" /\ r.art = {a} /\ r.out = proc[p].out /\ r.temp = {}
  BY <1>2, <1>3 DEF ProcState
<1>5. Touches(p, r)
  BY <1>1
<1> HIDE DEF r
<1>6. /\ proc' \in [Procs -> ProcState] /\ proc'[p] = r
      /\ \A q \in Procs : q # p => Alike(proc'[q], proc[q])
  BY <1>4, <1>5, Touched DEF IInv
<1>7. /\ DOMAIN files' = (DOMAIN files \ {t}) \cup {a} /\ files'[a] = files[t]
      /\ \A m \in DOMAIN files : m # t /\ m # a => files'[m] = files[m]
      /\ files' = [m \in DOMAIN files' |-> files'[m]]
  BY <1>1 DEF Renamed
<1>8. FileOK(files[t])
  BY <1>3 DEF IInv, StoreInv
<1>9. files'[a] = [of |-> a, len |-> Size[a]]
  BY <1>1, <1>3, <1>7, <1>8 DEF FileOK
<1>10. StoreInv'
  <2>1. \A m \in DOMAIN files' : FileOK(files'[m])
    BY <1>7, <1>8 DEF IInv, StoreInv
  <2>2. HeldIsWhole'
    BY <1>3, <1>7, <1>9, StorageAssumption DEF IInv, StoreInv, HeldIsWhole
  <2>3. RecordedOrDropped'
    BY <1>1, <1>3, <1>7, StorageAssumption DEF IInv, StoreInv, RecordedOrDropped
  <2>4. DOMAIN files' \subseteq Names
    BY <1>3, <1>7 DEF IInv, StoreInv, Names
  <2> HIDE DEF FileOK
  <2> QED BY <1>1, <1>7, <2>1, <2>2, <2>3, <2>4 DEF IInv, StoreInv
<1>11. ProcInv(p)'
  BY <1>1, <1>2, <1>4, <1>6, <1>7 DEF ProcInv
<1>12. ReliefInv(p)'
  BY <1>4, <1>6 DEF ReliefInv
<1>13. \A q \in Procs : q # p => proc'[p].temp \cap proc[q].temp = {}
  BY <1>4, <1>6
<1>14. \A q \in Procs : q # p => \A u \in proc[q].temp :
          u \in DOMAIN files => u \in DOMAIN files' /\ files'[u].of = files[u].of
  <2> SUFFICES ASSUME NEW q \in Procs, q # p, NEW u \in proc[q].temp, u \in DOMAIN files
               PROVE u \in DOMAIN files' /\ files'[u].of = files[u].of
    OBVIOUS
  <2>1. u # t
    BY <1>3 DEF IInv, OwnTemps
  <2>2. u \in Temps
    BY DEF IInv, ProcInv
  <2>3. u # a
    BY <1>3, <2>2, StorageAssumption
  <2> QED BY <1>7, <2>1, <2>3
<1>15. \A m \in Artifacts : m \in DOMAIN files \cup dropped => m \in DOMAIN files' \cup dropped'
  BY <1>1, <1>3, <1>7, StorageAssumption
<1> QED BY <1>1, <1>6, <1>10, <1>11, <1>12, <1>13, <1>14, <1>15, StepTouch

(* Removing files nobody copies into, or only the process itself. *)
LEMMA Removed ==
  ASSUME StoreInv, NEW ns, files' = Without(ns), dropped \subseteq dropped', dropped' \subseteq Artifacts,
         ns \cap Artifacts \subseteq dropped',
         UNCHANGED <<recorded, named, pins, pinned, attempts>>, faults' \in 0..MaxFaults
  PROVE  /\ StoreInv'
         /\ DOMAIN files' = DOMAIN files \ ns
         /\ \A n \in DOMAIN files' : files'[n] = files[n]
<1>1. /\ DOMAIN files' = DOMAIN files \ ns
      /\ \A n \in DOMAIN files' : files'[n] = files[n]
      /\ files' = [n \in DOMAIN files' |-> files'[n]]
  BY DEF Without
<1>2. \A n \in DOMAIN files' : FileOK(files'[n])
  BY <1>1 DEF StoreInv
<1>3. HeldIsWhole'
  BY <1>1 DEF StoreInv, HeldIsWhole
<1>4. RecordedOrDropped'
  BY <1>1 DEF StoreInv, RecordedOrDropped
<1> HIDE DEF FileOK
<1> QED BY <1>1, <1>2, <1>3, <1>4 DEF StoreInv

LEMMA CopyFailsKeeps ==
  ASSUME IInv, NEW p \in Procs, CopyFails(p)
  PROVE  IInv'
<1> DEFINE r == [proc[p] EXCEPT !.step = "put", !.work = {}, !.art = {}, !.temp = {}]
<1>1. /\ At(p, "copy") /\ Fault /\ files' = Without(proc[p].temp) /\ Touches(p, r)
      /\ UNCHANGED <<recorded, named, pins, pinned, dropped, attempts>>
  BY DEF CopyFails
<1>2. proc[p] \in ProcState /\ ProcInv(p) /\ proc[p].step = "copy"
  BY <1>1 DEF IInv, At
<1>3. proc[p].temp \subseteq Temps
  BY <1>2 DEF ProcInv
<1>4. r \in ProcState /\ r.step = "put" /\ r.out = proc[p].out /\ r.temp = {}
  BY <1>2 DEF ProcState
<1> HIDE DEF r
<1>5. /\ proc' \in [Procs -> ProcState] /\ proc'[p] = r
      /\ \A q \in Procs : q # p => Alike(proc'[q], proc[q])
  BY <1>1, <1>4, Touched DEF IInv
<1>6. faults' \in 0..MaxFaults
  BY <1>1, Faulted DEF IInv, StoreInv
<1>7. /\ StoreInv'
      /\ DOMAIN files' = DOMAIN files \ proc[p].temp
      /\ \A n \in DOMAIN files' : files'[n] = files[n]
  BY <1>1, <1>3, <1>6, Removed, StorageAssumption DEF IInv, StoreInv
<1>8. ProcInv(p)'
  BY <1>1, <1>2, <1>4, <1>5 DEF ProcInv
<1>9. ReliefInv(p)'
  BY <1>4, <1>5 DEF ReliefInv
<1>10. \A q \in Procs : q # p => proc'[p].temp \cap proc[q].temp = {}
  BY <1>4, <1>5
<1>11. \A q \in Procs : q # p => \A u \in proc[q].temp :
          u \in DOMAIN files => u \in DOMAIN files' /\ files'[u].of = files[u].of
  BY <1>7 DEF IInv, OwnTemps
<1>12. \A m \in Artifacts : m \in DOMAIN files \cup dropped => m \in DOMAIN files' \cup dropped'
  BY <1>1, <1>3, <1>7, StorageAssumption
<1> QED BY <1>1, <1>5, <1>7, <1>8, <1>9, <1>10, <1>11, <1>12, StepTouch

--------------------------------------------------------------------------------
(* Relief. *)

LEMMA RelieveKeeps ==
  ASSUME IInv, NEW p \in Procs, Relieve(p)
  PROVE  IInv'
<1>1. UNCHANGED <<store, attempts, faults>>
  BY DEF Relieve
<1>2. CASE GoTo(p, "idle")
  BY <1>1, <1>2, GoKeeps
<1>3. CASE Over /\ Become(p, [Idle EXCEPT !.step = "list", !.over = TRUE])
  <2> DEFINE r == [Idle EXCEPT !.step = "list", !.over = TRUE]
  <2>1. /\ r \in ProcState /\ r.step = "list" /\ r.over = TRUE
        /\ r.out = {} /\ r.temp = {}
    <3>1. Idle.out = {} /\ Idle.temp = {}
      BY DEF Idle
    <3> QED BY <3>1, IdleTyped DEF ProcState
  <2>2. Become(p, r)
    BY <1>3
  <2> HIDE DEF r
  <2>3. /\ proc' \in [Procs -> ProcState] /\ proc'[p] = r
        /\ \A q \in Procs : q # p => proc'[q] = proc[q]
    BY <2>1, <2>2, Became DEF IInv
  <2>4. StoreInv'
    BY <1>1, StoreKept DEF IInv, StoreInv
  <2>5. ProcInv(p)'
    BY <2>1, <2>3 DEF ProcInv
  <2>6. UsedBytes' = UsedBytes /\ UsedBytes > StorageBytes
    BY <1>1, <1>3 DEF UsedBytes, Over, store
  <2>7. ReliefInv(p)'
    BY <2>1, <2>3, <2>6 DEF ReliefInv
  <2>8. files' = files /\ dropped' = dropped /\ recorded' = recorded
    BY <1>1 DEF store
  <2> QED BY <2>1, <2>3, <2>4, <2>5, <2>7, <2>8, StepQuiet
<1> QED BY <1>2, <1>3 DEF Relieve

LEMMA CandidatesKeeps ==
  ASSUME IInv, NEW p \in Procs, Candidates(p)
  PROVE  IInv'
<1> DEFINE r == [proc[p] EXCEPT !.step = "release", !.listed = List]
<1>1. At(p, "list") /\ Become(p, r) /\ UNCHANGED <<store, attempts, faults>>
  BY DEF Candidates
<1>2. proc[p] \in ProcState /\ ProcInv(p) /\ ReliefInv(p) /\ proc[p].step = "list"
  BY <1>1 DEF IInv, At
<1>3. List \subseteq [name : Names, size : Nat]
  <2> SUFFICES ASSUME NEW n \in DOMAIN files
               PROVE [name |-> n, size |-> files[n].len] \in [name : Names, size : Nat]
    BY DEF List
  <2>1. FileOK(files[n]) /\ n \in Names
    BY DEF IInv, StoreInv
  <2>2. files[n].len \in Nat
    BY <2>1, StorageAssumption DEF FileOK
  <2> QED BY <2>1, <2>2
<1>4. /\ \A n : n \in DOMAIN files <=> \E e \in List : e.name = n
      /\ \A e, f \in List : e.name = f.name => e = f
  <2> DEFINE E(n) == [name |-> n, size |-> files[n].len]
  <2>1. List = {E(n) : n \in DOMAIN files}
    BY DEF List
  <2>2. \A n : E(n).name = n
    OBVIOUS
  <2> HIDE DEF E
  <2> QED BY <2>1, <2>2
<1>5. /\ r \in ProcState /\ r.step = "release" /\ r.listed = List /\ r.over = proc[p].over
      /\ r.disturbed = proc[p].disturbed /\ r.out = proc[p].out /\ r.temp = proc[p].temp
  <2> HIDE DEF List
  <2> QED BY <1>2, <1>3 DEF ProcState
<1> HIDE DEF r, List
<1>6. /\ proc' \in [Procs -> ProcState] /\ proc'[p] = r
      /\ \A q \in Procs : q # p => proc'[q] = proc[q]
  BY <1>1, <1>5, Became DEF IInv
<1>7. StoreInv'
  BY <1>1, StoreKept DEF IInv, StoreInv
<1>8. files' = files /\ dropped' = dropped /\ recorded' = recorded
  BY <1>1 DEF store
<1>9. ProcInv(p)'
  BY <1>2, <1>5, <1>6, <1>8 DEF ProcInv
<1>10. UsedBytes' = UsedBytes
  BY <1>8 DEF UsedBytes
<1>11. ReliefInv(p)'
  BY <1>2, <1>4, <1>5, <1>6, <1>8, <1>10 DEF ReliefInv
<1> QED BY <1>5, <1>6, <1>7, <1>8, <1>9, <1>11, StepQuiet

LEMMA ReleaseKeeps ==
  ASSUME IInv, NEW p \in Procs, Release(p)
  PROVE  IInv'
<1>1. PICK e \in LargestOf(proc[p].listed) :
         /\ At(p, "release") /\ More(p) /\ e.name \in Artifacts
         /\ files' = Without({e.name}) /\ dropped' = dropped \cup {e.name}
         /\ Touches(p, [proc[p] EXCEPT !.step = "measure", !.listed = @ \ {e}])
         /\ UNCHANGED <<recorded, named, pins, pinned, attempts, faults>>
  BY DEF Release
<1> DEFINE r == [proc[p] EXCEPT !.step = "measure", !.listed = @ \ {e}]
<1>2. proc[p] \in ProcState /\ ProcInv(p) /\ ReliefInv(p) /\ proc[p].step = "release"
  BY <1>1 DEF IInv, At
<1>3. e \in proc[p].listed
  BY <1>1 DEF LargestOf
<1>4. /\ r \in ProcState /\ r.step = "measure" /\ r.listed = proc[p].listed \ {e}
      /\ r.disturbed = proc[p].disturbed /\ r.out = proc[p].out /\ r.temp = proc[p].temp
  BY <1>2 DEF ProcState
<1>5. Touches(p, r)
  BY <1>1
<1> HIDE DEF r
<1>6. /\ proc' \in [Procs -> ProcState] /\ proc'[p] = r
      /\ \A q \in Procs : q # p => Alike(proc'[q], proc[q])
  BY <1>4, <1>5, Touched DEF IInv
<1>7. /\ StoreInv'
      /\ DOMAIN files' = DOMAIN files \ {e.name}
      /\ \A n \in DOMAIN files' : files'[n] = files[n]
  <2>1. dropped' \subseteq Artifacts /\ faults' \in 0..MaxFaults
    BY <1>1 DEF IInv, StoreInv
  <2> QED BY <1>1, <2>1, Removed DEF IInv
<1>8. ProcInv(p)'
  BY <1>1, <1>2, <1>4, <1>6 DEF ProcInv
<1>9. ReliefInv(p)'
  <2> SUFFICES ASSUME ~proc[p].disturbed
               PROVE /\ \A n : n \in DOMAIN files' <=> \E f \in r.listed : f.name = n
                     /\ \A f, g \in r.listed : f.name = g.name => f = g
    BY <1>4, <1>6 DEF ReliefInv
  <2>1. /\ \A n : n \in DOMAIN files <=> \E f \in proc[p].listed : f.name = n
        /\ \A f, g \in proc[p].listed : f.name = g.name => f = g
    BY <1>2 DEF ReliefInv
  <2> QED BY <1>3, <1>4, <1>7, <2>1
<1>10. \A q \in Procs : q # p => proc'[p].temp \cap proc[q].temp = {}
  BY <1>4, <1>6 DEF IInv, OwnTemps
<1>11. \A q \in Procs : q # p => \A u \in proc[q].temp :
          u \in DOMAIN files => u \in DOMAIN files' /\ files'[u].of = files[u].of
  <2> SUFFICES ASSUME NEW q \in Procs, NEW u \in proc[q].temp
               PROVE u # e.name
    BY <1>7
  <2>1. u \in Temps
    BY DEF IInv, ProcInv
  <2> QED BY <1>1, <2>1, StorageAssumption
<1>12. \A m \in Artifacts : m \in DOMAIN files \cup dropped => m \in DOMAIN files' \cup dropped'
  BY <1>1, <1>7
<1> QED BY <1>1, <1>6, <1>7, <1>8, <1>9, <1>10, <1>11, <1>12, StepTouch

LEMMA MeasureKeeps ==
  ASSUME IInv, NEW p \in Procs, Measure(p)
  PROVE  IInv'
<1> DEFINE r == [proc[p] EXCEPT !.step = "release", !.over = Measured(p)]
<1>1. At(p, "measure") /\ Become(p, r) /\ UNCHANGED <<store, attempts, faults>>
  BY DEF Measure
<1>2. proc[p] \in ProcState /\ ProcInv(p) /\ ReliefInv(p) /\ proc[p].step = "measure"
  BY <1>1 DEF IInv, At
<1>3. Measured(p) \in BOOLEAN /\ Measured(p) = (UsedBytes > StorageBytes)
  BY DEF Measured
<1>4. /\ r \in ProcState /\ r.step = "release" /\ r.listed = proc[p].listed /\ r.over = Measured(p)
      /\ r.disturbed = proc[p].disturbed /\ r.out = proc[p].out /\ r.temp = proc[p].temp
  <2> HIDE DEF Measured
  <2> QED BY <1>2, <1>3 DEF ProcState
<1> HIDE DEF r
<1>5. /\ proc' \in [Procs -> ProcState] /\ proc'[p] = r
      /\ \A q \in Procs : q # p => proc'[q] = proc[q]
  BY <1>1, <1>4, Became DEF IInv
<1>6. StoreInv'
  BY <1>1, StoreKept DEF IInv, StoreInv
<1>7. files' = files /\ dropped' = dropped /\ recorded' = recorded
  BY <1>1 DEF store
<1>8. ProcInv(p)'
  BY <1>2, <1>4, <1>5, <1>7 DEF ProcInv
<1>9. UsedBytes' = UsedBytes
  BY <1>7 DEF UsedBytes
<1>10. ReliefInv(p)'
  BY <1>2, <1>3, <1>4, <1>5, <1>7, <1>9 DEF ReliefInv
<1> QED BY <1>4, <1>5, <1>6, <1>7, <1>8, <1>10, StepQuiet

LEMMA NothingUsed ==
  ASSUME DOMAIN files = {}
  PROVE  UsedBytes = 0
BY DEF UsedBytes, Bytes

LEMMA RelievedKeeps ==
  ASSUME IInv, NEW p \in Procs, Relieved(p)
  PROVE  IInv'
<1>1. At(p, "release") /\ ~More(p) /\ UNCHANGED <<store, attempts, faults>>
  BY DEF Relieved
<1>2. CASE GoTo(p, "idle")
  BY <1>1, <1>2, GoKeeps
<1>3. CASE /\ StillOver(p)
           /\ Become(p, [proc[p] EXCEPT !.step = "unpin", !.listed = {}, !.toUnpin = pins])
  <2> DEFINE r == [proc[p] EXCEPT !.step = "unpin", !.listed = {}, !.toUnpin = pins]
  <2>1. proc[p] \in ProcState /\ ProcInv(p) /\ ReliefInv(p) /\ proc[p].step = "release"
    BY <1>1 DEF IInv, At
  <2>2. pins \subseteq Nat
    BY DEF IInv, StoreInv
  <2>3. /\ r \in ProcState /\ r.step = "unpin" /\ r.disturbed = proc[p].disturbed
        /\ r.out = proc[p].out /\ r.temp = proc[p].temp
    BY <2>1, <2>2 DEF ProcState
  <2>4. Become(p, r)
    BY <1>3
  <2> HIDE DEF r
  <2>5. /\ proc' \in [Procs -> ProcState] /\ proc'[p] = r
        /\ \A q \in Procs : q # p => proc'[q] = proc[q]
    BY <2>3, <2>4, Became DEF IInv
  <2>6. StoreInv'
    BY <1>1, StoreKept DEF IInv, StoreInv
  <2>7. files' = files /\ dropped' = dropped /\ recorded' = recorded
    BY <1>1 DEF store
  <2>8. ProcInv(p)'
    BY <2>1, <2>3, <2>5, <2>7 DEF ProcInv
  <2>9. proc[p].over /\ proc[p].listed = {}
    BY <1>1, <1>3 DEF More, StillOver
  <2>10. proc[p].disturbed
    <3> SUFFICES ASSUME ~proc[p].disturbed PROVE FALSE
      OBVIOUS
    <3>1. DOMAIN files = {} /\ UsedBytes > StorageBytes
      BY <2>1, <2>9 DEF ReliefInv
    <3> QED BY <3>1, NothingUsed, StorageAssumption
  <2>11. ReliefInv(p)'
    BY <2>3, <2>5, <2>10 DEF ReliefInv
  <2> QED BY <2>3, <2>5, <2>6, <2>7, <2>8, <2>11, StepQuiet
<1> QED BY <1>2, <1>3 DEF Relieved

LEMMA UnpinKeeps ==
  ASSUME IInv, NEW p \in Procs, Unpin(p)
  PROVE  IInv'
<1> DEFINE soonest == Min(proc[p].toUnpin)
           n == IF soonest \in pins THEN proc[p].released + 1 ELSE proc[p].released
           r == [proc[p] EXCEPT !.toUnpin = @ \ {soonest}, !.released = n]
<1>1. /\ At(p, "unpin") /\ ~Enough(p) /\ pins' = pins \ {soonest}
      /\ UNCHANGED <<files, recorded, named, pinned, dropped, attempts, faults>>
  BY DEF Unpin
<1>2. proc[p] \in ProcState /\ ProcInv(p) /\ ReliefInv(p) /\ proc[p].step = "unpin"
  BY <1>1 DEF IInv, At
<1>3. Become(p, [proc[p] EXCEPT !.toUnpin = @ \ {soonest},
                   !.released = IF soonest \in pins THEN @ + 1 ELSE @])
  BY DEF Unpin
<1>4. proc[p].released \in 0..PinsPerReliefPass /\ n \in 0..PinsPerReliefPass
  <2>1. proc[p].released \in 0..PinsPerReliefPass
    BY <1>2 DEF ProcState
  <2>2. ~(proc[p].released >= PinsPerReliefPass)
    BY <1>1 DEF Enough
  <2> HIDE DEF soonest
  <2> QED BY <2>1, <2>2, StorageAssumption
<1> HIDE DEF soonest
<1>5. Become(p, r)
  BY <1>2, <1>3 DEF ProcState
<1> HIDE DEF n
<1>6. /\ r \in ProcState /\ r.step = "unpin" /\ r.disturbed = proc[p].disturbed
      /\ r.out = proc[p].out /\ r.temp = proc[p].temp
  BY <1>2, <1>4 DEF ProcState
<1> HIDE DEF r
<1>7. /\ proc' \in [Procs -> ProcState] /\ proc'[p] = r
      /\ \A q \in Procs : q # p => proc'[q] = proc[q]
  BY <1>5, <1>6, Became DEF IInv
<1>8. StoreInv'
  BY <1>1 DEF IInv, StoreInv, HeldIsWhole, RecordedOrDropped
<1>9. ProcInv(p)'
  BY <1>1, <1>2, <1>6, <1>7 DEF ProcInv
<1>10. ReliefInv(p)'
  BY <1>2, <1>6, <1>7 DEF ReliefInv
<1> QED BY <1>1, <1>6, <1>7, <1>8, <1>9, <1>10, StepQuiet

--------------------------------------------------------------------------------
(* The invariant holds of every behaviour. *)

LEMMA InitInv == Init => IInv
<1> SUFFICES ASSUME Init PROVE IInv
  OBVIOUS
<1>1. Idle \in ProcState /\ Idle.step = "idle" /\ Idle.out = {} /\ Idle.temp = {}
  BY IdleTyped DEF Idle
<1>2. proc = [p \in Procs |-> Idle]
  BY DEF Init
<1> HIDE DEF Idle
<1>3. DOMAIN files = {} /\ files = [n \in DOMAIN files |-> files[n]]
  BY DEF Init, NoFiles
<1>4. StoreInv
  BY <1>3, StorageAssumption DEF Init, StoreInv, HeldIsWhole, RecordedOrDropped
<1>5. \A p \in Procs : ProcInv(p) /\ ReliefInv(p)
  BY <1>1, <1>2 DEF ProcInv, ReliefInv
<1>6. OwnTemps
  BY <1>1, <1>2 DEF OwnTemps
<1> QED BY <1>1, <1>2, <1>4, <1>5, <1>6 DEF IInv

LEMMA StutterInv ==
  ASSUME IInv, UNCHANGED vars
  PROVE  IInv'
<1>1. /\ files' = files /\ recorded' = recorded /\ named' = named /\ pins' = pins
      /\ pinned' = pinned /\ dropped' = dropped /\ proc' = proc
      /\ attempts' = attempts /\ faults' = faults
  BY DEF vars, store
<1>2. StoreInv'
  BY <1>1 DEF IInv, StoreInv, HeldIsWhole, RecordedOrDropped
<1>3. UsedBytes' = UsedBytes
  BY <1>1 DEF UsedBytes
<1> QED BY <1>1, <1>2, <1>3 DEF IInv, ProcInv, ReliefInv, OwnTemps

LEMMA NextInv ==
  ASSUME IInv, [Next]_vars
  PROVE  IInv'
<1>1. CASE UNCHANGED vars
  BY <1>1, StutterInv
<1>2. ASSUME NEW p \in Procs,
             \/ Steps(p)
             \/ Attempt(p) \/ Restart(p)
             \/ CopyFails(p) \/ AttachFails(p) \/ PinFails(p) \/ UnpinFails(p) \/ Crash(p)
      PROVE IInv'
  <2>1. CASE NoAttempt(p)
    BY <2>1, GoKeeps DEF NoAttempt
  <2>2. CASE ReleaseRefused(p)
    BY <2>2, GoKeeps DEF ReleaseRefused
  <2>3. CASE GC(p)
    BY <2>3, GoKeeps DEF GC
  <2>4. CASE Restart(p)
    BY <2>4, GoKeeps DEF Restart
  <2>5. CASE PinFails(p)
    BY <2>5, GoKeeps DEF PinFails
  <2>6. CASE UnpinFails(p)
    BY <2>6, GoKeeps DEF UnpinFails
  <2>7. CASE Crash(p)
    BY <2>7, GoKeeps DEF Crash
  <2>8. CASE PutHeld(p) \/ PutNew(p) \/ Copy(p) \/ Rename(p) \/ CopyFails(p)
    BY <2>8, PutHeldKeeps, PutNewKeeps, CopyKeeps, RenameKeeps, CopyFailsKeeps
  <2>9. CASE AttachArtifact(p) \/ AttachFails(p) \/ WriteAttempt(p) \/ Pin(p) \/ Attempt(p)
    BY <2>9, AttachKeeps, AttachFailsKeeps, WriteAttemptKeeps, PinKeeps, AttemptKeeps
  <2>10. CASE Relieve(p) \/ Candidates(p) \/ Release(p) \/ Measure(p) \/ Relieved(p) \/ Unpin(p)
    BY <2>10, RelieveKeeps, CandidatesKeeps, ReleaseKeeps, MeasureKeeps, RelievedKeeps, UnpinKeeps
  <2> QED BY <1>2, <2>1, <2>2, <2>3, <2>4, <2>5, <2>6, <2>7, <2>8, <2>9, <2>10 DEF Steps
<1> QED BY <1>1, <1>2 DEF Next

LEMMA Invariance == Spec => []IInv
<1>1. IInv /\ [Next]_vars => IInv'
  BY NextInv
<1> QED BY <1>1, InitInv, PTL DEF Spec

(* Every variable keeps its type, and no pass of relief gives up more pins than     *)
(* pinsPerReliefPass (loop.go releasePins).                                        *)
THEOREM TypeCorrect == Spec => []TypeOK
<1>1. IInv => TypeOK
  <2> SUFFICES ASSUME IInv PROVE TypeOK
    OBVIOUS
  <2>1. named \subseteq Artifacts
    BY DEF IInv, StoreInv, RecordedOrDropped
  <2>2. \A n \in DOMAIN files : files[n].of \in Artifacts /\ files[n].len \in 0..Size[files[n].of]
    BY DEF IInv, StoreInv, FileOK
  <2> QED BY <2>1, <2>2 DEF IInv, StoreInv, TypeOK
<1> QED BY <1>1, Invariance, PTL

(* Whatever copies, fails or dies, a file under the name of a content hash holds     *)
(* all of that content (artifact.go copyFile).                                     *)
THEOREM HeldWhole == Spec => []HeldIsWhole
<1>1. IInv => HeldIsWhole
  BY DEF IInv, StoreInv
<1> QED BY <1>1, Invariance, PTL

(* No record of an artifact precedes its bytes: what an attempt names is recorded,   *)
(* and what is recorded is held unless relief released it (loop.go recordArtifacts). *)
THEOREM RecordedKept == Spec => []RecordedOrDropped
<1>1. IInv => RecordedOrDropped
  BY DEF IInv, StoreInv
<1> QED BY <1>1, Invariance, PTL

(* A relief that nobody disturbed never gives up a pin (loop.go relieveStorage).     *)
THEOREM PinsLast == Spec => []PinsAreLastResort
<1>1. IInv => PinsAreLastResort
  BY DEF IInv, ReliefInv, PinsAreLastResort, At
<1> QED BY <1>1, Invariance, PTL

================================================================================
