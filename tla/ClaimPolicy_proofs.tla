-------------------------- MODULE ClaimPolicy_proofs ---------------------------
(***************************************************************************)
(* Proofs about ClaimPolicy, for texts of any length over any directives,    *)
(* any coherent cells and any worlds.                                       *)
(***************************************************************************)
EXTENDS ClaimPolicy, FiniteSetTheorems, WellFoundedInduction, TLAPS

(* Sets of places have a first and a last member. *)
LEMMA LeastNat ==
  ASSUME NEW S \in SUBSET Nat, S # {}
  PROVE  \E m \in S : \A k \in S : m <= k
<1> DEFINE R == OpToRel(<, Nat)
<1>1. ASSUME NEW k \in Nat, NEW m \in Nat PROVE k < m => <<k, m>> \in R
  BY DEF OpToRel
<1>2. IsWellFoundedOn(R, Nat)
  BY NatLessThanWellFounded
<1> HIDE DEF R
<1>3. PICK m \in S : \A k \in S : <<k, m>> \notin R
  BY <1>2, WFMin
<1>4. \A k \in S : ~(k < m)
  BY <1>1, <1>3
<1> QED BY <1>4

LEMMA MinPlace ==
  ASSUME NEW n \in Nat, NEW S \in SUBSET (1..n), S # {}
  PROVE  Min(S) \in S /\ \A k \in S : Min(S) <= k
<1>1. \E m \in S : \A k \in S : m <= k
  BY LeastNat
<1> QED BY <1>1 DEF Min

LEMMA MaxPlace ==
  ASSUME NEW n \in Nat, NEW S \in SUBSET (1..n), S # {}
  PROVE  Max(S) \in S
<1> DEFINE T == {x \in 0..n : \E k \in S : x = n - k}
<1>1. T \in SUBSET Nat /\ \A k \in S : n - k \in T
  OBVIOUS
<1>2. PICK m \in T : \A k \in T : m <= k
  BY <1>1, LeastNat
<1>3. PICK a \in S : m = n - a
  BY <1>2
<1>4. ASSUME NEW k \in S PROVE a >= k
  <2>1. n - a <= n - k
    BY <1>2, <1>3
  <2> QED BY <2>1
<1> QED BY <1>4 DEF Max

--------------------------------------------------------------------------------
(* The first obstacle of a list, and its place. *)

Name(l, k) == l[k][1]
FirstAt(l, k) == k \in Holding(l) /\ \A j \in 1..(k-1) : j \notin Holding(l)

LEMMA SomethingHolds ==
  ASSUME NEW l, NEW n \in Nat, DOMAIN l = 1..n, Holding(l) # {}
  PROVE  \E k \in 1..n : FirstAt(l, k) /\ FirstReason(l) = Name(l, k)
<1> DEFINE k == Min(Holding(l))
<1>1. Holding(l) \in SUBSET (1..n)
  BY DEF Holding
<1>2. k \in Holding(l) /\ \A j \in Holding(l) : k <= j
  BY <1>1, MinPlace
<1>3. FirstReason(l) = Name(l, k)
  BY DEF FirstReason, Name
<1> HIDE DEF k
<1>4. FirstAt(l, k)
  BY <1>1, <1>2 DEF FirstAt
<1> QED BY <1>1, <1>2, <1>3, <1>4

LEMMA NothingHolds ==
  ASSUME NEW l, NEW n \in Nat, DOMAIN l = 1..n, \A k \in 1..n : Name(l, k) # SkipNone
  PROVE  FirstReason(l) = SkipNone <=> Holding(l) = {}
<1>1. CASE Holding(l) = {}
  BY <1>1 DEF FirstReason
<1>2. CASE Holding(l) # {}
  BY <1>2, SomethingHolds
<1> QED BY <1>1, <1>2

LEMMA SameHolding ==
  ASSUME NEW l, NEW m, NEW n \in Nat, DOMAIN l = 1..n, DOMAIN m = 1..n, Holding(l) = Holding(m),
         \A k \in 1..n : Name(l, k) = Name(m, k)
  PROVE  FirstReason(l) = FirstReason(m) /\ Place(l) = Place(m)
<1>1. Place(l) = Place(m)
  BY Zenon DEF Place
<1>2. CASE Holding(l) = {}
  BY <1>1, <1>2 DEF FirstReason
<1>3. CASE Holding(l) # {}
  <2>1. Min(Holding(l)) \in 1..n
    BY <1>3, MinPlace DEF Holding
  <2>2. Name(l, Min(Holding(l))) = Name(m, Min(Holding(l)))
    BY <2>1
  <2> QED BY Zenon, <1>1, <1>3, <2>2 DEF FirstReason, Name
<1> QED BY <1>2, <1>3

LEMMA PlaceOfFirst ==
  ASSUME NEW l, NEW n \in Nat, DOMAIN l = 1..n, NEW k \in 1..n, FirstAt(l, k)
  PROVE  Place(l) = k - 1
<1>1. ASSUME NEW a \in 1..n PROVE (\A j \in 1..a : j \notin Holding(l)) <=> a \in 1..(k-1)
  <2>1. CASE a < k
    BY <2>1 DEF FirstAt
  <2>2. CASE a >= k
    BY <2>2 DEF FirstAt
  <2> QED BY <2>1, <2>2
<1>2. {a \in DOMAIN l : \A j \in 1..a : j \notin Holding(l)} = 1..(k-1)
  BY <1>1
<1>3. Cardinality(1..(k-1)) = k - 1
  BY FS_Interval
<1> QED BY Zenon, <1>2, <1>3 DEF Place

LEMMA PlaceBeyond ==
  ASSUME NEW l, NEW n \in Nat, DOMAIN l = 1..n, NEW k \in 1..n, \A j \in 1..k : j \notin Holding(l)
  PROVE  Place(l) \in Nat /\ Place(l) >= k
<1> DEFINE S == {a \in DOMAIN l : \A j \in 1..a : j \notin Holding(l)}
<1>1. (1..k) \in SUBSET S /\ S \in SUBSET (1..n)
  OBVIOUS
<1>2. IsFiniteSet(S) /\ Cardinality(1..k) = k
  BY <1>1, FS_Interval, FS_Subset
<1>3. Cardinality(S) \in Nat /\ k <= Cardinality(S)
  BY <1>1, <1>2, FS_Subset, FS_CardinalityType
<1> QED BY <1>3 DEF Place

(* A list moves on when what held first no longer does, nor anything before it. *)
LEMMA MovesOn ==
  ASSUME NEW l, NEW m, NEW n \in Nat, DOMAIN l = 1..n, DOMAIN m = 1..n,
         NEW k \in 1..n, FirstAt(l, k), k \notin Holding(m),
         \A j \in 1..(k-1) : j \in Holding(m) => j \in Holding(l)
  PROVE  Place(m) > Place(l)
<1>1. Place(l) = k - 1
  BY PlaceOfFirst
<1>2. \A j \in 1..k : j \notin Holding(m)
  BY DEF FirstAt
<1> QED BY <1>1, <1>2, PlaceBeyond

--------------------------------------------------------------------------------
(* The checks: their names, and when each holds. *)

LEMMA AttemptNames ==
  ASSUME NEW i
  PROVE  /\ DOMAIN AttemptObstacles(i) = 1..10
         /\ Name(AttemptObstacles(i), 1) = "ExternallyOriginated"
         /\ Name(AttemptObstacles(i), 2) = "NotAttempting"
         /\ Name(AttemptObstacles(i), 3) = "NoExecutor"
         /\ Name(AttemptObstacles(i), 4) = "Unschedulable"
         /\ Name(AttemptObstacles(i), 5) = "Vetoed"
         /\ Name(AttemptObstacles(i), 6) = "Blocked"
         /\ Name(AttemptObstacles(i), 7) = "Capability"
         /\ Name(AttemptObstacles(i), 8) = "AlreadyAttempted"
         /\ Name(AttemptObstacles(i), 9) = "Budget"
         /\ Name(AttemptObstacles(i), 10) = "ForeignClaim"
<1>1. DOMAIN AttemptObstacles(i) = 1..10
  BY SMT DEF AttemptObstacles
<1> QED BY Zenon, <1>1 DEF AttemptObstacles, Name

LEMMA AttemptHolding ==
  ASSUME NEW i
  PROVE  LET H == Holding(AttemptObstacles(i))
         IN  /\ 1 \in H <=> External(i)
             /\ 2 \in H <=> "attempt" \notin i.cell.roles
             /\ 3 \in H <=> ~i.reachable
             /\ 4 \in H <=> ~i.scoped
             /\ 5 \in H <=> i.status = "vetoed"
             /\ 6 \in H <=> i.blocked
             /\ 7 \in H <=> Missing(i.cell, i.spec) # [build |-> {}, test |-> {}]
             /\ 8 \in H <=> Enough(i)
             /\ 9 \in H <=> ~i.budgetOK
             /\ 10 \in H <=> i.yield /\ FreshClaims(i) # {}
<1>1. \A k \in 1..10 : k \in Holding(AttemptObstacles(i)) <=> AttemptObstacles(i)[k][2]
  BY AttemptNames DEF Holding
<1>2. /\ AttemptObstacles(i)[1][2] <=> External(i)
      /\ AttemptObstacles(i)[2][2] <=> "attempt" \notin i.cell.roles
      /\ AttemptObstacles(i)[3][2] <=> ~i.reachable
      /\ AttemptObstacles(i)[4][2] <=> ~i.scoped
      /\ AttemptObstacles(i)[5][2] <=> i.status = "vetoed"
      /\ AttemptObstacles(i)[6][2] <=> i.blocked
      /\ AttemptObstacles(i)[7][2] <=> Missing(i.cell, i.spec) # [build |-> {}, test |-> {}]
      /\ AttemptObstacles(i)[8][2] <=> Enough(i)
      /\ AttemptObstacles(i)[9][2] <=> ~i.budgetOK
      /\ AttemptObstacles(i)[10][2] <=> i.yield /\ FreshClaims(i) # {}
  BY Zenon DEF AttemptObstacles
<1> QED BY <1>1, <1>2

LEMMA EffectNames ==
  ASSUME NEW i, NEW done
  PROVE  /\ DOMAIN EffectObstacles(i, done) = 1..8
         /\ Name(EffectObstacles(i, done), 1) = "ExternallyOriginated"
         /\ Name(EffectObstacles(i, done), 2) = "EffectMalformed"
         /\ Name(EffectObstacles(i, done), 3) = "Unschedulable"
         /\ Name(EffectObstacles(i, done), 4) = "Vetoed"
         /\ Name(EffectObstacles(i, done), 5) = "Blocked"
         /\ Name(EffectObstacles(i, done), 6) = "NoAuthority"
         /\ Name(EffectObstacles(i, done), 7) = "AlreadyAttempted"
         /\ Name(EffectObstacles(i, done), 8) = "ForeignClaim"
<1>1. DOMAIN EffectObstacles(i, done) = 1..8
  BY SMT DEF EffectObstacles
<1> QED BY Zenon, <1>1 DEF EffectObstacles, Name

LEMMA EffectHolding ==
  ASSUME NEW i, NEW done
  PROVE  LET H == Holding(EffectObstacles(i, done))
         IN  /\ 1 \in H <=> External(i)
             /\ 2 \in H <=> Malformed(i.spec) # SkipNone
             /\ 3 \in H <=> ~i.scoped
             /\ 4 \in H <=> i.status = "vetoed"
             /\ 5 \in H <=> i.blocked
             /\ 6 \in H <=> ~HasGrant(i.cell, i.spec)
             /\ 7 \in H <=> PriorEffect(i.spec, done)
             /\ 8 \in H <=> i.yield /\ FreshClaims(i) # {}
<1>1. \A k \in 1..8 : k \in Holding(EffectObstacles(i, done)) <=> EffectObstacles(i, done)[k][2]
  BY EffectNames DEF Holding
<1>2. /\ EffectObstacles(i, done)[1][2] <=> External(i)
      /\ EffectObstacles(i, done)[2][2] <=> Malformed(i.spec) # SkipNone
      /\ EffectObstacles(i, done)[3][2] <=> ~i.scoped
      /\ EffectObstacles(i, done)[4][2] <=> i.status = "vetoed"
      /\ EffectObstacles(i, done)[5][2] <=> i.blocked
      /\ EffectObstacles(i, done)[6][2] <=> ~HasGrant(i.cell, i.spec)
      /\ EffectObstacles(i, done)[7][2] <=> PriorEffect(i.spec, done)
      /\ EffectObstacles(i, done)[8][2] <=> i.yield /\ FreshClaims(i) # {}
  BY Zenon DEF EffectObstacles
<1> QED BY <1>1, <1>2

LEMMA DefectNames ==
  ASSUME NEW s
  PROVE  /\ DOMAIN Defects(s) = 1..7
         /\ Name(Defects(s), 1) = "NoCapability"
         /\ Name(Defects(s), 2) = "NoInterface"
         /\ Name(Defects(s), 3) = "NotAHash"
         /\ Name(Defects(s), 4) = "NoParameters"
         /\ Name(Defects(s), 5) = "NotJSON"
         /\ Name(Defects(s), 6) = "SeveralAttempts"
         /\ Name(Defects(s), 7) = "BuildOrTest"
<1>1. DOMAIN Defects(s) = 1..7
  BY SMT DEF Defects
<1> QED BY Zenon, <1>1 DEF Defects, Name

LEMMA DefectHolding ==
  ASSUME NEW s
  PROVE  LET H == Holding(Defects(s))
         IN  /\ 1 \in H <=> Capability(s) = NoValue
             /\ 2 \in H <=> Interface(s) = NoValue
             /\ 3 \in H <=> Interface(s) \notin Hashes
             /\ 4 \in H <=> Payload(s) = NoValue
             /\ 5 \in H <=> Payload(s) = "text"
             /\ 6 \in H <=> AttemptsOf(s) > 1
             /\ 7 \in H <=> Tokens(s, "build") \cup Tokens(s, "test") # {}
<1>1. \A k \in 1..7 : k \in Holding(Defects(s)) <=> Defects(s)[k][2]
  BY DefectNames DEF Holding
<1>2. /\ Defects(s)[1][2] <=> Capability(s) = NoValue
      /\ Defects(s)[2][2] <=> Interface(s) = NoValue
      /\ Defects(s)[3][2] <=> Interface(s) \notin Hashes
      /\ Defects(s)[4][2] <=> Payload(s) = NoValue
      /\ Defects(s)[5][2] <=> Payload(s) = "text"
      /\ Defects(s)[6][2] <=> AttemptsOf(s) > 1
      /\ Defects(s)[7][2] <=> Tokens(s, "build") \cup Tokens(s, "test") # {}
  BY Zenon DEF Defects
<1> QED BY <1>1, <1>2

(* No check is without a name, so an empty answer means that none holds. *)
LEMMA ObstacleList ==
  ASSUME NEW i, NEW done
  PROVE  /\ DOMAIN Obstacles(i, done) = 1..(IF Effectful(i.spec) THEN 8 ELSE 10)
         /\ FirstReason(Obstacles(i, done)) = SkipNone <=> Holding(Obstacles(i, done)) = {}
<1>1. CASE Effectful(i.spec)
  <2>1. Obstacles(i, done) = EffectObstacles(i, done)
    BY <1>1 DEF Obstacles
  <2>2. \A k \in 1..8 : Name(EffectObstacles(i, done), k) # SkipNone
    BY EffectNames DEF SkipNone
  <2> QED BY <1>1, <2>1, <2>2, EffectNames, NothingHolds
<1>2. CASE ~Effectful(i.spec)
  <2>1. Obstacles(i, done) = AttemptObstacles(i)
    BY <1>2 DEF Obstacles
  <2>2. \A k \in 1..10 : Name(AttemptObstacles(i), k) # SkipNone
    BY AttemptNames DEF SkipNone
  <2> QED BY <1>2, <2>1, <2>2, AttemptNames, NothingHolds
<1> QED BY <1>1, <1>2

LEMMA SoundText ==
  ASSUME NEW s
  PROVE  Malformed(s) = SkipNone <=> Holding(Defects(s)) = {}
<1>1. \A k \in 1..7 : Name(Defects(s), k) # SkipNone
  BY DefectNames DEF SkipNone
<1> QED BY <1>1, DefectNames, NothingHolds DEF Malformed

--------------------------------------------------------------------------------
(* Texts. *)

LEMMA PlacesOf ==
  ASSUME NEW s \in Seq(Directives), NEW key
  PROVE  /\ Where(s, key) \in SUBSET (1..Len(s)) /\ Len(s) \in Nat
         /\ \A k \in 1..Len(s) : s[k] \in Directives
BY DEF Where

LEMMA LastIsAValue ==
  ASSUME NEW s \in Seq(Directives), NEW key, NEW default, LastOf(s, Where(s, key), default) # default
  PROVE  LastOf(s, Where(s, key), default) \in Values(s, key)
<1>1. Where(s, key) # {}
  BY DEF LastOf
<1>2. Max(Where(s, key)) \in Where(s, key)
  BY <1>1, PlacesOf, MaxPlace
<1> QED BY Zenon, <1>1, <1>2 DEF LastOf, Values

LEMMA AttemptsOfTyped ==
  ASSUME NEW s \in Seq(Directives)
  PROVE  AttemptsOf(s) \in Int
<1> DEFINE P == {k \in Where(s, "attempts") : s[k].value > 0}
<1>1. CASE P = {}
  BY <1>1 DEF AttemptsOf, LastOf
<1>2. CASE P # {}
  <2>1. Max(P) \in P
    BY <1>2, PlacesOf, MaxPlace
  <2>2. s[Max(P)] \in Directives /\ s[Max(P)].key = "attempts"
    BY <2>1, PlacesOf DEF Where
  <2>3. s[Max(P)].value \in Int
    BY <2>2, TextAssumption
  <2> QED BY Zenon, <1>2, <2>3 DEF AttemptsOf, LastOf
<1> QED BY <1>1, <1>2

--------------------------------------------------------------------------------
(* What an answer says of the checks. *)

LEMMA Answer ==
  ASSUME NEW i, NEW done
  PROVE  LET v == Evaluate(i, done)
             skip == FirstReason(Obstacles(i, done))
         IN  /\ v.skip = skip
             /\ v.claim <=> skip = SkipNone
             /\ skip # SkipNone => v.attempt = 0
             /\ skip = SkipNone => v.attempt = IF Effectful(i.spec) THEN 1 ELSE i.attempts + 1
BY Zenon DEF Evaluate

LEMMA AttemptPlace ==
  ASSUME NEW i, NEW done, ~Effectful(i.spec)
  PROVE  LET skip == FirstReason(Obstacles(i, done))
             l == AttemptObstacles(i)
         IN  /\ Obstacles(i, done) = l
             /\ skip = "ExternallyOriginated" => FirstAt(l, 1)
             /\ skip = "NotAttempting" => FirstAt(l, 2)
             /\ skip = "NoExecutor" => FirstAt(l, 3)
             /\ skip = "Unschedulable" => FirstAt(l, 4)
             /\ skip = "Vetoed" => FirstAt(l, 5)
             /\ skip = "Blocked" => FirstAt(l, 6)
             /\ skip = "Capability" => FirstAt(l, 7)
             /\ skip = "AlreadyAttempted" => FirstAt(l, 8)
             /\ skip = "Budget" => FirstAt(l, 9)
             /\ skip = "ForeignClaim" => FirstAt(l, 10)
             /\ skip \notin {"EffectMalformed", "NoAuthority"}
<1> DEFINE l == AttemptObstacles(i)
           skip == FirstReason(Obstacles(i, done))
<1>1. Obstacles(i, done) = l
  BY DEF Obstacles
<1>2. CASE Holding(l) = {}
  <2>1. skip = "None"
    BY Zenon, <1>1, <1>2 DEF FirstReason, SkipNone
  <2> QED BY <1>1, <2>1
<1>3. CASE Holding(l) # {}
  <2>1. DOMAIN l = 1..10
    BY AttemptNames
  <2>2. PICK k \in 1..10 : FirstAt(l, k) /\ FirstReason(l) = Name(l, k)
    <3> HIDE DEF l
    <3> QED BY <1>3, <2>1, SomethingHolds
  <2>3. skip = Name(l, k)
    BY <1>1, <2>2
  <2> HIDE DEF skip
  <2> QED BY <1>1, <2>2, <2>3, AttemptNames
<1> QED BY <1>2, <1>3

LEMMA EffectPlace ==
  ASSUME NEW i, NEW done, Effectful(i.spec)
  PROVE  LET skip == FirstReason(Obstacles(i, done))
             l == EffectObstacles(i, done)
         IN  /\ Obstacles(i, done) = l
             /\ skip = "ExternallyOriginated" => FirstAt(l, 1)
             /\ skip = "EffectMalformed" => FirstAt(l, 2)
             /\ skip = "Unschedulable" => FirstAt(l, 3)
             /\ skip = "Vetoed" => FirstAt(l, 4)
             /\ skip = "Blocked" => FirstAt(l, 5)
             /\ skip = "NoAuthority" => FirstAt(l, 6)
             /\ skip = "AlreadyAttempted" => FirstAt(l, 7)
             /\ skip = "ForeignClaim" => FirstAt(l, 8)
             /\ skip \notin {"NotAttempting", "NoExecutor", "Capability", "Budget"}
<1> DEFINE l == EffectObstacles(i, done)
           skip == FirstReason(Obstacles(i, done))
<1>1. Obstacles(i, done) = l
  BY DEF Obstacles
<1>2. CASE Holding(l) = {}
  <2>1. skip = "None"
    BY Zenon, <1>1, <1>2 DEF FirstReason, SkipNone
  <2> QED BY <1>1, <2>1
<1>3. CASE Holding(l) # {}
  <2>1. DOMAIN l = 1..8
    BY EffectNames
  <2>2. PICK k \in 1..8 : FirstAt(l, k) /\ FirstReason(l) = Name(l, k)
    <3> HIDE DEF l
    <3> QED BY <1>3, <2>1, SomethingHolds
  <2>3. skip = Name(l, k)
    BY <1>1, <2>2
  <2> HIDE DEF skip
  <2> QED BY <1>1, <2>2, <2>3, EffectNames
<1> QED BY <1>2, <1>3

--------------------------------------------------------------------------------
(* What is put before the policy, and what repairs and service make of it. *)

InputFields ==
  {"spec", "cell", "attempts", "perCell", "now", "reachable", "scoped", "status", "blocked",
   "attemptsDefault", "budgetOK", "decline", "yield", "claims"}

(* Only an attempt is counted: what a text that names an effect has had done to it  *)
(* is found by its parameters.                                                  *)
IsInput(i) ==
  /\ DOMAIN i = InputFields
  /\ i.spec \in Seq(Directives)
  /\ DOMAIN i.cell = CellFields /\ Coherent(i.cell)
  /\ i.attempts \in 0..MaxServed /\ (Effectful(i.spec) => i.attempts = 0)
  /\ i.perCell \in Nat /\ i.attemptsDefault \in Int
  /\ i.now \in Nat /\ i.claims \in SUBSET Int /\ IsFiniteSet(i.claims)

PolicyInv == IsInput(in) /\ verdict = Evaluate(in, acted)

LEMMA FieldKept ==
  ASSUME NEW r, NEW f \in DOMAIN r, NEW v
  PROVE  LET s == [r EXCEPT ![f] = v]
         IN  DOMAIN s = DOMAIN r /\ s[f] = v /\ \A g \in DOMAIN r : g # f => s[g] = r[g]
OBVIOUS

LEMMA InputEdits ==
  ASSUME NEW i, IsInput(i), NEW f \in {"reachable", "scoped", "status", "blocked", "budgetOK", "decline"},
         NEW v
  PROVE  IsInput([i EXCEPT ![f] = v])
<1> DEFINE s == [i EXCEPT ![f] = v]
<1>1. /\ DOMAIN s = InputFields /\ s.spec = i.spec /\ s.cell = i.cell /\ s.attempts = i.attempts
      /\ s.perCell = i.perCell /\ s.attemptsDefault = i.attemptsDefault /\ s.now = i.now /\ s.claims = i.claims
  BY DEF IsInput, InputFields
<1> HIDE DEF s
<1> QED BY <1>1 DEF IsInput

LEMMA CellEdit ==
  ASSUME NEW i, IsInput(i), NEW c, DOMAIN c = CellFields, Coherent(c)
  PROVE  IsInput([i EXCEPT !.cell = c])
<1> DEFINE s == [i EXCEPT !.cell = c]
<1>1. /\ DOMAIN s = InputFields /\ s.spec = i.spec /\ s.cell = c /\ s.attempts = i.attempts
      /\ s.perCell = i.perCell /\ s.attemptsDefault = i.attemptsDefault /\ s.now = i.now /\ s.claims = i.claims
  BY DEF IsInput, InputFields
<1> HIDE DEF s
<1> QED BY <1>1 DEF IsInput

LEMMA TextEdit ==
  ASSUME NEW i, IsInput(i), NEW t \in Seq(Directives), Effectful(t) <=> Effectful(i.spec)
  PROVE  IsInput([i EXCEPT !.spec = t])
<1> DEFINE s == [i EXCEPT !.spec = t]
<1>1. /\ DOMAIN s = InputFields /\ s.spec = t /\ s.cell = i.cell /\ s.attempts = i.attempts
      /\ s.perCell = i.perCell /\ s.attemptsDefault = i.attemptsDefault /\ s.now = i.now /\ s.claims = i.claims
  BY DEF IsInput, InputFields
<1> HIDE DEF s
<1> QED BY <1>1 DEF IsInput

LEMMA LimitEdit ==
  ASSUME NEW i, IsInput(i), NEW n \in Nat
  PROVE  IsInput([i EXCEPT !.perCell = n])
<1> DEFINE s == [i EXCEPT !.perCell = n]
<1>1. /\ DOMAIN s = InputFields /\ s.spec = i.spec /\ s.cell = i.cell /\ s.attempts = i.attempts
      /\ s.perCell = n /\ s.attemptsDefault = i.attemptsDefault /\ s.now = i.now /\ s.claims = i.claims
  BY DEF IsInput, InputFields
<1> HIDE DEF s
<1> QED BY <1>1 DEF IsInput

LEMMA ClockEdit ==
  ASSUME NEW i, IsInput(i), NEW n \in Nat
  PROVE  IsInput([i EXCEPT !.now = n])
<1> DEFINE s == [i EXCEPT !.now = n]
<1>1. /\ DOMAIN s = InputFields /\ s.spec = i.spec /\ s.cell = i.cell /\ s.attempts = i.attempts
      /\ s.perCell = i.perCell /\ s.attemptsDefault = i.attemptsDefault /\ s.now = n /\ s.claims = i.claims
  BY DEF IsInput, InputFields
<1> HIDE DEF s
<1> QED BY <1>1 DEF IsInput

LEMMA CountEdit ==
  ASSUME NEW i, IsInput(i), NEW n \in 0..MaxServed, ~Effectful(i.spec)
  PROVE  IsInput([i EXCEPT !.attempts = n])
<1> DEFINE s == [i EXCEPT !.attempts = n]
<1>1. /\ DOMAIN s = InputFields /\ s.spec = i.spec /\ s.cell = i.cell /\ s.attempts = n
      /\ s.perCell = i.perCell /\ s.attemptsDefault = i.attemptsDefault /\ s.now = i.now /\ s.claims = i.claims
  BY DEF IsInput, InputFields
<1> HIDE DEF s
<1> QED BY <1>1 DEF IsInput

LEMMA FreshAreCounted ==
  ASSUME NEW i, IsInput(i)
  PROVE  FreshClaims(i) \in SUBSET Nat /\ IsFiniteSet(FreshClaims(i))
<1>1. FreshClaims(i) \in SUBSET i.claims
  BY DEF FreshClaims
<1> QED BY <1>1, FS_Subset DEF FreshClaims, IsInput

LEMMA SoonestExpiry ==
  ASSUME NEW i, IsInput(i), FreshClaims(i) # {}
  PROVE  Min(FreshClaims(i)) \in FreshClaims(i) /\ Min(FreshClaims(i)) \in Nat
<1>1. \E m \in FreshClaims(i) : \A k \in FreshClaims(i) : m <= k
  BY FreshAreCounted, LeastNat
<1> QED BY <1>1, FreshAreCounted DEF Min

LEMMA MaxAttemptsTyped ==
  ASSUME NEW i, IsInput(i)
  PROVE  MaxAttempts(i) \in Nat \ {0}
<1>1. AttemptsOf(i.spec) \in Int /\ i.perCell \in Int /\ i.attemptsDefault \in Int
  BY AttemptsOfTyped DEF IsInput
<1> QED BY <1>1 DEF MaxAttempts

LEMMA InitPolicy == Init => PolicyInv
<1> SUFFICES ASSUME Init PROVE IsInput(in)
  BY DEF Init, PolicyInv
<1>1. PICK s \in Specs, c \in Cells, w \in Worlds :
        in = [spec |-> s, cell |-> c, attempts |-> 0, perCell |-> 0, now |-> 2,
              reachable |-> w.reachable, scoped |-> w.scoped, status |-> w.status, blocked |-> w.blocked,
              attemptsDefault |-> w.attemptsDefault, budgetOK |-> w.budgetOK, decline |-> w.decline,
              yield |-> w.yield, claims |-> w.claims]
  BY DEF Init, Inputs
<1>2. w.attemptsDefault \in Int /\ w.claims \in SUBSET Int /\ IsFiniteSet(w.claims)
  BY WorldAssumption DEF World
<1>3. /\ DOMAIN in = InputFields
      /\ in.spec = s /\ in.cell = c /\ in.attempts = 0 /\ in.perCell = 0 /\ in.now = 2
      /\ in.attemptsDefault = w.attemptsDefault /\ in.claims = w.claims
  BY <1>1 DEF InputFields
<1>4. s \in Seq(Directives) /\ DOMAIN c = CellFields /\ Coherent(c)
  BY TextAssumption, CellAssumption
<1> QED BY <1>2, <1>3, <1>4, BoundAssumption DEF IsInput

--------------------------------------------------------------------------------
(* Configurations. *)

LEMMA ConfiguredToAttempt ==
  ASSUME NEW c, DOMAIN c = CellFields, Coherent(c)
  PROVE  LET d == [c EXCEPT !.roles = @ \cup {"attempt"}, !.tier = "small", !.models = {"model"}]
         IN  DOMAIN d = CellFields /\ Coherent(d) /\ "attempt" \in d.roles
<1> DEFINE d == [c EXCEPT !.roles = @ \cup {"attempt"}, !.tier = "small", !.models = {"model"}]
<1>1. /\ DOMAIN d = CellFields /\ d.roles = c.roles \cup {"attempt"} /\ d.tier = "small"
      /\ d.models = {"model"} /\ d.effects = c.effects
  BY DEF CellFields
<1> HIDE DEF d
<1> QED BY <1>1 DEF Coherent

LEMMA ConfiguredToBuild ==
  ASSUME NEW c, NEW s, DOMAIN c = CellFields, Coherent(c)
  PROVE  LET d == [c EXCEPT !.build = @ \cup Missing(c, s).build, !.test = @ \cup Missing(c, s).test]
         IN  /\ DOMAIN d = CellFields /\ Coherent(d) /\ d.roles = c.roles
             /\ Missing(d, s) = [build |-> {}, test |-> {}]
<1> DEFINE d == [c EXCEPT !.build = @ \cup Missing(c, s).build, !.test = @ \cup Missing(c, s).test]
<1>1. /\ DOMAIN d = CellFields /\ d.roles = c.roles /\ d.tier = c.tier
      /\ d.models = c.models /\ d.effects = c.effects
      /\ d.build = c.build \cup Missing(c, s).build /\ d.test = c.test \cup Missing(c, s).test
  BY DEF CellFields
<1> HIDE DEF d
<1>2. Coherent(d)
  BY <1>1 DEF Coherent
<1>3. Missing(c, s).build = Tokens(s, "build") \ c.build /\ Missing(c, s).test = Tokens(s, "test") \ c.test
  BY DEF Missing
<1>4. Tokens(s, "build") \ d.build = {} /\ Tokens(s, "test") \ d.test = {}
  BY <1>1, <1>3
<1>5. Missing(d, s) = [build |-> {}, test |-> {}]
  BY Zenon, <1>4 DEF Missing
<1>6. DOMAIN d = CellFields /\ Coherent(d) /\ d.roles = c.roles /\ Missing(d, s) = [build |-> {}, test |-> {}]
  BY <1>1, <1>2, <1>5
<1> QED BY Zenon, <1>6 DEF d

LEMMA ConfiguredToAct ==
  ASSUME NEW c, NEW id, NEW h \in Hashes, DOMAIN c = CellFields, Coherent(c)
  PROVE  LET e == [id |-> id, interface |-> h, priced |-> TRUE]
             d == [c EXCEPT !.effects = {f \in @ : f.id # e.id} \cup {e},
                            !.executors = @ \cup {<<e.id, e.interface>>}, !.leases = @ \cup {e.id}]
         IN  DOMAIN d = CellFields /\ Coherent(d) /\ e \in EffectGrants(d)
<1> DEFINE e == [id |-> id, interface |-> h, priced |-> TRUE]
           d == [c EXCEPT !.effects = {f \in @ : f.id # e.id} \cup {e},
                          !.executors = @ \cup {<<e.id, e.interface>>}, !.leases = @ \cup {e.id}]
<1>0. e.id = id /\ e.interface = h
  OBVIOUS
<1> HIDE DEF e
<1>1. /\ DOMAIN d = CellFields /\ d.roles = c.roles /\ d.tier = c.tier /\ d.models = c.models
      /\ d.effects = {f \in c.effects : f.id # e.id} \cup {e}
      /\ d.executors = c.executors \cup {<<e.id, e.interface>>} /\ d.leases = c.leases \cup {e.id}
  BY DEF CellFields
<1> HIDE DEF d
<1>2. Coherent(d)
  BY <1>0, <1>1 DEF Coherent
<1>3. e \in d.effects /\ <<e.id, e.interface>> \in d.executors /\ e.id \in d.leases
  BY <1>1
<1>4. e \in EffectGrants(d)
  BY Zenon, <1>3 DEF EffectGrants
<1> USE DEF d, e
<1> QED BY Zenon, <1>1, <1>2, <1>4

--------------------------------------------------------------------------------
(* What a text says under a key its author did not touch stays said. *)

Agree(s, t, key) == Where(t, key) = Where(s, key) /\ \A k \in Where(s, key) : t[k] = s[k]

LEMMA SameReading ==
  ASSUME NEW s \in Seq(Directives), NEW t \in Seq(Directives), NEW key, Agree(s, t, key), NEW default
  PROVE  /\ Values(t, key) = Values(s, key) /\ Tokens(t, key) = Tokens(s, key)
         /\ LastOf(t, Where(t, key), default) = LastOf(s, Where(s, key), default)
         /\ FirstOf(t, Where(t, key), default) = FirstOf(s, Where(s, key), default)
<1> DEFINE W == Where(s, key)
<1>1. Where(t, key) = W /\ \A k \in W : t[k] = s[k]
  BY DEF Agree
<1>2. W # {} => Max(W) \in W /\ Min(W) \in W
  BY PlacesOf, MaxPlace, MinPlace
<1> HIDE DEF W
<1>3. {t[k].value : k \in W} = {s[k].value : k \in W}
  BY Zenon, <1>1
<1>4. Values(t, key) = Values(s, key)
  BY Zenon, <1>1, <1>3 DEF Values, W
<1>5. LastOf(t, W, default) = LastOf(s, W, default) /\ FirstOf(t, W, default) = FirstOf(s, W, default)
  BY Zenon, <1>1, <1>2 DEF LastOf, FirstOf
<1> QED BY Zenon, <1>1, <1>4, <1>5 DEF Tokens, W

LEMMA SameAttempts ==
  ASSUME NEW s \in Seq(Directives), NEW t \in Seq(Directives), Agree(s, t, "attempts")
  PROVE  AttemptsOf(t) = AttemptsOf(s)
<1> DEFINE P == {k \in Where(s, "attempts") : s[k].value > 0}
<1>1. {k \in Where(t, "attempts") : t[k].value > 0} = P
  BY Zenon DEF Agree
<1>2. P # {} => Max(P) \in P
  <2>1. P \in SUBSET (1..Len(s)) /\ Len(s) \in Nat
    BY PlacesOf
  <2> HIDE DEF P
  <2> QED BY <2>1, MaxPlace
<1>3. P # {} => t[Max(P)] = s[Max(P)]
  BY <1>2 DEF Agree
<1> HIDE DEF P
<1>4. LastOf(t, P, 0) = LastOf(s, P, 0)
  BY Zenon, <1>3 DEF LastOf
<1> QED BY Zenon, <1>1, <1>4 DEF AttemptsOf, P

LEMMA Written ==
  ASSUME NEW s \in Seq(Directives), NEW key, NEW v, Field(key, v) \in Directives
  PROVE  LET t == Append(s, Field(key, v))
         IN  /\ t \in Seq(Directives)
             /\ \A k : k # key => Agree(s, t, k)
             /\ Where(t, key) = Where(s, key) \cup {Len(s) + 1}
             /\ t[Len(s) + 1] = Field(key, v)
<1> DEFINE d == Field(key, v)
           t == Append(s, d)
<1>1. d.key = key
  BY DEF Field
<1> HIDE DEF d
<1>2. /\ t \in Seq(Directives) /\ Len(t) = Len(s) + 1 /\ Len(s) \in Nat
      /\ t[Len(s) + 1] = d /\ \A k \in 1..Len(s) : t[k] = s[k]
      /\ DOMAIN s = 1..Len(s) /\ DOMAIN t = 1..(Len(s) + 1)
  BY DEF d
<1> HIDE DEF t
<1>3. \A k : k # key => Agree(s, t, k)
  BY <1>1, <1>2 DEF Agree, Where
<1>4. Where(t, key) = Where(s, key) \cup {Len(s) + 1}
  BY <1>1, <1>2 DEF Where
<1> QED BY <1>2, <1>3, <1>4 DEF d, t

LEMMA StruckOut ==
  ASSUME NEW s \in Seq(Directives), NEW keys, "none" \notin keys
  PROVE  LET t == Drop(s, keys)
         IN  /\ t \in Seq(Directives)
             /\ \A k : k \notin keys \cup {"none"} => Agree(s, t, k)
             /\ \A k \in keys : Where(t, k) = {}
<1> DEFINE t == Drop(s, keys)
<1>1. Blank \in Directives /\ Blank.key = "none"
  BY TextAssumption DEF Blank, Field
<1> HIDE DEF Blank
<1>2. /\ DOMAIN s = 1..Len(s) /\ Len(s) \in Nat /\ DOMAIN t = DOMAIN s
      /\ \A k \in DOMAIN s : t[k] = IF s[k].key \in keys THEN Blank ELSE s[k]
      /\ \A k \in DOMAIN s : s[k] \in Directives
  BY DEF Drop
<1>3. t \in Seq(Directives)
  BY <1>1 DEF Drop
<1> HIDE DEF t
<1>4. \A k : k \notin keys \cup {"none"} => Agree(s, t, k)
  BY <1>1, <1>2 DEF Agree, Where
<1>5. \A k \in keys : Where(t, k) = {}
  BY <1>1, <1>2 DEF Where
<1> QED BY <1>3, <1>4, <1>5 DEF t

LEMMA AgreedDefects ==
  ASSUME NEW s \in Seq(Directives), NEW t \in Seq(Directives)
  PROVE  /\ Agree(s, t, "effect") =>
              Capability(t) = Capability(s) /\ Values(t, "effect") = Values(s, "effect")
         /\ Agree(s, t, "interface") =>
              Interface(t) = Interface(s) /\ Values(t, "interface") = Values(s, "interface")
         /\ Agree(s, t, "payload") => Payload(t) = Payload(s)
         /\ Agree(s, t, "attempts") => AttemptsOf(t) = AttemptsOf(s)
         /\ Agree(s, t, "build") => Tokens(t, "build") = Tokens(s, "build")
         /\ Agree(s, t, "test") => Tokens(t, "test") = Tokens(s, "test")
         /\ Agree(s, t, "origin") => (ExternallyOriginated(t) <=> ExternallyOriginated(s))
<1>1. \A key : Agree(s, t, key) =>
        /\ Values(t, key) = Values(s, key) /\ Tokens(t, key) = Tokens(s, key)
        /\ LastOf(t, Where(t, key), NoValue) = LastOf(s, Where(s, key), NoValue)
        /\ FirstOf(t, Where(t, key), NoValue) = FirstOf(s, Where(s, key), NoValue)
  BY SameReading
<1>2. Agree(s, t, "attempts") => AttemptsOf(t) = AttemptsOf(s)
  BY SameAttempts
<1>3. Agree(s, t, "origin") => (ExternallyOriginated(t) <=> ExternallyOriginated(s))
  BY Zenon, <1>1 DEF ExternallyOriginated
<1>4. Agree(s, t, "effect") => Capability(t) = Capability(s) /\ Values(t, "effect") = Values(s, "effect")
  BY Zenon, <1>1 DEF Capability
<1>5. Agree(s, t, "interface") => Interface(t) = Interface(s) /\ Values(t, "interface") = Values(s, "interface")
  BY Zenon, <1>1 DEF Interface
<1>6. Agree(s, t, "payload") => Payload(t) = Payload(s)
  BY Zenon, <1>1 DEF Payload
<1> QED BY Zenon, <1>1, <1>2, <1>3, <1>4, <1>5, <1>6

(* No defect is added, and the text stays an effect of the same origin. *)
Mends(s, t) ==
  /\ t \in Seq(Directives) /\ Effectful(t)
  /\ ExternallyOriginated(t) <=> ExternallyOriginated(s)
  /\ Holding(Defects(t)) \subseteq Holding(Defects(s))

LEMMA FewerDefects ==
  ASSUME NEW s, NEW t,
         Capability(t) = NoValue => Capability(s) = NoValue,
         Interface(t) = NoValue => Interface(s) = NoValue,
         Interface(t) \notin Hashes => Interface(s) \notin Hashes,
         Payload(t) = NoValue => Payload(s) = NoValue,
         Payload(t) = "text" => Payload(s) = "text",
         AttemptsOf(t) > 1 => AttemptsOf(s) > 1,
         Tokens(t, "build") \cup Tokens(t, "test") # {} => Tokens(s, "build") \cup Tokens(s, "test") # {}
  PROVE  Holding(Defects(t)) \subseteq Holding(Defects(s))
<1>1. \A k \in 1..7 : k \in Holding(Defects(t)) => k \in Holding(Defects(s))
  <2>1. /\ 1 \in Holding(Defects(t)) => 1 \in Holding(Defects(s))
        /\ 2 \in Holding(Defects(t)) => 2 \in Holding(Defects(s))
        /\ 3 \in Holding(Defects(t)) => 3 \in Holding(Defects(s))
        /\ 4 \in Holding(Defects(t)) => 4 \in Holding(Defects(s))
        /\ 5 \in Holding(Defects(t)) => 5 \in Holding(Defects(s))
        /\ 6 \in Holding(Defects(t)) => 6 \in Holding(Defects(s))
        /\ 7 \in Holding(Defects(t)) => 7 \in Holding(Defects(s))
    BY Zenon, DefectHolding
  <2> QED BY <2>1
<1>2. Holding(Defects(t)) \subseteq 1..7
  BY DefectNames DEF Holding
<1> QED BY <1>1, <1>2

LEMMA LastPlace ==
  ASSUME NEW n \in Nat, NEW S \in SUBSET (1..n)
  PROVE  Max(S \cup {n + 1}) = n + 1
<1>1. \A k \in S : k <= n
  OBVIOUS
<1>2. \A k \in S \cup {n + 1} : n + 1 >= k /\ ((\A j \in S \cup {n + 1} : k >= j) => k = n + 1)
  BY <1>1
<1> QED BY <1>2 DEF Max

LEMMA OnlyPlace ==
  ASSUME NEW n \in Nat
  PROVE  Min({n}) = n
BY DEF Min

LEMMA MendCapability ==
  ASSUME NEW s \in Seq(Directives), NEW e \in Aliases
  PROVE  Mends(s, Append(s, Field("effect", e)))
<1> DEFINE t == Append(s, Field("effect", e))
<1>1. Field("effect", e) \in Directives /\ e # NoValue
  BY TextAssumption
<1>2. /\ t \in Seq(Directives) /\ \A k : k # "effect" => Agree(s, t, k)
      /\ Where(t, "effect") = Where(s, "effect") \cup {Len(s) + 1}
      /\ t[Len(s) + 1].value = e
  BY <1>1, Written DEF Field
<1> HIDE DEF t
<1>3. Max(Where(t, "effect")) = Len(s) + 1
  BY <1>2, PlacesOf, LastPlace
<1>4. Capability(t) = e
  BY Zenon, <1>2, <1>3 DEF Capability, LastOf
<1>5. e \in Values(t, "effect")
  BY Zenon, <1>2 DEF Values
<1>6. Effectful(t)
  BY <1>5 DEF Effectful
<1>7. /\ Agree(s, t, "interface") /\ Agree(s, t, "payload") /\ Agree(s, t, "attempts")
      /\ Agree(s, t, "build") /\ Agree(s, t, "test") /\ Agree(s, t, "origin")
  BY <1>2
<1>8. Holding(Defects(t)) \subseteq Holding(Defects(s))
  BY Zenon, <1>1, <1>2, <1>4, <1>7, AgreedDefects, FewerDefects
<1>9. ExternallyOriginated(t) <=> ExternallyOriginated(s)
  BY Zenon, <1>2, <1>7, AgreedDefects
<1> QED BY <1>2, <1>6, <1>8, <1>9 DEF Mends, t

LEMMA MendInterface ==
  ASSUME NEW s \in Seq(Directives), NEW h \in Hashes
  PROVE  Mends(s, Append(s, Field("interface", h)))
<1> DEFINE t == Append(s, Field("interface", h))
<1>1. Field("interface", h) \in Directives /\ h # NoValue
  BY TextAssumption
<1>2. /\ t \in Seq(Directives) /\ \A k : k # "interface" => Agree(s, t, k)
      /\ Where(t, "interface") = Where(s, "interface") \cup {Len(s) + 1}
      /\ t[Len(s) + 1].value = h
  BY <1>1, Written DEF Field
<1> HIDE DEF t
<1>3. Max(Where(t, "interface")) = Len(s) + 1
  BY <1>2, PlacesOf, LastPlace
<1>4. Interface(t) = h
  BY Zenon, <1>2, <1>3 DEF Interface, LastOf
<1>5. h \in Values(t, "interface")
  BY Zenon, <1>2 DEF Values
<1>6. Effectful(t)
  BY <1>5 DEF Effectful
<1>7. /\ Agree(s, t, "effect") /\ Agree(s, t, "payload") /\ Agree(s, t, "attempts")
      /\ Agree(s, t, "build") /\ Agree(s, t, "test") /\ Agree(s, t, "origin")
  BY <1>2
<1>8. Holding(Defects(t)) \subseteq Holding(Defects(s))
  BY Zenon, <1>1, <1>2, <1>4, <1>7, AgreedDefects, FewerDefects
<1>9. ExternallyOriginated(t) <=> ExternallyOriginated(s)
  BY Zenon, <1>2, <1>7, AgreedDefects
<1> QED BY <1>2, <1>6, <1>8, <1>9 DEF Mends, t

LEMMA MendPayload ==
  ASSUME NEW s \in Seq(Directives), Effectful(s)
  PROVE  Mends(s, Append(Drop(s, {"payload"}), Field("payload", "json")))
<1> DEFINE d == Drop(s, {"payload"})
           t == Append(d, Field("payload", "json"))
<1>1. Field("payload", "json") \in Directives /\ "json" # NoValue
  BY TextAssumption
<1>2. /\ d \in Seq(Directives) /\ \A k : k \notin {"payload", "none"} => Agree(s, d, k)
      /\ Where(d, "payload") = {}
  BY StruckOut
<1> HIDE DEF d
<1>3. /\ t \in Seq(Directives) /\ \A k : k # "payload" => Agree(d, t, k)
      /\ Where(t, "payload") = {Len(d) + 1}
      /\ t[Len(d) + 1].value = "json"
  BY <1>1, <1>2, Written DEF Field
<1> HIDE DEF t
<1>4. Min(Where(t, "payload")) = Len(d) + 1
  BY <1>2, <1>3, PlacesOf, OnlyPlace
<1>5. Payload(t) = "json"
  BY Zenon, <1>3, <1>4 DEF Payload, FirstOf
<1>6. \A k : k \notin {"payload", "none"} => Agree(s, t, k)
  BY <1>2, <1>3 DEF Agree
<1>7. /\ Agree(s, t, "effect") /\ Agree(s, t, "interface") /\ Agree(s, t, "attempts")
      /\ Agree(s, t, "build") /\ Agree(s, t, "test") /\ Agree(s, t, "origin")
  BY <1>6
<1>8. Payload(t) # NoValue /\ Payload(t) # "text"
  BY <1>1, <1>5
<1>9. Holding(Defects(t)) \subseteq Holding(Defects(s))
  BY Zenon, <1>3, <1>7, <1>8, AgreedDefects, FewerDefects
<1>10. (ExternallyOriginated(t) <=> ExternallyOriginated(s)) /\ Effectful(t)
  BY Zenon, <1>3, <1>7, AgreedDefects DEF Effectful
<1> QED BY <1>3, <1>9, <1>10 DEF Mends, t, d

LEMMA MendAttempts ==
  ASSUME NEW s \in Seq(Directives), Effectful(s)
  PROVE  Mends(s, Drop(s, {"attempts"}))
<1> DEFINE t == Drop(s, {"attempts"})
<1>1. /\ t \in Seq(Directives) /\ \A k : k \notin {"attempts", "none"} => Agree(s, t, k)
      /\ Where(t, "attempts") = {}
  BY StruckOut
<1> HIDE DEF t
<1>2. {k \in Where(t, "attempts") : t[k].value > 0} = {}
  BY <1>1
<1>3. AttemptsOf(t) = 0
  BY Zenon, <1>2 DEF AttemptsOf, LastOf
<1>4. ~(AttemptsOf(t) > 1)
  BY <1>3
<1>5. /\ Agree(s, t, "effect") /\ Agree(s, t, "interface") /\ Agree(s, t, "payload")
      /\ Agree(s, t, "build") /\ Agree(s, t, "test") /\ Agree(s, t, "origin")
  BY <1>1
<1>6. Holding(Defects(t)) \subseteq Holding(Defects(s))
  BY Zenon, <1>1, <1>4, <1>5, AgreedDefects, FewerDefects
<1>7. (ExternallyOriginated(t) <=> ExternallyOriginated(s)) /\ Effectful(t)
  BY Zenon, <1>1, <1>5, AgreedDefects DEF Effectful
<1> QED BY <1>1, <1>6, <1>7 DEF Mends, t

LEMMA MendWork ==
  ASSUME NEW s \in Seq(Directives), Effectful(s)
  PROVE  Mends(s, Drop(s, {"build", "test"}))
<1> DEFINE t == Drop(s, {"build", "test"})
<1>1. /\ t \in Seq(Directives) /\ \A k : k \notin {"build", "test", "none"} => Agree(s, t, k)
      /\ Where(t, "build") = {} /\ Where(t, "test") = {}
  BY StruckOut
<1> HIDE DEF t
<1>2. Tokens(t, "build") \cup Tokens(t, "test") = {}
  BY <1>1 DEF Tokens, Values
<1>3. /\ Agree(s, t, "effect") /\ Agree(s, t, "interface") /\ Agree(s, t, "payload")
      /\ Agree(s, t, "attempts") /\ Agree(s, t, "origin")
  BY <1>1
<1>4. Holding(Defects(t)) \subseteq Holding(Defects(s))
  BY Zenon, <1>1, <1>2, <1>3, AgreedDefects, FewerDefects
<1>5. (ExternallyOriginated(t) <=> ExternallyOriginated(s)) /\ Effectful(t)
  BY Zenon, <1>1, <1>3, AgreedDefects DEF Effectful
<1> QED BY <1>1, <1>4, <1>5 DEF Mends, t

(* What is mended is, besides, what was named. *)
LEMMA MendedText ==
  ASSUME NEW s \in Seq(Directives), Effectful(s), NEW t \in Mend(s)
  PROVE  /\ Mends(s, t)
         /\ \A k \in Holding(Defects(t)) : Name(Defects(t), k) # Malformed(s)
<1>1. \A k \in Holding(Defects(t)) : Name(Defects(t), k) # Malformed(s)
  BY Zenon DEF Mend, Name
<1>2. \/ t \in {Append(s, Field("effect", e)) : e \in Aliases}
      \/ t \in {Append(s, Field("interface", h)) : h \in Hashes}
      \/ t = Append(Drop(s, {"payload"}), Field("payload", "json"))
      \/ t = Drop(s, {"attempts"})
      \/ t = Drop(s, {"build", "test"})
  BY Zenon DEF Mend
<1>3. Mends(s, t)
  BY Zenon, <1>2, MendCapability, MendInterface, MendPayload, MendAttempts, MendWork
<1> QED BY <1>1, <1>3

--------------------------------------------------------------------------------
(* Whoever a refusal is addressed to removes what it names: the place moves on. *)

First(i, done) == FirstReason(Obstacles(i, done))
Nearer(i, j, done) == Further(Progress(j, done), Progress(i, done))

LEMMA FurtherPlace ==
  ASSUME NEW i, NEW j, NEW done, Place(Obstacles(j, done)) > Place(Obstacles(i, done))
  PROVE  Nearer(i, j, done)
<1> DEFINE a == Progress(j, done)
           b == Progress(i, done)
<1>1. a[1] > b[1]
  BY Zenon DEF Progress
<1> HIDE DEF a, b
<1>2. \E k \in 1..3 : a[k] > b[k] /\ \A m \in 1..(k-1) : a[m] = b[m]
  <2>1. 1 \in 1..3 /\ \A m \in 1..(1-1) : a[m] = b[m]
    OBVIOUS
  <2> QED BY <1>1, <2>1
<1> QED BY Zenon, <1>2 DEF Further, Nearer, a, b

LEMMA AttemptNearer ==
  ASSUME NEW i, NEW j, NEW done, ~Effectful(i.spec), j.spec = i.spec,
         NEW k \in 1..10, FirstAt(AttemptObstacles(i), k), k \notin Holding(AttemptObstacles(j)),
         \A m \in 1..(k-1) : m \in Holding(AttemptObstacles(j)) => m \in Holding(AttemptObstacles(i))
  PROVE  Nearer(i, j, done)
<1>1. Obstacles(i, done) = AttemptObstacles(i) /\ Obstacles(j, done) = AttemptObstacles(j)
  BY DEF Obstacles
<1>2. Place(AttemptObstacles(j)) > Place(AttemptObstacles(i))
  BY AttemptNames, MovesOn
<1> QED BY <1>1, <1>2, FurtherPlace

LEMMA EffectNearer ==
  ASSUME NEW i, NEW j, NEW done, Effectful(i.spec), Effectful(j.spec),
         NEW k \in 1..8, FirstAt(EffectObstacles(i, done), k), k \notin Holding(EffectObstacles(j, done)),
         \A m \in 1..(k-1) :
           m \in Holding(EffectObstacles(j, done)) => m \in Holding(EffectObstacles(i, done))
  PROVE  Nearer(i, j, done)
<1>1. Obstacles(i, done) = EffectObstacles(i, done) /\ Obstacles(j, done) = EffectObstacles(j, done)
  BY DEF Obstacles
<1>2. Place(EffectObstacles(j, done)) > Place(EffectObstacles(i, done))
  BY EffectNames, MovesOn
<1> QED BY <1>1, <1>2, FurtherPlace

(* What a check looks at decides it. *)
LEMMA SameInputs ==
  ASSUME NEW i, NEW j, NEW done, j.spec = i.spec
  PROVE  /\ j.decline = i.decline => (External(j) <=> External(i))
         /\ j.cell = i.cell =>
              /\ HasGrant(j.cell, j.spec) <=> HasGrant(i.cell, i.spec)
              /\ Missing(j.cell, j.spec) = Missing(i.cell, i.spec)
         /\ PriorEffect(j.spec, done) <=> PriorEffect(i.spec, done)
         /\ Malformed(j.spec) = Malformed(i.spec)
         /\ j.attempts = i.attempts /\ j.perCell = i.perCell /\ j.attemptsDefault = i.attemptsDefault =>
              (Enough(j) <=> Enough(i))
<1>1. j.decline = i.decline => (External(j) <=> External(i))
  BY Zenon DEF External
<1>2. j.attempts = i.attempts /\ j.perCell = i.perCell /\ j.attemptsDefault = i.attemptsDefault =>
        (Enough(j) <=> Enough(i))
  BY Zenon DEF Enough, MaxAttempts
<1> QED BY Zenon, <1>1, <1>2

(* An operator who accepts work from outside. *)
LEMMA RepairOrigin ==
  ASSUME NEW i, IsInput(i), NEW done, First(i, done) = "ExternallyOriginated"
  PROVE  LET j == [i EXCEPT !.decline = FALSE]
         IN  IsInput(j) /\ Nearer(i, j, done)
<1> DEFINE j == [i EXCEPT !.decline = FALSE]
<1>1. IsInput(j)
  BY InputEdits
<1>2. /\ j.decline = FALSE
      /\ j.spec = i.spec /\ j.cell = i.cell /\ j.attempts = i.attempts /\ j.perCell = i.perCell /\ j.now = i.now
      /\ j.reachable = i.reachable /\ j.scoped = i.scoped /\ j.status = i.status /\ j.blocked = i.blocked /\ j.attemptsDefault = i.attemptsDefault
      /\ j.budgetOK = i.budgetOK /\ j.yield = i.yield /\ j.claims = i.claims
  BY DEF IsInput, InputFields
<1> HIDE DEF j
<1>3. ASSUME ~Effectful(i.spec) PROVE Nearer(i, j, done)
  <2>1. FirstAt(AttemptObstacles(i), 1)
    BY <1>3, AttemptPlace DEF First
  <2>2. 1 \notin Holding(AttemptObstacles(j))
    BY Zenon, <1>2, AttemptHolding DEF External
  <2>4. \A m \in 1..(1-1) : m \in Holding(AttemptObstacles(j)) => m \in Holding(AttemptObstacles(i))
    OBVIOUS
  <2>5. 1 \in 1..10 /\ j.spec = i.spec
    BY <1>2
  <2> QED BY Zenon, <1>3, <2>1, <2>2, <2>4, <2>5, AttemptNearer
<1>4. ASSUME Effectful(i.spec) PROVE Nearer(i, j, done)
  <2>1. FirstAt(EffectObstacles(i, done), 1)
    BY <1>4, EffectPlace DEF First
  <2>2. 1 \notin Holding(EffectObstacles(j, done))
    BY Zenon, <1>2, EffectHolding DEF External
  <2>4. \A m \in 1..(1-1) : m \in Holding(EffectObstacles(j, done)) => m \in Holding(EffectObstacles(i, done))
    OBVIOUS
  <2>5. 1 \in 1..8 /\ j.spec = i.spec
    BY <1>2
  <2> QED BY Zenon, <1>4, <2>1, <2>2, <2>4, <2>5, EffectNearer
<1> QED BY <1>1, <1>3, <1>4 DEF j

(* An executor that is brought up. *)
LEMMA RepairExecutor ==
  ASSUME NEW i, IsInput(i), NEW done, First(i, done) = "NoExecutor"
  PROVE  LET j == [i EXCEPT !.reachable = TRUE]
         IN  IsInput(j) /\ Nearer(i, j, done)
<1> DEFINE j == [i EXCEPT !.reachable = TRUE]
<1>1. IsInput(j)
  BY InputEdits
<1>2. /\ j.reachable = TRUE
      /\ j.spec = i.spec /\ j.cell = i.cell /\ j.attempts = i.attempts /\ j.perCell = i.perCell /\ j.now = i.now
      /\ j.scoped = i.scoped /\ j.status = i.status /\ j.blocked = i.blocked /\ j.attemptsDefault = i.attemptsDefault /\ j.budgetOK = i.budgetOK
      /\ j.decline = i.decline /\ j.yield = i.yield /\ j.claims = i.claims
  BY DEF IsInput, InputFields
<1> HIDE DEF j
<1>3. ASSUME ~Effectful(i.spec) PROVE Nearer(i, j, done)
  <2>1. FirstAt(AttemptObstacles(i), 3)
    BY <1>3, AttemptPlace DEF First
  <2>2. 3 \notin Holding(AttemptObstacles(j))
    BY Zenon, <1>2, AttemptHolding DEF External
  <2>3. /\ 1 \in Holding(AttemptObstacles(j)) => 1 \in Holding(AttemptObstacles(i))
        /\ 2 \in Holding(AttemptObstacles(j)) => 2 \in Holding(AttemptObstacles(i))
    BY Zenon, <1>2, SameInputs, AttemptHolding
  <2>4. \A m \in 1..(3-1) : m \in Holding(AttemptObstacles(j)) => m \in Holding(AttemptObstacles(i))
    BY <2>3
  <2>5. 3 \in 1..10 /\ j.spec = i.spec
    BY <1>2
  <2> QED BY Zenon, <1>3, <2>1, <2>2, <2>4, <2>5, AttemptNearer
<1>4. ASSUME Effectful(i.spec) PROVE Nearer(i, j, done)
  BY <1>4, EffectPlace DEF First
<1> QED BY <1>1, <1>3, <1>4 DEF j

(* A body that is scoped. *)
LEMMA RepairScope ==
  ASSUME NEW i, IsInput(i), NEW done, First(i, done) = "Unschedulable"
  PROVE  LET j == [i EXCEPT !.scoped = TRUE]
         IN  IsInput(j) /\ Nearer(i, j, done)
<1> DEFINE j == [i EXCEPT !.scoped = TRUE]
<1>1. IsInput(j)
  BY InputEdits
<1>2. /\ j.scoped = TRUE
      /\ j.spec = i.spec /\ j.cell = i.cell /\ j.attempts = i.attempts /\ j.perCell = i.perCell /\ j.now = i.now
      /\ j.reachable = i.reachable /\ j.status = i.status /\ j.blocked = i.blocked /\ j.attemptsDefault = i.attemptsDefault /\ j.budgetOK = i.budgetOK
      /\ j.decline = i.decline /\ j.yield = i.yield /\ j.claims = i.claims
  BY DEF IsInput, InputFields
<1> HIDE DEF j
<1>3. ASSUME ~Effectful(i.spec) PROVE Nearer(i, j, done)
  <2>1. FirstAt(AttemptObstacles(i), 4)
    BY <1>3, AttemptPlace DEF First
  <2>2. 4 \notin Holding(AttemptObstacles(j))
    BY Zenon, <1>2, AttemptHolding DEF External
  <2>3. /\ 1 \in Holding(AttemptObstacles(j)) => 1 \in Holding(AttemptObstacles(i))
        /\ 2 \in Holding(AttemptObstacles(j)) => 2 \in Holding(AttemptObstacles(i))
        /\ 3 \in Holding(AttemptObstacles(j)) => 3 \in Holding(AttemptObstacles(i))
    BY Zenon, <1>2, SameInputs, AttemptHolding
  <2>4. \A m \in 1..(4-1) : m \in Holding(AttemptObstacles(j)) => m \in Holding(AttemptObstacles(i))
    BY <2>3
  <2>5. 4 \in 1..10 /\ j.spec = i.spec
    BY <1>2
  <2> QED BY Zenon, <1>3, <2>1, <2>2, <2>4, <2>5, AttemptNearer
<1>4. ASSUME Effectful(i.spec) PROVE Nearer(i, j, done)
  <2>1. FirstAt(EffectObstacles(i, done), 3)
    BY <1>4, EffectPlace DEF First
  <2>2. 3 \notin Holding(EffectObstacles(j, done))
    BY Zenon, <1>2, EffectHolding DEF External
  <2>3. /\ 1 \in Holding(EffectObstacles(j, done)) => 1 \in Holding(EffectObstacles(i, done))
        /\ 2 \in Holding(EffectObstacles(j, done)) => 2 \in Holding(EffectObstacles(i, done))
    BY Zenon, <1>2, SameInputs, EffectHolding
  <2>4. \A m \in 1..(3-1) : m \in Holding(EffectObstacles(j, done)) => m \in Holding(EffectObstacles(i, done))
    BY <2>3
  <2>5. 3 \in 1..8 /\ j.spec = i.spec
    BY <1>2
  <2> QED BY Zenon, <1>4, <2>1, <2>2, <2>4, <2>5, EffectNearer
<1> QED BY <1>1, <1>3, <1>4 DEF j

(* A veto that is lifted. *)
LEMMA RepairVeto ==
  ASSUME NEW i, IsInput(i), NEW done, First(i, done) = "Vetoed"
  PROVE  LET j == [i EXCEPT !.status = "open"]
         IN  IsInput(j) /\ Nearer(i, j, done)
<1> DEFINE j == [i EXCEPT !.status = "open"]
<1>1. IsInput(j)
  BY InputEdits
<1>2. /\ j.status = "open"
      /\ j.spec = i.spec /\ j.cell = i.cell /\ j.attempts = i.attempts /\ j.perCell = i.perCell /\ j.now = i.now
      /\ j.reachable = i.reachable /\ j.scoped = i.scoped /\ j.blocked = i.blocked /\ j.attemptsDefault = i.attemptsDefault /\ j.budgetOK = i.budgetOK
      /\ j.decline = i.decline /\ j.yield = i.yield /\ j.claims = i.claims
  BY DEF IsInput, InputFields
<1> HIDE DEF j
<1>3. ASSUME ~Effectful(i.spec) PROVE Nearer(i, j, done)
  <2>1. FirstAt(AttemptObstacles(i), 5)
    BY <1>3, AttemptPlace DEF First
  <2>2. 5 \notin Holding(AttemptObstacles(j))
    BY Zenon, <1>2, AttemptHolding DEF External
  <2>3. /\ 1 \in Holding(AttemptObstacles(j)) => 1 \in Holding(AttemptObstacles(i))
        /\ 2 \in Holding(AttemptObstacles(j)) => 2 \in Holding(AttemptObstacles(i))
        /\ 3 \in Holding(AttemptObstacles(j)) => 3 \in Holding(AttemptObstacles(i))
        /\ 4 \in Holding(AttemptObstacles(j)) => 4 \in Holding(AttemptObstacles(i))
    BY Zenon, <1>2, SameInputs, AttemptHolding
  <2>4. \A m \in 1..(5-1) : m \in Holding(AttemptObstacles(j)) => m \in Holding(AttemptObstacles(i))
    BY <2>3
  <2>5. 5 \in 1..10 /\ j.spec = i.spec
    BY <1>2
  <2> QED BY Zenon, <1>3, <2>1, <2>2, <2>4, <2>5, AttemptNearer
<1>4. ASSUME Effectful(i.spec) PROVE Nearer(i, j, done)
  <2>1. FirstAt(EffectObstacles(i, done), 4)
    BY <1>4, EffectPlace DEF First
  <2>2. 4 \notin Holding(EffectObstacles(j, done))
    BY Zenon, <1>2, EffectHolding DEF External
  <2>3. /\ 1 \in Holding(EffectObstacles(j, done)) => 1 \in Holding(EffectObstacles(i, done))
        /\ 2 \in Holding(EffectObstacles(j, done)) => 2 \in Holding(EffectObstacles(i, done))
        /\ 3 \in Holding(EffectObstacles(j, done)) => 3 \in Holding(EffectObstacles(i, done))
    BY Zenon, <1>2, SameInputs, EffectHolding
  <2>4. \A m \in 1..(4-1) : m \in Holding(EffectObstacles(j, done)) => m \in Holding(EffectObstacles(i, done))
    BY <2>3
  <2>5. 4 \in 1..8 /\ j.spec = i.spec
    BY <1>2
  <2> QED BY Zenon, <1>4, <2>1, <2>2, <2>4, <2>5, EffectNearer
<1> QED BY <1>1, <1>3, <1>4 DEF j

(* A blocking ticket that is done with. *)
LEMMA RepairBlock ==
  ASSUME NEW i, IsInput(i), NEW done, First(i, done) = "Blocked"
  PROVE  LET j == [i EXCEPT !.blocked = FALSE]
         IN  IsInput(j) /\ Nearer(i, j, done)
<1> DEFINE j == [i EXCEPT !.blocked = FALSE]
<1>1. IsInput(j)
  BY InputEdits
<1>2. /\ j.blocked = FALSE
      /\ j.spec = i.spec /\ j.cell = i.cell /\ j.attempts = i.attempts /\ j.perCell = i.perCell /\ j.now = i.now
      /\ j.reachable = i.reachable /\ j.scoped = i.scoped /\ j.status = i.status /\ j.attemptsDefault = i.attemptsDefault /\ j.budgetOK = i.budgetOK
      /\ j.decline = i.decline /\ j.yield = i.yield /\ j.claims = i.claims
  BY DEF IsInput, InputFields
<1> HIDE DEF j
<1>3. ASSUME ~Effectful(i.spec) PROVE Nearer(i, j, done)
  <2>1. FirstAt(AttemptObstacles(i), 6)
    BY <1>3, AttemptPlace DEF First
  <2>2. 6 \notin Holding(AttemptObstacles(j))
    BY Zenon, <1>2, AttemptHolding DEF External
  <2>3. /\ 1 \in Holding(AttemptObstacles(j)) => 1 \in Holding(AttemptObstacles(i))
        /\ 2 \in Holding(AttemptObstacles(j)) => 2 \in Holding(AttemptObstacles(i))
        /\ 3 \in Holding(AttemptObstacles(j)) => 3 \in Holding(AttemptObstacles(i))
        /\ 4 \in Holding(AttemptObstacles(j)) => 4 \in Holding(AttemptObstacles(i))
        /\ 5 \in Holding(AttemptObstacles(j)) => 5 \in Holding(AttemptObstacles(i))
    BY Zenon, <1>2, SameInputs, AttemptHolding
  <2>4. \A m \in 1..(6-1) : m \in Holding(AttemptObstacles(j)) => m \in Holding(AttemptObstacles(i))
    BY <2>3
  <2>5. 6 \in 1..10 /\ j.spec = i.spec
    BY <1>2
  <2> QED BY Zenon, <1>3, <2>1, <2>2, <2>4, <2>5, AttemptNearer
<1>4. ASSUME Effectful(i.spec) PROVE Nearer(i, j, done)
  <2>1. FirstAt(EffectObstacles(i, done), 5)
    BY <1>4, EffectPlace DEF First
  <2>2. 5 \notin Holding(EffectObstacles(j, done))
    BY Zenon, <1>2, EffectHolding DEF External
  <2>3. /\ 1 \in Holding(EffectObstacles(j, done)) => 1 \in Holding(EffectObstacles(i, done))
        /\ 2 \in Holding(EffectObstacles(j, done)) => 2 \in Holding(EffectObstacles(i, done))
        /\ 3 \in Holding(EffectObstacles(j, done)) => 3 \in Holding(EffectObstacles(i, done))
        /\ 4 \in Holding(EffectObstacles(j, done)) => 4 \in Holding(EffectObstacles(i, done))
    BY Zenon, <1>2, SameInputs, EffectHolding
  <2>4. \A m \in 1..(5-1) : m \in Holding(EffectObstacles(j, done)) => m \in Holding(EffectObstacles(i, done))
    BY <2>3
  <2>5. 5 \in 1..8 /\ j.spec = i.spec
    BY <1>2
  <2> QED BY Zenon, <1>4, <2>1, <2>2, <2>4, <2>5, EffectNearer
<1> QED BY <1>1, <1>3, <1>4 DEF j

(* A budget that is raised. *)
LEMMA RepairBudget ==
  ASSUME NEW i, IsInput(i), NEW done, First(i, done) = "Budget"
  PROVE  LET j == [i EXCEPT !.budgetOK = TRUE]
         IN  IsInput(j) /\ Nearer(i, j, done)
<1> DEFINE j == [i EXCEPT !.budgetOK = TRUE]
<1>1. IsInput(j)
  BY InputEdits
<1>2. /\ j.budgetOK = TRUE
      /\ j.spec = i.spec /\ j.cell = i.cell /\ j.attempts = i.attempts /\ j.perCell = i.perCell /\ j.now = i.now
      /\ j.reachable = i.reachable /\ j.scoped = i.scoped /\ j.status = i.status /\ j.blocked = i.blocked /\ j.attemptsDefault = i.attemptsDefault
      /\ j.decline = i.decline /\ j.yield = i.yield /\ j.claims = i.claims
  BY DEF IsInput, InputFields
<1> HIDE DEF j
<1>3. ASSUME ~Effectful(i.spec) PROVE Nearer(i, j, done)
  <2>1. FirstAt(AttemptObstacles(i), 9)
    BY <1>3, AttemptPlace DEF First
  <2>2. 9 \notin Holding(AttemptObstacles(j))
    BY Zenon, <1>2, AttemptHolding DEF External
  <2>3. /\ 1 \in Holding(AttemptObstacles(j)) => 1 \in Holding(AttemptObstacles(i))
        /\ 2 \in Holding(AttemptObstacles(j)) => 2 \in Holding(AttemptObstacles(i))
        /\ 3 \in Holding(AttemptObstacles(j)) => 3 \in Holding(AttemptObstacles(i))
        /\ 4 \in Holding(AttemptObstacles(j)) => 4 \in Holding(AttemptObstacles(i))
        /\ 5 \in Holding(AttemptObstacles(j)) => 5 \in Holding(AttemptObstacles(i))
        /\ 6 \in Holding(AttemptObstacles(j)) => 6 \in Holding(AttemptObstacles(i))
        /\ 7 \in Holding(AttemptObstacles(j)) => 7 \in Holding(AttemptObstacles(i))
        /\ 8 \in Holding(AttemptObstacles(j)) => 8 \in Holding(AttemptObstacles(i))
    BY Zenon, <1>2, SameInputs, AttemptHolding
  <2>4. \A m \in 1..(9-1) : m \in Holding(AttemptObstacles(j)) => m \in Holding(AttemptObstacles(i))
    BY <2>3
  <2>5. 9 \in 1..10 /\ j.spec = i.spec
    BY <1>2
  <2> QED BY Zenon, <1>3, <2>1, <2>2, <2>4, <2>5, AttemptNearer
<1>4. ASSUME Effectful(i.spec) PROVE Nearer(i, j, done)
  BY <1>4, EffectPlace DEF First
<1> QED BY <1>1, <1>3, <1>4 DEF j



(* A cell that may attempt. *)
LEMMA RepairRoles ==
  ASSUME NEW i, IsInput(i), NEW done, First(i, done) = "NotAttempting",
         NEW c, DOMAIN c = CellFields, Coherent(c), "attempt" \in c.roles
  PROVE  LET j == [i EXCEPT !.cell = c]
         IN  IsInput(j) /\ Nearer(i, j, done)
<1> DEFINE j == [i EXCEPT !.cell = c]
<1>1. IsInput(j)
  BY CellEdit
<1>2. /\ j.cell = c
      /\ j.spec = i.spec /\ j.attempts = i.attempts /\ j.perCell = i.perCell /\ j.now = i.now /\ j.reachable = i.reachable
      /\ j.scoped = i.scoped /\ j.status = i.status /\ j.blocked = i.blocked /\ j.attemptsDefault = i.attemptsDefault /\ j.budgetOK = i.budgetOK
      /\ j.decline = i.decline /\ j.yield = i.yield /\ j.claims = i.claims
  BY DEF IsInput, InputFields
<1> HIDE DEF j
<1>3. ~Effectful(i.spec)
  BY EffectPlace DEF First
<1>4. Nearer(i, j, done)
  <2>1. FirstAt(AttemptObstacles(i), 2)
    BY <1>3, AttemptPlace DEF First
  <2>2. 2 \notin Holding(AttemptObstacles(j))
    BY Zenon, <1>2, AttemptHolding
  <2>3. /\ 1 \in Holding(AttemptObstacles(j)) => 1 \in Holding(AttemptObstacles(i))
    BY Zenon, <1>2, SameInputs, AttemptHolding
  <2>4. \A m \in 1..(2-1) : m \in Holding(AttemptObstacles(j)) => m \in Holding(AttemptObstacles(i))
    BY <2>3
  <2>5. 2 \in 1..10 /\ j.spec = i.spec
    BY <1>2
  <2> QED BY Zenon, <1>3, <2>1, <2>2, <2>4, <2>5, AttemptNearer
<1> QED BY <1>1, <1>4 DEF j

(* A cell that declares what is asked for. *)
LEMMA RepairCapability ==
  ASSUME NEW i, IsInput(i), NEW done, First(i, done) = "Capability",
         NEW c, DOMAIN c = CellFields, Coherent(c), c.roles = i.cell.roles,
         Missing(c, i.spec) = [build |-> {}, test |-> {}]
  PROVE  LET j == [i EXCEPT !.cell = c]
         IN  IsInput(j) /\ Nearer(i, j, done)
<1> DEFINE j == [i EXCEPT !.cell = c]
<1>1. IsInput(j)
  BY CellEdit
<1>2. /\ j.cell = c
      /\ j.spec = i.spec /\ j.attempts = i.attempts /\ j.perCell = i.perCell /\ j.now = i.now /\ j.reachable = i.reachable
      /\ j.scoped = i.scoped /\ j.status = i.status /\ j.blocked = i.blocked /\ j.attemptsDefault = i.attemptsDefault /\ j.budgetOK = i.budgetOK
      /\ j.decline = i.decline /\ j.yield = i.yield /\ j.claims = i.claims
  BY DEF IsInput, InputFields
<1> HIDE DEF j
<1>3. ~Effectful(i.spec)
  BY EffectPlace DEF First
<1>4. Nearer(i, j, done)
  <2>1. FirstAt(AttemptObstacles(i), 7)
    BY <1>3, AttemptPlace DEF First
  <2>2. 7 \notin Holding(AttemptObstacles(j))
    BY Zenon, <1>2, AttemptHolding
  <2>3. /\ 1 \in Holding(AttemptObstacles(j)) => 1 \in Holding(AttemptObstacles(i))
        /\ 2 \in Holding(AttemptObstacles(j)) => 2 \in Holding(AttemptObstacles(i))
        /\ 3 \in Holding(AttemptObstacles(j)) => 3 \in Holding(AttemptObstacles(i))
        /\ 4 \in Holding(AttemptObstacles(j)) => 4 \in Holding(AttemptObstacles(i))
        /\ 5 \in Holding(AttemptObstacles(j)) => 5 \in Holding(AttemptObstacles(i))
        /\ 6 \in Holding(AttemptObstacles(j)) => 6 \in Holding(AttemptObstacles(i))
    BY Zenon, <1>2, SameInputs, AttemptHolding
  <2>4. \A m \in 1..(7-1) : m \in Holding(AttemptObstacles(j)) => m \in Holding(AttemptObstacles(i))
    BY <2>3
  <2>5. 7 \in 1..10 /\ j.spec = i.spec
    BY <1>2
  <2> QED BY Zenon, <1>3, <2>1, <2>2, <2>4, <2>5, AttemptNearer
<1> QED BY <1>1, <1>4 DEF j

(* A cell that may act. *)
LEMMA RepairAuthority ==
  ASSUME NEW i, IsInput(i), NEW done, First(i, done) = "NoAuthority",
         NEW c, DOMAIN c = CellFields, Coherent(c), HasGrant(c, i.spec)
  PROVE  LET j == [i EXCEPT !.cell = c]
         IN  IsInput(j) /\ Nearer(i, j, done)
<1> DEFINE j == [i EXCEPT !.cell = c]
<1>1. IsInput(j)
  BY CellEdit
<1>2. /\ j.cell = c
      /\ j.spec = i.spec /\ j.attempts = i.attempts /\ j.perCell = i.perCell /\ j.now = i.now /\ j.reachable = i.reachable
      /\ j.scoped = i.scoped /\ j.status = i.status /\ j.blocked = i.blocked /\ j.attemptsDefault = i.attemptsDefault /\ j.budgetOK = i.budgetOK
      /\ j.decline = i.decline /\ j.yield = i.yield /\ j.claims = i.claims
  BY DEF IsInput, InputFields
<1> HIDE DEF j
<1>3. Effectful(i.spec)
  BY AttemptPlace DEF First
<1>4. Nearer(i, j, done)
  <2>1. FirstAt(EffectObstacles(i, done), 6)
    BY <1>3, EffectPlace DEF First
  <2>2. 6 \notin Holding(EffectObstacles(j, done))
    BY Zenon, <1>2, EffectHolding
  <2>3. /\ 1 \in Holding(EffectObstacles(j, done)) => 1 \in Holding(EffectObstacles(i, done))
        /\ 2 \in Holding(EffectObstacles(j, done)) => 2 \in Holding(EffectObstacles(i, done))
        /\ 3 \in Holding(EffectObstacles(j, done)) => 3 \in Holding(EffectObstacles(i, done))
        /\ 4 \in Holding(EffectObstacles(j, done)) => 4 \in Holding(EffectObstacles(i, done))
        /\ 5 \in Holding(EffectObstacles(j, done)) => 5 \in Holding(EffectObstacles(i, done))
    BY Zenon, <1>2, SameInputs, EffectHolding
  <2>4. \A m \in 1..(6-1) : m \in Holding(EffectObstacles(j, done)) => m \in Holding(EffectObstacles(i, done))
    BY <2>3
  <2>5. 6 \in 1..8 /\ j.spec = i.spec
    BY <1>2
  <2> QED BY Zenon, <1>3, <2>1, <2>2, <2>4, <2>5, EffectNearer
<1> QED BY <1>1, <1>4 DEF j

(* A limit that leaves one attempt more. *)
LEMMA RepairLimit ==
  ASSUME NEW i, IsInput(i), NEW done, First(i, done) = "AlreadyAttempted", ~Effectful(i.spec)
  PROVE  LET j == [i EXCEPT !.perCell = i.attempts + 1]
         IN  IsInput(j) /\ Nearer(i, j, done)
<1> DEFINE j == [i EXCEPT !.perCell = i.attempts + 1]
<1>1. IsInput(j)
  <2>1. i.attempts + 1 \in Nat
    BY DEF IsInput
  <2> QED BY <2>1, LimitEdit
<1>2. /\ j.perCell = i.attempts + 1
      /\ j.spec = i.spec /\ j.cell = i.cell /\ j.attempts = i.attempts /\ j.now = i.now /\ j.reachable = i.reachable
      /\ j.scoped = i.scoped /\ j.status = i.status /\ j.blocked = i.blocked /\ j.attemptsDefault = i.attemptsDefault /\ j.budgetOK = i.budgetOK
      /\ j.decline = i.decline /\ j.yield = i.yield /\ j.claims = i.claims
  BY DEF IsInput, InputFields
<1> HIDE DEF j
<1>3. ~Enough(j)
  <2>1. i.attempts \in Nat
    BY DEF IsInput
  <2>2. MaxAttempts(j) = i.attempts + 1
    BY <1>2, <2>1 DEF MaxAttempts
  <2> QED BY <1>2, <2>1, <2>2 DEF Enough
<1>4. Nearer(i, j, done)
  <2>1. FirstAt(AttemptObstacles(i), 8)
    BY AttemptPlace DEF First
  <2>2. 8 \notin Holding(AttemptObstacles(j))
    BY Zenon, <1>2, <1>3, AttemptHolding
  <2>3. /\ 1 \in Holding(AttemptObstacles(j)) => 1 \in Holding(AttemptObstacles(i))
        /\ 2 \in Holding(AttemptObstacles(j)) => 2 \in Holding(AttemptObstacles(i))
        /\ 3 \in Holding(AttemptObstacles(j)) => 3 \in Holding(AttemptObstacles(i))
        /\ 4 \in Holding(AttemptObstacles(j)) => 4 \in Holding(AttemptObstacles(i))
        /\ 5 \in Holding(AttemptObstacles(j)) => 5 \in Holding(AttemptObstacles(i))
        /\ 6 \in Holding(AttemptObstacles(j)) => 6 \in Holding(AttemptObstacles(i))
        /\ 7 \in Holding(AttemptObstacles(j)) => 7 \in Holding(AttemptObstacles(i))
    BY Zenon, <1>2, <1>3, SameInputs, AttemptHolding
  <2>4. \A m \in 1..(8-1) : m \in Holding(AttemptObstacles(j)) => m \in Holding(AttemptObstacles(i))
    BY <2>3
  <2>5. 8 \in 1..10 /\ j.spec = i.spec
    BY <1>2
  <2> QED BY Zenon, <2>1, <2>2, <2>4, <2>5, AttemptNearer
<1> QED BY <1>1, <1>4 DEF j



(* At the same place, an answer is nearer when a claim fewer is waited for. *)
LEMMA LaterPlace ==
  ASSUME NEW i, NEW j, NEW done, j.spec = i.spec,
         Place(Obstacles(j, done)) = Place(Obstacles(i, done)),
         Cardinality(FreshClaims(j)) \in Nat, Cardinality(FreshClaims(i)) \in Nat,
         Cardinality(FreshClaims(j)) < Cardinality(FreshClaims(i))
  PROVE  Nearer(i, j, done)
<1> DEFINE a == Progress(j, done)
           b == Progress(i, done)
           p == Cardinality(FreshClaims(j))
           q == Cardinality(FreshClaims(i))
<1>1. a[1] = b[1] /\ a[2] = b[2] /\ a[3] = -p /\ b[3] = -q
  BY Zenon DEF Progress
<1>2. p \in Nat /\ q \in Nat /\ p < q
  OBVIOUS
<1> HIDE DEF a, b, p, q
<1>3. \E k \in 1..3 : a[k] > b[k] /\ \A m \in 1..(k-1) : a[m] = b[m]
  <2>1. 3 \in 1..3 /\ a[3] > b[3] /\ \A m \in 1..(3-1) : a[m] = b[m]
    BY <1>1, <1>2
  <2> QED BY <2>1
<1> QED BY Zenon, <1>3 DEF Further, Nearer, a, b

(* The soonest of the others' claims that runs out. *)
LEMMA RepairWait ==
  ASSUME NEW i, IsInput(i), NEW done, First(i, done) = "ForeignClaim"
  PROVE  LET j == [i EXCEPT !.now = Min(FreshClaims(i)) + 1]
         IN  IsInput(j) /\ Nearer(i, j, done)
<1> DEFINE j == [i EXCEPT !.now = Min(FreshClaims(i)) + 1]
<1>0. FreshClaims(i) # {}
  <2>1. CASE Effectful(i.spec)
    <3>1. 8 \in Holding(EffectObstacles(i, done))
      BY <2>1, EffectPlace DEF First, FirstAt
    <3> QED BY Zenon, <3>1, EffectHolding
  <2>2. CASE ~Effectful(i.spec)
    <3>1. 10 \in Holding(AttemptObstacles(i))
      BY <2>2, AttemptPlace DEF First, FirstAt
    <3> QED BY Zenon, <3>1, AttemptHolding
  <2> QED BY <2>1, <2>2
<1>1. IsInput(j)
  BY <1>0, SoonestExpiry, ClockEdit
<1>2. /\ j.now = Min(FreshClaims(i)) + 1
      /\ j.spec = i.spec /\ j.cell = i.cell /\ j.attempts = i.attempts /\ j.perCell = i.perCell
      /\ j.reachable = i.reachable /\ j.scoped = i.scoped /\ j.status = i.status /\ j.blocked = i.blocked
      /\ j.attemptsDefault = i.attemptsDefault /\ j.budgetOK = i.budgetOK /\ j.decline = i.decline
      /\ j.yield = i.yield /\ j.claims = i.claims
  BY DEF IsInput, InputFields
<1> HIDE DEF j
<1>3. /\ IsFiniteSet(FreshClaims(i)) /\ FreshClaims(j) \in SUBSET FreshClaims(i)
      /\ FreshClaims(j) # FreshClaims(i)
  <2>1. Min(FreshClaims(i)) \in FreshClaims(i) /\ Min(FreshClaims(i)) \in Nat /\ i.now \in Nat
    BY <1>0, SoonestExpiry DEF IsInput
  <2>2. IsFiniteSet(FreshClaims(i)) /\ i.claims \in SUBSET Int
    BY FreshAreCounted DEF IsInput
  <2>3. Min(FreshClaims(i)) >= i.now
    BY <2>1 DEF FreshClaims
  <2>4. Min(FreshClaims(i)) \notin FreshClaims(j)
    BY <1>2, <2>1 DEF FreshClaims
  <2>5. \A c \in FreshClaims(j) : c \in FreshClaims(i)
    BY <1>2, <2>1, <2>2, <2>3 DEF FreshClaims
  <2> QED BY <2>1, <2>2, <2>4, <2>5
<1>4. Cardinality(FreshClaims(j)) < Cardinality(FreshClaims(i))
  <2>1. /\ Cardinality(FreshClaims(j)) <= Cardinality(FreshClaims(i))
        /\ Cardinality(FreshClaims(j)) # Cardinality(FreshClaims(i))
    BY <1>3, FS_Subset
  <2>2. Cardinality(FreshClaims(j)) \in Nat /\ Cardinality(FreshClaims(i)) \in Nat
    BY <1>3, FS_Subset, FS_CardinalityType
  <2> QED BY <2>1, <2>2
<1>5. Cardinality(FreshClaims(j)) \in Nat /\ Cardinality(FreshClaims(i)) \in Nat
  BY <1>3, FS_Subset, FS_CardinalityType
<1>6. ASSUME ~Effectful(i.spec) PROVE Nearer(i, j, done)
  <2>1. FirstAt(AttemptObstacles(i), 10) /\ Obstacles(i, done) = AttemptObstacles(i)
    BY <1>6, AttemptPlace DEF First
  <2>2. 10 \in Holding(AttemptObstacles(i))
    BY <2>1 DEF FirstAt
  <2>3. /\ 1 \in Holding(AttemptObstacles(j)) <=> 1 \in Holding(AttemptObstacles(i))
        /\ 2 \in Holding(AttemptObstacles(j)) <=> 2 \in Holding(AttemptObstacles(i))
        /\ 3 \in Holding(AttemptObstacles(j)) <=> 3 \in Holding(AttemptObstacles(i))
        /\ 4 \in Holding(AttemptObstacles(j)) <=> 4 \in Holding(AttemptObstacles(i))
        /\ 5 \in Holding(AttemptObstacles(j)) <=> 5 \in Holding(AttemptObstacles(i))
        /\ 6 \in Holding(AttemptObstacles(j)) <=> 6 \in Holding(AttemptObstacles(i))
        /\ 7 \in Holding(AttemptObstacles(j)) <=> 7 \in Holding(AttemptObstacles(i))
        /\ 8 \in Holding(AttemptObstacles(j)) <=> 8 \in Holding(AttemptObstacles(i))
        /\ 9 \in Holding(AttemptObstacles(j)) <=> 9 \in Holding(AttemptObstacles(i))
    BY Zenon, <1>2, SameInputs, AttemptHolding
  <2>4. \A m \in 1..(10-1) : m \in Holding(AttemptObstacles(j)) => m \in Holding(AttemptObstacles(i))
    BY <2>3
  <2>5. 10 \in 1..10 /\ j.spec = i.spec
    BY <1>2
  <2>6. CASE 10 \notin Holding(AttemptObstacles(j))
    BY Zenon, <1>6, <2>1, <2>4, <2>5, <2>6, AttemptNearer
  <2>7. CASE 10 \in Holding(AttemptObstacles(j))
    <3>1. \A m \in 1..10 : m \in Holding(AttemptObstacles(j)) <=> m \in Holding(AttemptObstacles(i))
      BY <2>2, <2>3, <2>7
    <3>2. Holding(AttemptObstacles(j)) = Holding(AttemptObstacles(i))
      BY <3>1, AttemptNames DEF Holding
    <3>3. \A m \in 1..10 : Name(AttemptObstacles(j), m) = Name(AttemptObstacles(i), m)
      BY AttemptNames
    <3>4. Place(AttemptObstacles(j)) = Place(AttemptObstacles(i))
      <4>1. DOMAIN AttemptObstacles(i) = 1..10 /\ DOMAIN AttemptObstacles(j) = 1..10 /\ 10 \in Nat
        BY AttemptNames
      <4> QED BY Zenon, <3>2, <3>3, <4>1, SameHolding
    <3>5. Obstacles(j, done) = AttemptObstacles(j)
      BY Zenon, <1>6, <2>5 DEF Obstacles
    <3>6. i.yield /\ FreshClaims(i) # {}
      BY Zenon, <2>2, AttemptHolding
    <3>7. Cardinality(FreshClaims(j)) < Cardinality(FreshClaims(i))
      BY <1>4, <3>6
    <3> QED BY <2>1, <2>5, <3>4, <3>5, <3>7, <1>5, LaterPlace
  <2> QED BY <2>6, <2>7
<1>7. ASSUME Effectful(i.spec) PROVE Nearer(i, j, done)
  <2>1. FirstAt(EffectObstacles(i, done), 8) /\ Obstacles(i, done) = EffectObstacles(i, done)
    BY <1>7, EffectPlace DEF First
  <2>2. 8 \in Holding(EffectObstacles(i, done))
    BY <2>1 DEF FirstAt
  <2>0. /\ External(j) <=> External(i)
        /\ Malformed(j.spec) = Malformed(i.spec) /\ (HasGrant(j.cell, j.spec) <=> HasGrant(i.cell, i.spec))
        /\ PriorEffect(j.spec, done) <=> PriorEffect(i.spec, done)
    BY Zenon, <1>2, SameInputs
  <2>3. /\ 1 \in Holding(EffectObstacles(j, done)) <=> 1 \in Holding(EffectObstacles(i, done))
        /\ 2 \in Holding(EffectObstacles(j, done)) <=> 2 \in Holding(EffectObstacles(i, done))
        /\ 3 \in Holding(EffectObstacles(j, done)) <=> 3 \in Holding(EffectObstacles(i, done))
        /\ 4 \in Holding(EffectObstacles(j, done)) <=> 4 \in Holding(EffectObstacles(i, done))
        /\ 5 \in Holding(EffectObstacles(j, done)) <=> 5 \in Holding(EffectObstacles(i, done))
        /\ 6 \in Holding(EffectObstacles(j, done)) <=> 6 \in Holding(EffectObstacles(i, done))
        /\ 7 \in Holding(EffectObstacles(j, done)) <=> 7 \in Holding(EffectObstacles(i, done))
    BY Zenon, <1>2, <2>0, EffectHolding
  <2>4. \A m \in 1..(8-1) : m \in Holding(EffectObstacles(j, done)) => m \in Holding(EffectObstacles(i, done))
    BY <2>3
  <2>5. 8 \in 1..8 /\ j.spec = i.spec
    BY <1>2
  <2>6. CASE 8 \notin Holding(EffectObstacles(j, done))
    BY Zenon, <1>7, <2>1, <2>4, <2>5, <2>6, EffectNearer
  <2>7. CASE 8 \in Holding(EffectObstacles(j, done))
    <3>1. \A m \in 1..8 : m \in Holding(EffectObstacles(j, done)) <=> m \in Holding(EffectObstacles(i, done))
      BY <2>2, <2>3, <2>7
    <3>2. Holding(EffectObstacles(j, done)) = Holding(EffectObstacles(i, done))
      BY <3>1, EffectNames DEF Holding
    <3>3. \A m \in 1..8 : Name(EffectObstacles(j, done), m) = Name(EffectObstacles(i, done), m)
      BY EffectNames
    <3>4. Place(EffectObstacles(j, done)) = Place(EffectObstacles(i, done))
      <4>1. DOMAIN EffectObstacles(i, done) = 1..8 /\ DOMAIN EffectObstacles(j, done) = 1..8 /\ 8 \in Nat
        BY EffectNames
      <4> QED BY Zenon, <3>2, <3>3, <4>1, SameHolding
    <3>5. Obstacles(j, done) = EffectObstacles(j, done)
      BY Zenon, <1>7, <2>5 DEF Obstacles
    <3>6. i.yield /\ FreshClaims(i) # {}
      BY Zenon, <2>2, EffectHolding
    <3>7. Cardinality(FreshClaims(j)) < Cardinality(FreshClaims(i))
      BY <1>4, <3>6
    <3> QED BY <2>1, <2>5, <3>4, <3>5, <3>7, <1>5, LaterPlace
  <2> QED BY <2>6, <2>7
<1> QED BY <1>1, <1>6, <1>7 DEF j

(* A text that is mended: either it is sound, or it is another defect's turn. *)
LEMMA RepairText ==
  ASSUME NEW i, IsInput(i), NEW done, First(i, done) = "EffectMalformed", NEW t \in Mend(i.spec)
  PROVE  LET j == [i EXCEPT !.spec = t]
         IN  IsInput(j) /\ Nearer(i, j, done)
<1> DEFINE j == [i EXCEPT !.spec = t]
<1>1. Effectful(i.spec)
  BY AttemptPlace DEF First
<1>2. i.spec \in Seq(Directives)
  BY DEF IsInput
<1>3. Mends(i.spec, t) /\ \A k \in Holding(Defects(t)) : Name(Defects(t), k) # Malformed(i.spec)
  BY <1>1, <1>2, MendedText
<1>4. /\ t \in Seq(Directives) /\ Effectful(t)
      /\ ExternallyOriginated(t) <=> ExternallyOriginated(i.spec)
      /\ Holding(Defects(t)) \subseteq Holding(Defects(i.spec))
  BY <1>3 DEF Mends
<1>5. IsInput(j)
  BY <1>1, <1>4, TextEdit
<1>6. j.spec = t /\ j.decline = i.decline
  BY DEF IsInput, InputFields
<1> HIDE DEF j
<1> DEFINE l == EffectObstacles(i, done)
           m == EffectObstacles(j, done)
<1>7. FirstAt(l, 2)
  BY <1>1, EffectPlace DEF First
<1>8. 1 \in Holding(m) => 1 \in Holding(l)
  BY Zenon, <1>4, <1>6, EffectHolding DEF External
<1>9. \A k \in 1..(2-1) : k \in Holding(m) => k \in Holding(l)
  BY <1>8
<1>10. 1 \notin Holding(l) /\ 2 \in Holding(l)
  BY <1>7 DEF FirstAt
<1>11. Malformed(i.spec) # SkipNone
  BY Zenon, <1>10, EffectHolding
<1>12. CASE 2 \notin Holding(m)
  <2>1. Effectful(j.spec) /\ 2 \in 1..8
    BY <1>4, <1>6
  <2>2. Nearer(i, j, done)
    BY Zenon, <1>1, <1>7, <1>9, <1>12, <2>1, EffectNearer
  <2> QED BY <1>5, <2>2 DEF j
<1>13. CASE 2 \in Holding(m)
  <2>1. FirstAt(m, 2)
    BY <1>8, <1>10, <1>13 DEF FirstAt
  <2>2. Place(m) = Place(l)
    <3>1. DOMAIN l = 1..8 /\ DOMAIN m = 1..8 /\ 8 \in Nat /\ 2 \in 1..8
      BY EffectNames
    <3> QED BY Zenon, <1>7, <2>1, <3>1, PlaceOfFirst
  <2>3. Obstacles(i, done) = l /\ Obstacles(j, done) = m
    BY Zenon, <1>1, <1>4, <1>6 DEF Obstacles
  <2>4. PICK k \in 1..7 : FirstAt(Defects(i.spec), k) /\ Malformed(i.spec) = Name(Defects(i.spec), k)
    BY <1>11, SoundText, SomethingHolds, DefectNames DEF Malformed
  <2>5. Name(Defects(t), k) = Name(Defects(i.spec), k)
    BY DefectNames
  <2>6. k \notin Holding(Defects(t))
    BY <1>3, <2>4, <2>5
  <2>7. Place(Defects(t)) > Place(Defects(i.spec))
    BY <1>4, <2>4, <2>6, DefectNames, MovesOn
  <2> DEFINE a == Progress(j, done)
             b == Progress(i, done)
  <2>8. a[1] = b[1] /\ a[2] = Place(Defects(t)) /\ b[2] = Place(Defects(i.spec))
    BY Zenon, <1>1, <1>4, <1>6, <2>2, <2>3 DEF Progress
  <2> HIDE DEF a, b
  <2>9. \E n \in 1..3 : a[n] > b[n] /\ \A h \in 1..(n-1) : a[h] = b[h]
    <3>1. 2 \in 1..3 /\ a[2] > b[2] /\ \A h \in 1..(2-1) : a[h] = b[h]
      BY <2>7, <2>8
    <3> QED BY <3>1
  <2>10. Nearer(i, j, done)
    BY Zenon, <2>9 DEF Further, Nearer, a, b
  <2> QED BY <1>5, <2>10 DEF j
<1> QED BY <1>12, <1>13



--------------------------------------------------------------------------------
(* Every step keeps the input one, and the answer the policy's. *)

LEMMA RepairStep ==
  ASSUME PolicyInv, Repair
  PROVE  /\ IsInput(in') /\ acted' = acted /\ verdict' = Evaluate(in', acted')
         /\ Nearer(in, in', acted)
<1> DEFINE Good(j) == IsInput(j) /\ Nearer(in, j, acted)
<1>1. IsInput(in) /\ verdict.skip = First(in, acted)
  BY Zenon, Answer DEF PolicyInv, First
<1>2. \E j : Become(j, acted) /\ Good(j)
  <2>1. CASE verdict.skip = "ExternallyOriginated" /\ Become([in EXCEPT !.decline = FALSE], acted)
    BY Zenon, <1>1, <2>1, RepairOrigin
  <2>2. CASE verdict.skip \in {"NotAttempting", "Capability", "NoAuthority"}
             /\ Become([in EXCEPT !.cell = Configured], acted)
    <3>1. DOMAIN in.cell = CellFields /\ Coherent(in.cell)
      BY <1>1 DEF IsInput
    <3>2. CASE verdict.skip = "NotAttempting"
      <4>1. Configured = [in.cell EXCEPT !.roles = @ \cup {"attempt"}, !.tier = "small", !.models = {"model"}]
        BY <3>2 DEF Configured
      <4>2. DOMAIN Configured = CellFields /\ Coherent(Configured) /\ "attempt" \in Configured.roles
        BY Zenon, <3>1, <4>1, ConfiguredToAttempt
      <4> QED BY Zenon, <1>1, <2>2, <3>2, <4>2, RepairRoles
    <3>3. CASE verdict.skip = "Capability"
      <4>1. Configured = [in.cell EXCEPT !.build = @ \cup Missing(in.cell, in.spec).build,
                                         !.test = @ \cup Missing(in.cell, in.spec).test]
        BY <3>3 DEF Configured
      <4>2. /\ DOMAIN Configured = CellFields /\ Coherent(Configured) /\ Configured.roles = in.cell.roles
            /\ Missing(Configured, in.spec) = [build |-> {}, test |-> {}]
        BY Zenon, <3>1, <4>1, ConfiguredToBuild
      <4> QED BY Zenon, <1>1, <2>2, <3>3, <4>2, RepairCapability
    <3>4. CASE verdict.skip = "NoAuthority"
      <4> DEFINE e == [id |-> Capability(in.spec), interface |-> Interface(in.spec), priced |-> TRUE]
      <4>1. Configured = [in.cell EXCEPT !.effects = {f \in @ : f.id # e.id} \cup {e},
                            !.executors = @ \cup {<<e.id, e.interface>>}, !.leases = @ \cup {e.id}]
        BY <3>4 DEF Configured
      <4>2. Effectful(in.spec)
        BY <1>1, <3>4, AttemptPlace DEF First
      <4>3. FirstAt(EffectObstacles(in, acted), 6)
        BY <1>1, <3>4, <4>2, EffectPlace DEF First
      <4>4. Malformed(in.spec) = SkipNone
        <5>1. 2 \notin Holding(EffectObstacles(in, acted))
          BY <4>3 DEF FirstAt
        <5> QED BY Zenon, <5>1, EffectHolding
      <4>5. Interface(in.spec) \in Hashes
        <5>1. 3 \notin Holding(Defects(in.spec))
          BY <4>4, SoundText
        <5> QED BY Zenon, <5>1, DefectHolding
      <4>6. DOMAIN Configured = CellFields /\ Coherent(Configured) /\ e \in EffectGrants(Configured)
        BY Zenon, <3>1, <4>1, <4>5, ConfiguredToAct
      <4>7. e.id = Capability(in.spec) /\ e.interface = Interface(in.spec)
        OBVIOUS
      <4>8. HasGrant(Configured, in.spec)
        BY Zenon, <4>6, <4>7 DEF HasGrant
      <4> QED BY Zenon, <1>1, <2>2, <3>4, <4>6, <4>8, RepairAuthority
    <3> QED BY <2>2, <3>2, <3>3, <3>4
  <2>3. CASE verdict.skip = "EffectMalformed" /\ \E s \in Mend(in.spec) : Become([in EXCEPT !.spec = s], acted)
    BY Zenon, <1>1, <2>3, RepairText
  <2>4. CASE verdict.skip = "NoExecutor" /\ Become([in EXCEPT !.reachable = TRUE], acted)
    BY Zenon, <1>1, <2>4, RepairExecutor
  <2>5. CASE verdict.skip = "Unschedulable" /\ Become([in EXCEPT !.scoped = TRUE], acted)
    BY Zenon, <1>1, <2>5, RepairScope
  <2>6. CASE verdict.skip = "Vetoed" /\ Become([in EXCEPT !.status = "open"], acted)
    BY Zenon, <1>1, <2>6, RepairVeto
  <2>7. CASE verdict.skip = "Blocked" /\ Become([in EXCEPT !.blocked = FALSE], acted)
    BY Zenon, <1>1, <2>7, RepairBlock
  <2>8. CASE /\ verdict.skip = "AlreadyAttempted" /\ ~Effectful(in.spec)
             /\ Become([in EXCEPT !.perCell = in.attempts + 1], acted)
    BY Zenon, <1>1, <2>8, RepairLimit
  <2>9. CASE verdict.skip = "Budget" /\ Become([in EXCEPT !.budgetOK = TRUE], acted)
    BY Zenon, <1>1, <2>9, RepairBudget
  <2>10. CASE verdict.skip = "ForeignClaim" /\ Become([in EXCEPT !.now = Min(FreshClaims(in)) + 1], acted)
    BY Zenon, <1>1, <2>10, RepairWait
  <2> HIDE DEF Good
  <2> QED BY Zenon, <2>1, <2>2, <2>3, <2>4, <2>5, <2>6, <2>7, <2>8, <2>9, <2>10 DEF Repair
<1> QED BY Zenon, <1>2 DEF Become

LEMMA ServeStep ==
  ASSUME PolicyInv, Serve
  PROVE  IsInput(in') /\ verdict' = Evaluate(in', acted')
<1>1. IsInput(in) /\ verdict = Evaluate(in, acted) /\ verdict.claim /\ in.attempts < MaxServed
  BY Zenon DEF PolicyInv, Serve
<1>2. CASE Effectful(in.spec)
  BY Zenon, <1>1, <1>2 DEF Serve, Become
<1>3. CASE ~Effectful(in.spec)
  <2>1. verdict.attempt = in.attempts + 1
    BY Zenon, <1>1, <1>3, Answer
  <2>2. in.attempts + 1 \in 0..MaxServed
    BY <1>1, BoundAssumption DEF IsInput
  <2>3. IsInput([in EXCEPT !.attempts = verdict.attempt])
    BY <1>1, <1>3, <2>1, <2>2, CountEdit
  <2> QED BY Zenon, <1>3, <2>3 DEF Serve, Become
<1> QED BY <1>2, <1>3

LEMMA StepPolicy == PolicyInv /\ [Next]_vars => PolicyInv'
<1> SUFFICES ASSUME PolicyInv, [Next]_vars PROVE IsInput(in') /\ verdict' = Evaluate(in', acted')
  BY DEF PolicyInv
<1>1. CASE Repair
  BY <1>1, RepairStep
<1>2. CASE Serve
  BY <1>2, ServeStep
<1>3. CASE Rest \/ UNCHANGED vars
  BY Zenon, <1>3 DEF PolicyInv, Rest, vars
<1> QED BY <1>1, <1>2, <1>3 DEF Next

(* What is put before the policy is an input, and the answer is the policy's: of  *)
(* every text, cell and world, whatever was repaired or served before             *)
(* (claim.go Evaluate).                                                          *)
THEOREM PolicyInvariant == Spec => []PolicyInv
<1> QED BY InitPolicy, StepPolicy, PTL DEF Spec

--------------------------------------------------------------------------------
(* The attempt that is claimed is within the limit the ticket and the operator set, *)
(* and the cell's configuration stays coherent (claim.go:354-405).                 *)
THEOREM TypeCorrect == Spec => []TypeOK
<1>1. ASSUME PolicyInv PROVE TypeOK
  <2>1. IsInput(in) /\ verdict = Evaluate(in, acted)
    BY <1>1 DEF PolicyInv
  <2>2. Coherent(in.cell) /\ in.attempts \in 0..MaxServed /\ in.now \in Nat /\ in.attempts \in Nat
    BY <2>1, BoundAssumption DEF IsInput
  <2>3. MaxAttempts(in) \in Nat \ {0}
    BY <2>1, MaxAttemptsTyped
  <2>4. ~verdict.claim => verdict.attempt = 0
    BY Zenon, <2>1, Answer
  <2>5. ASSUME verdict.claim PROVE verdict.attempt \in 1..MaxAttempts(in)
    <3>1. /\ FirstReason(Obstacles(in, acted)) = SkipNone
          /\ verdict.attempt = IF Effectful(in.spec) THEN 1 ELSE in.attempts + 1
      BY Zenon, <2>1, <2>5, Answer
    <3>2. CASE Effectful(in.spec)
      BY <2>3, <3>1, <3>2
    <3>3. CASE ~Effectful(in.spec)
      <4>1. 8 \notin Holding(AttemptObstacles(in))
        BY <3>1, <3>3, ObstacleList DEF Obstacles
      <4>2. ~Enough(in)
        BY Zenon, <4>1, AttemptHolding
      <4> QED BY <2>2, <2>3, <3>1, <3>3, <4>2 DEF Enough
    <3> QED BY <3>2, <3>3
  <2> QED BY Zenon, <2>2, <2>4, <2>5 DEF TypeOK
<1> QED BY <1>1, PolicyInvariant, PTL

LEMMA LicensedEffect ==
  ASSUME NEW s \in Seq(Directives), NEW c, Malformed(s) = SkipNone, HasGrant(c, s)
  PROVE  /\ Tokens(s, "build") = {} /\ Tokens(s, "test") = {}
         /\ \E e \in c.effects :
              /\ e.id \in Values(s, "effect") /\ e.interface \in Values(s, "interface")
              /\ <<e.id, e.interface>> \in c.executors
              /\ e.priced => e.id \in c.leases
<1>1. 1 \notin Holding(Defects(s)) /\ 2 \notin Holding(Defects(s)) /\ 7 \notin Holding(Defects(s))
  BY SoundText
<1>2. /\ Capability(s) # NoValue /\ Interface(s) # NoValue
      /\ Tokens(s, "build") \cup Tokens(s, "test") = {}
  BY Zenon, <1>1, DefectHolding
<1>3. Capability(s) \in Values(s, "effect") /\ Interface(s) \in Values(s, "interface")
  BY Zenon, <1>2, LastIsAValue DEF Capability, Interface
<1>4. PICK e \in EffectGrants(c) : e.id = Capability(s) /\ e.interface = Interface(s)
  BY Zenon DEF HasGrant
<1>5. /\ e \in c.effects /\ <<e.id, e.interface>> \in c.executors
      /\ e.priced => e.id \in c.leases
  BY Zenon DEF EffectGrants
<1>6. \E f \in c.effects :
        /\ f.id \in Values(s, "effect") /\ f.interface \in Values(s, "interface")
        /\ <<f.id, f.interface>> \in c.executors
        /\ f.priced => f.id \in c.leases
  BY Zenon, <1>3, <1>4, <1>5
<1> QED BY <1>2, <1>6


LEMMA LicensedAttempt ==
  ASSUME NEW s, NEW c, Missing(c, s) = [build |-> {}, test |-> {}]
  PROVE  Tokens(s, "build") \subseteq c.build /\ Tokens(s, "test") \subseteq c.test
<1>1. Missing(c, s).build = Tokens(s, "build") \ c.build /\ Missing(c, s).test = Tokens(s, "test") \ c.test
  BY DEF Missing
<1>2. Tokens(s, "build") \ c.build = {} /\ Tokens(s, "test") \ c.test = {}
  BY <1>1
<1> QED BY <1>2

(* A ticket is claimed only by a cell that can do all of it: every build and test  *)
(* token is declared, or the cell has executor and lease for the action named, by   *)
(* its name and its interface (claim.go Evaluate, evaluateEffect).                  *)
THEOREM ClaimsAreLicensed == Spec => []ClaimIsLicensed
<1>1. ASSUME PolicyInv PROVE ClaimIsLicensed
  <2> DEFINE s == in.spec
             c == in.cell
             Acts(e) == /\ e.id \in Values(s, "effect") /\ e.interface \in Values(s, "interface")
                        /\ <<e.id, e.interface>> \in c.executors
                        /\ e.priced => e.id \in c.leases
  <2>1. IsInput(in) /\ verdict = Evaluate(in, acted)
    BY <1>1 DEF PolicyInv
  <2>2. s \in Seq(Directives)
    BY <2>1 DEF IsInput
  <2>3. SUFFICES ASSUME verdict.claim
                 PROVE  /\ in.scoped /\ in.status # "vetoed" /\ ~in.blocked
                        /\ "external" \in Values(s, "origin") => ~in.decline
                        /\ Tokens(s, "build") \subseteq c.build /\ Tokens(s, "test") \subseteq c.test
                        /\ Effectful(s) => \E e \in c.effects : Acts(e)
    <3>1. ASSUME NEW k \in DOMAIN s
          PROVE  /\ s[k].value \in Values(s, s[k].key)
                 /\ s[k].value # NoValue => s[k].value \in Tokens(s, s[k].key)
                 /\ s[k].key \in {"effect", "interface"} => Effectful(s)
      <4>1. k \in Where(s, s[k].key)
        BY Zenon DEF Where
      <4>2. s[k].value \in Values(s, s[k].key)
        BY Zenon, <4>1 DEF Values
      <4>3. s[k].value # NoValue => s[k].value \in Tokens(s, s[k].key)
        BY Zenon, <4>2 DEF Tokens
      <4>4. s[k].key \in {"effect", "interface"} => Effectful(s)
        BY <4>2 DEF Effectful
      <4> QED BY <4>2, <4>3, <4>4
    <3> QED BY Zenon, <3>1 DEF ClaimIsLicensed
  <2>4. FirstReason(Obstacles(in, acted)) = SkipNone
    BY Zenon, <2>1, <2>3, Answer
  <2>5. Holding(Obstacles(in, acted)) = {}
    BY <2>4, ObstacleList
  <2>6. ~External(in) => ("external" \in Values(s, "origin") => ~in.decline)
    BY Zenon DEF External, ExternallyOriginated
  <2>7. CASE Effectful(s)
    <3>1. Holding(EffectObstacles(in, acted)) = {}
      BY <2>5, <2>7 DEF Obstacles
    <3>2. \A k \in 1..8 : k \notin Holding(EffectObstacles(in, acted))
      BY <3>1
    <3>3. /\ ~External(in) /\ Malformed(s) = SkipNone /\ in.scoped /\ in.status # "vetoed" /\ ~in.blocked
          /\ HasGrant(c, s)
      BY Zenon, <3>1, EffectHolding
    <3>4. /\ Tokens(s, "build") = {} /\ Tokens(s, "test") = {}
          /\ \E e \in c.effects : Acts(e)
      BY Zenon, <2>2, <3>3, LicensedEffect
    <3>5. Tokens(s, "build") \subseteq c.build /\ Tokens(s, "test") \subseteq c.test
      BY <3>4
    <3> QED BY Zenon, <2>6, <3>3, <3>4, <3>5
  <2>8. CASE ~Effectful(s)
    <3>1. Holding(AttemptObstacles(in)) = {}
      BY <2>5, <2>8 DEF Obstacles
    <3>2. /\ ~External(in) /\ in.scoped /\ in.status # "vetoed" /\ ~in.blocked
          /\ Missing(c, s) = [build |-> {}, test |-> {}]
      BY Zenon, <3>1, AttemptHolding
    <3>3. Tokens(s, "build") \subseteq c.build /\ Tokens(s, "test") \subseteq c.test
      BY <3>2, LicensedAttempt
    <3> QED BY Zenon, <2>6, <2>8, <3>2, <3>3
  <2> QED BY <2>7, <2>8
<1> QED BY <1>1, PolicyInvariant, PTL

(* A text that names an effect, however badly, is not claimed as an attempt, nor    *)
(* refused for what only an attempt needs (claim.go:102-106).                       *)
THEOREM NeverAuthored == Spec => []EffectsAreNeverAuthored
<1>1. ASSUME PolicyInv PROVE EffectsAreNeverAuthored
  <2>1. IsInput(in) /\ verdict = Evaluate(in, acted)
    BY <1>1 DEF PolicyInv
  <2>2. SUFFICES ASSUME Effectful(in.spec)
                 PROVE  /\ in.attempts = 0 /\ verdict.attempt <= 1
                        /\ verdict.skip \notin {"NotAttempting", "NoExecutor", "Capability", "Budget"}
    BY Zenon DEF EffectsAreNeverAuthored, Effectful
  <2>3. in.attempts = 0
    BY <2>1, <2>2 DEF IsInput
  <2>4. verdict.attempt = 0 \/ verdict.attempt = 1
    BY Zenon, <2>1, <2>2, Answer
  <2>5. verdict.skip = FirstReason(Obstacles(in, acted))
    BY Zenon, <2>1, Answer
  <2>6. verdict.skip \notin {"NotAttempting", "NoExecutor", "Capability", "Budget"}
    BY <2>2, <2>5, EffectPlace
  <2> QED BY <2>3, <2>4, <2>6
<1> QED BY <1>1, PolicyInvariant, PTL

(* Two lists of checks whose first n - 1 places agree, where the last holds only in *)
(* the first of them: the same is reported, or nothing but the last.                *)
LEMMA LastObstacle ==
  ASSUME NEW l, NEW m, NEW n \in Nat \ {0}, DOMAIN l = 1..n, DOMAIN m = 1..n,
         \A k \in 1..n : Name(l, k) = Name(m, k),
         \A k \in 1..(n-1) : k \in Holding(l) <=> k \in Holding(m),
         n \notin Holding(m)
  PROVE  \/ FirstReason(l) = FirstReason(m)
         \/ Holding(m) = {} /\ n \in Holding(l) /\ FirstReason(l) = Name(l, n)
<1>1. Holding(l) \in SUBSET (1..n) /\ Holding(m) \in SUBSET (1..n)
  BY DEF Holding
<1>2. CASE n \notin Holding(l)
  <2>1. Holding(l) = Holding(m)
    BY <1>1, <1>2
  <2> QED BY <2>1, SameHolding
<1>3. CASE n \in Holding(l) /\ Holding(m) = {}
  <2>1. Holding(l) = {n}
    BY <1>1, <1>3
  <2>2. FirstReason(l) = Name(l, n)
    BY <2>1, OnlyPlace DEF FirstReason, Name
  <2> QED BY <1>3, <2>2
<1>4. CASE n \in Holding(l) /\ Holding(m) # {}
  <2>1. PICK a \in 1..n : FirstAt(l, a) /\ FirstReason(l) = Name(l, a)
    BY <1>4, SomethingHolds
  <2>2. PICK b \in 1..n : FirstAt(m, b) /\ FirstReason(m) = Name(m, b)
    BY <1>4, SomethingHolds
  <2>3. b \in 1..(n-1) /\ b \in Holding(l) /\ \A k \in 1..(b-1) : k \notin Holding(l)
    BY <2>2 DEF FirstAt
  <2>4. a = b
    BY <2>1, <2>3 DEF FirstAt
  <2> QED BY <2>1, <2>2, <2>4
<1> QED BY <1>2, <1>3, <1>4

LEMMA AttemptAlone ==
  ASSUME NEW i, DOMAIN i = InputFields, ~Effectful(i.spec), NEW done
  PROVE  LET j == [i EXCEPT !.claims = {}]
         IN  \/ First(i, done) = First(j, done)
             \/ First(j, done) = SkipNone /\ FreshClaims(i) # {} /\ First(i, done) = "ForeignClaim"
<1> DEFINE j == [i EXCEPT !.claims = {}]
           l == AttemptObstacles(i)
           m == AttemptObstacles(j)
<1>1. /\ j.claims = {}
      /\ j.spec = i.spec /\ j.cell = i.cell /\ j.attempts = i.attempts /\ j.perCell = i.perCell
      /\ j.reachable = i.reachable /\ j.scoped = i.scoped /\ j.status = i.status /\ j.blocked = i.blocked
      /\ j.attemptsDefault = i.attemptsDefault /\ j.budgetOK = i.budgetOK /\ j.decline = i.decline
      /\ j.yield = i.yield /\ j.now = i.now
  BY DEF InputFields
<1> HIDE DEF j
<1>2. /\ 1 \in Holding(l) <=> 1 \in Holding(m)
      /\ 2 \in Holding(l) <=> 2 \in Holding(m)
      /\ 3 \in Holding(l) <=> 3 \in Holding(m)
      /\ 4 \in Holding(l) <=> 4 \in Holding(m)
      /\ 5 \in Holding(l) <=> 5 \in Holding(m)
      /\ 6 \in Holding(l) <=> 6 \in Holding(m)
      /\ 7 \in Holding(l) <=> 7 \in Holding(m)
      /\ 8 \in Holding(l) <=> 8 \in Holding(m)
      /\ 9 \in Holding(l) <=> 9 \in Holding(m)
  BY Zenon, <1>1, SameInputs, AttemptHolding
<1>3. FreshClaims(j) = {}
  BY <1>1 DEF FreshClaims
<1>4. 10 \notin Holding(m) /\ (10 \in Holding(l) => FreshClaims(i) # {})
  BY Zenon, <1>3, AttemptHolding
<1>5. Obstacles(i, done) = l /\ Obstacles(j, done) = m
  BY Zenon, <1>1 DEF Obstacles
<1>6. /\ DOMAIN l = 1..10 /\ DOMAIN m = 1..10 /\ Name(l, 10) = "ForeignClaim" /\ 10 \in Nat \ {0}
      /\ \A k \in 1..10 : Name(l, k) = Name(m, k)
  BY AttemptNames
<1> HIDE DEF l, m
<1>7. \A k \in 1..(10-1) : k \in Holding(l) <=> k \in Holding(m)
  BY <1>2
<1>8. \/ FirstReason(l) = FirstReason(m)
      \/ Holding(m) = {} /\ 10 \in Holding(l) /\ FirstReason(l) = Name(l, 10)
  BY Zenon, <1>4, <1>6, <1>7, LastObstacle
<1>9. Holding(m) = {} => FirstReason(m) = SkipNone
  BY DEF FirstReason
<1> QED BY Zenon, <1>4, <1>5, <1>6, <1>8, <1>9 DEF First, j

LEMMA EffectAlone ==
  ASSUME NEW i, DOMAIN i = InputFields, Effectful(i.spec), NEW done
  PROVE  LET j == [i EXCEPT !.claims = {}]
         IN  \/ First(i, done) = First(j, done)
             \/ First(j, done) = SkipNone /\ FreshClaims(i) # {} /\ First(i, done) = "ForeignClaim"
<1> DEFINE j == [i EXCEPT !.claims = {}]
           l == EffectObstacles(i, done)
           m == EffectObstacles(j, done)
<1>1. /\ j.claims = {}
      /\ j.spec = i.spec /\ j.cell = i.cell
      /\ j.scoped = i.scoped /\ j.status = i.status /\ j.blocked = i.blocked
      /\ j.decline = i.decline
  BY DEF InputFields
<1> HIDE DEF j
<1>0. /\ External(j) <=> External(i)
      /\ Malformed(j.spec) = Malformed(i.spec) /\ (HasGrant(j.cell, j.spec) <=> HasGrant(i.cell, i.spec))
      /\ PriorEffect(j.spec, done) <=> PriorEffect(i.spec, done)
  BY Zenon, <1>1, SameInputs
<1>2. /\ 1 \in Holding(l) <=> 1 \in Holding(m)
      /\ 2 \in Holding(l) <=> 2 \in Holding(m)
      /\ 3 \in Holding(l) <=> 3 \in Holding(m)
      /\ 4 \in Holding(l) <=> 4 \in Holding(m)
      /\ 5 \in Holding(l) <=> 5 \in Holding(m)
      /\ 6 \in Holding(l) <=> 6 \in Holding(m)
      /\ 7 \in Holding(l) <=> 7 \in Holding(m)
  BY Zenon, <1>0, <1>1, EffectHolding
<1>3. FreshClaims(j) = {}
  BY <1>1 DEF FreshClaims
<1>4. 8 \notin Holding(m) /\ (8 \in Holding(l) => FreshClaims(i) # {})
  BY Zenon, <1>3, EffectHolding
<1>5. Obstacles(i, done) = l /\ Obstacles(j, done) = m
  BY Zenon, <1>1 DEF Obstacles
<1>6. /\ DOMAIN l = 1..8 /\ DOMAIN m = 1..8 /\ Name(l, 8) = "ForeignClaim" /\ 8 \in Nat \ {0}
      /\ \A k \in 1..8 : Name(l, k) = Name(m, k)
  BY EffectNames
<1> HIDE DEF l, m
<1>7. \A k \in 1..(8-1) : k \in Holding(l) <=> k \in Holding(m)
  BY <1>2
<1>8. \/ FirstReason(l) = FirstReason(m)
      \/ Holding(m) = {} /\ 8 \in Holding(l) /\ FirstReason(l) = Name(l, 8)
  BY Zenon, <1>4, <1>6, <1>7, LastObstacle
<1>9. Holding(m) = {} => FirstReason(m) = SkipNone
  BY DEF FirstReason
<1> QED BY Zenon, <1>4, <1>5, <1>6, <1>8, <1>9 DEF First, j

(* Other cells' claims are politeness: without them the answer is the same, or the  *)
(* claim that one of them, still fresh, has put off (claim.go:474-478).             *)
THEOREM ClaimsOnlyDelay == Spec => []ForeignClaimsOnlyDelay
<1>1. ASSUME PolicyInv PROVE ForeignClaimsOnlyDelay
  <2> DEFINE j == [in EXCEPT !.claims = {}]
             alone == Evaluate(j, acted)
  <2>1. IsInput(in) /\ verdict = Evaluate(in, acted) /\ DOMAIN in = InputFields
    BY <1>1 DEF PolicyInv, IsInput
  <2>2. j.spec = in.spec /\ j.attempts = in.attempts
    BY <2>1 DEF InputFields
  <2>3. \/ First(in, acted) = First(j, acted)
        \/ First(j, acted) = SkipNone /\ FreshClaims(in) # {} /\ First(in, acted) = "ForeignClaim"
    BY Zenon, <2>1, AttemptAlone, EffectAlone
  <2> HIDE DEF j
  <2>4. CASE First(in, acted) = First(j, acted)
    <3>1. verdict = alone
      BY Zenon, <2>1, <2>2, <2>4 DEF Evaluate, First
    <3> QED BY Zenon, <3>1 DEF ForeignClaimsOnlyDelay, j
  <2>5. CASE First(j, acted) = SkipNone /\ FreshClaims(in) # {} /\ First(in, acted) = "ForeignClaim"
    <3>1. alone.claim /\ verdict.skip = "ForeignClaim"
      BY Zenon, <2>1, <2>5, Answer DEF First
    <3>2. \E notAfter \in in.claims : in.now <= notAfter
      <4>1. PICK notAfter \in in.claims : notAfter >= in.now
        BY <2>5 DEF FreshClaims
      <4>2. notAfter \in Int /\ in.now \in Int
        BY <2>1 DEF IsInput
      <4> QED BY <4>1, <4>2
    <3> QED BY Zenon, <3>1, <3>2 DEF ForeignClaimsOnlyDelay, j
  <2> QED BY <2>3, <2>4, <2>5
<1> QED BY <1>1, PolicyInvariant, PTL

(* Whoever changes what a refusal names, and no more, is brought nearer the claim:  *)
(* that reason is not heard again, nor an earlier one (claim.go:399-405).           *)
THEOREM RepairsMakeProgress == Spec => RepairsAdvance
<1>1. ASSUME PolicyInv, [Next]_vars
      PROVE  [Repair => Further(Progress(in', acted'), Progress(in, acted))]_vars
  <2>1. ASSUME Repair PROVE Further(Progress(in', acted'), Progress(in, acted))
    BY Zenon, <1>1, <2>1, RepairStep DEF Nearer
  <2> QED BY <2>1
<1> QED BY <1>1, PolicyInvariant, PTL DEF Spec, RepairsAdvance

================================================================================
