------------------------------- MODULE Sums_proofs -------------------------------
(***************************************************************************)
(* What the sum of a function over a finite set does when the function changes  *)
(* in one place, and how two sums compare.                                    *)
(***************************************************************************)
EXTENDS Sums, FiniteSetTheorems, TLAPS

LEMMA UnitsOfOne ==
  ASSUME NEW x, NEW f, f[x] \in Nat
  PROVE  IsFiniteSet(UnitsOf(f, x)) /\ Cardinality(UnitsOf(f, x)) = f[x]
<1>1. IsFiniteSet({x}) /\ Cardinality({x}) = 1
  BY FS_Singleton
<1>2. IsFiniteSet(1..f[x]) /\ Cardinality(1..f[x]) = f[x]
  BY FS_Interval
<1>3. /\ IsFiniteSet({x} \X (1..f[x]))
      /\ Cardinality({x} \X (1..f[x])) = Cardinality({x}) * Cardinality(1..f[x])
  BY <1>1, <1>2, FS_Product
<1>4. Cardinality({x}) * Cardinality(1..f[x]) = f[x]
  BY <1>1, <1>2
<1> QED BY <1>3, <1>4 DEF UnitsOf

LEMMA UnitsAreFinite ==
  ASSUME NEW S, IsFiniteSet(S), NEW f \in [S -> Nat]
  PROVE  IsFiniteSet(AllUnits(f))
<1> DEFINE F == [x \in S |-> UnitsOf(f, x)]
           T == {UnitsOf(f, x) : x \in S}
<1>1. F \in Surjection(S, T)
  BY DEF Surjection
<1>2. IsFiniteSet(T)
  BY <1>1, FS_Surjection
<1>3. \A U \in T : IsFiniteSet(U)
  BY UnitsOfOne
<1> QED BY <1>2, <1>3, FS_UNION DEF AllUnits

LEMMA TotalIsNat ==
  ASSUME NEW S, IsFiniteSet(S), NEW f \in [S -> Nat]
  PROVE  Total(f) \in Nat
BY UnitsAreFinite, FS_CardinalityType DEF Total

LEMMA TotalOfZeros ==
  ASSUME NEW S, NEW f \in [S -> Nat], \A x \in S : f[x] = 0
  PROVE  Total(f) = 0
<1>1. \A x \in S : UnitsOf(f, x) = {}
  BY DEF UnitsOf
<1>2. AllUnits(f) = {}
  BY <1>1 DEF AllUnits
<1> QED BY <1>2, FS_EmptySet DEF Total

LEMMA TotalIsMonotone ==
  ASSUME NEW S, IsFiniteSet(S), NEW f \in [S -> Nat], NEW g \in [S -> Nat],
         \A x \in S : f[x] <= g[x]
  PROVE  Total(f) <= Total(g)
<1>1. \A x \in S : UnitsOf(f, x) \subseteq UnitsOf(g, x)
  BY DEF UnitsOf
<1>2. AllUnits(f) \subseteq AllUnits(g)
  BY <1>1 DEF AllUnits
<1> QED BY <1>2, UnitsAreFinite, FS_Subset DEF Total

(* Without the units of one element, two functions that agree elsewhere count    *)
(* the same.                                                                 *)
LEMMA TotalSplits ==
  ASSUME NEW S, IsFiniteSet(S), NEW f \in [S -> Nat], NEW x \in S
  PROVE  LET rest == UNION {UnitsOf(f, y) : y \in S \ {x}}
         IN  IsFiniteSet(rest) /\ Cardinality(rest) \in Nat /\ Total(f) = Cardinality(rest) + f[x]
<1> DEFINE rest == UNION {UnitsOf(f, y) : y \in S \ {x}}
<1>1. AllUnits(f) = rest \cup UnitsOf(f, x)
  BY DEF AllUnits
<1>2. rest \cap UnitsOf(f, x) = {}
  BY DEF UnitsOf
<1>3. IsFiniteSet(AllUnits(f))
  BY UnitsAreFinite
<1>4. IsFiniteSet(rest)
  BY <1>1, <1>3, FS_Subset
<1>5. IsFiniteSet(UnitsOf(f, x)) /\ Cardinality(UnitsOf(f, x)) = f[x]
  BY UnitsOfOne
<1> HIDE DEF rest
<1>6. Cardinality(rest) \in Nat /\ f[x] \in Nat
  BY <1>4, FS_CardinalityType
<1>7. Cardinality(rest \cup UnitsOf(f, x)) = Cardinality(rest) + f[x] - Cardinality({})
  BY <1>2, <1>4, <1>5, FS_Union
<1>8. Cardinality({}) = 0
  BY FS_EmptySet
<1>9. Total(f) = Cardinality(rest) + f[x]
  BY <1>1, <1>6, <1>7, <1>8 DEF Total
<1> QED BY <1>4, <1>6, <1>9 DEF rest

LEMMA TotalChangesByOne ==
  ASSUME NEW S, IsFiniteSet(S), NEW f \in [S -> Nat], NEW g \in [S -> Nat], NEW x \in S,
         \A y \in S \ {x} : g[y] = f[y]
  PROVE  Total(g) - g[x] = Total(f) - f[x]
<1> DEFINE Rest(h) == UNION {UnitsOf(h, y) : y \in S \ {x}}
<1>1. \A y \in S \ {x} : UnitsOf(g, y) = UnitsOf(f, y)
  BY DEF UnitsOf
<1>2. Rest(g) = Rest(f)
  BY <1>1
<1>3. Total(f) = Cardinality(Rest(f)) + f[x] /\ Cardinality(Rest(f)) \in Nat
  BY TotalSplits
<1>4. Total(g) = Cardinality(Rest(g)) + g[x]
  BY TotalSplits
<1> HIDE DEF Rest
<1> QED BY <1>2, <1>3, <1>4

(* Two sums add up: the units of the second are counted on from the first's. *)
LEMMA TotalsAdd ==
  ASSUME NEW S, IsFiniteSet(S), NEW f \in [S -> Nat], NEW g \in [S -> Nat], NEW h \in [S -> Nat],
         \A x \in S : h[x] = f[x] + g[x]
  PROVE  Total(h) = Total(f) + Total(g)
<1> DEFINE A == AllUnits(f)
           G == AllUnits(g)
           Move(u) == <<u[1], f[u[1]] + u[2]>>
           M == [u \in G |-> Move(u)]
           B == {Move(u) : u \in G}
<1>1. /\ \A u \in A : /\ u = <<u[1], u[2]>> /\ u[1] \in S
                      /\ u[2] \in Nat /\ 1 <= u[2] /\ u[2] <= f[u[1]]
      /\ \A u \in G : /\ u = <<u[1], u[2]>> /\ u[1] \in S
                      /\ u[2] \in Nat /\ 1 <= u[2] /\ u[2] <= g[u[1]]
  BY DEF AllUnits, UnitsOf
<1>2. IsFiniteSet(A) /\ IsFiniteSet(G)
  BY UnitsAreFinite
<1>3. M \in Surjection(G, B)
  BY DEF Surjection
<1>4. ASSUME NEW u \in G, NEW v \in G, Move(u) = Move(v) PROVE u = v
  <2>1. u[1] = v[1] /\ f[u[1]] + u[2] = f[v[1]] + v[2]
    BY <1>4
  <2>2. f[u[1]] \in Nat
    BY <1>1
  <2>3. u[2] = v[2]
    BY <2>1, <2>2, <1>1
  <2> QED BY <2>1, <2>3, <1>1
<1>5. M \in Injection(G, B)
  <2>1. M \in [G -> B]
    OBVIOUS
  <2>2. \A u, v \in G : M[u] = M[v] => u = v
    BY <1>4
  <2> HIDE DEF M, G
  <2> QED BY <2>1, <2>2 DEF Injection, IsInjective
<1>6. IsFiniteSet(B) /\ Cardinality(B) = Cardinality(G)
  BY <1>2, <1>3, <1>5, FS_Surjection
<1>7. A \cap B = {}
  <2> SUFFICES ASSUME NEW u \in A, NEW v \in G, u = Move(v) PROVE FALSE
    OBVIOUS
  <2>1. u[1] = v[1] /\ u[2] = f[v[1]] + v[2]
    OBVIOUS
  <2>2. f[v[1]] \in Nat /\ u[2] <= f[v[1]] /\ v[2] >= 1 /\ v[2] \in Nat
    BY <1>1, <2>1
  <2> QED BY <2>1, <2>2
<1>8. AllUnits(h) \subseteq A \cup B
  <2> SUFFICES ASSUME NEW x \in S, NEW i \in 1..h[x], <<x, i>> \notin A PROVE <<x, i>> \in B
    BY DEF AllUnits, UnitsOf
  <2>1. i \notin 1..f[x]
    BY DEF AllUnits, UnitsOf
  <2>2. f[x] \in Nat /\ g[x] \in Nat /\ h[x] = f[x] + g[x]
    OBVIOUS
  <2>3. i - f[x] \in 1..g[x]
    BY <2>1, <2>2
  <2>4. <<x, i - f[x]>> \in G
    BY <2>3 DEF AllUnits, UnitsOf
  <2>5. Move(<<x, i - f[x]>>) = <<x, i>>
    BY <2>2
  <2> QED BY <2>4, <2>5
<1>9. A \cup B \subseteq AllUnits(h)
  <2>1. ASSUME NEW u \in A PROVE u \in AllUnits(h)
    <3>1. f[u[1]] \in Nat /\ g[u[1]] \in Nat /\ h[u[1]] = f[u[1]] + g[u[1]]
      BY <1>1, <2>1
    <3>2. u[2] \in 1..h[u[1]]
      BY <1>1, <2>1, <3>1
    <3> QED BY <1>1, <2>1, <3>2 DEF AllUnits, UnitsOf
  <2>2. ASSUME NEW v \in G PROVE Move(v) \in AllUnits(h)
    <3>1. f[v[1]] \in Nat /\ g[v[1]] \in Nat /\ h[v[1]] = f[v[1]] + g[v[1]]
      BY <1>1, <2>2
    <3>2. f[v[1]] + v[2] \in 1..h[v[1]]
      BY <1>1, <2>2, <3>1
    <3> QED BY <1>1, <2>2, <3>2 DEF AllUnits, UnitsOf
  <2> QED BY <2>1, <2>2
<1>10. Cardinality(A \cup B) = Cardinality(A) + Cardinality(B) - Cardinality({})
  BY <1>2, <1>6, <1>7, FS_Union
<1>11. Cardinality({}) = 0 /\ Cardinality(A) \in Nat /\ Cardinality(B) \in Nat
  BY <1>2, <1>6, FS_EmptySet, FS_CardinalityType
<1>12. AllUnits(h) = A \cup B
  BY <1>8, <1>9
<1>13. Total(f) = Cardinality(A) /\ Total(g) = Cardinality(G) /\ Total(h) = Cardinality(AllUnits(h))
  BY DEF Total
<1> HIDE DEF A, B, G
<1> QED BY <1>6, <1>10, <1>11, <1>12, <1>13
================================================================================
