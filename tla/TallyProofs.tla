---------------------------- MODULE TallyProofs ----------------------------
(***************************************************************************)
(* The laws of finite sums, proved from the theorems on finite sets.        *)
(***************************************************************************)
EXTENDS Tally, Integers, Functions, FiniteSetTheorems, TLAPS

\* What one element contributes: f[x] units, none shared with another element.
LEMMA UnitsOfOne ==
  ASSUME NEW x, NEW n \in Nat
  PROVE  /\ IsFiniteSet({x} \X (1..n))
         /\ Cardinality({x} \X (1..n)) = n
<1>1. IsFiniteSet({x}) /\ Cardinality({x}) = 1
  BY FS_Singleton
<1>2. IsFiniteSet(1..n) /\ Cardinality(1..n) = n
  BY FS_Interval
<1>3. IsFiniteSet({x} \X (1..n)) /\ Cardinality({x} \X (1..n)) = Cardinality({x}) * Cardinality(1..n)
  <2> DEFINE A == {x}
             B == 1..n
  <2>1. IsFiniteSet(A) /\ IsFiniteSet(B)
    BY <1>1, <1>2
  <2> HIDE DEF A, B
  <2>2. IsFiniteSet(A \X B) /\ Cardinality(A \X B) = Cardinality(A) * Cardinality(B)
    BY ONLY <2>1, FS_Product, Zenon
  <2>. QED
    BY <2>2 DEF A, B
<1>. QED
  BY <1>1, <1>2, <1>3

\* The units of a finite sum of naturals are finite.
LEMMA UnitsFinite ==
  ASSUME NEW S, IsFiniteSet(S), NEW f, \A x \in S : f[x] \in Nat
  PROVE  IsFiniteSet(Units(f, S))
<1> DEFINE piece == [x \in S |-> {x} \X (1..f[x])]
           T == {piece[x] : x \in S}
<1>1. piece \in Surjection(S, T)
  BY DEF Surjection
<1>2. IsFiniteSet(T)
  BY <1>1, FS_Surjection
<1>3. \A t \in T : IsFiniteSet(t)
  <2> TAKE t \in T
  <2>1. PICK x \in S : t = {x} \X (1..f[x])
    OBVIOUS
  <2>. QED
    BY <2>1, UnitsOfOne
<1>4. IsFiniteSet(UNION T)
  <2> HIDE DEF T
  <2>. QED BY <1>2, <1>3, FS_UNION
<1>5. Units(f, S) = UNION T
  BY DEF Units
<1>. QED
  BY <1>4, <1>5

\* A finite sum of naturals is a natural.
LEMMA TallyType ==
  ASSUME NEW S, IsFiniteSet(S), NEW f, \A x \in S : f[x] \in Nat
  PROVE  Tally(f, S) \in Nat
BY UnitsFinite, FS_CardinalityType DEF Tally

\* The empty sum.
LEMMA TallyEmpty ==
  ASSUME NEW f
  PROVE  Tally(f, {}) = 0
<1>1. Units(f, {}) = {}
  BY DEF Units
<1>. QED
  BY <1>1, FS_EmptySet DEF Tally

\* Dropping terms does not increase the sum.
LEMMA TallyMonotone ==
  ASSUME NEW S, IsFiniteSet(S), NEW R \in SUBSET S,
         NEW f, \A x \in S : f[x] \in Nat
  PROVE  Tally(f, R) <= Tally(f, S)
<1>1. Units(f, R) \in SUBSET Units(f, S)
  BY DEF Units
<1>. QED
  BY <1>1, UnitsFinite, FS_Subset DEF Tally

\* One more term.
LEMMA TallyAdd ==
  ASSUME NEW S, IsFiniteSet(S), NEW x, x \notin S,
         NEW f, \A y \in S \cup {x} : f[y] \in Nat
  PROVE  Tally(f, S \cup {x}) = Tally(f, S) + f[x]
<1> DEFINE U == Units(f, S)
           V == {x} \X (1..f[x])
<1>1. IsFiniteSet(U) /\ IsFiniteSet(V) /\ Cardinality(V) = f[x]
  BY UnitsFinite, UnitsOfOne
<1>2. Units(f, S \cup {x}) = U \cup V
  BY DEF Units
<1>3. U \cap V = {}
  BY DEF Units
<1>4. Cardinality(U) \in Nat /\ Cardinality(U \cap V) = 0
  BY <1>1, <1>3, FS_CardinalityType, FS_EmptySet
<1>5. Cardinality(U \cup V) = Cardinality(U) + Cardinality(V) - Cardinality(U \cap V)
  <2> HIDE DEF U, V
  <2>. QED BY <1>1, FS_Union
<1> HIDE DEF U, V
<1>6. Cardinality(U \cup V) = Cardinality(U) + f[x]
  BY <1>1, <1>4, <1>5
<1>. QED
  BY <1>2, <1>6 DEF Tally, U

\* One term less.
LEMMA TallyRemove ==
  ASSUME NEW S, IsFiniteSet(S), NEW x \in S,
         NEW f, \A y \in S : f[y] \in Nat
  PROVE  Tally(f, S) = Tally(f, S \ {x}) + f[x]
<1>1. IsFiniteSet(S \ {x}) /\ x \notin S \ {x}
  BY FS_RemoveElement
<1>2. (S \ {x}) \cup {x} = S
  OBVIOUS
<1>. QED
  BY <1>1, <1>2, TallyAdd

\* The sum depends on its terms only.
LEMMA TallyCongruent ==
  ASSUME NEW S, NEW f, NEW g, \A x \in S : f[x] = g[x]
  PROVE  Tally(f, S) = Tally(g, S)
<1>1. Units(f, S) = Units(g, S)
  BY DEF Units
<1>. QED
  BY <1>1 DEF Tally

\* A sum over two disjoint sets.
LEMMA TallyUnion ==
  ASSUME NEW S, IsFiniteSet(S), NEW T, IsFiniteSet(T), S \cap T = {},
         NEW f, \A x \in S \cup T : f[x] \in Nat
  PROVE  Tally(f, S \cup T) = Tally(f, S) + Tally(f, T)
<1> DEFINE U == Units(f, S)
           V == Units(f, T)
<1>1. IsFiniteSet(U) /\ IsFiniteSet(V)
  BY UnitsFinite
<1>2. Units(f, S \cup T) = U \cup V /\ U \cap V = {}
  BY DEF Units
<1> HIDE DEF U, V
<1>3. Cardinality(U \cap V) = 0 /\ Cardinality(U) \in Nat /\ Cardinality(V) \in Nat
  BY <1>1, <1>2, FS_EmptySet, FS_CardinalityType
<1>4. Cardinality(U \cup V) = Cardinality(U) + Cardinality(V) - Cardinality(U \cap V)
  BY <1>1, FS_Union
<1>5. Cardinality(U \cup V) = Cardinality(U) + Cardinality(V)
  BY <1>3, <1>4
<1>. QED
  BY <1>2, <1>5 DEF Tally, U, V

=============================================================================
