----------------------------- MODULE Iteration -----------------------------
(***************************************************************************)
(* Facts about the folds of the community modules and about induction over *)
(* the natural numbers.  Op, Pick and Holds stand for the operators of the *)
(* module that instantiates this one: a fold takes the elements of a finite *)
(* set in the order Pick gives, p is whatever else the operation reads.    *)
(***************************************************************************)
EXTENDS FiniteSetTheorems, WellFoundedInduction, TLAPS

CONSTANTS
  Op(_, _, _),     \* Op(p, x, t): the next value, from the element x and the value t
  Pick(_),         \* Pick(T): the element taken last of the set T
  Holds(_, _, _)   \* Holds(p, T, t): t is a good value when the set T has been taken

\* A set of natural numbers has a least element.
LEMMA Least ==
  ASSUME NEW T, T \subseteq Nat, T # {}
  PROVE  \E m \in T : \A k \in T : m <= k
<1> DEFINE R == OpToRel(<, Nat)
<1>1. \E m \in T : \A k \in T : <<k, m>> \notin R
  BY NatLessThanWellFounded, WFMin
<1>2. \A m, k \in T : <<k, m>> \notin R => m <= k
  BY DEF OpToRel
<1> QED
  BY <1>1, <1>2

\* A bounded set of natural numbers has a greatest element.
LEMMA Greatest ==
  ASSUME NEW b \in Nat, NEW T \in SUBSET (0..b), T # {}
  PROVE  \E m \in T : \A k \in T : k <= m
<1> DEFINE U == {j \in 0..b : b - j \in T}
<1>1. U \subseteq Nat /\ U # {}
  <2>1. PICK k \in T : TRUE
    OBVIOUS
  <2>2. b - k \in 0..b /\ b - (b - k) = k
    BY <2>1
  <2>3. b - k \in U
    BY <2>1, <2>2
  <2>4. U \subseteq Nat
    OBVIOUS
  <2> HIDE DEF U
  <2> QED
    BY <2>3, <2>4
<1>2. PICK j \in U : \A k \in U : j <= k
  <2> HIDE DEF U
  <2> QED
    BY <1>1, Least
<1>3. ASSUME NEW k \in T PROVE k <= b - j
  <2>1. b - k \in U
    OBVIOUS
  <2> QED
    BY <1>2, <2>1
<1> QED
  BY <1>2, <1>3

-----------------------------------------------------------------------------

\* g is the fold over each subset in D.
IsFold(g, p, base, D) ==
  g = [s \in D |-> IF s = {} THEN base ELSE Op(p, Pick(s), g[s \ {Pick(s)}])]

\* The value of a fold over S: what MapThenFoldSet computes.
FoldOf(p, base, S) ==
  LET iter == CHOOSE g : IsFold(g, p, base, SUBSET S)
  IN  iter[S]

Chooses(S) == \A T \in SUBSET S : T # {} => Pick(T) \in T

\* The subsets of S with up to n elements.
Small(S, n) == {s \in SUBSET S : Cardinality(s) <= n}

LEMMA SubsetFacts ==
  ASSUME NEW S, IsFiniteSet(S), Chooses(S), NEW s \in SUBSET S, s # {}
  PROVE  /\ Pick(s) \in s /\ s \ {Pick(s)} \in SUBSET S
         /\ IsFiniteSet(s) /\ Cardinality(s) \in Nat /\ Cardinality(s \ {Pick(s)}) \in Nat
         /\ Cardinality(s \ {Pick(s)}) = Cardinality(s) - 1
<1>1. Pick(s) \in s
  BY DEF Chooses
<1>2. IsFiniteSet(s)
  BY FS_Subset
<1>3. /\ IsFiniteSet(s \ {Pick(s)})
      /\ Cardinality(s \ {Pick(s)}) = Cardinality(s) - 1
  BY <1>1, <1>2, FS_RemoveElement
<1> QED
  BY <1>1, <1>2, <1>3, FS_CardinalityType

LEMMA FoldExists ==
  ASSUME NEW S, IsFiniteSet(S), Chooses(S), NEW p, NEW base
  PROVE  \A n \in Nat : \E g : IsFold(g, p, base, Small(S, n))
<1> DEFINE Good(n) == \E g : IsFold(g, p, base, Small(S, n))
           Bad == {n \in Nat : ~Good(n)}
<1>1. Good(0)
  <2> DEFINE g == [s \in Small(S, 0) |-> base]
  <2>1. ASSUME NEW s \in Small(S, 0) PROVE s = {}
    <3>1. s \in SUBSET S /\ Cardinality(s) <= 0
      BY DEF Small
    <3>2. IsFiniteSet(s)
      BY <3>1, FS_Subset
    <3>3. Cardinality(s) = 0
      BY <3>1, <3>2, FS_CardinalityType
    <3> QED
      BY <3>2, <3>3, FS_EmptySet
  <2>2. IsFold(g, p, base, Small(S, 0))
    BY <2>1 DEF IsFold
  <2> QED
    BY <2>2
<1>2. ASSUME NEW n \in Nat, Good(n) PROVE Good(n + 1)
  <2>1. PICK g : IsFold(g, p, base, Small(S, n))
    BY <1>2
  <2> DEFINE D == Small(S, n + 1)
             h == [s \in D |-> IF Cardinality(s) = n + 1
                               THEN Op(p, Pick(s), g[s \ {Pick(s)}]) ELSE g[s]]
  <2>2. ASSUME NEW s \in D, Cardinality(s) # n + 1
        PROVE  s \in Small(S, n) /\ h[s] = g[s]
    <3>1. s \in SUBSET S /\ Cardinality(s) <= n + 1
      BY DEF Small
    <3>2. Cardinality(s) \in Nat
      BY <3>1, FS_Subset, FS_CardinalityType
    <3>3. s \in Small(S, n)
      BY <3>1, <3>2, <2>2 DEF Small
    <3> QED
      BY <3>3, <2>2
  <2>3. ASSUME NEW s \in D
        PROVE  h[s] = IF s = {} THEN base ELSE Op(p, Pick(s), h[s \ {Pick(s)}])
    <3>1. s \in SUBSET S /\ Cardinality(s) <= n + 1
      BY DEF Small
    <3>2. CASE s = {}
      <4>1. Cardinality(s) # n + 1
        BY <3>2, FS_EmptySet
      <4>2. s \in Small(S, n) /\ h[s] = g[s]
        BY <4>1, <2>2
      <4> HIDE DEF h
      <4> QED
        BY <4>2, <2>1, <3>2 DEF IsFold
    <3>3. CASE s # {}
      <4> DEFINE r == s \ {Pick(s)}
      <4>1. /\ Pick(s) \in s /\ r \in SUBSET S
            /\ Cardinality(s) \in Nat /\ Cardinality(r) \in Nat
            /\ Cardinality(r) = Cardinality(s) - 1
        BY <3>1, <3>3, SubsetFacts
      <4>2. r \in D /\ Cardinality(r) # n + 1
        BY <4>1, <3>1 DEF Small
      <4>3. h[r] = g[r]
        <5> HIDE DEF h, r, D
        <5> QED
          BY <4>2, <2>2
      <4>4. CASE Cardinality(s) = n + 1
        <5>1. h[s] = Op(p, Pick(s), g[r])
          BY <4>4
        <5> HIDE DEF h
        <5> QED
          BY <5>1, <4>3, <3>3
      <4>5. CASE Cardinality(s) # n + 1
        <5>1. s \in Small(S, n) /\ h[s] = g[s]
          BY <4>5, <2>2
        <5>2. g[s] = Op(p, Pick(s), g[r])
          BY <5>1, <2>1, <3>3 DEF IsFold
        <5> HIDE DEF h
        <5> QED
          BY <5>1, <5>2, <4>3, <3>3
      <4> QED
        BY <4>4, <4>5
    <3> QED
      BY <3>2, <3>3
  <2>4. h = [s \in D |-> h[s]]
    OBVIOUS
  <2>5. h = [s \in D |-> IF s = {} THEN base ELSE Op(p, Pick(s), h[s \ {Pick(s)}])]
    <3> HIDE DEF h, D
    <3> QED
      BY <2>3, <2>4
  <2>6. IsFold(h, p, base, D)
    <3> HIDE DEF h, D
    <3> QED
      BY <2>5 DEF IsFold
  <2> QED
    BY <2>6
<1> HIDE DEF Good
<1>3. Bad = {}
  <2>1. SUFFICES ASSUME Bad # {} PROVE FALSE
    OBVIOUS
  <2>2. PICK m \in Bad : \A k \in Bad : m <= k
    <3>1. Bad \subseteq Nat
      OBVIOUS
    <3> HIDE DEF Bad
    <3> QED
      BY <2>1, <3>1, Least
  <2>3. m # 0
    BY <1>1
  <2>4. m - 1 \in Nat /\ m - 1 \notin Bad
    BY <2>2, <2>3
  <2>5. Good(m - 1)
    BY <2>4
  <2>6. Good((m - 1) + 1)
    BY <2>4, <2>5, <1>2
  <2> QED
    BY <2>6, <2>2
<1> QED
  BY <1>3 DEF Good

\* A fold over a finite set satisfies the equation that defines it.
LEMMA FoldEquation ==
  ASSUME NEW S, IsFiniteSet(S), Chooses(S), NEW p, NEW base
  PROVE  IsFold(CHOOSE g : IsFold(g, p, base, SUBSET S), p, base, SUBSET S)
<1>1. Cardinality(S) \in Nat
  BY FS_CardinalityType
<1>2. SUBSET S = Small(S, Cardinality(S))
  BY FS_Subset DEF Small
<1>3. \E g : IsFold(g, p, base, Small(S, Cardinality(S)))
  BY <1>1, FoldExists
<1>4. \E g : IsFold(g, p, base, SUBSET S)
  BY <1>2, <1>3
<1> QED
  BY <1>4

\* Every step of a fold over S leads from a good value to a good value.
StepsKeep(p, S) ==
  \A T \in SUBSET S : \A t :
    T # {} /\ Holds(p, T \ {Pick(T)}, t) => Holds(p, T, Op(p, Pick(T), t))

\* What holds of the base and is kept by every step holds of the fold.
LEMMA FoldHolds ==
  ASSUME NEW S, IsFiniteSet(S), Chooses(S), NEW p, NEW base,
         Holds(p, {}, base),
         StepsKeep(p, S)
  PROVE  Holds(p, S, FoldOf(p, base, S))
<1> DEFINE g == CHOOSE i : IsFold(i, p, base, SUBSET S)
           Bad == {n \in Nat : \E T \in SUBSET S : Cardinality(T) = n /\ ~Holds(p, T, g[T])}
<1>1. IsFold(g, p, base, SUBSET S)
  BY FoldEquation
<1> HIDE DEF g
<1>2. Bad = {}
  <2>1. SUFFICES ASSUME Bad # {} PROVE FALSE
    OBVIOUS
  <2>2. PICK m \in Bad : \A k \in Bad : m <= k
    <3>1. Bad \subseteq Nat
      OBVIOUS
    <3> HIDE DEF Bad
    <3> QED
      BY <2>1, <3>1, Least
  <2>3. PICK T \in SUBSET S : Cardinality(T) = m /\ ~Holds(p, T, g[T])
    BY <2>2
  <2>4. T # {}
    <3>1. {} \in SUBSET S
      OBVIOUS
    <3>2. g[{}] = base
      BY <1>1, <3>1 DEF IsFold
    <3> QED
      BY <2>3, <3>2
  <2> DEFINE r == T \ {Pick(T)}
  <2>5. r \in SUBSET S /\ Cardinality(r) \in Nat /\ Cardinality(r) = m - 1 /\ m \in Nat
    BY <2>3, <2>4, SubsetFacts
  <2>6. Holds(p, r, g[r])
    <3>1. Cardinality(r) \notin Bad
      <4> HIDE DEF r, Bad
      <4> QED
        BY <2>2, <2>5
    <3> HIDE DEF r
    <3> QED
      BY <3>1, <2>5
  <2>7. g[T] = Op(p, Pick(T), g[r])
    BY <1>1, <2>4 DEF IsFold
  <2>8. Holds(p, T, Op(p, Pick(T), g[r]))
    BY <2>4, <2>6 DEF StepsKeep
  <2> QED
    BY <2>3, <2>7, <2>8
<1>3. S \in SUBSET S /\ Cardinality(S) \in Nat
  BY FS_CardinalityType
<1>4. Holds(p, S, g[S])
  BY <1>2, <1>3
<1>5. FoldOf(p, base, S) = g[S]
  BY DEF FoldOf, g
<1> QED
  BY <1>4, <1>5

\* Over the empty set the base is left; a step takes what Pick gives.
LEMMA FoldSteps ==
  ASSUME NEW S, IsFiniteSet(S), Chooses(S), NEW p, NEW base
  PROVE  /\ FoldOf(p, base, {}) = base
         /\ S # {} => FoldOf(p, base, S) = Op(p, Pick(S), FoldOf(p, base, S \ {Pick(S)}))
<1> DEFINE It(T) == CHOOSE i : IsFold(i, p, base, SUBSET T)
           g == It(S)
<1>1. \A T \in SUBSET S : IsFold(It(T), p, base, SUBSET T)
  <2> TAKE T \in SUBSET S
  <2>1. IsFiniteSet(T) /\ Chooses(T)
    BY FS_Subset DEF Chooses
  <2> QED
    BY <2>1, FoldEquation
<1> DEFINE Agree(T, R) == It(T)[R] = g[R]
           Off(T) == {n \in Nat : \E R \in SUBSET T : Cardinality(R) = n /\ ~Agree(T, R)}
<1> HIDE DEF It
<1>2. ASSUME NEW T \in SUBSET S PROVE Off(T) = {}
  <2>1. SUFFICES ASSUME Off(T) # {} PROVE FALSE
    OBVIOUS
  <2>2. PICK m \in Off(T) : \A k \in Off(T) : m <= k
    <3>1. Off(T) \subseteq Nat
      OBVIOUS
    <3> HIDE DEF Off
    <3> QED
      BY <2>1, <3>1, Least
  <2>3. PICK R \in SUBSET T : Cardinality(R) = m /\ ~Agree(T, R)
    BY <2>2
  <2>4. IsFold(It(T), p, base, SUBSET T) /\ IsFold(g, p, base, SUBSET S) /\ R \in SUBSET S
    BY <1>1
  <2> HIDE DEF g
  <2>5. R # {}
    BY <2>3, <2>4 DEF IsFold
  <2> DEFINE r == R \ {Pick(R)}
  <2>6. r \in SUBSET T /\ r \in SUBSET S /\ Cardinality(r) \in Nat /\ Cardinality(r) = m - 1 /\ m \in Nat
    BY <2>3, <2>5, SubsetFacts
  <2>7. Agree(T, r)
    <3>1. Cardinality(r) \notin Off(T)
      <4> HIDE DEF r, Off
      <4> QED
        BY <2>2, <2>6
    <3> HIDE DEF r, Agree
    <3> QED
      BY <3>1, <2>6
  <2>8. It(T)[R] = Op(p, Pick(R), It(T)[r]) /\ g[R] = Op(p, Pick(R), g[r])
    BY <2>4, <2>5 DEF IsFold
  <2> QED
    BY <2>3, <2>7, <2>8
<1>3. ASSUME NEW T \in SUBSET S PROVE FoldOf(p, base, T) = g[T]
  <2>1. Cardinality(T) \in Nat
    BY FS_Subset, FS_CardinalityType
  <2>2. Agree(T, T)
    <3> HIDE DEF Agree
    <3> QED
      BY <2>1, <1>2
  <2> QED
    BY <2>2 DEF FoldOf, It
<1>4. IsFold(g, p, base, SUBSET S)
  BY <1>1
<1> HIDE DEF g
<1>5. FoldOf(p, base, {}) = base
  BY <1>3, <1>4 DEF IsFold
<1>6. ASSUME S # {} PROVE FoldOf(p, base, S) = Op(p, Pick(S), FoldOf(p, base, S \ {Pick(S)}))
  <2>1. FoldOf(p, base, S) = g[S] /\ FoldOf(p, base, S \ {Pick(S)}) = g[S \ {Pick(S)}]
    BY <1>3
  <2> QED
    BY <2>1, <1>4, <1>6 DEF IsFold
<1> QED
  BY <1>5, <1>6

\* On the values V the steps of two elements may change places.
Commutes(p, V, S) ==
  \A x, y \in S : \A t \in V : Op(p, x, t) \in V /\ Op(p, x, Op(p, y, t)) = Op(p, y, Op(p, x, t))

\* What a fold over T is, whichever of its elements comes last.
AnyLast(p, base, V, T) ==
  /\ FoldOf(p, base, T) \in V
  /\ \A x \in T : FoldOf(p, base, T) = Op(p, x, FoldOf(p, base, T \ {x}))

\* A fold whose steps commute may take any element last.
LEMMA FoldAny ==
  ASSUME NEW S, IsFiniteSet(S), Chooses(S), NEW p, NEW V, NEW base \in V, Commutes(p, V, S)
  PROVE  \A T \in SUBSET S : AnyLast(p, base, V, T)
<1> DEFINE Bad == {n \in Nat : \E T \in SUBSET S : Cardinality(T) = n /\ ~AnyLast(p, base, V, T)}
           F(T) == FoldOf(p, base, T)
<1>1. \A T \in SUBSET S :
        /\ IsFiniteSet(T) /\ Cardinality(T) \in Nat /\ Chooses(T)
        /\ F({}) = base
        /\ T # {} => F(T) = Op(p, Pick(T), F(T \ {Pick(T)}))
  <2> TAKE T \in SUBSET S
  <2>1. IsFiniteSet(T) /\ Cardinality(T) \in Nat /\ Chooses(T)
    BY FS_Subset, FS_CardinalityType DEF Chooses
  <2> QED
    BY <2>1, FoldSteps
<1> HIDE DEF F
<1>2. Bad = {}
  <2>1. SUFFICES ASSUME Bad # {} PROVE FALSE
    OBVIOUS
  <2>2. PICK m \in Bad : \A k \in Bad : m <= k
    <3>1. Bad \subseteq Nat
      OBVIOUS
    <3> HIDE DEF Bad
    <3> QED
      BY <2>1, <3>1, Least
  <2>3. PICK T \in SUBSET S : Cardinality(T) = m /\ ~AnyLast(p, base, V, T)
    BY <2>2
  <2>4. m \in Nat /\ \A R \in SUBSET S : Cardinality(R) < m => AnyLast(p, base, V, R)
    <3>1. m \in Nat
      OBVIOUS
    <3>2. ASSUME NEW R \in SUBSET S, Cardinality(R) < m PROVE AnyLast(p, base, V, R)
      <4>1. Cardinality(R) \in Nat
        BY <1>1
      <4>2. ~(m <= Cardinality(R))
        BY <3>1, <3>2, <4>1
      <4>3. Cardinality(R) \notin Bad
        <5> HIDE DEF Bad
        <5> QED
          BY <2>2, <4>2
      <4> QED
        BY <4>1, <4>3
    <3> QED
      BY <3>1, <3>2
  <2> HIDE DEF Bad
  <2>5. \A R \in SUBSET S : Cardinality(R) < m =>
          /\ F(R) \in V
          /\ \A x \in R : F(R) = Op(p, x, F(R \ {x}))
    BY <2>4 DEF AnyLast, F
  <2>6. \A x \in T : T \ {x} \in SUBSET S /\ Cardinality(T \ {x}) < m
    <3> TAKE x \in T
    <3>1. Cardinality(T \ {x}) = Cardinality(T) - 1
      BY <1>1, FS_RemoveElement
    <3> QED
      BY <2>3, <2>4, <3>1
  <2> DEFINE c == Pick(T)
  <2>7. T # {} => c \in T
    BY DEF Chooses
  <2>8. T # {} => F(T) = Op(p, c, F(T \ {c}))
    BY <1>1
  <2> HIDE DEF c
  <2>9. F(T) \in V
    <3>1. T = {} => F(T) = base
      BY <1>1
    <3>2. T # {} => F(T \ {c}) \in V
      BY <2>5, <2>6, <2>7
    <3> QED
      BY <2>7, <2>8, <3>1, <3>2 DEF Commutes
  <2>10. ASSUME NEW x \in T PROVE F(T) = Op(p, x, F(T \ {x}))
    <3>1. CASE x = c
      BY <2>8, <3>1
    <3>2. CASE x # c
      <4> DEFINE R == (T \ {c}) \ {x}
      <4>1. c \in T /\ x \in T \ {c} /\ c \in T \ {x} /\ R = (T \ {x}) \ {c} /\ R \in SUBSET S
        BY <2>7, <3>2
      <4>2. Cardinality(R) < m
        <5>1. /\ Cardinality(T \ {x}) \in Nat /\ Cardinality(R) \in Nat
              /\ Cardinality(R) = Cardinality(T \ {x}) - 1
          <6>1. IsFiniteSet(T \ {x}) /\ Cardinality(T \ {x}) \in Nat /\ Cardinality(R) \in Nat
            BY <1>1, <2>6, <4>1
          <6>2. Cardinality((T \ {x}) \ {c}) = Cardinality(T \ {x}) - 1
            BY <4>1, <6>1, FS_RemoveElement
          <6> QED
            BY <4>1, <6>1, <6>2
        <5> QED
          BY <5>1, <2>4, <2>6
      <4> HIDE DEF R
      <4>3. F(T \ {c}) = Op(p, x, F(R)) /\ F(T \ {x}) = Op(p, c, F(R)) /\ F(R) \in V
        <5>1. F(T \ {c}) = Op(p, x, F(R))
          BY <2>5, <2>6, <4>1 DEF R
        <5>2. F(T \ {x}) = Op(p, c, F(R))
          BY <2>5, <2>6, <4>1 DEF R
        <5>3. F(R) \in V
          BY <2>5, <4>1, <4>2
        <5> QED
          BY <5>1, <5>2, <5>3
      <4>4. Op(p, c, Op(p, x, F(R))) = Op(p, x, Op(p, c, F(R)))
        BY <4>1, <4>3 DEF Commutes
      <4> QED
        BY <2>8, <4>1, <4>3, <4>4
    <3> QED
      BY <3>1, <3>2
  <2>11. AnyLast(p, base, V, T)
    BY <2>9, <2>10 DEF AnyLast, F
  <2> QED
    BY <2>3, <2>11
<1>3. ASSUME NEW T \in SUBSET S PROVE AnyLast(p, base, V, T)
  BY <1>1, <1>2
<1> QED
  BY <1>3
=============================================================================
