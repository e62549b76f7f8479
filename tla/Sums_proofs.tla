---------------------------- MODULE Sums_proofs ----------------------------
(***************************************************************************)
(* Least numbers, induction, and sums over finite sets.                    *)
(***************************************************************************)
EXTENDS Integers, FiniteSets, Functions, FiniteSetTheorems, WellFoundedInduction, TLAPS

-----------------------------------------------------------------------------
(***************************************************************************)
(* Induction.  The library states it for an operator, which no backend     *)
(* here can instantiate; stated of a set of numbers, and proved from the   *)
(* least number outside of it, it is first-order.                          *)
(***************************************************************************)

\* Every set of naturals has a least element.
LEMMA LeastNatural == ASSUME NEW T \in SUBSET Nat, T # {}
  PROVE \E n \in T : \A m \in T : n <= m
<1>1. OpToRel(<, Nat) = {ss \in Nat \X Nat : ss[1] < ss[2]}
  BY DEF OpToRel
<1> DEFINE R == {ss \in Nat \X Nat : ss[1] < ss[2]}
<1>2. IsWellFoundedOn(R, Nat)
  BY <1>1, NatLessThanWellFounded
<1>3. \A n, m \in Nat : <<n, m>> \in R <=> n < m
  OBVIOUS
<1> HIDE DEF R
<1>4. \E x \in T : \A y \in T : ~ (<<y, x>> \in R)
  BY <1>2, WFMin
<1>5. PICK x \in T : \A y \in T : ~ (<<y, x>> \in R)
  BY <1>4
<1>6. ASSUME NEW y \in T PROVE x <= y
  <2>1. x \in Nat /\ y \in Nat /\ ~ (y < x)
    BY <1>3, <1>5
  <2> QED BY <2>1
<1> QED BY <1>6

\* A set of naturals with zero in it and closed under successor is all of them.
LEMMA NaturalInduction ==
  ASSUME NEW T \in SUBSET Nat, 0 \in T, \A n \in T : n + 1 \in T
  PROVE  T = Nat
<1> SUFFICES ASSUME Nat \ T # {} PROVE FALSE
  OBVIOUS
<1>1. PICK n \in Nat \ T : \A m \in Nat \ T : n <= m
  BY LeastNatural
<1>2. n - 1 \in T
  BY <1>1
<1> QED BY <1>1, <1>2

-----------------------------------------------------------------------------
(***************************************************************************)
(* SumFunction is the last value of a function on subsets, which adds one  *)
(* element at a time.  Such a function exists, by induction on how large  *)
(* a set it is defined on; so the sum is one.                             *)
(***************************************************************************)

IsSum(f, S, g) ==
    g = [T \in SUBSET S |->
            IF T = {} THEN 0 ELSE f[CHOOSE x \in T : TRUE] + g[T \ {CHOOSE x \in T : TRUE}]]

LEMMA SumUnfolds == ASSUME NEW f, NEW S, DOMAIN f = S
  PROVE SumFunction(f) = (CHOOSE g : IsSum(f, S, g))[S]
BY DEF SumFunction, SumFunctionOnSet, FoldFunctionOnSet, MapThenFoldSet, IsSum

Pick(T) == CHOOSE x \in T : TRUE
Small(S, n) == {T \in SUBSET S : Cardinality(T) <= n}
Partial(f, S, n, g) ==
    /\ g \in [Small(S, n) -> Int]
    /\ \A T \in Small(S, n) : g[T] = IF T = {} THEN 0 ELSE f[Pick(T)] + g[T \ {Pick(T)}]

\* What is left when one element is taken is defined a step earlier.
LEMMA Smaller ==
  ASSUME NEW S, IsFiniteSet(S), NEW n \in Nat, NEW T \in Small(S, n + 1), T # {}
  PROVE  Pick(T) \in T /\ T \ {Pick(T)} \in Small(S, n)
<1>1. Pick(T) \in T
  BY DEF Pick
<1>2. IsFiniteSet(T) /\ Cardinality(T) \in Nat
  BY FS_Subset, FS_CardinalityType DEF Small
<1>3. Cardinality(T \ {Pick(T)}) = Cardinality(T) - 1
  BY <1>1, <1>2, FS_RemoveElement
<1> QED BY <1>1, <1>2, <1>3 DEF Small

\* The partial sums go on to the whole set.
LEMMA SumExists ==
  ASSUME NEW S, IsFiniteSet(S), NEW f \in [S -> Int]
  PROVE  \E g : g \in [SUBSET S -> Int] /\ IsSum(f, S, g)
<1> DEFINE P == {n \in Nat : \E g : Partial(f, S, n, g)}
<1>1. 0 \in P
  <2> DEFINE g == [T \in Small(S, 0) |-> 0]
  <2>1. \A T \in Small(S, 0) : T = {}
    BY FS_Subset, FS_CardinalityType, FS_EmptySet DEF Small
  <2>2. Partial(f, S, 0, g)
    BY <2>1 DEF Partial
  <2> QED BY <2>2
<1>2. ASSUME NEW n \in Nat, NEW g, Partial(f, S, n, g) PROVE n + 1 \in P
  <2> DEFINE h == [T \in Small(S, n + 1) |->
                      IF T = {} THEN 0 ELSE f[Pick(T)] + g[T \ {Pick(T)}]]
  <2>1. \A T \in Small(S, n + 1) : T # {} => Pick(T) \in S /\ T \ {Pick(T)} \in Small(S, n)
    BY Smaller DEF Small
  <2>2. h \in [Small(S, n + 1) -> Int]
    BY <1>2, <2>1 DEF Partial
  <2>3. \A T \in Small(S, n) : T \in Small(S, n + 1)
    BY FS_Subset, FS_CardinalityType DEF Small
  <2>5. \A T \in Small(S, n) : h[T] = g[T]
    BY <1>2, <2>3 DEF Partial
  <2>4. Partial(f, S, n + 1, h)
    BY <2>1, <2>2, <2>3, <2>5 DEF Partial
  <2> HIDE DEF h
  <2> QED BY <2>4
<1>3. P = Nat
  <2>1. \A n \in P : n + 1 \in P
    BY <1>2
  <2> HIDE DEF P
  <2> QED BY <1>1, <2>1, NaturalInduction DEF P
<1>4. Cardinality(S) \in P /\ Small(S, Cardinality(S)) = SUBSET S
  BY <1>3, FS_Subset, FS_CardinalityType DEF Small
<1>5. PICK g : Partial(f, S, Cardinality(S), g)
  BY <1>4
<1>6. g \in [SUBSET S -> Int] /\ IsSum(f, S, g)
  BY <1>4, <1>5 DEF Partial, IsSum, Pick
<1> QED BY <1>6

\* The choice in the definition of SumFunction is of something.
LEMMA SumIsSum ==
  ASSUME NEW S, IsFiniteSet(S), NEW f \in [S -> Int]
  PROVE  \E g : IsSum(f, S, g) /\ SumFunction(f) = g[S]
<1>1. IsSum(f, S, CHOOSE g : IsSum(f, S, g))
  BY SumExists
<1>2. SumFunction(f) = (CHOOSE g : IsSum(f, S, g))[S]
  BY SumUnfolds
<1> QED BY <1>1, <1>2

\* Where only w's share may have grown, and by d at most, so has the sum.
LEMMA SumGrows ==
  ASSUME NEW S, IsFiniteSet(S), NEW f \in [S -> Int], NEW h \in [S -> Int], NEW w, NEW d \in Int,
         w \in S \/ d = 0,
         \A v \in S : h[v] <= f[v] + (IF v = w THEN d ELSE 0)
  PROVE  /\ SumFunction(f) \in Int /\ SumFunction(h) \in Int
         /\ SumFunction(h) <= SumFunction(f) + d
<1>1. PICK g : IsSum(f, S, g) /\ SumFunction(f) = g[S]
  BY SumIsSum
<1>2. PICK k : IsSum(h, S, k) /\ SumFunction(h) = k[S]
  BY SumIsSum
<1> DEFINE more(T) == IF w \in T THEN d ELSE 0
           Good(T) == g[T] \in Int /\ k[T] \in Int /\ k[T] <= g[T] + more(T)
           P == {n \in Nat : \A T \in Small(S, n) : Good(T)}
<1>3. Good({})
  <2>1. g[{}] = 0 /\ k[{}] = 0
    BY <1>1, <1>2 DEF IsSum
  <2> QED BY <2>1
<1>4. 0 \in P
  <2>1. \A T \in Small(S, 0) : T = {}
    BY FS_Subset, FS_CardinalityType, FS_EmptySet DEF Small
  <2> HIDE DEF Good
  <2> QED BY <1>3, <2>1
<1>5. ASSUME NEW n \in Nat, \A T \in Small(S, n) : Good(T),
             NEW T \in Small(S, n + 1), T # {}
      PROVE  Good(T)
  <2> DEFINE x == Pick(T)
             U == T \ {x}
  <2>1. x \in T /\ x \in S /\ U \in Small(S, n) /\ T \in SUBSET S
    BY <1>5, Smaller DEF Small
  <2>2. g[T] = f[x] + g[U] /\ k[T] = h[x] + k[U]
    BY <1>1, <1>2, <1>5, <2>1 DEF IsSum, Pick
  <2> DEFINE e == IF x = w THEN d ELSE 0
  <2>3. g[U] \in Int /\ k[U] \in Int /\ k[U] <= g[U] + more(U)
    BY <1>5, <2>1
  <2>4. f[x] \in Int /\ h[x] \in Int /\ h[x] <= f[x] + e
    BY <2>1
  <2>5. more(T) = more(U) + e
    BY <2>1
  <2>6. more(U) \in Int /\ e \in Int
    OBVIOUS
  <2> HIDE DEF more, U, x, e
  <2>7. g[T] \in Int /\ k[T] \in Int /\ k[T] <= g[T] + more(T)
    BY <2>2, <2>3, <2>4, <2>5, <2>6
  <2> QED BY <2>7
<1>6. P = Nat
  <2>1. ASSUME NEW n \in P PROVE n + 1 \in P
    <3> HIDE DEF Good
    <3>1. \A T \in Small(S, n) : Good(T)
      OBVIOUS
    <3>2. ASSUME NEW T \in Small(S, n + 1) PROVE Good(T)
      BY <1>3, <1>5, <3>1
    <3> QED BY <3>2
  <2>2. P \in SUBSET Nat
    OBVIOUS
  <2> HIDE DEF P
  <2> QED BY <1>4, <2>1, <2>2, NaturalInduction
<1>7. Good(S)
  BY <1>6, FS_CardinalityType DEF Small
<1>8. more(S) = d
  OBVIOUS
<1> QED BY <1>1, <1>2, <1>7, <1>8
=============================================================================
