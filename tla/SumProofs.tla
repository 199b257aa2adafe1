------------------------------ MODULE SumProofs ------------------------------
(***************************************************************************)
(* What SumFunctionOnSet of the community modules computes, for a finite   *)
(* set of any size.  The models add up accounts, NFTs and owners with it.  *)
(* It folds a set with a function that is defined by recursion over its    *)
(* subsets; the lemmas show that there is such a function, that the order  *)
(* of the elements does not matter, and how sums compare.                  *)
(*                                                                         *)
(* Induction over a finite set is used in the form that a set of subsets   *)
(* is all of them, which needs no predicate as a parameter: a smallest     *)
(* subset that is not good would have good subsets only.                   *)
(***************************************************************************)
EXTENDS Integers, FiniteSets, Functions, FiniteSetTheorems, TLAPS

LEMMA SetInduction ==
  ASSUME NEW S, IsFiniteSet(S), NEW Good,
         \A T \in SUBSET S : (\A U \in SUBSET T : U # T => U \in Good) => T \in Good
  PROVE  \A T \in SUBSET S : T \in Good
<1> DEFINE Bad == (SUBSET S) \ Good
<1> SUFFICES ASSUME Bad # {} PROVE FALSE
  OBVIOUS
<1>1. IsWellFoundedOn(StrictSubsetOrdering(S), SUBSET S)
  <2>1. IsWellFoundedOn(StrictSubsetOrdering(S), FiniteSubsetsOf(S))
    BY FS_StrictSubsetOrderingWellFounded
  <2>2. FiniteSubsetsOf(S) = SUBSET S
    BY FS_FiniteSubsetsOfFinite
  <2> QED
    BY <2>1, <2>2
<1>2. Bad \subseteq SUBSET S
  OBVIOUS
<1> HIDE DEF Bad
<1>3. \E T \in Bad : \A U \in Bad : <<U, T>> \notin StrictSubsetOrdering(S)
  BY <1>1, <1>2, WFMin
<1>4. PICK T \in Bad : \A U \in Bad : <<U, T>> \notin StrictSubsetOrdering(S)
  BY <1>3
<1>5. \A U \in SUBSET T : U # T => U \in Good
  <2> TAKE U \in SUBSET T
  <2> HAVE U # T
  <2>1. U \in SUBSET S /\ T \in SUBSET S
    BY <1>2
  <2>2. <<U, T>> \in StrictSubsetOrdering(S)
    BY <2>1 DEF StrictSubsetOrdering
  <2> QED
    BY <1>4, <2>1, <2>2 DEF Bad
<1> QED
  BY <1>2, <1>5 DEF Bad

-----------------------------------------------------------------------------
(* The recursive function of MapThenFoldSet.                               *)
Chosen(T)     == CHOOSE x \in T : TRUE
Rest(T)       == T \ {Chosen(T)}
Body(f, g, T) == IF T = {} THEN 0 ELSE f[Chosen(T)] + g[Rest(T)]
Sums(f, S)    == CHOOSE g : g = [T \in SUBSET S |-> Body(f, g, T)]

LEMMA SumUnfolds ==
  ASSUME NEW f, NEW S
  PROVE  SumFunctionOnSet(f, S) = Sums(f, S)[S]
BY DEF SumFunctionOnSet, FoldFunctionOnSet, MapThenFoldSet, Sums, Body, Rest, Chosen

LEMMA RestSmaller ==
  ASSUME NEW T, T # {}
  PROVE  Chosen(T) \in T /\ Rest(T) \in SUBSET T /\ Rest(T) # T
BY DEF Chosen, Rest

(* g has the sums of the subsets of T.                                     *)
Solves(f, g, T) == \A U \in SUBSET T : g[U] = Body(f, g, U)

LEMMA SolutionsAgree ==
  ASSUME NEW S, IsFiniteSet(S), NEW f, NEW g, NEW h, Solves(f, g, S), Solves(f, h, S)
  PROVE  \A T \in SUBSET S : g[T] = h[T]
<1> DEFINE Good == {T \in SUBSET S : g[T] = h[T]}
<1>1. ASSUME NEW T \in SUBSET S, \A U \in SUBSET T : U # T => U \in Good
      PROVE  T \in Good
  <2>1. g[T] = Body(f, g, T) /\ h[T] = Body(f, h, T)
    BY DEF Solves
  <2>2. T # {} => g[Rest(T)] = h[Rest(T)]
    BY <1>1, RestSmaller
  <2> QED
    BY <2>1, <2>2 DEF Body
<1> HIDE DEF Good
<1>2. \A T \in SUBSET S : T \in Good
  BY <1>1, SetInduction
<1> QED
  BY <1>2 DEF Good

(* A solution exists: for each T take one of the solutions for T.          *)
Solution(f, T) == CHOOSE g \in [SUBSET T -> Int] : Solves(f, g, T)
Solvable(f, T) == \E g \in [SUBSET T -> Int] : Solves(f, g, T)
Glued(f, T)    == [U \in SUBSET T |->
                     IF U = {} THEN 0
                     ELSE f[Chosen(U)] + Solution(f, Rest(U))[Rest(U)]]

LEMMA SolutionSolves ==
  ASSUME NEW f, NEW T, Solvable(f, T)
  PROVE  Solution(f, T) \in [SUBSET T -> Int] /\ Solves(f, Solution(f, T), T)
BY DEF Solvable, Solution

LEMMA GluedSolves ==
  ASSUME NEW T, IsFiniteSet(T), NEW f, \A x \in T : f[x] \in Int,
         \A U \in SUBSET T : U # T => Solvable(f, U)
  PROVE  Glued(f, T) \in [SUBSET T -> Int] /\ Solves(f, Glued(f, T), T)
<1> DEFINE G == Glued(f, T)
<1>1. ASSUME NEW U \in SUBSET T, U # {}
      PROVE  /\ f[Chosen(U)] \in Int /\ Solution(f, Rest(U))[Rest(U)] \in Int
             /\ Rest(U) \in SUBSET T /\ Rest(U) # T
             /\ Solves(f, Solution(f, Rest(U)), Rest(U))
  <2>1. Chosen(U) \in T /\ Rest(U) \in SUBSET T /\ Rest(U) # T
    BY <1>1, RestSmaller
  <2>2. /\ Solution(f, Rest(U)) \in [SUBSET Rest(U) -> Int]
        /\ Solves(f, Solution(f, Rest(U)), Rest(U))
    BY <2>1, SolutionSolves
  <2>3. Rest(U) \in SUBSET Rest(U)
    OBVIOUS
  <2> QED
    BY <2>1, <2>2, <2>3
<1>2. G \in [SUBSET T -> Int]
  BY <1>1 DEF Glued
<1>3. ASSUME NEW U \in SUBSET T, U # {} PROVE G[Rest(U)] = Solution(f, Rest(U))[Rest(U)]
  <2> DEFINE R == Rest(U)
  <2>1. R \in SUBSET T /\ R # T /\ Solves(f, Solution(f, R), R)
    BY <1>1, <1>3
  <2>2. G[R] = IF R = {} THEN 0 ELSE f[Chosen(R)] + Solution(f, Rest(R))[Rest(R)]
    BY <2>1 DEF Glued
  <2>3. Solution(f, R)[R] = Body(f, Solution(f, R), R)
    BY <2>1 DEF Solves
  <2>4. ASSUME R # {} PROVE Solution(f, R)[Rest(R)] = Solution(f, Rest(R))[Rest(R)]
    <3>1. /\ Rest(R) \in SUBSET R /\ IsFiniteSet(Rest(R))
      BY <2>1, <2>4, RestSmaller, FS_Subset
    <3>2. Solves(f, Solution(f, R), Rest(R))
      BY <2>1, <3>1 DEF Solves
    <3>3. Solves(f, Solution(f, Rest(R)), Rest(R))
      BY <1>1, <2>1, <2>4
    <3> HIDE DEF R
    <3> QED
      BY <3>1, <3>2, <3>3, SolutionsAgree
  <2> QED
    BY <2>2, <2>3, <2>4 DEF Body
<1>4. ASSUME NEW U \in SUBSET T PROVE G[U] = Body(f, G, U)
  BY <1>3 DEF Body, Glued
<1> QED
  BY <1>2, <1>4 DEF Solves

LEMMA AllSolvable ==
  ASSUME NEW S, IsFiniteSet(S), NEW f, \A x \in S : f[x] \in Int
  PROVE  Solvable(f, S)
<1> DEFINE Good == {T \in SUBSET S : Solvable(f, T)}
<1>1. ASSUME NEW T \in SUBSET S, \A U \in SUBSET T : U # T => U \in Good
      PROVE  T \in Good
  <2>1. IsFiniteSet(T)
    BY FS_Subset
  <2>2. Glued(f, T) \in [SUBSET T -> Int] /\ Solves(f, Glued(f, T), T)
    BY <1>1, <2>1, GluedSolves
  <2> QED
    BY <2>2 DEF Solvable
<1> HIDE DEF Good
<1>2. \A T \in SUBSET S : T \in Good
  BY <1>1, SetInduction
<1> QED
  BY <1>2 DEF Good

LEMMA SumsSolve ==
  ASSUME NEW S, IsFiniteSet(S), NEW f, \A x \in S : f[x] \in Int
  PROVE  Sums(f, S) \in [SUBSET S -> Int] /\ Solves(f, Sums(f, S), S)
<1>1. PICK g \in [SUBSET S -> Int] : Solves(f, g, S)
  BY AllSolvable DEF Solvable
<1>2. g = [T \in SUBSET S |-> Body(f, g, T)]
  BY <1>1 DEF Solves
<1>3. Sums(f, S) = [T \in SUBSET S |-> Body(f, Sums(f, S), T)]
  BY <1>2 DEF Sums
<1>4. Solves(f, Sums(f, S), S)
  BY <1>3 DEF Solves
<1>5. \A T \in SUBSET S : Sums(f, S)[T] = g[T]
  BY <1>1, <1>4, SolutionsAgree
<1> QED
  BY <1>1, <1>3, <1>4, <1>5
-----------------------------------------------------------------------------
(* The lemmas to cite: the sum of nothing, of one element more, in any     *)
(* order, and the type of a sum.                                           *)
LEMMA SumEmpty == ASSUME NEW f PROVE SumFunctionOnSet(f, {}) = 0
<1>1. IsFiniteSet({}) /\ \A x \in {} : f[x] \in Int
  BY FS_EmptySet
<1> QED
  BY <1>1, SumsSolve, SumUnfolds DEF Solves, Body

LEMMA SumStep ==
  ASSUME NEW S, IsFiniteSet(S), S # {}, NEW f, \A x \in S : f[x] \in Int
  PROVE  SumFunctionOnSet(f, S) = f[Chosen(S)] + SumFunctionOnSet(f, Rest(S))
<1> DEFINE R == Rest(S)
<1>1. R \in SUBSET S /\ IsFiniteSet(R) /\ Chosen(S) \in S /\ R \in SUBSET R
  BY RestSmaller, FS_Subset
<1>2. Solves(f, Sums(f, S), S) /\ Solves(f, Sums(f, R), R)
  BY <1>1, SumsSolve
<1>3. Solves(f, Sums(f, S), R)
  BY <1>1, <1>2 DEF Solves
<1> HIDE DEF R
<1>4. Sums(f, S)[R] = Sums(f, R)[R]
  BY <1>1, <1>2, <1>3, SolutionsAgree
<1>5. Sums(f, S)[S] = f[Chosen(S)] + Sums(f, S)[R]
  BY <1>2 DEF Solves, Body, R
<1> QED
  BY <1>4, <1>5, SumUnfolds DEF R

LEMMA SumInt ==
  ASSUME NEW S, IsFiniteSet(S), NEW f, \A x \in S : f[x] \in Int
  PROVE  SumFunctionOnSet(f, S) \in Int
<1>1. Sums(f, S) \in [SUBSET S -> Int] /\ S \in SUBSET S
  BY SumsSolve
<1> QED
  BY <1>1, SumUnfolds

LEMMA SumRemove ==
  ASSUME NEW S, IsFiniteSet(S), NEW f, \A x \in S : f[x] \in Int, NEW x \in S
  PROVE  SumFunctionOnSet(f, S) = f[x] + SumFunctionOnSet(f, S \ {x})
<1> DEFINE Sum(T) == SumFunctionOnSet(f, T)
           Good   == {T \in SUBSET S : \A y \in T : Sum(T) = f[y] + Sum(T \ {y})}
<1>1. ASSUME NEW T \in SUBSET S, \A U \in SUBSET T : U # T => U \in Good
      PROVE  T \in Good
  <2> SUFFICES ASSUME NEW y \in T PROVE Sum(T) = f[y] + Sum(T \ {y})
    OBVIOUS
  <2> DEFINE c == Chosen(T)
  <2>1. /\ c \in T /\ Rest(T) = T \ {c} /\ IsFiniteSet(T)
    BY RestSmaller, FS_Subset DEF Rest
  <2>2. Sum(T) = f[c] + Sum(T \ {c})
    BY <2>1, SumStep
  <2>3. CASE y = c
    BY <2>2, <2>3
  <2>4. CASE y # c
    <3> DEFINE U == (T \ {y}) \ {c}
    <3>1. T \ {c} \in Good /\ T \ {y} \in Good
      BY <1>1, <2>1
    <3>2. (T \ {c}) \ {y} = U /\ IsFiniteSet(U) /\ U \in SUBSET S
      BY <2>1, FS_RemoveElement
    <3>3. Sum(T \ {c}) = f[y] + Sum(U)
      BY <2>4, <3>1, <3>2
    <3>4. Sum(T \ {y}) = f[c] + Sum(U)
      BY <2>1, <2>4, <3>1
    <3>5. f[c] \in Int /\ f[y] \in Int
      BY <2>1
    <3>6. Sum(U) \in Int
      BY <3>2, SumInt
    <3>7. Sum(T) = f[c] + (f[y] + Sum(U))
      BY <2>2, <3>3
    <3> QED
      BY <3>4, <3>5, <3>6, <3>7
  <2> QED
    BY <2>3, <2>4
<1> HIDE DEF Good
<1>2. \A T \in SUBSET S : T \in Good
  BY <1>1, SetInduction
<1>3. S \in SUBSET S
  OBVIOUS
<1> QED
  BY <1>2, <1>3 DEF Good

LEMMA SumAdd ==
  ASSUME NEW S, IsFiniteSet(S), NEW x, x \notin S, NEW f,
         \A y \in S \cup {x} : f[y] \in Int
  PROVE  SumFunctionOnSet(f, S \cup {x}) = f[x] + SumFunctionOnSet(f, S)
<1>1. (S \cup {x}) \ {x} = S /\ IsFiniteSet(S \cup {x})
  BY FS_AddElement
<1> QED
  BY <1>1, SumRemove

(* The sums of functions that are related element by element.              *)
LEMMA SumEqual ==
  ASSUME NEW S, IsFiniteSet(S), NEW f, NEW g,
         \A x \in S : f[x] = g[x] /\ f[x] \in Int
  PROVE  SumFunctionOnSet(f, S) = SumFunctionOnSet(g, S)
<1> DEFINE Good == {T \in SUBSET S : SumFunctionOnSet(f, T) = SumFunctionOnSet(g, T)}
<1>1. ASSUME NEW T \in SUBSET S, \A U \in SUBSET T : U # T => U \in Good
      PROVE  T \in Good
  <2>1. CASE T = {}
    BY <2>1, SumEmpty
  <2>2. CASE T # {}
    <3>1. Chosen(T) \in T /\ IsFiniteSet(T) /\ Rest(T) \in Good
      BY <1>1, <2>2, RestSmaller, FS_Subset
    <3>2. /\ SumFunctionOnSet(f, T) = f[Chosen(T)] + SumFunctionOnSet(f, Rest(T))
          /\ SumFunctionOnSet(g, T) = g[Chosen(T)] + SumFunctionOnSet(g, Rest(T))
      BY <2>2, <3>1, SumStep
    <3> QED
      BY <3>1, <3>2
  <2> QED
    BY <2>1, <2>2
<1> HIDE DEF Good
<1>2. \A T \in SUBSET S : T \in Good
  BY <1>1, SetInduction
<1>3. S \in SUBSET S
  OBVIOUS
<1> QED
  BY <1>2, <1>3 DEF Good

LEMMA SumPlus ==
  ASSUME NEW S, IsFiniteSet(S), NEW f, NEW g, NEW h,
         \A x \in S : h[x] = f[x] + g[x] /\ f[x] \in Int /\ g[x] \in Int
  PROVE  SumFunctionOnSet(h, S) = SumFunctionOnSet(f, S) + SumFunctionOnSet(g, S)
<1> DEFINE Sum(e, T) == SumFunctionOnSet(e, T)
           Good      == {T \in SUBSET S : Sum(h, T) = Sum(f, T) + Sum(g, T)}
<1>1. ASSUME NEW T \in SUBSET S, \A U \in SUBSET T : U # T => U \in Good
      PROVE  T \in Good
  <2>1. CASE T = {}
    BY <2>1, SumEmpty
  <2>2. CASE T # {}
    <3> DEFINE c == Chosen(T)
               R == Rest(T)
    <3>1. c \in T /\ IsFiniteSet(T) /\ IsFiniteSet(R) /\ R \in SUBSET T /\ R \in Good
      BY <1>1, <2>2, RestSmaller, FS_Subset
    <3>2. Sum(h, T) = h[c] + Sum(h, R)
      BY <2>2, <3>1, SumStep
    <3>3. Sum(f, T) = f[c] + Sum(f, R) /\ Sum(g, T) = g[c] + Sum(g, R)
      BY <2>2, <3>1, SumStep
    <3>4. Sum(f, R) \in Int /\ Sum(g, R) \in Int
      BY <3>1, SumInt
    <3>5. Sum(h, R) = Sum(f, R) + Sum(g, R)
      BY <3>1
    <3>6. h[c] = f[c] + g[c] /\ f[c] \in Int /\ g[c] \in Int
      BY <3>1
    <3>7. Sum(h, T) = Sum(f, T) + Sum(g, T)
      <4> HIDE DEF c, R, Sum
      <4> QED
        BY <3>2, <3>3, <3>4, <3>5, <3>6
    <3> QED
      BY <3>7
  <2> QED
    BY <2>1, <2>2
<1> HIDE DEF Good
<1>2. \A T \in SUBSET S : T \in Good
  BY <1>1, SetInduction
<1>3. S \in SUBSET S
  OBVIOUS
<1> QED
  BY <1>2, <1>3 DEF Good

(* A factor can be taken out of a sum.                                     *)
LEMMA SumScale ==
  ASSUME NEW S, IsFiniteSet(S), NEW f, NEW h, NEW k \in Int,
         \A x \in S : f[x] \in Int /\ h[x] = k * f[x]
  PROVE  SumFunctionOnSet(h, S) = k * SumFunctionOnSet(f, S)
<1> DEFINE Sum(e, T) == SumFunctionOnSet(e, T)
           Good      == {T \in SUBSET S : Sum(h, T) = k * Sum(f, T)}
<1>1. ASSUME NEW T \in SUBSET S, \A U \in SUBSET T : U # T => U \in Good
      PROVE  T \in Good
  <2>1. CASE T = {}
    BY <2>1, SumEmpty
  <2>2. CASE T # {}
    <3> DEFINE c == Chosen(T)
               R == Rest(T)
    <3>1. /\ c \in T /\ R \in SUBSET T /\ R # T /\ R \in Good /\ IsFiniteSet(T) /\ IsFiniteSet(R)
      BY <1>1, <2>2, RestSmaller, FS_Subset
    <3>2. \A x \in T : f[x] \in Int /\ h[x] = k * f[x] /\ h[x] \in Int
      OBVIOUS
    <3>3. Sum(h, T) = h[c] + Sum(h, R) /\ Sum(f, T) = f[c] + Sum(f, R)
      BY <2>2, <3>1, <3>2, SumStep
    <3>4. Sum(f, R) \in Int /\ f[c] \in Int /\ h[c] = k * f[c]
      BY <3>1, <3>2, SumInt
    <3>5. Sum(h, R) = k * Sum(f, R)
      BY <3>1
    <3>6. Sum(h, T) = k * Sum(f, T)
      <4> HIDE DEF Sum, c, R
      <4>1. Sum(h, T) = k * f[c] + k * Sum(f, R)
        BY <3>3, <3>4, <3>5
      <4>2. k * f[c] + k * Sum(f, R) = k * (f[c] + Sum(f, R))
        BY <3>4
      <4> QED
        BY <3>3, <4>1, <4>2
    <3> QED
      BY <3>6
  <2> QED
    BY <2>1, <2>2
<1> HIDE DEF Good
<1>2. \A T \in SUBSET S : T \in Good
  BY <1>1, SetInduction
<1>3. S \in SUBSET S
  OBVIOUS
<1> QED
  BY <1>2, <1>3 DEF Good

LEMMA SumLeq ==
  ASSUME NEW S, IsFiniteSet(S), NEW f, NEW g,
         \A x \in S : f[x] \in Int /\ g[x] \in Int /\ f[x] <= g[x]
  PROVE  SumFunctionOnSet(f, S) <= SumFunctionOnSet(g, S)
<1> DEFINE Sum(e, T) == SumFunctionOnSet(e, T)
           Good      == {T \in SUBSET S : Sum(f, T) <= Sum(g, T)}
<1>1. ASSUME NEW T \in SUBSET S, \A U \in SUBSET T : U # T => U \in Good
      PROVE  T \in Good
  <2>1. CASE T = {}
    BY <2>1, SumEmpty
  <2>2. CASE T # {}
    <3> DEFINE c == Chosen(T)
               R == Rest(T)
    <3>1. c \in T /\ IsFiniteSet(T) /\ IsFiniteSet(R) /\ R \in SUBSET T /\ R \in Good
      BY <1>1, <2>2, RestSmaller, FS_Subset
    <3>2. Sum(f, T) = f[c] + Sum(f, R) /\ Sum(g, T) = g[c] + Sum(g, R)
      BY <2>2, <3>1, SumStep
    <3>3. Sum(f, R) \in Int /\ Sum(g, R) \in Int
      BY <3>1, SumInt
    <3>4. Sum(f, R) <= Sum(g, R)
      BY <3>1
    <3>5. f[c] \in Int /\ g[c] \in Int /\ f[c] <= g[c]
      BY <3>1
    <3>6. Sum(f, T) <= Sum(g, T)
      <4> HIDE DEF c, R, Sum
      <4> QED
        BY <3>2, <3>3, <3>4, <3>5
    <3> QED
      BY <3>6
  <2> QED
    BY <2>1, <2>2
<1> HIDE DEF Good
<1>2. \A T \in SUBSET S : T \in Good
  BY <1>1, SetInduction
<1>3. S \in SUBSET S
  OBVIOUS
<1> QED
  BY <1>2, <1>3 DEF Good

LEMMA SumZero ==
  ASSUME NEW S, IsFiniteSet(S), NEW f, \A x \in S : f[x] = 0
  PROVE  SumFunctionOnSet(f, S) = 0
<1> DEFINE s == SumFunctionOnSet(f, S)
<1>1. s \in Int
  BY SumInt
<1>2. s = s + s
  BY SumPlus
<1> HIDE DEF s
<1>3. s = 0
  BY <1>1, <1>2
<1> QED
  BY <1>3 DEF s

LEMMA SumNat ==
  ASSUME NEW S, IsFiniteSet(S), NEW f, \A x \in S : f[x] \in Nat
  PROVE  SumFunctionOnSet(f, S) \in Nat
<1> DEFINE z == [x \in S |-> 0]
<1>1. SumFunctionOnSet(f, S) \in Int
  BY SumInt
<1>2. SumFunctionOnSet(z, S) = 0
  BY SumZero
<1>3. SumFunctionOnSet(z, S) <= SumFunctionOnSet(f, S)
  BY SumLeq
<1> QED
  BY <1>1, <1>2, <1>3

(* Adding up ones counts.                                                  *)
LEMMA SumOnes ==
  ASSUME NEW S, IsFiniteSet(S), NEW f, \A x \in S : f[x] = 1
  PROVE  SumFunctionOnSet(f, S) = Cardinality(S)
<1> DEFINE Good == {T \in SUBSET S : SumFunctionOnSet(f, T) = Cardinality(T)}
<1>1. ASSUME NEW T \in SUBSET S, \A U \in SUBSET T : U # T => U \in Good
      PROVE  T \in Good
  <2>1. IsFiniteSet(T) /\ \A x \in T : f[x] = 1 /\ f[x] \in Int
    BY FS_Subset
  <2>2. CASE T = {}
    BY <2>2, SumEmpty, FS_EmptySet
  <2>3. CASE T # {}
    <3>1. Chosen(T) \in T /\ Rest(T) \in Good
      BY <1>1, <2>3, RestSmaller
    <3>2. SumFunctionOnSet(f, T) = f[Chosen(T)] + SumFunctionOnSet(f, Rest(T))
      BY <2>1, <2>3, SumStep
    <3>3. SumFunctionOnSet(f, Rest(T)) = Cardinality(T) - 1 /\ Cardinality(T) \in Nat
      BY <2>1, <3>1, FS_RemoveElement, FS_CardinalityType DEF Rest
    <3> QED
      BY <2>1, <3>1, <3>2, <3>3
  <2> QED
    BY <2>2, <2>3
<1> HIDE DEF Good
<1>2. \A T \in SUBSET S : T \in Good
  BY <1>1, SetInduction
<1> QED
  BY <1>2 DEF Good

(* A set taken apart, and a function that is zero on one of the parts.     *)
LEMMA SumSplit ==
  ASSUME NEW S, IsFiniteSet(S), NEW f, \A x \in S : f[x] \in Int, NEW P \in SUBSET S
  PROVE  SumFunctionOnSet(f, S) = SumFunctionOnSet(f, P) + SumFunctionOnSet(f, S \ P)
<1> DEFINE Sum(T) == SumFunctionOnSet(f, T)
           Good   == {T \in SUBSET S : Sum(S) = Sum(T) + Sum(S \ T)}
<1>1. ASSUME NEW T \in SUBSET S, \A U \in SUBSET T : U # T => U \in Good
      PROVE  T \in Good
  <2>1. CASE T = {}
    <3>1. Sum({}) = 0 /\ Sum(S) \in Int /\ S \ {} = S
      BY SumEmpty, SumInt
    <3> QED
      BY <2>1, <3>1
  <2>2. CASE T # {}
    <3> DEFINE c == Chosen(T)
               R == Rest(T)
    <3>1. c \in T /\ IsFiniteSet(T) /\ R = T \ {c} /\ R \in Good
      BY <1>1, <2>2, RestSmaller, FS_Subset DEF Rest
    <3>2. IsFiniteSet(S \ R) /\ IsFiniteSet(R) /\ IsFiniteSet(S \ T)
      BY <3>1, FS_Subset, FS_Difference
    <3>3. c \in S \ R /\ (S \ R) \ {c} = S \ T
      BY <3>1
    <3>4. Sum(S) = Sum(R) + Sum(S \ R)
      BY <3>1
    <3>5. Sum(S \ R) = f[c] + Sum(S \ T)
      BY <3>2, <3>3, SumRemove
    <3>6. Sum(T) = f[c] + Sum(R)
      BY <3>1, SumRemove
    <3>7. f[c] \in Int /\ Sum(R) \in Int /\ Sum(S \ T) \in Int
      BY <3>1, <3>2, SumInt
    <3>8. Sum(S) = Sum(T) + Sum(S \ T)
      <4> HIDE DEF c, R, Sum
      <4> QED
        BY <3>4, <3>5, <3>6, <3>7
    <3> QED
      BY <3>8
  <2> QED
    BY <2>1, <2>2
<1> HIDE DEF Good
<1>2. \A T \in SUBSET S : T \in Good
  BY <1>1, SetInduction
<1> QED
  BY <1>2 DEF Good

LEMMA SumSupport ==
  ASSUME NEW S, IsFiniteSet(S), NEW f, \A x \in S : f[x] \in Int,
         NEW P \in SUBSET S, \A x \in S \ P : f[x] = 0
  PROVE  SumFunctionOnSet(f, S) = SumFunctionOnSet(f, P)
<1>1. IsFiniteSet(S \ P) /\ IsFiniteSet(P)
  BY FS_Subset, FS_Difference
<1>2. SumFunctionOnSet(f, S \ P) = 0
  BY <1>1, SumZero
<1>3. SumFunctionOnSet(f, P) \in Int
  BY <1>1, SumInt
<1> QED
  BY <1>2, <1>3, SumSplit

LEMMA SumSubset ==
  ASSUME NEW S, IsFiniteSet(S), NEW f, \A x \in S : f[x] \in Nat, NEW P \in SUBSET S
  PROVE  SumFunctionOnSet(f, P) <= SumFunctionOnSet(f, S)
<1>1. IsFiniteSet(S \ P) /\ IsFiniteSet(P)
  BY FS_Subset, FS_Difference
<1>2. SumFunctionOnSet(f, S \ P) \in Nat /\ SumFunctionOnSet(f, P) \in Nat
  BY <1>1, SumNat
<1>3. SumFunctionOnSet(f, S) = SumFunctionOnSet(f, P) + SumFunctionOnSet(f, S \ P)
  BY SumSplit
<1> QED
  BY <1>2, <1>3

(* A function that differs in one place.                                   *)
LEMMA SumExcept ==
  ASSUME NEW S, IsFiniteSet(S), NEW f, NEW g, NEW x \in S,
         \A y \in S : f[y] \in Int /\ g[y] \in Int,
         \A y \in S \ {x} : g[y] = f[y]
  PROVE  SumFunctionOnSet(g, S) = SumFunctionOnSet(f, S) + g[x] - f[x]
<1> DEFINE R == S \ {x}
<1>1. IsFiniteSet(R)
  BY FS_RemoveElement
<1>2. SumFunctionOnSet(f, S) = f[x] + SumFunctionOnSet(f, R)
  BY SumRemove
<1>3. SumFunctionOnSet(g, S) = g[x] + SumFunctionOnSet(g, R)
  BY SumRemove
<1>4. SumFunctionOnSet(g, R) = SumFunctionOnSet(f, R)
  BY <1>1, SumEqual
<1>5. SumFunctionOnSet(f, R) \in Int
  BY <1>1, SumInt
<1> QED
  BY <1>2, <1>3, <1>4, <1>5

(* The lengths of intervals that follow one another.                       *)
LEMMA Telescope ==
  ASSUME NEW m \in Nat, NEW F, \A i \in 1..m + 1 : F[i] \in Int,
         NEW f, \A i \in 1..m : f[i] = F[i + 1] - F[i]
  PROVE  SumFunctionOnSet(f, 1..m) = F[m + 1] - F[1]
<1> DEFINE S    == 1..m
           Good == {T \in SUBSET S : \A k \in 0..m :
                      T = 1..k => SumFunctionOnSet(f, T) = F[k + 1] - F[1]}
<1>1. IsFiniteSet(S)
  <2>1. 1 \in Int /\ m \in Int
    OBVIOUS
  <2> QED
    BY <2>1, FS_Interval
<1>2. \A i \in S : f[i] \in Int
  <2>1. \A i \in S : i \in 1..m + 1 /\ i + 1 \in 1..m + 1
    OBVIOUS
  <2> QED
    BY <2>1
<1>3. ASSUME NEW T \in SUBSET S, \A U \in SUBSET T : U # T => U \in Good PROVE T \in Good
  <2> SUFFICES ASSUME NEW k \in 0..m, T = 1..k PROVE SumFunctionOnSet(f, T) = F[k + 1] - F[1]
    OBVIOUS
  <2>1. CASE k = 0
    <3>1. T = {}
      BY <2>1
    <3>2. F[k + 1] = F[1] /\ F[1] \in Int
      <4>1. k + 1 = 1 /\ 1 \in 1..m + 1
        BY <2>1
      <4> QED
        BY <4>1
    <3>3. SumFunctionOnSet(f, T) = 0
      BY <3>1, SumEmpty
    <3>4. SumFunctionOnSet(f, T) = F[1] - F[1]
      BY <3>2, <3>3
    <3> QED
      BY <3>2, <3>4
  <2>2. CASE k # 0
    <3> DEFINE U == 1..k - 1
    <3>1. k \in T /\ U = T \ {k} /\ U \in SUBSET T /\ U # T /\ k - 1 \in 0..m /\ k \in S
      BY <2>2
    <3>2. SumFunctionOnSet(f, U) = F[(k - 1) + 1] - F[1]
      BY <1>3, <3>1
    <3>3. IsFiniteSet(T)
      BY <1>1, FS_Subset
    <3>4. SumFunctionOnSet(f, T) = f[k] + SumFunctionOnSet(f, T \ {k})
      BY <1>2, <3>1, <3>3, SumRemove
    <3>5. f[k] = F[k + 1] - F[k] /\ (k - 1) + 1 = k
      BY <3>1
    <3>6. F[k + 1] \in Int /\ F[k] \in Int /\ F[1] \in Int
      <4>1. k + 1 \in 1..m + 1 /\ k \in 1..m + 1 /\ 1 \in 1..m + 1
        BY <2>2
      <4> QED
        BY <4>1
    <3>7. SumFunctionOnSet(f, U) = F[k] - F[1]
      BY <3>2, <3>5
    <3>8. SumFunctionOnSet(f, T) = f[k] + SumFunctionOnSet(f, U)
      BY <3>1, <3>4
    <3> HIDE DEF U
    <3> QED
      BY <3>5, <3>6, <3>7, <3>8
  <2> QED
    BY <2>1, <2>2
<1> HIDE DEF Good
<1>4. \A T \in SUBSET S : T \in Good
  BY <1>1, <1>3, SetInduction
<1>5. S \in SUBSET S /\ m \in 0..m
  OBVIOUS
<1> QED
  BY <1>4, <1>5 DEF Good

(* Quotients of whole numbers are rounded down.                            *)
LEMMA Quotient ==
  ASSUME NEW a \in Nat, NEW b \in Nat \ {0}
  PROVE  /\ a \div b \in Nat
         /\ b * (a \div b) <= a /\ a < b * (a \div b) + b
  OBVIOUS

LEMMA QuotientExact ==
  ASSUME NEW a \in Nat, NEW b \in Nat \ {0}
  PROVE  (a * b) \div b = a
<1> DEFINE q == (a * b) \div b
<1>1. q \in Nat /\ b * q <= a * b /\ a * b < b * q + b
  BY Quotient
<1>2. q <= a
  BY <1>1
<1>3. a < q + 1
  BY <1>1
<1> QED
  BY <1>1, <1>2, <1>3

(* A part of an amount is at most the amount.                              *)
LEMMA PartAtMost ==
  ASSUME NEW r \in Nat, NEW x \in Nat, NEW y \in Nat \ {0}, x <= y
  PROVE  (r * x) \div y \in Nat /\ (r * x) \div y <= r
<1> DEFINE q == (r * x) \div y
<1>1. q \in Nat /\ y * q <= r * x
  BY Quotient
<1>2. r * x <= r * y
  OBVIOUS
<1>3. q <= r
  BY <1>1, <1>2
<1> QED
  BY <1>1, <1>3
=============================================================================
