---------------------------- MODULE SumTheorems ----------------------------
(***************************************************************************)
(* Sums over finite sets, SumFunctionOnSet of module Functions: the facts  *)
(* that the proofs about counters, ledgers and metrics need.  The library  *)
(* defines the sum by a recursive function on the subsets of the set it is *)
(* taken over; first that function is shown to exist, then the sum not to  *)
(* depend on the order elements are taken in.  Each induction is on finite *)
(* sets, stated as the absence of a smallest counterexample.               *)
(* Of functions that are recursive on 0..n, which the loops of the code    *)
(* are written as: that they exist, and that they keep what each step      *)
(* keeps (StepsExist, StepsKeep).                                          *)
(***************************************************************************)
EXTENDS Integers, Functions, FiniteSetsExt, FiniteSetTheorems, NaturalsInduction, TLAPS

(* Subsets of finite sets are finite.                                      *)
LEMMA SubsetFinite ==
  ASSUME NEW S, IsFiniteSet(S)
  PROVE  \A T \in SUBSET S : IsFiniteSet(T)
  BY FS_Subset, Zenon

(* A set of subsets of a finite set has an element none of whose proper    *)
(* subsets belongs to it.                                                  *)
LEMMA SmallestSubset ==
  ASSUME NEW S, IsFiniteSet(S), NEW B, B \subseteq SUBSET S, B # {}
  PROVE  \E T \in B : \A U \in SUBSET T : U # T => U \notin B
<1>1. IsWellFoundedOn(StrictSubsetOrdering(S), SUBSET S)
  BY FS_StrictSubsetOrderingWellFounded, FS_FiniteSubsetsOfFinite
<1>2. PICK T \in B : \A U \in B : <<U, T>> \notin StrictSubsetOrdering(S)
  BY <1>1, WFMin
<1> QED
  BY <1>2 DEF StrictSubsetOrdering

-----------------------------------------------------------------------------
(* The element the library takes out of s, and the equation it defines the *)
(* sums over the subsets of S by.                                          *)
First(s) == CHOOSE x \in s : TRUE

IsSum(g, f, S) ==
  g = [s \in SUBSET S |-> IF s = {} THEN 0 ELSE f[First(s)] + g[s \ {First(s)}]]

LEMMA SumIsChosen ==
  ASSUME NEW f, NEW S
  PROVE  SumFunctionOnSet(f, S) = (CHOOSE g : IsSum(g, f, S))[S]
  BY Zenon DEF SumFunctionOnSet, FoldFunctionOnSet, MapThenFoldSet, IsSum, First

LEMMA FirstInSet ==
  ASSUME NEW s, s # {}
  PROVE  First(s) \in s
  BY DEF First

(* Two functions that satisfy the equation agree where both are defined.   *)
LEMMA SumIsUnique ==
  ASSUME NEW S, IsFiniteSet(S), NEW T \in SUBSET S, NEW f, NEW g, NEW h,
         IsSum(g, f, S), IsSum(h, f, T)
  PROVE  g[T] = h[T]
<1> DEFINE B == {U \in SUBSET T : g[U] # h[U]}
<1>1. IsFiniteSet(T)
  BY SubsetFinite
<1>2. SUFFICES ASSUME B # {} PROVE FALSE
  OBVIOUS
<1>3. PICK U \in B : \A V \in SUBSET U : V # U => V \notin B
  <2>1. B \subseteq SUBSET T
    OBVIOUS
  <2> HIDE DEF B
  <2> QED
    BY <1>1, <1>2, <2>1, SmallestSubset
<1>4. /\ g[U] = IF U = {} THEN 0 ELSE f[First(U)] + g[U \ {First(U)}]
      /\ h[U] = IF U = {} THEN 0 ELSE f[First(U)] + h[U \ {First(U)}]
  BY DEF IsSum
<1>5. CASE U = {}
  BY <1>4, <1>5
<1>6. CASE U # {}
  <2>1. g[U \ {First(U)}] = h[U \ {First(U)}]
    BY <1>3, <1>6, FirstInSet
  <2> QED
    BY <1>4, <1>6, <2>1
<1> QED
  BY <1>5, <1>6

(* The sums over the subsets of S obey the equation.                       *)
LEMMA SumExists ==
  ASSUME NEW S, IsFiniteSet(S), NEW f
  PROVE  \E g : IsSum(g, f, S)
<1> DEFINE B == {T \in SUBSET S : ~ \E g : IsSum(g, f, T)}
           G(u) == (CHOOSE g : IsSum(g, f, u))[u]
<1>1. SUFFICES ASSUME B # {} PROVE FALSE
  OBVIOUS
<1>2. PICK T \in B : \A U \in SUBSET T : U # T => U \notin B
  <2>1. B \subseteq SUBSET S
    OBVIOUS
  <2> HIDE DEF B
  <2> QED
    BY <1>1, <2>1, SmallestSubset
<1> DEFINE Step(s) == IF s = {} THEN 0 ELSE f[First(s)] + G(s \ {First(s)})
           h == [s \in SUBSET T |-> Step(s)]
<1>3. ASSUME NEW U \in SUBSET T, U # T PROVE G(U) = Step(U)
  <2>1. PICK g : IsSum(g, f, U) /\ g = CHOOSE gg : IsSum(gg, f, U)
    BY <1>2, <1>3
  <2>2. g[U] = IF U = {} THEN 0 ELSE f[First(U)] + g[U \ {First(U)}]
    BY <2>1 DEF IsSum
  <2>3. CASE U # {}
    <3>1. U \ {First(U)} \in SUBSET T /\ U \ {First(U)} # T
      BY <1>3, <2>3, FirstInSet
    <3>2. PICK k : /\ IsSum(k, f, U \ {First(U)})
                   /\ k = CHOOSE gg : IsSum(gg, f, U \ {First(U)})
      BY <1>2, <3>1
    <3>3. IsFiniteSet(U)
      BY SubsetFinite
    <3>4. g[U \ {First(U)}] = k[U \ {First(U)}]
      BY <2>1, <3>2, <3>3, SumIsUnique
    <3> QED
      BY <2>1, <2>2, <2>3, <3>2, <3>4
  <2> QED
    BY <2>1, <2>2, <2>3
<1>4. ASSUME NEW s \in SUBSET T, s # {} PROVE G(s \ {First(s)}) = h[s \ {First(s)}]
  <2>1. s \ {First(s)} \in SUBSET T /\ s \ {First(s)} # T
    BY <1>4, FirstInSet
  <2>2. h[s \ {First(s)}] = Step(s \ {First(s)})
    BY <2>1
  <2> QED
    BY <1>3, <2>1, <2>2
<1>5. IsSum(h, f, T)
  <2> HIDE DEF G
  <2>1. h = [s \in SUBSET T |-> IF s = {} THEN 0 ELSE f[First(s)] + h[s \ {First(s)}]]
    BY <1>4, Zenon
  <2> QED
    BY <2>1 DEF IsSum
<1> QED
  BY <1>5

-----------------------------------------------------------------------------
(* The sum over no element, and the equation of the sum.                   *)
LEMMA SumEquation ==
  ASSUME NEW S, IsFiniteSet(S), NEW f
  PROVE  SumFunctionOnSet(f, S) =
           IF S = {} THEN 0 ELSE f[First(S)] + SumFunctionOnSet(f, S \ {First(S)})
<1>1. PICK g : IsSum(g, f, S) /\ g = CHOOSE gg : IsSum(gg, f, S)
  BY SumExists
<1>2. g[S] = IF S = {} THEN 0 ELSE f[First(S)] + g[S \ {First(S)}]
  BY <1>1 DEF IsSum
<1> DEFINE R == S \ {First(S)}
<1>3. IsFiniteSet(R)
  BY SubsetFinite
<1>4. PICK h : IsSum(h, f, R) /\ h = CHOOSE gg : IsSum(gg, f, R)
  BY <1>3, SumExists
<1>5. g[R] = h[R]
  BY <1>1, <1>4, SumIsUnique
<1> QED
  BY <1>1, <1>2, <1>4, <1>5, SumIsChosen

LEMMA SumEmpty ==
  ASSUME NEW f
  PROVE  SumFunctionOnSet(f, {}) = 0
  BY SumEquation, FS_EmptySet

(* The sum of integers is an integer, and of naturals a natural number.    *)
LEMMA SumInt ==
  ASSUME NEW S, IsFiniteSet(S), NEW f, \A x \in S : f[x] \in Int
  PROVE  SumFunctionOnSet(f, S) \in Int
<1> DEFINE B == {T \in SUBSET S : SumFunctionOnSet(f, T) \notin Int}
<1>1. SUFFICES ASSUME B # {} PROVE FALSE
  OBVIOUS
<1>2. PICK T \in B : \A U \in SUBSET T : U # T => U \notin B
  <2>1. B \subseteq SUBSET S
    OBVIOUS
  <2> HIDE DEF B
  <2> QED
    BY <1>1, <2>1, SmallestSubset
<1>3. IsFiniteSet(T)
  BY SubsetFinite
<1>4. CASE T = {}
  BY <1>4, SumEmpty
<1>5. CASE T # {}
  <2>1. First(T) \in T
    BY <1>5, FirstInSet
  <2>2. SumFunctionOnSet(f, T \ {First(T)}) \in Int
    BY <1>2, <2>1
  <2>3. SumFunctionOnSet(f, T) = f[First(T)] + SumFunctionOnSet(f, T \ {First(T)})
    BY <1>3, <1>5, SumEquation
  <2> QED
    BY <2>1, <2>2, <2>3
<1> QED
  BY <1>4, <1>5

LEMMA SumNat ==
  ASSUME NEW S, IsFiniteSet(S), NEW f, \A x \in S : f[x] \in Nat
  PROVE  SumFunctionOnSet(f, S) \in Nat
<1> DEFINE B == {T \in SUBSET S : SumFunctionOnSet(f, T) \notin Nat}
<1>1. SUFFICES ASSUME B # {} PROVE FALSE
  OBVIOUS
<1>2. PICK T \in B : \A U \in SUBSET T : U # T => U \notin B
  <2>1. B \subseteq SUBSET S
    OBVIOUS
  <2> HIDE DEF B
  <2> QED
    BY <1>1, <2>1, SmallestSubset
<1>3. IsFiniteSet(T)
  BY SubsetFinite
<1>4. CASE T = {}
  BY <1>4, SumEmpty
<1>5. CASE T # {}
  <2>1. First(T) \in T
    BY <1>5, FirstInSet
  <2>2. SumFunctionOnSet(f, T \ {First(T)}) \in Nat
    BY <1>2, <2>1
  <2>3. SumFunctionOnSet(f, T) = f[First(T)] + SumFunctionOnSet(f, T \ {First(T)})
    BY <1>3, <1>5, SumEquation
  <2> QED
    BY <2>1, <2>2, <2>3
<1> QED
  BY <1>4, <1>5

(* Any element may be taken out first.                                     *)
LEMMA SumRemove ==
  ASSUME NEW S, IsFiniteSet(S), NEW f, \A x \in S : f[x] \in Int, NEW x \in S
  PROVE  SumFunctionOnSet(f, S) = f[x] + SumFunctionOnSet(f, S \ {x})
<1> DEFINE Sum(T) == SumFunctionOnSet(f, T)
           B == {T \in SUBSET S : \E y \in T : Sum(T) # f[y] + Sum(T \ {y})}
<1>1. SUFFICES ASSUME B # {} PROVE FALSE
  OBVIOUS
<1>2. PICK T \in B : \A U \in SUBSET T : U # T => U \notin B
  <2>1. B \subseteq SUBSET S
    OBVIOUS
  <2> HIDE DEF B
  <2> QED
    BY <1>1, <2>1, SmallestSubset
<1>3. PICK y \in T : Sum(T) # f[y] + Sum(T \ {y})
  OBVIOUS
<1> DEFINE c == First(T)
<1>4. \A U \in SUBSET S : IsFiniteSet(U) /\ Sum(U) \in Int
  BY SubsetFinite, SumInt
<1>5. c \in T
  BY FirstInSet
<1>6. Sum(T) = f[c] + Sum(T \ {c})
  BY <1>3, <1>4, <1>5, SumEquation
<1>7. c # y
  BY <1>3, <1>6
<1>8. Sum(T \ {c}) = f[y] + Sum((T \ {c}) \ {y})
  BY <1>2, <1>5, <1>7
<1>9. Sum(T \ {y}) = f[c] + Sum((T \ {y}) \ {c})
  BY <1>2, <1>5, <1>7
<1>10. (T \ {y}) \ {c} = (T \ {c}) \ {y}
  OBVIOUS
<1>11. /\ f[c] \in Int /\ f[y] \in Int
       /\ Sum((T \ {c}) \ {y}) \in Int
  BY <1>4, <1>5
<1>12. Sum(T \ {y}) = f[c] + Sum((T \ {c}) \ {y})
  BY <1>9, <1>10
<1> HIDE DEF Sum, c, B
<1>13. \A i, j, k \in Int : i + (j + k) = j + (i + k)
  OBVIOUS
<1>14. f[c] + (f[y] + Sum((T \ {c}) \ {y})) = f[y] + (f[c] + Sum((T \ {c}) \ {y}))
  BY <1>11, <1>13, Zenon
<1> QED
  BY <1>3, <1>6, <1>8, <1>12, <1>14, Zenon

LEMMA SumAdd ==
  ASSUME NEW S, IsFiniteSet(S), NEW x, x \notin S, NEW f,
         \A y \in S \cup {x} : f[y] \in Int
  PROVE  SumFunctionOnSet(f, S \cup {x}) = f[x] + SumFunctionOnSet(f, S)
<1>1. IsFiniteSet(S \cup {x})
  BY FS_AddElement
<1>2. (S \cup {x}) \ {x} = S
  OBVIOUS
<1> QED
  BY <1>1, <1>2, SumRemove

(* The sum depends only on the values at the elements of the set.          *)
LEMMA SumSame ==
  ASSUME NEW S, IsFiniteSet(S), NEW f, NEW g, \A x \in S : f[x] = g[x]
  PROVE  SumFunctionOnSet(f, S) = SumFunctionOnSet(g, S)
<1> DEFINE B == {T \in SUBSET S : SumFunctionOnSet(f, T) # SumFunctionOnSet(g, T)}
<1>1. SUFFICES ASSUME B # {} PROVE FALSE
  OBVIOUS
<1>2. PICK T \in B : \A U \in SUBSET T : U # T => U \notin B
  <2>1. B \subseteq SUBSET S
    OBVIOUS
  <2> HIDE DEF B
  <2> QED
    BY <1>1, <2>1, SmallestSubset
<1>3. IsFiniteSet(T)
  BY SubsetFinite
<1>4. CASE T = {}
  BY <1>4, SumEmpty
<1>5. CASE T # {}
  <2>1. First(T) \in T
    BY <1>5, FirstInSet
  <2>2. SumFunctionOnSet(f, T \ {First(T)}) = SumFunctionOnSet(g, T \ {First(T)})
    BY <1>2, <2>1
  <2> QED
    BY <1>3, <1>5, <2>1, <2>2, SumEquation
<1> QED
  BY <1>4, <1>5

(* Changing the value at one element changes the sum by the difference.    *)
LEMMA SumChange ==
  ASSUME NEW S, IsFiniteSet(S), NEW f, NEW g, NEW x \in S,
         \A y \in S : f[y] \in Int /\ g[y] \in Int,
         \A y \in S \ {x} : f[y] = g[y]
  PROVE  SumFunctionOnSet(g, S) = SumFunctionOnSet(f, S) - f[x] + g[x]
<1>1. IsFiniteSet(S \ {x})
  BY SubsetFinite
<1>2. /\ SumFunctionOnSet(f, S) = f[x] + SumFunctionOnSet(f, S \ {x})
      /\ SumFunctionOnSet(g, S) = g[x] + SumFunctionOnSet(g, S \ {x})
  BY SumRemove
<1>3. SumFunctionOnSet(f, S \ {x}) = SumFunctionOnSet(g, S \ {x})
  BY <1>1, SumSame
<1>4. SumFunctionOnSet(f, S \ {x}) \in Int
  BY <1>1, SumInt
<1> QED
  BY <1>2, <1>3, <1>4

(* A sum of zeros.                                                         *)
LEMMA SumZero ==
  ASSUME NEW S, IsFiniteSet(S), NEW f, \A x \in S : f[x] = 0
  PROVE  SumFunctionOnSet(f, S) = 0
<1> DEFINE B == {T \in SUBSET S : SumFunctionOnSet(f, T) # 0}
<1>1. SUFFICES ASSUME B # {} PROVE FALSE
  OBVIOUS
<1>2. PICK T \in B : \A U \in SUBSET T : U # T => U \notin B
  <2>1. B \subseteq SUBSET S
    OBVIOUS
  <2> HIDE DEF B
  <2> QED
    BY <1>1, <2>1, SmallestSubset
<1>3. IsFiniteSet(T)
  BY SubsetFinite
<1>4. CASE T = {}
  BY <1>4, SumEmpty
<1>5. CASE T # {}
  <2>1. First(T) \in T
    BY <1>5, FirstInSet
  <2>2. SumFunctionOnSet(f, T \ {First(T)}) = 0
    BY <1>2, <2>1
  <2>3. SumFunctionOnSet(f, T) = f[First(T)] + SumFunctionOnSet(f, T \ {First(T)})
    BY <1>3, <1>5, SumEquation
  <2> QED
    BY <2>1, <2>2, <2>3
<1> QED
  BY <1>4, <1>5

(* No element outweighs a sum of naturals.                                 *)
LEMMA SumBoundsElement ==
  ASSUME NEW S, IsFiniteSet(S), NEW f, \A x \in S : f[x] \in Nat, NEW x \in S
  PROVE  f[x] <= SumFunctionOnSet(f, S)
<1>1. SumFunctionOnSet(f, S) = f[x] + SumFunctionOnSet(f, S \ {x})
  BY SumRemove
<1>2. SumFunctionOnSet(f, S \ {x}) \in Nat
  BY SubsetFinite, SumNat
<1> QED
  BY <1>1, <1>2

(* An element that joins the set, or stays out of it, while the others     *)
(* keep their values.                                                      *)
LEMMA SumJoined ==
  ASSUME NEW S, IsFiniteSet(S), NEW x, x \notin S, NEW f, NEW g,
         \A y \in S : f[y] \in Nat /\ g[y] = f[y], g[x] \in Nat,
         NEW T, T \in {S, S \cup {x}}
  PROVE  /\ SumFunctionOnSet(f, S) \in Nat
         /\ SumFunctionOnSet(g, T) = SumFunctionOnSet(f, S) + (IF x \in T THEN g[x] ELSE 0)
<1>1. /\ SumFunctionOnSet(f, S) \in Nat
      /\ SumFunctionOnSet(g, S) = SumFunctionOnSet(f, S)
  BY SumSame, SumNat
<1>2. \A y \in S \cup {x} : g[y] \in Int
  OBVIOUS
<1>3. SumFunctionOnSet(g, S \cup {x}) = g[x] + SumFunctionOnSet(g, S)
  BY <1>2, SumAdd
<1>4. CASE x \in T
  <2>1. T = S \cup {x}
    BY <1>4
  <2> QED
    BY <1>1, <1>3, <1>4, <2>1
<1>5. CASE x \notin T
  <2>1. T = S
    BY <1>5
  <2> QED
    BY <1>1, <1>5, <2>1
<1> QED
  BY <1>1, <1>4, <1>5

(* A value that changes at x, whether or not x is summed.                  *)
LEMMA SumMoved ==
  ASSUME NEW S, IsFiniteSet(S), NEW x, NEW f, NEW g,
         \A y \in S : f[y] \in Nat /\ g[y] \in Nat,
         \A y \in S \ {x} : g[y] = f[y]
  PROVE  /\ SumFunctionOnSet(f, S) \in Nat
         /\ SumFunctionOnSet(g, S) = SumFunctionOnSet(f, S) + (IF x \in S THEN g[x] - f[x] ELSE 0)
<1>1. SumFunctionOnSet(f, S) \in Nat
  BY SumNat
<1>2. CASE x \in S
  <2>1. SumFunctionOnSet(g, S) = SumFunctionOnSet(f, S) - f[x] + g[x]
    BY <1>2, SumChange
  <2> QED
    BY <1>1, <1>2, <2>1
<1>3. CASE x \notin S
  BY <1>1, <1>3, SumSame
<1> QED
  BY <1>2, <1>3, <1>1

(* The sum over a part and over the rest.                                  *)
LEMMA SumSplit ==
  ASSUME NEW S, IsFiniteSet(S), NEW f, \A x \in S : f[x] \in Int, NEW R \in SUBSET S
  PROVE  SumFunctionOnSet(f, S) = SumFunctionOnSet(f, R) + SumFunctionOnSet(f, S \ R)
<1> DEFINE Sum(T) == SumFunctionOnSet(f, T)
           B == {T \in SUBSET S : Sum(S) # Sum(T) + Sum(S \ T)}
<1> SUFFICES ASSUME B # {} PROVE FALSE
  OBVIOUS
<1>1. PICK T \in B : \A U \in SUBSET T : U # T => U \notin B
  BY SmallestSubset
<1>2. \A U \in SUBSET S : IsFiniteSet(U) /\ Sum(U) \in Int
  <2> TAKE U \in SUBSET S
  <2>1. IsFiniteSet(U) /\ \A x \in U : f[x] \in Int
    BY SubsetFinite
  <2> QED
    BY <2>1, SumInt
<1>3. T # {}
  <2>1. S \ {} = S
    OBVIOUS
  <2>2. Sum({}) = 0
    BY SumEmpty
  <2>3. Sum(S) = Sum({}) + Sum(S \ {})
    BY <1>2, <2>1, <2>2
  <2> QED
    BY <1>1, <2>3
<1>4. PICK x \in T : TRUE
  BY <1>3
<1> DEFINE U == T \ {x}
<1>5. Sum(T) = f[x] + Sum(U)
  <2>1. IsFiniteSet(T) /\ \A y \in T : f[y] \in Int
    BY <1>2
  <2> QED
    BY <2>1, <1>4, SumRemove
<1>6. Sum(S \ U) = f[x] + Sum(S \ T)
  <2>1. S \ U = (S \ T) \cup {x} /\ x \notin S \ T
    BY <1>4
  <2>2. IsFiniteSet(S \ T) /\ \A y \in (S \ T) \cup {x} : f[y] \in Int
    BY <1>2, <1>4
  <2> QED
    BY <2>1, <2>2, SumAdd
<1>7. Sum(S) = Sum(U) + Sum(S \ U)
  <2>1. U \in SUBSET T /\ U # T /\ U \in SUBSET S
    BY <1>4
  <2> QED
    BY <2>1, <1>1
<1>8. Sum(S \ T) \in Int /\ Sum(U) \in Int /\ f[x] \in Int
  BY <1>2, <1>4
<1>9. T \in SUBSET S /\ Sum(S) # Sum(T) + Sum(S \ T)
  OBVIOUS
<1> HIDE DEF Sum, B, U
<1> QED
  BY <1>5, <1>6, <1>7, <1>8, <1>9

(* A bounded, nonempty set of naturals has a largest element.              *)
LEMMA LargestOf ==
  ASSUME NEW S \in SUBSET Nat, S # {}, NEW b \in Nat, \A n \in S : n <= b
  PROVE  Max(S) \in S /\ \A n \in S : n <= Max(S)
<1> DEFINE B == {m \in Nat : \A n \in S : n <= m}
<1>1. b \in B
  OBVIOUS
<1>2. PICK m \in B : \A k \in B : <<k, m>> \notin OpToRel(<, Nat)
  BY <1>1, NatLessThanWellFounded, WFMin, Zenon
<1>3. \A k \in B : ~(k < m)
  BY <1>2 DEF OpToRel
<1>4. m \in S
  <2> SUFFICES ASSUME m \notin S PROVE FALSE
    OBVIOUS
  <2>1. \A n \in S : n <= m - 1
    BY DEF B
  <2>2. PICK n \in S : TRUE
    OBVIOUS
  <2>3. m - 1 \in B
    BY <2>1, <2>2 DEF B
  <2> QED
    BY <1>3, <2>3
<1>5. \A n \in S : m >= n
  OBVIOUS
<1> HIDE DEF B
<1>6. \E x \in S : \A n \in S : x >= n
  BY <1>4, <1>5
<1>7. Max(S) \in S /\ \A n \in S : Max(S) >= n
  BY <1>6 DEF Max
<1> QED
  BY <1>7
-----------------------------------------------------------------------------
(* A recursion over 0..N has a solution, whatever its step does.           *)
IsStep(step, N, V) == step \in [(1..N) \X V -> V]
IsRecursion(f, base, step, N, V) ==
  f \in [0..N -> V] /\ f[0] = base /\ \A n \in 1..N : f[n] = step[n, f[n - 1]]

LEMMA StepsExist ==
  ASSUME NEW V, NEW base \in V, NEW N \in Nat, NEW step, IsStep(step, N, V)
  PROVE  \E f : IsRecursion(f, base, step, N, V)
<1> USE DEF IsStep, IsRecursion
<1> DEFINE Solves(f, k) == /\ f \in [0..k -> V] /\ f[0] = base
                           /\ \A n \in 1..k : f[n] = step[n, f[n - 1]]
           B == {k \in Nat : k <= N /\ ~\E f : Solves(f, k)}
<1> HIDE DEF Solves, B
<1>0. ASSUME B = {} PROVE \E f : Solves(f, N)
  <2>1. N \in Nat /\ N <= N
    OBVIOUS
  <2> QED
    BY <1>0, <2>1 DEF B
<1> SUFFICES ASSUME B # {} PROVE FALSE
  BY <1>0 DEF Solves
<1>1. PICK k \in B : \A j \in B : <<j, k>> \notin OpToRel(<, Nat)
  <2>1. B \in SUBSET Nat
    BY DEF B
  <2> QED
    BY <2>1, NatLessThanWellFounded, WFMin, Zenon
<1>2. k \in Nat /\ k <= N /\ ~\E f : Solves(f, k)
  BY DEF B
<1>3. \A j \in Nat : j < k => \E f : Solves(f, j)
  <2> SUFFICES ASSUME NEW j \in Nat, j < k, j \notin B PROVE \E f : Solves(f, j)
    BY <1>1, <1>2 DEF OpToRel
  <2>1. j <= N
    BY <1>2
  <2> QED
    BY <2>1 DEF B
<1>4. CASE k = 0
  <2>1. Solves([n \in 0..0 |-> base], 0)
    BY DEF Solves
  <2> QED
    BY <1>2, <1>4, <2>1
<1>5. CASE k # 0
  <2>1. k - 1 \in Nat /\ k - 1 < k /\ k \in 1..N /\ k - 1 \in 0..(k - 1)
    BY <1>2, <1>5
  <2>2. PICK f : Solves(f, k - 1)
    BY <1>3, <2>1
  <2>3. /\ f \in [0..(k - 1) -> V] /\ f[0] = base
        /\ \A n \in 1..(k - 1) : f[n] = step[n, f[n - 1]]
    BY <2>2 DEF Solves
  <2>4. f[k - 1] \in V /\ step[k, f[k - 1]] \in V
    BY <2>1, <2>3
  <2> DEFINE g == [n \in 0..k |-> IF n = k THEN step[k, f[k - 1]] ELSE f[n]]
  <2>5. \A n \in 0..k : n # k => n \in 0..(k - 1)
    BY <1>2
  <2>6. g \in [0..k -> V] /\ g[0] = base
    <3>1. \A n \in 0..k : (IF n = k THEN step[k, f[k - 1]] ELSE f[n]) \in V
      BY <2>3, <2>4, <2>5
    <3>2. 0 \in 0..k
      BY <1>2
    <3> QED
      BY <1>5, <2>3, <3>1, <3>2
  <2>7. \A n \in 1..k : g[n] = step[n, g[n - 1]]
    <3> SUFFICES ASSUME NEW n \in 1..k PROVE g[n] = step[n, g[n - 1]]
      OBVIOUS
    <3>1. n - 1 \in 0..k /\ n - 1 # k /\ n \in 0..k
      BY <1>2
    <3>2. g[n - 1] = f[n - 1]
      BY <3>1
    <3>3. CASE n = k
      BY <3>1, <3>2, <3>3
    <3>4. CASE n # k
      <4>1. n \in 1..(k - 1)
        BY <1>2, <3>4
      <4>2. g[n] = f[n]
        BY <3>1, <3>4
      <4> QED
        BY <2>3, <3>2, <4>1, <4>2
    <3> QED
      BY <3>3, <3>4
  <2> HIDE DEF g
  <2> QED
    BY <1>2, <2>6, <2>7 DEF Solves
<1> QED
  BY <1>4, <1>5

(* What every step keeps holds after each of them.                         *)
LEMMA StepsKeep ==
  ASSUME NEW N \in Nat, NEW f, NEW Good, f[0] \in Good[0],
         \A n \in 1..N : f[n - 1] \in Good[n - 1] => f[n] \in Good[n]
  PROVE  \A n \in 0..N : f[n] \in Good[n]
<1> DEFINE B == {n \in Nat : n <= N /\ f[n] \notin Good[n]}
<1> HIDE DEF B
<1>0. ASSUME B = {} PROVE \A n \in 0..N : f[n] \in Good[n]
  BY <1>0 DEF B
<1> SUFFICES ASSUME B # {} PROVE FALSE
  BY <1>0
<1>1. PICK k \in B : \A j \in B : <<j, k>> \notin OpToRel(<, Nat)
  <2>1. B \in SUBSET Nat
    BY DEF B
  <2> QED
    BY <2>1, NatLessThanWellFounded, WFMin, Zenon
<1>2. k \in Nat /\ k <= N /\ f[k] \notin Good[k]
  BY DEF B
<1>3. k # 0
  BY <1>2
<1>4. k - 1 \in Nat /\ k - 1 < k /\ k \in 1..N
  BY <1>2, <1>3
<1>5. k - 1 \notin B
  BY <1>1, <1>2, <1>4 DEF OpToRel
<1>6. f[k - 1] \in Good[k - 1]
  BY <1>2, <1>4, <1>5 DEF B
<1> QED
  BY <1>2, <1>4, <1>6
=============================================================================
