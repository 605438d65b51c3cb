------------------------------- MODULE FiniteSums -------------------------------
(***************************************************************************)
(* Sums of a function over a finite set, as the community modules compute  *)
(* them: an element chosen from the set is added to the sum of the others. *)
(* The lemmas say what the models' proofs need of SumFunctionOnSet; all    *)
(* follow by induction over the subsets of the set, taken as the absence   *)
(* of a smallest subset that is no exception.                              *)
(***************************************************************************)
EXTENDS Functions, FiniteSets, FiniteSetTheorems, WellFoundedInduction, TLAPS

Chosen(s) == CHOOSE x \in s : TRUE

\* The equation that the sums of the subsets of S solve.
Equation(g, f, S) ==
  g = [s \in SUBSET S |-> IF s = {} THEN 0 ELSE f[Chosen(s)] + g[s \ {Chosen(s)}]]

Ascending == {p \in Nat \X Nat : p[1] < p[2]}

-----------------------------------------------------------------------------
(* Induction.                                                              *)

LEMMA SmallestNumber ==
  ASSUME NEW T \in SUBSET Nat, T # {}
  PROVE  \E n \in T : \A m \in T : n <= m
<1>1. IsWellFoundedOn(Ascending, Nat)
  BY NatLessThanWellFounded DEF OpToRel, Ascending
<1>2. PICK n \in T : \A m \in T : ~(<<m, n>> \in Ascending)
  BY <1>1, WFMin
<1>3. n \in Nat
  BY <1>2
<1>4. ASSUME NEW m \in T PROVE n <= m
  <2>1. m \in Nat /\ ~(<<m, n>> \in Ascending)
    BY <1>2
  <2>2. ~(m < n)
    BY <1>3, <2>1 DEF Ascending
  <2> QED BY <1>3, <2>1, <2>2
<1> QED BY <1>4

LEMMA SmallestSet ==
  ASSUME NEW S, IsFiniteSet(S), NEW Bad \in SUBSET SUBSET S, Bad # {}
  PROVE  \E T \in Bad : \A U \in SUBSET T : U # T => U \notin Bad
<1>1. Bad \subseteq FiniteSubsetsOf(S)
  BY FS_FiniteSubsetsOfFinite
<1>2. IsWellFoundedOn(StrictSubsetOrdering(S), FiniteSubsetsOf(S))
  BY FS_StrictSubsetOrderingWellFounded
<1>3. PICK T \in Bad : \A U \in Bad : ~(<<U, T>> \in StrictSubsetOrdering(S))
  BY <1>1, <1>2, WFMin
<1>4. ASSUME NEW U \in SUBSET T, U # T PROVE U \notin Bad
  BY <1>3, <1>4 DEF StrictSubsetOrdering
<1> QED BY <1>4

-----------------------------------------------------------------------------
(* The sum is well-defined.                                                *)

LEMMA ChosenIn == ASSUME NEW S, S # {} PROVE Chosen(S) \in S
  BY DEF Chosen

LEMMA SumIsChosen ==
  ASSUME NEW f, NEW S
  PROVE  SumFunctionOnSet(f, S) = (CHOOSE g : Equation(g, f, S))[S]
  BY DEF SumFunctionOnSet, FoldFunctionOnSet, MapThenFoldSet, Equation, Chosen

\* A function that satisfies the equation on the subsets of up to n elements.
UpTo(g, f, S, n) ==
  \A s \in SUBSET S :
    Cardinality(s) <= n => g[s] = IF s = {} THEN 0 ELSE f[Chosen(s)] + g[s \ {Chosen(s)}]

LEMMA Further ==
  ASSUME NEW S, IsFiniteSet(S), NEW f, \A x \in S : f[x] \in Int,
         NEW n \in Nat, NEW g \in [SUBSET S -> Int], UpTo(g, f, S, n)
  PROVE  \E h \in [SUBSET S -> Int] : UpTo(h, f, S, n + 1)
<1> DEFINE h == [s \in SUBSET S |-> IF s = {} THEN 0 ELSE f[Chosen(s)] + g[s \ {Chosen(s)}]]
<1>1. h \in [SUBSET S -> Int]
  BY ChosenIn
<1>2. ASSUME NEW s \in SUBSET S, Cardinality(s) <= n + 1
      PROVE  h[s] = IF s = {} THEN 0 ELSE f[Chosen(s)] + h[s \ {Chosen(s)}]
  <2>1. CASE s = {}
    BY <2>1
  <2>2. CASE s # {}
    <3> DEFINE t == s \ {Chosen(s)}
    <3>1. t \in SUBSET S /\ Chosen(s) \in s /\ IsFiniteSet(s)
      BY <2>2, ChosenIn, FS_Subset
    <3>2. Cardinality(s) \in Nat /\ Cardinality(t) = Cardinality(s) - 1
      BY <3>1, FS_RemoveElement, FS_CardinalityType
    <3>3. Cardinality(t) <= n
      BY <1>2, <3>2
    <3>4. g[t] = h[t]
      BY <3>1, <3>3 DEF UpTo
    <3> QED BY <2>2, <3>4
  <2> QED BY <2>1, <2>2
<1>3. UpTo(h, f, S, n + 1)
  BY <1>2 DEF UpTo
<1> QED BY <1>1, <1>3

LEMMA EquationSolved ==
  ASSUME NEW S, IsFiniteSet(S), NEW f, \A x \in S : f[x] \in Int
  PROVE  \E g \in [SUBSET S -> Int] : Equation(g, f, S)
<1> DEFINE Reached == {n \in Nat : \E g \in [SUBSET S -> Int] : UpTo(g, f, S, n)}
<1>1. 0 \in Reached
  <2> DEFINE g == [s \in SUBSET S |-> 0]
  <2>1. \A s \in SUBSET S : Cardinality(s) <= 0 => s = {}
    BY FS_Subset, FS_EmptySet, FS_CardinalityType
  <2>2. UpTo(g, f, S, 0)
    BY <2>1 DEF UpTo
  <2>3. g \in [SUBSET S -> Int]
    OBVIOUS
  <2> QED BY <2>2, <2>3
<1>2. ASSUME NEW n \in Reached PROVE n + 1 \in Reached
  <2>1. n \in Nat /\ n + 1 \in Nat
    OBVIOUS
  <2>2. PICK g \in [SUBSET S -> Int] : UpTo(g, f, S, n)
    OBVIOUS
  <2>3. \E h \in [SUBSET S -> Int] : UpTo(h, f, S, n + 1)
    BY <2>1, <2>2, Further
  <2> QED BY <2>1, <2>3
<1>3. Nat \ Reached = {}
  <2>1. SUFFICES ASSUME Nat \ Reached # {} PROVE FALSE
    OBVIOUS
  <2>2. PICK n \in Nat \ Reached : \A m \in Nat \ Reached : n <= m
    BY <2>1, SmallestNumber
  <2>3. n # 0
    BY <1>1, <2>2
  <2>4. n - 1 \in Nat /\ ~(n <= n - 1)
    BY <2>2, <2>3
  <2>5. n - 1 \in Reached
    BY <2>2, <2>4
  <2>6. (n - 1) + 1 \in Reached
    BY <1>2, <2>5
  <2>7. (n - 1) + 1 = n
    BY <2>2
  <2> QED BY <2>2, <2>6, <2>7
<1>4. Cardinality(S) \in Nat
  BY FS_CardinalityType
<1>5. PICK g \in [SUBSET S -> Int] : UpTo(g, f, S, Cardinality(S))
  BY <1>3, <1>4
<1>6. \A s \in SUBSET S : Cardinality(s) <= Cardinality(S)
  BY FS_Subset
<1>7. Equation(g, f, S)
  BY <1>5, <1>6 DEF Equation, UpTo
<1> QED BY <1>7

LEMMA EquationUnique ==
  ASSUME NEW S, IsFiniteSet(S), NEW f, NEW g, NEW h, Equation(g, f, S), Equation(h, f, S)
  PROVE  \A T \in SUBSET S : g[T] = h[T]
<1> DEFINE Bad == {T \in SUBSET S : g[T] # h[T]}
<1> SUFFICES ASSUME Bad # {} PROVE FALSE
  OBVIOUS
<1>0. Bad \in SUBSET SUBSET S
  OBVIOUS
<1>1. PICK T \in Bad : \A U \in SUBSET T : U # T => U \notin Bad
  <2> HIDE DEF Bad
  <2> QED BY <1>0, SmallestSet
<1>2. T # {}
  BY <1>1 DEF Equation
<1> DEFINE U == T \ {Chosen(T)}
<1>3. U \in SUBSET T /\ U # T /\ U \in SUBSET S
  BY <1>1, <1>2, ChosenIn
<1>4. g[U] = h[U]
  BY <1>1, <1>3
<1>5. g[T] = f[Chosen(T)] + g[U] /\ h[T] = f[Chosen(T)] + h[U]
  BY <1>1, <1>2 DEF Equation
<1> QED BY <1>1, <1>4, <1>5

\* What SumFunctionOnSet chooses is a solution.
LEMMA SumOfSubset ==
  ASSUME NEW S, IsFiniteSet(S), NEW f, \A x \in S : f[x] \in Int,
         NEW g, Equation(g, f, S), NEW T \in SUBSET S
  PROVE  SumFunctionOnSet(f, T) = g[T]
<1> DEFINE c == CHOOSE c : Equation(c, f, T)
           r == [s \in SUBSET T |-> g[s]]
<1>1. IsFiniteSet(T) /\ \A x \in T : f[x] \in Int
  BY FS_Subset
<1>2. \E e : Equation(e, f, T)
  BY <1>1, EquationSolved
<1>3. Equation(c, f, T)
  BY <1>2
<1>4. Equation(r, f, T)
  <2>1. ASSUME NEW s \in SUBSET T
        PROVE  r[s] = IF s = {} THEN 0 ELSE f[Chosen(s)] + r[s \ {Chosen(s)}]
    BY DEF Equation
  <2> HIDE DEF r
  <2>2. r = [s \in SUBSET T |-> r[s]]
    BY DEF r
  <2> QED BY <2>1, <2>2 DEF Equation
<1>5. c[T] = r[T]
  <2> HIDE DEF c, r
  <2> QED BY <1>1, <1>3, <1>4, EquationUnique
<1>6. SumFunctionOnSet(f, T) = c[T]
  BY SumIsChosen
<1> QED BY <1>5, <1>6

-----------------------------------------------------------------------------
(* The sum of a set, taken apart.                                          *)

LEMMA SumEmpty ==
  ASSUME NEW f
  PROVE  SumFunctionOnSet(f, {}) = 0
<1>1. IsFiniteSet({}) /\ \A x \in {} : f[x] \in Int
  BY FS_EmptySet
<1>2. PICK g : Equation(g, f, {})
  BY <1>1, EquationSolved
<1>3. SumFunctionOnSet(f, {}) = g[{}]
  BY <1>1, <1>2, SumOfSubset
<1> QED BY <1>2, <1>3 DEF Equation

LEMMA SumInt ==
  ASSUME NEW S, IsFiniteSet(S), NEW f, \A x \in S : f[x] \in Int
  PROVE  SumFunctionOnSet(f, S) \in Int
<1>1. PICK g \in [SUBSET S -> Int] : Equation(g, f, S)
  BY EquationSolved
<1> QED BY <1>1, SumOfSubset

LEMMA SumChosen ==
  ASSUME NEW S, IsFiniteSet(S), S # {}, NEW f, \A x \in S : f[x] \in Int
  PROVE  SumFunctionOnSet(f, S) = f[Chosen(S)] + SumFunctionOnSet(f, S \ {Chosen(S)})
<1>1. PICK g \in [SUBSET S -> Int] : Equation(g, f, S)
  BY EquationSolved
<1>2. SumFunctionOnSet(f, S) = g[S]
  BY <1>1, SumOfSubset
<1>3. SumFunctionOnSet(f, S \ {Chosen(S)}) = g[S \ {Chosen(S)}]
  BY <1>1, SumOfSubset
<1> QED BY <1>1, <1>2, <1>3 DEF Equation

\* Any element may be taken out.
LEMMA SumRemove ==
  ASSUME NEW S, IsFiniteSet(S), NEW f, \A y \in S : f[y] \in Int, NEW x \in S
  PROVE  SumFunctionOnSet(f, S) = f[x] + SumFunctionOnSet(f, S \ {x})
<1> DEFINE Sum(T) == SumFunctionOnSet(f, T)
           Bad == {T \in SUBSET S : \E y \in T : Sum(T) # f[y] + Sum(T \ {y})}
<1> SUFFICES ASSUME Bad # {} PROVE FALSE
  OBVIOUS
<1>0. Bad \in SUBSET SUBSET S
  OBVIOUS
<1>1. PICK T \in Bad : \A U \in SUBSET T : U # T => U \notin Bad
  <2> HIDE DEF Bad
  <2> QED BY <1>0, SmallestSet
<1>2. PICK y \in T : Sum(T) # f[y] + Sum(T \ {y})
  BY <1>1
<1>3. T \in SUBSET S /\ IsFiniteSet(T) /\ \A z \in T : f[z] \in Int
  BY <1>1, FS_Subset
<1> DEFINE c == Chosen(T)
<1>4. c \in T /\ Sum(T) = f[c] + Sum(T \ {c})
  BY <1>2, <1>3, ChosenIn, SumChosen
<1>5. c # y
  BY <1>2, <1>4
<1>6. T \ {c} \notin Bad /\ T \ {y} \notin Bad
  BY <1>1, <1>2, <1>4
<1>7. Sum(T \ {c}) = f[y] + Sum((T \ {c}) \ {y})
  BY <1>2, <1>3, <1>5, <1>6
<1>8. Sum(T \ {y}) = f[c] + Sum((T \ {y}) \ {c})
  BY <1>3, <1>4, <1>5, <1>6
<1>9. (T \ {c}) \ {y} = (T \ {y}) \ {c}
  OBVIOUS
<1>10. f[c] \in Int /\ f[y] \in Int /\ Sum((T \ {c}) \ {y}) \in Int
  <2>1. IsFiniteSet((T \ {c}) \ {y}) /\ \A z \in (T \ {c}) \ {y} : f[z] \in Int
    BY <1>3, FS_Subset
  <2> QED BY <1>2, <1>3, <1>4, <2>1, SumInt
<1>11. Sum(T) = f[c] + (f[y] + Sum((T \ {c}) \ {y}))
  BY <1>4, <1>7
<1>12. Sum(T \ {y}) = f[c] + Sum((T \ {c}) \ {y})
  BY <1>8, <1>9
<1>13. ASSUME NEW u \in Int, NEW v \in Int, NEW w \in Int PROVE u + (v + w) = v + (u + w)
  OBVIOUS
<1>14. Sum(T) = f[y] + (f[c] + Sum((T \ {c}) \ {y}))
  BY <1>10, <1>11, <1>13
<1> QED BY <1>2, <1>12, <1>14

LEMMA SumNat ==
  ASSUME NEW S, IsFiniteSet(S), NEW f, \A x \in S : f[x] \in Nat
  PROVE  SumFunctionOnSet(f, S) \in Nat
<1> DEFINE Bad == {T \in SUBSET S : SumFunctionOnSet(f, T) \notin Nat}
<1> SUFFICES ASSUME Bad # {} PROVE FALSE
  OBVIOUS
<1>0. Bad \in SUBSET SUBSET S
  OBVIOUS
<1>1. PICK T \in Bad : \A U \in SUBSET T : U # T => U \notin Bad
  <2> HIDE DEF Bad
  <2> QED BY <1>0, SmallestSet
<1>2. IsFiniteSet(T) /\ \A x \in T : f[x] \in Int /\ f[x] \in Nat
  BY <1>1, FS_Subset
<1>3. PICK x \in T : TRUE
  <2>1. SumFunctionOnSet(f, {}) \in Nat
    BY SumEmpty
  <2> QED BY <1>1, <2>1
<1>4. SumFunctionOnSet(f, T) = f[x] + SumFunctionOnSet(f, T \ {x})
  BY <1>2, SumRemove
<1>5. SumFunctionOnSet(f, T \ {x}) \in Nat
  BY <1>1
<1>6. f[x] + SumFunctionOnSet(f, T \ {x}) \in Nat
  BY <1>2, <1>5
<1> QED BY <1>1, <1>4, <1>6

\* Two sums over the same set are ordered as their terms are.
LEMMA SumMonotone ==
  ASSUME NEW S, IsFiniteSet(S), NEW f, NEW g,
         \A x \in S : f[x] \in Int /\ g[x] \in Int /\ f[x] <= g[x]
  PROVE  SumFunctionOnSet(f, S) <= SumFunctionOnSet(g, S)
<1> DEFINE Bad == {T \in SUBSET S : ~(SumFunctionOnSet(f, T) <= SumFunctionOnSet(g, T))}
<1> SUFFICES ASSUME Bad # {} PROVE FALSE
  OBVIOUS
<1>0. Bad \in SUBSET SUBSET S
  OBVIOUS
<1>1. PICK T \in Bad : \A U \in SUBSET T : U # T => U \notin Bad
  <2> HIDE DEF Bad
  <2> QED BY <1>0, SmallestSet
<1>2. IsFiniteSet(T) /\ \A x \in T : f[x] \in Int /\ g[x] \in Int /\ f[x] <= g[x]
  BY <1>1, FS_Subset
<1>3. PICK x \in T : TRUE
  <2>1. SumFunctionOnSet(f, {}) = 0 /\ SumFunctionOnSet(g, {}) = 0
    BY SumEmpty
  <2>2. SumFunctionOnSet(f, {}) <= SumFunctionOnSet(g, {})
    BY <2>1
  <2>3. T # {}
    BY <1>1, <2>2
  <2> QED BY <2>3
<1> DEFINE U == T \ {x}
<1>4. SumFunctionOnSet(f, T) = f[x] + SumFunctionOnSet(f, U)
  BY <1>2, SumRemove
<1>5. SumFunctionOnSet(g, T) = g[x] + SumFunctionOnSet(g, U)
  BY <1>2, SumRemove
<1>6. SumFunctionOnSet(f, U) <= SumFunctionOnSet(g, U)
  BY <1>1
<1>7. SumFunctionOnSet(f, U) \in Int /\ SumFunctionOnSet(g, U) \in Int
  <2>1. IsFiniteSet(U) /\ (\A y \in U : f[y] \in Int) /\ (\A y \in U : g[y] \in Int)
    BY <1>2, FS_Subset
  <2> HIDE DEF U
  <2> QED BY <2>1, SumInt
<1>8. f[x] \in Int /\ g[x] \in Int /\ f[x] <= g[x]
  BY <1>2
<1>9. f[x] + SumFunctionOnSet(f, U) <= g[x] + SumFunctionOnSet(g, U)
  BY <1>6, <1>7, <1>8
<1> QED BY <1>1, <1>4, <1>5, <1>9

\* A sum is made of the values on the set.
LEMMA SumSame ==
  ASSUME NEW S, IsFiniteSet(S), NEW f, NEW g, \A x \in S : f[x] \in Int /\ f[x] = g[x]
  PROVE  SumFunctionOnSet(f, S) = SumFunctionOnSet(g, S)
<1>1. SumFunctionOnSet(f, S) <= SumFunctionOnSet(g, S)
  BY SumMonotone
<1>2. SumFunctionOnSet(g, S) <= SumFunctionOnSet(f, S)
  BY SumMonotone
<1>3. SumFunctionOnSet(f, S) \in Int /\ SumFunctionOnSet(g, S) \in Int
  BY SumInt
<1> QED BY <1>1, <1>2, <1>3

LEMMA SumZero ==
  ASSUME NEW S, IsFiniteSet(S), NEW f, \A x \in S : f[x] = 0
  PROVE  SumFunctionOnSet(f, S) = 0
<1> DEFINE Bad == {T \in SUBSET S : SumFunctionOnSet(f, T) # 0}
<1> SUFFICES ASSUME Bad # {} PROVE FALSE
  OBVIOUS
<1>0. Bad \in SUBSET SUBSET S
  OBVIOUS
<1>1. PICK T \in Bad : \A U \in SUBSET T : U # T => U \notin Bad
  <2> HIDE DEF Bad
  <2> QED BY <1>0, SmallestSet
<1>2. IsFiniteSet(T) /\ \A x \in T : f[x] \in Int /\ f[x] = 0
  BY <1>1, FS_Subset
<1>3. PICK x \in T : TRUE
  BY <1>1, SumEmpty
<1>4. SumFunctionOnSet(f, T) = f[x] + SumFunctionOnSet(f, T \ {x})
  BY <1>2, SumRemove
<1>5. SumFunctionOnSet(f, T \ {x}) = 0 /\ f[x] = 0
  BY <1>1, <1>2
<1> QED BY <1>1, <1>4, <1>5

\* A larger set has the larger sum, of naturals.
LEMMA SumSubset ==
  ASSUME NEW S, IsFiniteSet(S), NEW f, \A x \in S : f[x] \in Nat, NEW A \in SUBSET S
  PROVE  SumFunctionOnSet(f, A) <= SumFunctionOnSet(f, S)
<1> DEFINE Bad == {T \in SUBSET S : A \subseteq T 
                                     /\ ~(SumFunctionOnSet(f, A) <= SumFunctionOnSet(f, T))}
<1> SUFFICES ASSUME Bad # {} PROVE FALSE
  OBVIOUS
<1>0. Bad \in SUBSET SUBSET S
  OBVIOUS
<1>1. PICK T \in Bad : \A U \in SUBSET T : U # T => U \notin Bad
  <2> HIDE DEF Bad
  <2> QED BY <1>0, SmallestSet
<1>2. IsFiniteSet(T) /\ IsFiniteSet(A) /\ \A x \in T : f[x] \in Int /\ f[x] \in Nat
  BY <1>1, FS_Subset
<1>3. SumFunctionOnSet(f, A) \in Nat
  BY <1>2, SumNat
<1>4. PICK x \in T : x \notin A
  <2>1. SumFunctionOnSet(f, A) <= SumFunctionOnSet(f, A)
    BY <1>3
  <2>2. A \subseteq T /\ A # T
    BY <1>1, <2>1
  <2> QED BY <2>2
<1> DEFINE U == T \ {x}
<1>5. SumFunctionOnSet(f, T) = f[x] + SumFunctionOnSet(f, U)
  BY <1>2, SumRemove
<1>6. SumFunctionOnSet(f, A) <= SumFunctionOnSet(f, U)
  BY <1>1, <1>4
<1>7. SumFunctionOnSet(f, U) \in Nat
  <2>1. IsFiniteSet(U) /\ \A y \in U : f[y] \in Nat
    BY <1>2, FS_Subset
  <2> HIDE DEF U
  <2> QED BY <2>1, SumNat
<1>8. f[x] \in Nat
  BY <1>2
<1>9. SumFunctionOnSet(f, A) <= f[x] + SumFunctionOnSet(f, U)
  BY <1>3, <1>6, <1>7, <1>8
<1> QED BY <1>1, <1>5, <1>9

\* Terms that are zero may be left out.
LEMMA SumPadded ==
  ASSUME NEW S, IsFiniteSet(S), NEW f, \A x \in S : f[x] \in Int, NEW A \in SUBSET S,
         \A x \in S \ A : f[x] = 0
  PROVE  SumFunctionOnSet(f, S) = SumFunctionOnSet(f, A)
<1> DEFINE Bad == {T \in SUBSET S : A \subseteq T 
                                     /\ SumFunctionOnSet(f, T) # SumFunctionOnSet(f, A)}
<1> SUFFICES ASSUME Bad # {} PROVE FALSE
  OBVIOUS
<1>0. Bad \in SUBSET SUBSET S
  OBVIOUS
<1>1. PICK T \in Bad : \A U \in SUBSET T : U # T => U \notin Bad
  <2> HIDE DEF Bad
  <2> QED BY <1>0, SmallestSet
<1>2. IsFiniteSet(T) /\ \A x \in T : f[x] \in Int
  BY <1>1, FS_Subset
<1>3. PICK x \in T : x \notin A
  <2>1. A \subseteq T /\ A # T
    BY <1>1
  <2> QED BY <2>1
<1>4. SumFunctionOnSet(f, T) = f[x] + SumFunctionOnSet(f, T \ {x})
  BY <1>2, SumRemove
<1>5. SumFunctionOnSet(f, T \ {x}) = SumFunctionOnSet(f, A)
  BY <1>1, <1>3
<1>6. IsFiniteSet(A) /\ \A y \in A : f[y] \in Int
  BY FS_Subset
<1>7. SumFunctionOnSet(f, A) \in Int
  BY <1>6, SumInt
<1>8. f[x] = 0
  BY <1>1, <1>3
<1> QED BY <1>1, <1>4, <1>5, <1>7, <1>8

\* No term exceeds the sum, of naturals.
LEMMA SumElement ==
  ASSUME NEW S, IsFiniteSet(S), NEW f, \A y \in S : f[y] \in Nat, NEW x \in S
  PROVE  f[x] <= SumFunctionOnSet(f, S)
<1>1. SumFunctionOnSet(f, S) = f[x] + SumFunctionOnSet(f, S \ {x})
  BY SumRemove
<1>2. IsFiniteSet(S \ {x}) /\ \A y \in S \ {x} : f[y] \in Nat
  BY FS_Subset
<1>3. SumFunctionOnSet(f, S \ {x}) \in Nat
  BY <1>2, SumNat
<1>4. f[x] <= f[x] + SumFunctionOnSet(f, S \ {x})
  BY <1>3
<1> QED BY <1>1, <1>4

\* One term grows by one, the others stay.
LEMMA SumAddOne ==
  ASSUME NEW S, IsFiniteSet(S), NEW f, \A y \in S : f[y] \in Int, NEW x \in S,
         NEW g, g[x] = f[x] + 1, \A y \in S \ {x} : g[y] = f[y]
  PROVE  SumFunctionOnSet(g, S) = SumFunctionOnSet(f, S) + 1
<1>1. SumFunctionOnSet(f, S) = f[x] + SumFunctionOnSet(f, S \ {x})
  BY SumRemove
<1>2. \A y \in S : g[y] \in Int
  OBVIOUS
<1>3. SumFunctionOnSet(g, S) = g[x] + SumFunctionOnSet(g, S \ {x})
  BY <1>2, SumRemove
<1>4. IsFiniteSet(S \ {x}) /\ \A y \in S \ {x} : f[y] \in Int /\ f[y] = g[y]
  BY FS_Subset
<1>5. SumFunctionOnSet(f, S \ {x}) = SumFunctionOnSet(g, S \ {x})
  BY <1>4, SumSame
<1>6. SumFunctionOnSet(f, S \ {x}) \in Int
  BY <1>4, SumInt
<1>7. f[x] \in Int
  OBVIOUS
<1>8. (f[x] + 1) + SumFunctionOnSet(f, S \ {x}) = (f[x] + SumFunctionOnSet(f, S \ {x})) + 1
  BY <1>6, <1>7
<1> QED BY <1>1, <1>3, <1>5, <1>8
=============================================================================
