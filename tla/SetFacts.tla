------------------------------- MODULE SetFacts -------------------------------
(***************************************************************************)
(* What the proofs need of finite sets and of sets of numbers: a smallest  *)
(* member, the greatest of the library's Max, and the sum of a function    *)
(* over a finite set as SumFunctionOnSet of the library computes it.       *)
(*                                                                         *)
(* The sum is a fold, defined by recursion on the set.  Induction is done  *)
(* by a smallest counterexample: LeastSubset has no operator among its     *)
(* parameters, so a first-order prover can use it.                         *)
(***************************************************************************)
EXTENDS Integers, FiniteSetsExt, FiniteSetTheorems, WellFoundedInduction, TLAPS

\* Every set of natural numbers that is not empty has a least element.
LEMMA LeastOf ==
    ASSUME NEW T \in SUBSET Nat, T # {}
    PROVE  \E x \in T : \A y \in T : x <= y
<1> DEFINE R == OpToRel(<, Nat)
<1>1. IsWellFoundedOn(R, Nat)
    BY NatLessThanWellFounded
<1>2. ASSUME NEW x \in Nat, NEW y \in Nat, <<y, x>> \notin R
      PROVE  x <= y
    BY <1>2 DEF OpToRel
<1> HIDE DEF R
<1>3. PICK x \in T : \A y \in T : <<y, x>> \notin R
    BY <1>1, WFMin
<1>4. \A y \in T : x <= y
    BY <1>2, <1>3
<1> QED
    BY <1>4

\* Among subsets of a finite set there is one that contains no other of them.
LEMMA LeastSubset ==
    ASSUME NEW S, IsFiniteSet(S), NEW Bad \in SUBSET (SUBSET S), Bad # {}
    PROVE  \E T \in Bad : \A U \in Bad : U \subseteq T => U = T
<1> DEFINE Sizes == {Cardinality(T) : T \in Bad}
<1>1. \A T \in SUBSET S : IsFiniteSet(T) /\ Cardinality(T) \in Nat
    BY FS_Subset, FS_CardinalityType
<1>2. Sizes \in SUBSET Nat /\ Sizes # {}
    BY <1>1
<1>3. PICK n \in Sizes : \A m \in Sizes : n <= m
  <2> HIDE DEF Sizes
  <2> QED
    BY <1>2, LeastOf
<1>4. PICK T \in Bad : Cardinality(T) = n
    BY <1>3
<1>5. ASSUME NEW U \in Bad, U \subseteq T
      PROVE  U = T
  <2>1. Cardinality(T) <= Cardinality(U)
    BY <1>3, <1>4
  <2>2. Cardinality(U) <= Cardinality(T) /\ (Cardinality(T) = Cardinality(U) => T = U)
    BY <1>1, <1>5, FS_Subset
  <2> QED
    BY <2>1, <2>2, <1>1
<1> QED
    BY <1>5

\* Max of a bounded set of natural numbers is its greatest element.
LEMMA MaxOf ==
    ASSUME NEW S \in SUBSET Nat, S # {}, NEW bound \in Nat, \A x \in S : x <= bound
    PROVE  Max(S) \in S /\ \A y \in S : y <= Max(S)
<1> DEFINE T == {n \in Nat : \A x \in S : x <= n}
<1>1. PICK m \in T : \A y \in T : m <= y
  <2>1. T \in SUBSET Nat /\ T # {}
    OBVIOUS
  <2> HIDE DEF T
  <2> QED
    BY <2>1, LeastOf
<1>2. m \in Nat /\ \A x \in S : x <= m
    OBVIOUS
<1>3. m \in S
  <2> SUFFICES ASSUME m \notin S PROVE FALSE
    OBVIOUS
  <2>1. \A x \in S : x \in Nat /\ x < m
    BY <1>2
  <2>2. PICK s \in S : TRUE
    OBVIOUS
  <2>3. m - 1 \in Nat
    BY <1>2, <2>1, <2>2
  <2>4. ASSUME NEW x \in S PROVE x <= m - 1
    BY <1>2, <2>1
  <2>5. m <= m - 1
    BY <1>1, <2>3, <2>4
  <2> QED
    BY <1>2, <2>5
<1>4. \A y \in S : m >= y
    BY <1>2
<1> QED
    BY <1>2, <1>3, <1>4 DEF Max

\* The greater of two natural numbers.
LEMMA MaxOfTwo ==
    ASSUME NEW a \in Nat, NEW b \in Nat
    PROVE  Max({a, b}) \in {a, b} /\ a <= Max({a, b}) /\ b <= Max({a, b})
<1>1. \A x \in {a, b} : x <= a + b
    OBVIOUS
<1> QED
    BY <1>1, MaxOf

-----------------------------------------------------------------------------
(* Sums.                                                                   *)

Any(s) == CHOOSE x \in s : TRUE

\* it[s] is the sum of f over s, for the subsets s of S.
IsIteration(it, f, S) ==
    it = [s \in SUBSET S |-> IF s = {} THEN 0 ELSE f[Any(s)] + it[s \ {Any(s)}]]

\* The library's sum is what the iteration comes to in the end.
LEMMA SumIsIteration ==
    ASSUME NEW f, NEW S
    PROVE  SumFunctionOnSet(f, S) = (CHOOSE it : IsIteration(it, f, S))[S]
BY DEF SumFunctionOnSet, FoldFunctionOnSet, MapThenFoldSet, IsIteration, Any

\* A member that is there is chosen.
LEMMA AnyOf == ASSUME NEW s, s # {} PROVE Any(s) \in s
BY DEF Any

\* Two iterations agree where both are defined.
LEMMA IterationsAgree ==
    ASSUME NEW f, NEW A, NEW B, NEW g, NEW h, IsIteration(g, f, A), IsIteration(h, f, B),
           NEW C, C \subseteq A, C \subseteq B, IsFiniteSet(C)
    PROVE  g[C] = h[C]
<1> DEFINE Bad == {s \in SUBSET C : g[s] # h[s]}
<1> SUFFICES ASSUME Bad # {} PROVE FALSE
    OBVIOUS
<1>1. PICK T \in Bad : \A U \in Bad : U \subseteq T => U = T
  <2>1. Bad \in SUBSET (SUBSET C)
    OBVIOUS
  <2> HIDE DEF Bad
  <2> QED
    BY <2>1, LeastSubset
<1>2. /\ g[T] = IF T = {} THEN 0 ELSE f[Any(T)] + g[T \ {Any(T)}]
      /\ h[T] = IF T = {} THEN 0 ELSE f[Any(T)] + h[T \ {Any(T)}]
    BY DEF IsIteration
<1>3. CASE T = {}
    BY <1>2, <1>3
<1>4. CASE T # {}
  <2>1. T \ {Any(T)} # T
    BY <1>4, AnyOf
  <2>2. g[T \ {Any(T)}] = h[T \ {Any(T)}]
    BY <1>1, <2>1
  <2> QED
    BY <1>2, <1>4, <2>2
<1> QED
    BY <1>3, <1>4

\* The iteration exists on every finite set.
LEMMA IterationExists ==
    ASSUME NEW f, NEW S, IsFiniteSet(S)
    PROVE  \E it : IsIteration(it, f, S)
<1> DEFINE Bad == {s \in SUBSET S : ~\E it : IsIteration(it, f, s)}
<1> SUFFICES ASSUME Bad # {} PROVE FALSE
    OBVIOUS
<1>1. PICK T \in Bad : \A U \in Bad : U \subseteq T => U = T
  <2>1. Bad \in SUBSET (SUBSET S)
    OBVIOUS
  <2> HIDE DEF Bad
  <2> QED
    BY <2>1, LeastSubset
<1> DEFINE Part(s) == CHOOSE it : IsIteration(it, f, s)
           Value(s) == IF s = {} THEN 0 ELSE f[Any(s)] + Part(s \ {Any(s)})[s \ {Any(s)}]
           Whole == [s \in SUBSET T |-> Value(s)]
<1>2. ASSUME NEW s \in SUBSET T, s # T
      PROVE  IsIteration(Part(s), f, s)
    BY <1>1, <1>2
<1>3. ASSUME NEW s \in SUBSET T, s # T
      PROVE  Part(s)[s] = Value(s)
  <2>1. Part(s)[s] = IF s = {} THEN 0 ELSE f[Any(s)] + Part(s)[s \ {Any(s)}]
    <3>1. IsIteration(Part(s), f, s)
      BY <1>2, <1>3
    <3> HIDE DEF Part
    <3> QED
      BY <3>1 DEF IsIteration
  <2>2. CASE s # {}
    <3> DEFINE r == s \ {Any(s)}
    <3>1. r \in SUBSET T /\ r # T /\ r \subseteq s
      BY <2>2, AnyOf
    <3>2. IsIteration(Part(r), f, r) /\ IsIteration(Part(s), f, s)
      BY <1>2, <1>3, <3>1
    <3>3. IsFiniteSet(r)
      BY <3>1, FS_Subset
    <3>4. Part(s)[r] = Part(r)[r]
      <4> HIDE DEF r, Part
      <4> QED
        BY <3>1, <3>2, <3>3, IterationsAgree
    <3> QED
      BY <2>1, <2>2, <3>4
  <2> QED
    BY <2>1, <2>2
<1>4. ASSUME NEW s \in SUBSET T
      PROVE  Whole[s] = IF s = {} THEN 0 ELSE f[Any(s)] + Whole[s \ {Any(s)}]
  <2>1. Whole[s] = Value(s)
    OBVIOUS
  <2>2. CASE s # {}
    <3> DEFINE r == s \ {Any(s)}
    <3>1. r \in SUBSET T /\ r # T
      BY <2>2, AnyOf
    <3>2. Whole[r] = Value(r)
      BY <3>1
    <3>3. Part(r)[r] = Value(r)
      <4> HIDE DEF r, Part, Value
      <4> QED
        BY <1>3, <3>1
    <3>4. Value(s) = f[Any(s)] + Part(r)[r]
      BY <2>2
    <3> HIDE DEF Whole, Value, Part
    <3> QED
      BY <2>1, <2>2, <3>2, <3>3, <3>4
  <2> HIDE DEF Whole
  <2> QED
    BY <2>1, <2>2
<1>5. IsIteration(Whole, f, T)
  <2>1. Whole = [s \in SUBSET T |-> Whole[s]]
    OBVIOUS
  <2> HIDE DEF Whole
  <2> QED
    BY <1>4, <2>1 DEF IsIteration
<1> QED
    BY <1>5

\* The sum over a finite set: some member's value and the sum of the rest.
LEMMA SumEquation ==
    ASSUME NEW f, NEW S, IsFiniteSet(S)
    PROVE  SumFunctionOnSet(f, S) =
              IF S = {} THEN 0
              ELSE f[Any(S)] + SumFunctionOnSet(f, S \ {Any(S)})
<1> DEFINE r == S \ {Any(S)}
           g == CHOOSE it : IsIteration(it, f, S)
           h == CHOOSE it : IsIteration(it, f, r)
<1>1. IsFiniteSet(r) /\ r \subseteq S
    BY FS_Subset
<1>2. IsIteration(g, f, S)
    BY IterationExists
<1>3. IsIteration(h, f, r)
  <2> HIDE DEF r
  <2> QED
    BY <1>1, IterationExists
<1>4. SumFunctionOnSet(f, S) = g[S]
    BY SumIsIteration
<1>5. SumFunctionOnSet(f, r) = h[r]
  <2> HIDE DEF r
  <2> QED
    BY SumIsIteration
<1> HIDE DEF g, h
<1>6. g[S] = IF S = {} THEN 0 ELSE f[Any(S)] + g[r]
    BY <1>2 DEF IsIteration
<1>7. g[r] = h[r]
  <2> HIDE DEF r
  <2> QED
    BY <1>1, <1>2, <1>3, IterationsAgree
<1> QED
    BY <1>4, <1>5, <1>6, <1>7

\* Nothing adds up to nothing.
LEMMA SumEmpty == ASSUME NEW f PROVE SumFunctionOnSet(f, {}) = 0
BY FS_EmptySet, SumEquation

\* A sum of integers is an integer.
LEMMA SumInt ==
    ASSUME NEW S, IsFiniteSet(S), NEW f, \A x \in S : f[x] \in Int
    PROVE  SumFunctionOnSet(f, S) \in Int
<1> DEFINE Bad == {s \in SUBSET S : SumFunctionOnSet(f, s) \notin Int}
<1> SUFFICES ASSUME Bad # {} PROVE FALSE
    OBVIOUS
<1>1. PICK T \in Bad : \A U \in Bad : U \subseteq T => U = T
  <2>1. Bad \in SUBSET (SUBSET S)
    OBVIOUS
  <2> HIDE DEF Bad
  <2> QED
    BY <2>1, LeastSubset
<1>2. SumFunctionOnSet(f, T) =
         IF T = {} THEN 0 ELSE f[Any(T)] + SumFunctionOnSet(f, T \ {Any(T)})
    BY FS_Subset, SumEquation
<1>3. T # {}
    BY <1>1, <1>2
<1>4. Any(T) \in T
    BY <1>3, AnyOf
<1>5. SumFunctionOnSet(f, T \ {Any(T)}) \in Int
    BY <1>1, <1>4
<1> QED
    BY <1>1, <1>2, <1>3, <1>4, <1>5

\* Whichever member is taken out, its value is what the sum loses.
LEMMA SumRemove ==
    ASSUME NEW S, IsFiniteSet(S), NEW f, \A x \in S : f[x] \in Int, NEW e \in S
    PROVE  SumFunctionOnSet(f, S) = f[e] + SumFunctionOnSet(f, S \ {e})
<1> DEFINE Sum(s) == SumFunctionOnSet(f, s)
           Bad == {s \in SUBSET S : \E x \in s : Sum(s) # f[x] + Sum(s \ {x})}
<1> SUFFICES ASSUME Bad # {} PROVE FALSE
    OBVIOUS
<1>1. PICK T \in Bad : \A U \in Bad : U \subseteq T => U = T
  <2>1. Bad \in SUBSET (SUBSET S)
    OBVIOUS
  <2> HIDE DEF Bad
  <2> QED
    BY <2>1, LeastSubset
<1>2. PICK x \in T : Sum(T) # f[x] + Sum(T \ {x})
    OBVIOUS
<1> DEFINE a == Any(T)
<1>3. a \in T
    BY AnyOf
<1>4. ASSUME NEW s \in SUBSET S
      PROVE  IsFiniteSet(s) /\ Sum(s) \in Int
    BY FS_Subset, SumInt
<1>5. Sum(T) = f[a] + Sum(T \ {a})
    BY <1>4, SumEquation
<1> HIDE DEF a, Sum
<1>6. x # a
    BY <1>2, <1>5
<1>7. Sum(T \ {a}) = f[x] + Sum((T \ {a}) \ {x})
  <2>1. T \ {a} # T /\ T \ {a} \in SUBSET S /\ x \in T \ {a}
    BY <1>3, <1>6
  <2> QED
    BY <1>1, <2>1
<1>8. Sum(T \ {x}) = f[a] + Sum((T \ {x}) \ {a})
  <2>1. T \ {x} # T /\ T \ {x} \in SUBSET S /\ a \in T \ {x}
    BY <1>3, <1>6
  <2> QED
    BY <1>1, <2>1
<1> DEFINE rest == Sum((T \ {a}) \ {x})
<1>9. (T \ {x}) \ {a} = (T \ {a}) \ {x}
    OBVIOUS
<1>10. f[x] \in Int /\ f[a] \in Int /\ rest \in Int
    BY <1>3, <1>4
<1>11. /\ Sum(T) = f[a] + (f[x] + rest)
       /\ Sum(T \ {x}) = f[a] + rest
    BY <1>5, <1>7, <1>8, <1>9
<1> HIDE DEF rest
<1>12. f[a] + (f[x] + rest) = f[x] + (f[a] + rest)
    BY <1>10
<1> QED
    BY <1>2, <1>11, <1>12

\* A new member adds its value.
LEMMA SumAdd ==
    ASSUME NEW S, IsFiniteSet(S), NEW e, e \notin S,
           NEW f, \A x \in S \cup {e} : f[x] \in Int
    PROVE  SumFunctionOnSet(f, S \cup {e}) = f[e] + SumFunctionOnSet(f, S)
<1>1. IsFiniteSet(S \cup {e}) /\ (S \cup {e}) \ {e} = S
    BY FS_AddElement
<1> QED
    BY <1>1, SumRemove

\* Where one function is nowhere above another, neither is its sum.
LEMMA SumAtMost ==
    ASSUME NEW S, IsFiniteSet(S),
           NEW f, \A x \in S : f[x] \in Int, NEW g, \A x \in S : g[x] \in Int,
           \A x \in S : f[x] <= g[x]
    PROVE  SumFunctionOnSet(f, S) <= SumFunctionOnSet(g, S)
<1> DEFINE F(s) == SumFunctionOnSet(f, s)
           G(s) == SumFunctionOnSet(g, s)
           Bad == {s \in SUBSET S : ~(F(s) <= G(s))}
<1> SUFFICES ASSUME Bad # {} PROVE FALSE
    OBVIOUS
<1>1. PICK T \in Bad : \A U \in Bad : U \subseteq T => U = T
  <2>1. Bad \in SUBSET (SUBSET S)
    OBVIOUS
  <2> HIDE DEF Bad
  <2> QED
    BY <2>1, LeastSubset
<1>2. ASSUME NEW s \in SUBSET S
      PROVE  IsFiniteSet(s) /\ F(s) \in Int /\ G(s) \in Int
    BY FS_Subset, SumInt
<1> DEFINE a == Any(T)
<1>3. /\ F(T) = IF T = {} THEN 0 ELSE f[a] + F(T \ {a})
      /\ G(T) = IF T = {} THEN 0 ELSE g[a] + G(T \ {a})
    BY <1>2, SumEquation
<1>4. T # {} => a \in T
    BY AnyOf
<1> HIDE DEF a, F, G
<1>5. T # {}
    BY <1>1, <1>3
<1>6. F(T \ {a}) <= G(T \ {a})
    BY <1>1, <1>4, <1>5
<1>7. F(T \ {a}) \in Int /\ G(T \ {a}) \in Int /\ f[a] \in Int /\ g[a] \in Int /\ f[a] <= g[a]
    BY <1>2, <1>4, <1>5
<1> QED
    BY <1>1, <1>3, <1>5, <1>6, <1>7

\* Functions that agree on a set have the same sum over it.
LEMMA SumSame ==
    ASSUME NEW S, IsFiniteSet(S),
           NEW f, \A x \in S : f[x] \in Int, NEW g, \A x \in S : g[x] = f[x]
    PROVE  SumFunctionOnSet(g, S) = SumFunctionOnSet(f, S)
<1>1. SumFunctionOnSet(g, S) <= SumFunctionOnSet(f, S)
    BY SumAtMost
<1>2. SumFunctionOnSet(f, S) <= SumFunctionOnSet(g, S)
    BY SumAtMost
<1>3. SumFunctionOnSet(f, S) \in Int /\ SumFunctionOnSet(g, S) \in Int
    BY SumInt
<1> QED
    BY <1>1, <1>2, <1>3

\* A sum of natural numbers is one.
LEMMA SumNat ==
    ASSUME NEW S, IsFiniteSet(S), NEW f, \A x \in S : f[x] \in Nat
    PROVE  SumFunctionOnSet(f, S) \in Nat
<1> DEFINE Bad == {s \in SUBSET S : SumFunctionOnSet(f, s) \notin Nat}
<1> SUFFICES ASSUME Bad # {} PROVE FALSE
    OBVIOUS
<1>1. PICK T \in Bad : \A U \in Bad : U \subseteq T => U = T
  <2>1. Bad \in SUBSET (SUBSET S)
    OBVIOUS
  <2> HIDE DEF Bad
  <2> QED
    BY <2>1, LeastSubset
<1>2. SumFunctionOnSet(f, T) =
         IF T = {} THEN 0 ELSE f[Any(T)] + SumFunctionOnSet(f, T \ {Any(T)})
    BY FS_Subset, SumEquation
<1>3. T # {}
    BY <1>1, <1>2
<1>4. Any(T) \in T
    BY <1>3, AnyOf
<1>5. SumFunctionOnSet(f, T \ {Any(T)}) \in Nat
    BY <1>1, <1>4
<1> QED
    BY <1>1, <1>2, <1>3, <1>4, <1>5

\* One value changes, and the sum by as much.
LEMMA SumChange ==
    ASSUME NEW S, IsFiniteSet(S), NEW e \in S,
           NEW f, \A x \in S : f[x] \in Int, NEW g, \A x \in S : g[x] \in Int,
           \A x \in S \ {e} : g[x] = f[x]
    PROVE  SumFunctionOnSet(g, S) = SumFunctionOnSet(f, S) + g[e] - f[e]
<1> DEFINE r == S \ {e}
<1>1. IsFiniteSet(r) /\ r \subseteq S
    BY FS_Subset
<1>2. SumFunctionOnSet(g, S) = g[e] + SumFunctionOnSet(g, r)
    BY SumRemove
<1>3. SumFunctionOnSet(f, S) = f[e] + SumFunctionOnSet(f, r)
    BY SumRemove
<1>4. SumFunctionOnSet(f, r) \in Int
    BY <1>1, SumInt
<1>5. SumFunctionOnSet(g, r) = SumFunctionOnSet(f, r)
    BY <1>1, SumSame
<1> QED
    BY <1>2, <1>3, <1>4, <1>5

\* The sums over two parts are the sum over the whole.
LEMMA SumParts ==
    ASSUME NEW S, IsFiniteSet(S), NEW f, \A x \in S : f[x] \in Int,
           NEW A \in SUBSET S
    PROVE  SumFunctionOnSet(f, S) = SumFunctionOnSet(f, A) + SumFunctionOnSet(f, S \ A)
<1> DEFINE Sum(s) == SumFunctionOnSet(f, s)
           Bad == {s \in SUBSET S : Sum(s) # Sum(s \cap A) + Sum(s \ A)}
<1>1. ASSUME NEW s \in SUBSET S
      PROVE  IsFiniteSet(s) /\ Sum(s) \in Int
    BY FS_Subset, SumInt
<1>2. Bad = {}
  <2> SUFFICES ASSUME Bad # {} PROVE FALSE
    OBVIOUS
  <2>1. PICK T \in Bad : \A U \in Bad : U \subseteq T => U = T
    <3>1. Bad \in SUBSET (SUBSET S)
      OBVIOUS
    <3> HIDE DEF Bad
    <3> QED
      BY <3>1, LeastSubset
  <2> HIDE DEF Sum
  <2>2. CASE T = {}
    <3>1. Sum({}) = 0
      BY SumEmpty DEF Sum
    <3>2. T \cap A = {} /\ T \ A = {}
      BY <2>2
    <3> QED
      BY <2>1, <2>2, <3>1, <3>2
  <2>3. ASSUME NEW x \in T
        PROVE  FALSE
    <3> DEFINE U == T \ {x}
               i == Sum(U \cap A)
               o == Sum(U \ A)
    <3>1. Sum(U) = Sum(U \cap A) + Sum(U \ A)
      BY <2>1
    <3>2. Sum(T) = f[x] + Sum(U)
      BY <1>1, SumRemove DEF Sum
    <3>3. f[x] \in Int /\ i \in Int /\ o \in Int
      BY <1>1
    <3>4. CASE x \in A
      <4>1. Sum(T \cap A) = f[x] + Sum((T \cap A) \ {x})
        BY <1>1, <3>4, SumRemove DEF Sum
      <4>2. (T \cap A) \ {x} = U \cap A /\ T \ A = U \ A
        BY <3>4
      <4>3. Sum(T) = f[x] + (i + o) /\ Sum(T \cap A) + Sum(T \ A) = (f[x] + i) + o
        BY <3>1, <3>2, <4>1, <4>2
      <4> QED
        BY <2>1, <3>3, <4>3
    <3>5. CASE x \notin A
      <4>1. Sum(T \ A) = f[x] + Sum((T \ A) \ {x})
        BY <1>1, <3>5, SumRemove DEF Sum
      <4>2. (T \ A) \ {x} = U \ A /\ T \cap A = U \cap A
        BY <3>5
      <4>3. Sum(T) = f[x] + (i + o) /\ Sum(T \cap A) + Sum(T \ A) = i + (f[x] + o)
        BY <3>1, <3>2, <4>1, <4>2
      <4> QED
        BY <2>1, <3>3, <4>3
    <3> QED
      BY <3>4, <3>5
  <2> QED
    BY <2>2, <2>3
<1>3. S \cap A = A
    OBVIOUS
<1> QED
    BY <1>2, <1>3

\* A function that is zero on a set adds up to zero.
LEMMA SumZero ==
    ASSUME NEW S, IsFiniteSet(S), NEW f, \A x \in S : f[x] = 0
    PROVE  SumFunctionOnSet(f, S) = 0
<1> DEFINE Bad == {s \in SUBSET S : SumFunctionOnSet(f, s) # 0}
<1> SUFFICES ASSUME Bad # {} PROVE FALSE
    OBVIOUS
<1>1. PICK T \in Bad : \A U \in Bad : U \subseteq T => U = T
  <2>1. Bad \in SUBSET (SUBSET S)
    OBVIOUS
  <2> HIDE DEF Bad
  <2> QED
    BY <2>1, LeastSubset
<1>2. SumFunctionOnSet(f, T) =
         IF T = {} THEN 0 ELSE f[Any(T)] + SumFunctionOnSet(f, T \ {Any(T)})
    BY FS_Subset, SumEquation
<1>3. T # {}
    BY <1>1, <1>2
<1>4. Any(T) \in T
    BY <1>3, AnyOf
<1>5. SumFunctionOnSet(f, T \ {Any(T)}) = 0
    BY <1>1, <1>4
<1> QED
    BY <1>1, <1>2, <1>3, <1>4, <1>5

\* The sum over one member is its value.
LEMMA SumOne ==
    ASSUME NEW e, NEW f, f[e] \in Int
    PROVE  SumFunctionOnSet(f, {e}) = f[e]
<1>1. IsFiniteSet({}) /\ {} \cup {e} = {e} /\ e \notin {}
    BY FS_EmptySet
<1>2. SumFunctionOnSet(f, {}) = 0
    BY SumEmpty
<1>3. SumFunctionOnSet(f, {} \cup {e}) = f[e] + SumFunctionOnSet(f, {})
    BY <1>1, SumAdd
<1> QED
    BY <1>1, <1>2, <1>3
=============================================================================
