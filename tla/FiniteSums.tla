----------------------------- MODULE FiniteSums -----------------------------
(***************************************************************************)
(* Sums of a function over finite sets of indexes (SumFunctionOnSet of the  *)
(* module Functions), and least elements of sets of naturals, from which    *)
(* the recursion is unfolded: a statement about every finite set fails for  *)
(* one of least cardinality, if at all.                                     *)
(***************************************************************************)
EXTENDS FiniteSetsExt, Functions, FiniteSetTheorems, WellFoundedInduction, TLAPS

(* A nonempty set of naturals has a least element.                          *)
LEMMA LeastElement ==
  ASSUME NEW T, T \subseteq Nat, T # {}
  PROVE  \E m \in T : \A n \in T : m <= n
<1>1. PICK x \in T : \A y \in T : <<y, x>> \notin OpToRel(<, Nat)
  BY NatLessThanWellFounded, WFMin
<1>2. \A y \in T : ~(y < x)
  BY <1>1 DEF OpToRel
<1> QED
  BY <1>2

(* A bounded nonempty set of naturals has a greatest element.               *)
LEMMA GreatestElement ==
  ASSUME NEW T, NEW b \in Nat, T \subseteq Nat, T # {}, \A n \in T : n <= b
  PROVE  \E m \in T : \A n \in T : n <= m
<1> DEFINE U == {b - n : n \in T}
<1>1. U \subseteq Nat /\ U # {}
  <2>1. \A n \in T : b - n \in Nat
    OBVIOUS
  <2> QED
    BY <2>1
<1>2. PICK u \in U : \A v \in U : u <= v
  <2> HIDE DEF U
  <2> QED
    BY <1>1, LeastElement
<1>3. PICK m \in T : u = b - m
  BY <1>2
<1>4. \A n \in T : b - m <= b - n
  BY <1>2, <1>3
<1> QED
  BY <1>4

(* The last of some of the first n numbers is one of them.                  *)
LEMMA MaxIsLast ==
  ASSUME NEW n \in Nat, NEW s, s \subseteq 1..n, s # {}
  PROVE  Max(s) \in s /\ \A y \in s : Max(s) >= y
<1>1. PICK m \in s : \A y \in s : y <= m
  <2>1. s \subseteq Nat /\ \A y \in s : y <= n
    OBVIOUS
  <2> QED
    BY <2>1, GreatestElement
<1>2. \E x \in s : \A y \in s : x >= y
  BY <1>1
<1> QED
  BY <1>2 DEF Max

(* What holds at the start and is kept by each of n steps holds at the end. *)
LEMMA StepsInduction ==
  ASSUME NEW n \in Nat, NEW T, 0 \in T, \A k \in 1..n : k - 1 \in T => k \in T
  PROVE  \A k \in 0..n : k \in T
<1> DEFINE Fails == {k \in 0..n : k \notin T}
<1> SUFFICES ASSUME Fails # {} PROVE FALSE
  OBVIOUS
<1>1. PICK m \in Fails : \A k \in Fails : m <= k
  <2>1. Fails \subseteq Nat
    OBVIOUS
  <2> HIDE DEF Fails
  <2> QED
    BY <2>1, LeastElement
<1>2. m \in 1..n /\ m \notin T
  BY <1>1
<1>3. m - 1 \in 0..n /\ m - 1 \notin Fails
  BY <1>1, <1>2
<1> QED
  BY <1>2, <1>3

---------------------------------------------------------------------------
(* One step of the recursion of the sum, which takes the elements one by    *)
(* one in the order of CHOOSE.                                              *)
Chosen(s) == CHOOSE x \in s : TRUE

Step(g, f, s) == IF s = {} THEN 0 ELSE f[Chosen(s)] + g[s \ {Chosen(s)}]

Unrolled(g, f, U) == g = [s \in U |-> Step(g, f, s)]

(* The element a nonempty set gives is one of its own.                     *)
LEMMA ChosenElement ==
  ASSUME NEW s, s # {}
  PROVE  Chosen(s) \in s
  BY DEF Chosen

(* The sum is what the chosen solution of the recursion has at the whole   *)
(* set.                                                                     *)
LEMMA SumIsChosen ==
  ASSUME NEW f, NEW S
  PROVE SumFunctionOnSet(f, S) = (CHOOSE g : Unrolled(g, f, SUBSET S))[S]
  BY Zenon DEF SumFunctionOnSet, FoldFunctionOnSet, MapThenFoldSet, Unrolled, Step, Chosen

(* The subsets of S of at most n elements.                                  *)
Upto(S, n) == {s \in SUBSET S : Cardinality(s) <= n}

(* The recursion has a solution, whatever f is.                             *)
LEMMA SumExists ==
  ASSUME NEW f, NEW S, IsFiniteSet(S)
  PROVE  \E g : Unrolled(g, f, SUBSET S)
<1> DEFINE Solved(n) == \E g : Unrolled(g, f, Upto(S, n))
           Fails == {n \in Nat : ~Solved(n)}
<1>1. \A s \in SUBSET S : IsFiniteSet(s) /\ Cardinality(s) \in Nat
                            /\ Cardinality(s) <= Cardinality(S)
  BY FS_Subset, FS_CardinalityType
<1>2. Solved(0)
  <2> DEFINE g == [s \in Upto(S, 0) |-> 0]
  <2>1. \A s \in Upto(S, 0) : s = {}
    BY <1>1, FS_EmptySet DEF Upto
  <2>2. \A s \in Upto(S, 0) : Step(g, f, s) = 0
    BY <2>1 DEF Step
  <2>3. Unrolled(g, f, Upto(S, 0))
    BY <2>2 DEF Unrolled
  <2> QED
    BY <2>3
<1>3. ASSUME NEW n \in Nat, Solved(n)
      PROVE  Solved(n + 1)
  <2>1. PICK g : Unrolled(g, f, Upto(S, n))
    BY <1>3
  <2> DEFINE h == [s \in Upto(S, n + 1) |-> Step(g, f, s)]
  <2>2. \A s \in Upto(S, n + 1) : s # {} => s \ {Chosen(s)} \in Upto(S, n)
    <3> SUFFICES ASSUME NEW s \in Upto(S, n + 1), s # {}
                 PROVE  s \ {Chosen(s)} \in Upto(S, n)
      OBVIOUS
    <3>1. Chosen(s) \in s /\ s \in SUBSET S /\ Cardinality(s) <= n + 1
      BY ChosenElement DEF Upto
    <3>2. Cardinality(s \ {Chosen(s)}) = Cardinality(s) - 1
      BY <1>1, <3>1, FS_RemoveElement
    <3> QED
      BY <1>1, <3>1, <3>2 DEF Upto
  <2>3. \A s \in Upto(S, n) : s \in Upto(S, n + 1)
    BY <1>1 DEF Upto
  <2>4. \A s \in Upto(S, n) : h[s] = g[s]
    BY <2>1, <2>3 DEF Unrolled
  <2>5. \A s \in Upto(S, n + 1) : Step(h, f, s) = Step(g, f, s)
    <3> HIDE DEF h
    <3> SUFFICES ASSUME NEW s \in Upto(S, n + 1)
                 PROVE  Step(h, f, s) = Step(g, f, s)
      OBVIOUS
    <3>1. CASE s = {}
      BY <3>1 DEF Step
    <3>2. CASE s # {}
      <4>1. h[s \ {Chosen(s)}] = g[s \ {Chosen(s)}]
        BY <2>2, <2>4, <3>2
      <4> QED
        BY <3>2, <4>1 DEF Step
    <3> QED
      BY <3>1, <3>2
  <2>6. Unrolled(h, f, Upto(S, n + 1))
    BY <2>5 DEF Unrolled
  <2> QED
    BY <2>6
<1>4. \A n \in Nat : Solved(n)
  <2> HIDE DEF Solved
  <2> SUFFICES ASSUME Fails # {} PROVE FALSE
    OBVIOUS
  <2>1. PICK m \in Fails : \A n \in Fails : m <= n
    BY LeastElement
  <2>2. m # 0 /\ m \in Nat
    BY <1>2
  <2>3. m - 1 \in Nat /\ m - 1 \notin Fails
    BY <2>1, <2>2
  <2>4. Solved((m - 1) + 1)
    BY <1>3, <2>3
  <2> QED
    BY <2>2, <2>4
<1>5. Upto(S, Cardinality(S)) = SUBSET S
  BY <1>1 DEF Upto
<1>6. Cardinality(S) \in Nat
  BY FS_CardinalityType
<1>7. Solved(Cardinality(S))
  BY <1>4, <1>6
<1> QED
  BY <1>5, <1>7

(* A finite set is smaller without one of its elements.                     *)
LEMMA SmallerWithout ==
  ASSUME NEW s, IsFiniteSet(s), NEW x \in s
  PROVE  /\ IsFiniteSet(s \ {x})
         /\ Cardinality(s) \in Nat
         /\ Cardinality(s \ {x}) \in Nat
         /\ Cardinality(s \ {x}) = Cardinality(s) - 1
         /\ Cardinality(s \ {x}) < Cardinality(s)
<1>1. Cardinality(s) \in Nat /\ IsFiniteSet(s \ {x})
  BY FS_CardinalityType, FS_RemoveElement
<1>2. Cardinality(s \ {x}) \in Nat
  BY <1>1, FS_CardinalityType
<1>3. Cardinality(s \ {x}) = Cardinality(s) - 1
  BY FS_RemoveElement
<1> QED
  BY <1>1, <1>2, <1>3

(* A claim about every part of a finite set holds if it holds of each part  *)
(* of which every smaller part satisfies it (the claim as the set of parts  *)
(* that satisfy it).                                                        *)
LEMMA PartsInduction ==
  ASSUME NEW S, IsFiniteSet(S), NEW Good,
         \A s \in SUBSET S :
           (\A t \in SUBSET S : Cardinality(t) < Cardinality(s) => t \in Good)
             => s \in Good
  PROVE  SUBSET S \subseteq Good
<1> DEFINE Sizes == {Cardinality(s) : s \in (SUBSET S) \ Good}
<1>1. \A s \in SUBSET S : Cardinality(s) \in Nat
  BY FS_Subset, FS_CardinalityType
<1> SUFFICES ASSUME (SUBSET S) \ Good # {} PROVE FALSE
  OBVIOUS
<1>2. Sizes \subseteq Nat /\ Sizes # {}
  BY <1>1
<1>3. PICK n \in Sizes : \A m \in Sizes : n <= m
  <2> HIDE DEF Sizes
  <2> QED
    BY <1>2, LeastElement
<1>4. PICK s \in (SUBSET S) \ Good : n = Cardinality(s)
  BY <1>3
<1>5. \A t \in SUBSET S : Cardinality(t) < Cardinality(s) => t \in Good
  <2> SUFFICES ASSUME NEW t \in (SUBSET S) \ Good
               PROVE  ~(Cardinality(t) < Cardinality(s))
    OBVIOUS
  <2>1. Cardinality(t) \in Sizes
    OBVIOUS
  <2>2. n <= Cardinality(t)
    BY <1>3, <2>1
  <2> QED
    BY <1>1, <1>4, <2>2
<1> QED
  BY <1>4, <1>5

(* Two solutions of the recursion agree wherever the functions they sum do. *)
LEMMA SumsAgree ==
  ASSUME NEW f, NEW h, NEW S, NEW T, IsFiniteSet(S), NEW g, NEW k,
         Unrolled(g, f, SUBSET S), Unrolled(k, h, SUBSET T),
         S \subseteq T, \A x \in S : f[x] = h[x]
  PROVE  \A s \in SUBSET S : g[s] = k[s]
<1> DEFINE Good == {s \in SUBSET S : g[s] = k[s]}
<1>1. ASSUME NEW s \in SUBSET S,
             \A t \in SUBSET S : Cardinality(t) < Cardinality(s) => t \in Good
      PROVE  s \in Good
  <2>1. g[s] = Step(g, f, s) /\ k[s] = Step(k, h, s)
    BY DEF Unrolled
  <2>2. CASE s = {}
    BY <2>1, <2>2 DEF Step
  <2>3. CASE s # {}
    <3>1. Chosen(s) \in s /\ Chosen(s) \in S
      BY <2>3, ChosenElement
    <3>2. IsFiniteSet(s)
      BY FS_Subset
    <3>3. Cardinality(s \ {Chosen(s)}) < Cardinality(s)
      BY <3>1, <3>2, SmallerWithout
    <3>4. g[s \ {Chosen(s)}] = k[s \ {Chosen(s)}]
      BY <1>1, <3>3
    <3> QED
      BY <2>1, <2>3, <3>1, <3>4 DEF Step
  <2> QED
    BY <2>2, <2>3
<1>2. SUBSET S \subseteq Good
  <2> HIDE DEF Good
  <2> QED
    BY <1>1, PartsInduction
<1> QED
  BY <1>2

(* The value of the sum on S and its parts.                                 *)
LEMMA SumSolution ==
  ASSUME NEW f, NEW S, IsFiniteSet(S)
  PROVE  \E g : /\ Unrolled(g, f, SUBSET S)
                /\ \A s \in SUBSET S : g[s] = SumFunctionOnSet(f, s)
<1>1. PICK g : Unrolled(g, f, SUBSET S)
  BY SumExists
<1>2. ASSUME NEW s \in SUBSET S
      PROVE  g[s] = SumFunctionOnSet(f, s)
  <2>1. IsFiniteSet(s)
    BY FS_Subset
  <2> DEFINE k == CHOOSE k : Unrolled(k, f, SUBSET s)
  <2>2. Unrolled(k, f, SUBSET s)
    BY <2>1, SumExists, Zenon
  <2>3. SumFunctionOnSet(f, s) = k[s]
    BY SumIsChosen, Zenon
  <2> HIDE DEF k
  <2>4. k[s] = g[s]
    BY <1>1, <2>1, <2>2, SumsAgree, SMTT(30)
  <2> QED
    BY <2>3, <2>4
<1> QED
  BY <1>1, <1>2

(* Sums of equal functions are equal.                                       *)
LEMMA SumCongruent ==
  ASSUME NEW f, NEW h, NEW S, IsFiniteSet(S), \A x \in S : f[x] = h[x]
  PROVE  SumFunctionOnSet(f, S) = SumFunctionOnSet(h, S)
<1>1. PICK g : /\ Unrolled(g, f, SUBSET S)
               /\ \A s \in SUBSET S : g[s] = SumFunctionOnSet(f, s)
  BY SumSolution
<1>2. PICK k : /\ Unrolled(k, h, SUBSET S)
               /\ \A s \in SUBSET S : k[s] = SumFunctionOnSet(h, s)
  BY SumSolution
<1>3. g[S] = k[S]
  BY <1>1, <1>2, SumsAgree
<1> QED
  BY <1>1, <1>2, <1>3

(* The empty sum is zero.                                                   *)
LEMMA SumEmpty ==
  ASSUME NEW f
  PROVE  SumFunctionOnSet(f, {}) = 0
<1>1. PICK g : /\ Unrolled(g, f, SUBSET {})
               /\ \A s \in SUBSET {} : g[s] = SumFunctionOnSet(f, s)
  BY SumSolution, FS_EmptySet
<1> QED
  BY <1>1 DEF Unrolled, Step

(* The sum does not depend on the order in which the elements are taken.    *)
LEMMA SumTakesAny ==
  ASSUME NEW f, NEW S, IsFiniteSet(S), \A x \in S : f[x] \in Int
  PROVE  \A s \in SUBSET S :
           /\ SumFunctionOnSet(f, s) \in Int
           /\ \A x \in s : SumFunctionOnSet(f, s)
                             = f[x] + SumFunctionOnSet(f, s \ {x})
<1>1. PICK g : /\ Unrolled(g, f, SUBSET S)
               /\ \A s \in SUBSET S : g[s] = SumFunctionOnSet(f, s)
  BY SumSolution
<1> DEFINE Good == {s \in SUBSET S :
                      /\ g[s] \in Int
                      /\ \A x \in s : g[s] = f[x] + g[s \ {x}]}
<1>2. ASSUME NEW s \in SUBSET S,
             \A t \in SUBSET S : Cardinality(t) < Cardinality(s) => t \in Good
      PROVE  s \in Good
  <2>1. g[s] = Step(g, f, s)
    BY <1>1 DEF Unrolled
  <2>2. CASE s = {}
    BY <2>1, <2>2 DEF Step
  <2>3. CASE s # {}
    <3> DEFINE y == Chosen(s)
    <3>1. y \in s /\ g[s] = f[y] + g[s \ {y}]
      BY <2>1, <2>3, ChosenElement DEF Step
    <3> HIDE DEF y
    <3>2. \A x \in s : Cardinality(s \ {x}) < Cardinality(s) /\ s \ {x} \in SUBSET S
      BY FS_Subset, SmallerWithout
    <3>3. \A x \in s : s \ {x} \in Good
      BY <1>2, <3>2
    <3>4. g[s] \in Int
      <4>1. f[y] \in Int /\ g[s \ {y}] \in Int
        BY <3>1, <3>3
      <4> QED
        BY <3>1, <4>1
    <3>5. ASSUME NEW x \in s, x # y PROVE g[s] = f[x] + g[s \ {x}]
      <4>1. x \in s \ {y} /\ y \in s \ {x}
        BY <3>1, <3>5
      <4>2. g[s \ {y}] = f[x] + g[(s \ {y}) \ {x}]
        BY <3>1, <3>3, <4>1
      <4>3. g[s \ {x}] = f[y] + g[(s \ {x}) \ {y}]
        BY <3>3, <4>1
      <4>4. (s \ {y}) \ {x} = (s \ {x}) \ {y}
        OBVIOUS
      <4>5. (s \ {y}) \ {x} \in Good
        <5>1. (s \ {y}) \ {x} \in SUBSET S
          OBVIOUS
        <5>2. Cardinality((s \ {y}) \ {x}) < Cardinality(s)
          <6>1. IsFiniteSet(s)
            BY FS_Subset
          <6>2. /\ IsFiniteSet(s \ {y})
                /\ Cardinality(s) \in Nat /\ Cardinality(s \ {y}) \in Nat
                /\ Cardinality(s \ {y}) < Cardinality(s)
            BY <3>1, <6>1, SmallerWithout
          <6>3. /\ Cardinality((s \ {y}) \ {x}) \in Nat
                /\ Cardinality((s \ {y}) \ {x}) < Cardinality(s \ {y})
            BY <4>1, <6>2, SmallerWithout
          <6> QED
            BY <6>2, <6>3
        <5> QED
          BY <1>2, <5>1, <5>2
      <4>6. f[x] \in Int /\ f[y] \in Int /\ g[(s \ {y}) \ {x}] \in Int
        BY <3>1, <4>5
      <4> DEFINE rest == g[(s \ {y}) \ {x}]
      <4>7. /\ g[s] = f[y] + (f[x] + rest)
            /\ g[s \ {x}] = f[y] + rest
        BY <3>1, <4>2, <4>3, <4>4
      <4>8. rest \in Int
        BY <4>6
      <4> HIDE DEF rest
      <4> QED
        BY <4>6, <4>7, <4>8
    <3> QED
      BY <3>1, <3>4, <3>5
  <2> QED
    BY <2>2, <2>3
<1>3. SUBSET S \subseteq Good
  <2> HIDE DEF Good
  <2> QED
    BY <1>2, PartsInduction
<1>4. \A s \in SUBSET S : \A x \in s : s \ {x} \in SUBSET S
  OBVIOUS
<1> QED
  BY <1>1, <1>3, <1>4

(* A sum of integers is an integer.                                         *)
LEMMA SumTyped ==
  ASSUME NEW f, NEW S, IsFiniteSet(S), \A x \in S : f[x] \in Int
  PROVE  SumFunctionOnSet(f, S) \in Int
  BY SumTakesAny

(* A new index adds its value.                                              *)
LEMMA SumAdds ==
  ASSUME NEW f, NEW S, IsFiniteSet(S), NEW x, x \notin S,
         \A y \in S \cup {x} : f[y] \in Int
  PROVE  SumFunctionOnSet(f, S \cup {x}) = SumFunctionOnSet(f, S) + f[x]
<1> DEFINE R == S \cup {x}
<1>1. /\ IsFiniteSet(R) /\ x \in R /\ R \ {x} = S
      /\ \A y \in R : f[y] \in Int
  BY FS_AddElement
<1>2. SumFunctionOnSet(f, S) \in Int /\ f[x] \in Int
  BY SumTyped
<1> HIDE DEF R
<1>3. SumFunctionOnSet(f, R) = f[x] + SumFunctionOnSet(f, S)
  <2>1. SumFunctionOnSet(f, R) = f[x] + SumFunctionOnSet(f, R \ {x})
    BY <1>1, SumTakesAny
  <2> QED
    BY <1>1, <2>1, Zenon
<1>4. SumFunctionOnSet(f, R) = SumFunctionOnSet(f, S) + f[x]
  BY <1>1, <1>2, <1>3
<1> QED
  BY <1>4 DEF R

(* A function that differs in one index differs by as much in its sum.      *)
LEMMA SumChanges ==
  ASSUME NEW f, NEW h, NEW S, IsFiniteSet(S), NEW x \in S,
         \A y \in S : f[y] \in Int /\ h[y] \in Int,
         \A y \in S \ {x} : f[y] = h[y]
  PROVE  SumFunctionOnSet(h, S) = SumFunctionOnSet(f, S) + (h[x] - f[x])
<1>1. /\ IsFiniteSet(S \ {x})
      /\ S = (S \ {x}) \cup {x}
      /\ x \notin S \ {x}
  BY FS_RemoveElement
<1>2. SumFunctionOnSet(f, S \ {x}) = SumFunctionOnSet(h, S \ {x})
  BY <1>1, SumCongruent
<1>3. /\ SumFunctionOnSet(f, S) = SumFunctionOnSet(f, S \ {x}) + f[x]
      /\ SumFunctionOnSet(h, S) = SumFunctionOnSet(h, S \ {x}) + h[x]
  <2> DEFINE R == S \ {x}
  <2>1. IsFiniteSet(R) /\ S = R \cup {x} /\ x \notin R
    BY <1>1
  <2> HIDE DEF R
  <2>2. /\ SumFunctionOnSet(f, S) = SumFunctionOnSet(f, R) + f[x]
        /\ SumFunctionOnSet(h, S) = SumFunctionOnSet(h, R) + h[x]
    BY <2>1, SumAdds
  <2> QED
    BY <2>2 DEF R
<1>4. SumFunctionOnSet(f, S \ {x}) \in Int
  BY <1>1, SumTyped
<1> QED
  BY <1>2, <1>3, <1>4

(* A sum of naturals is a natural.                                          *)
LEMMA SumNatural ==
  ASSUME NEW f, NEW S, IsFiniteSet(S), \A x \in S : f[x] \in Nat
  PROVE  SumFunctionOnSet(f, S) \in Nat
<1> DEFINE Good == {s \in SUBSET S : SumFunctionOnSet(f, s) \in Nat}
<1>1. ASSUME NEW s \in SUBSET S,
             \A t \in SUBSET S : Cardinality(t) < Cardinality(s) => t \in Good
      PROVE  s \in Good
  <2>1. CASE s = {}
    BY <2>1, SumEmpty
  <2>2. CASE s # {}
    <3>1. PICK x \in s : TRUE
      BY <2>2
    <3>2. s \ {x} \in Good
      BY <1>1, FS_Subset, SmallerWithout
    <3>3. SumFunctionOnSet(f, s) = f[x] + SumFunctionOnSet(f, s \ {x})
      BY SumTakesAny
    <3> QED
      BY <3>2, <3>3
  <2> QED
    BY <2>1, <2>2
<1>2. SUBSET S \subseteq Good
  <2> HIDE DEF Good
  <2> QED
    BY <1>1, PartsInduction
<1> QED
  BY <1>2

(* A sum of zeros is zero.                                                  *)
LEMMA SumZero ==
  ASSUME NEW f, NEW S, IsFiniteSet(S), \A x \in S : f[x] = 0
  PROVE  SumFunctionOnSet(f, S) = 0
<1> DEFINE Good == {s \in SUBSET S : SumFunctionOnSet(f, s) = 0}
<1>1. ASSUME NEW s \in SUBSET S,
             \A t \in SUBSET S : Cardinality(t) < Cardinality(s) => t \in Good
      PROVE  s \in Good
  <2>1. CASE s = {}
    BY <2>1, SumEmpty
  <2>2. CASE s # {}
    <3>1. PICK x \in s : TRUE
      BY <2>2
    <3>2. s \ {x} \in Good
      BY <1>1, FS_Subset, SmallerWithout
    <3>3. SumFunctionOnSet(f, s) = f[x] + SumFunctionOnSet(f, s \ {x})
      BY SumTakesAny
    <3> QED
      BY <3>2, <3>3
  <2> QED
    BY <2>1, <2>2
<1>2. SUBSET S \subseteq Good
  <2> HIDE DEF Good
  <2> QED
    BY <1>1, PartsInduction
<1> QED
  BY <1>2

(* A sum that gains an index gains its value.                               *)
LEMMA SumGrows ==
  ASSUME NEW f, NEW h, NEW S, NEW T, IsFiniteSet(S), NEW x, x \notin S,
         T = S \cup {x}, \A y \in S : f[y] \in Int /\ h[y] = f[y],
         h[x] \in Int
  PROVE  SumFunctionOnSet(h, T) = SumFunctionOnSet(f, S) + h[x]
<1>1. SumFunctionOnSet(h, S \cup {x}) = SumFunctionOnSet(h, S) + h[x]
  BY SumAdds
<1>2. SumFunctionOnSet(h, S) = SumFunctionOnSet(f, S)
  BY SumCongruent
<1> QED
  BY <1>1, <1>2

(* A sum of which one index alone is not zero is the value there.           *)
LEMMA SumSingle ==
  ASSUME NEW f, NEW S, IsFiniteSet(S), NEW x \in S, f[x] \in Int,
         \A y \in S \ {x} : f[y] = 0
  PROVE  SumFunctionOnSet(f, S) = f[x]
<1> DEFINE zero == [y \in S |-> 0]
<1>1. SumFunctionOnSet(zero, S) = 0
  <2>1. \A y \in S : zero[y] = 0
    OBVIOUS
  <2> HIDE DEF zero
  <2> QED
    BY <2>1, SumZero
<1>2. /\ \A y \in S : zero[y] \in Int /\ f[y] \in Int
      /\ \A y \in S \ {x} : zero[y] = f[y]
      /\ zero[x] = 0
  OBVIOUS
<1> HIDE DEF zero
<1>3. SumFunctionOnSet(f, S) = SumFunctionOnSet(zero, S) + (f[x] - zero[x])
  BY <1>2, SumChanges
<1> QED
  BY <1>1, <1>2, <1>3

(* The sum of a pointwise sum.                                              *)
LEMMA SumPlus ==
  ASSUME NEW f, NEW g, NEW h, NEW S, IsFiniteSet(S),
         \A x \in S : f[x] \in Int /\ g[x] \in Int /\ h[x] = f[x] + g[x]
  PROVE  SumFunctionOnSet(h, S)
           = SumFunctionOnSet(f, S) + SumFunctionOnSet(g, S)
<1> DEFINE Good == {s \in SUBSET S :
                      SumFunctionOnSet(h, s)
                        = SumFunctionOnSet(f, s) + SumFunctionOnSet(g, s)}
<1>1. ASSUME NEW s \in SUBSET S,
             \A t \in SUBSET S : Cardinality(t) < Cardinality(s) => t \in Good
      PROVE  s \in Good
  <2>1. CASE s = {}
    BY <2>1, SumEmpty
  <2>2. CASE s # {}
    <3>1. PICK x \in s : TRUE
      BY <2>2
    <3>2. s \ {x} \in Good /\ s \ {x} \in SUBSET S
      BY <1>1, FS_Subset, SmallerWithout
    <3>3. /\ SumFunctionOnSet(f, s) = f[x] + SumFunctionOnSet(f, s \ {x})
          /\ SumFunctionOnSet(f, s \ {x}) \in Int
      BY <3>2, SumTakesAny
    <3>4. /\ SumFunctionOnSet(g, s) = g[x] + SumFunctionOnSet(g, s \ {x})
          /\ SumFunctionOnSet(g, s \ {x}) \in Int
      BY <3>2, SumTakesAny
    <3>5. SumFunctionOnSet(h, s) = h[x] + SumFunctionOnSet(h, s \ {x})
      <4>1. \A y \in S : h[y] \in Int
        OBVIOUS
      <4> QED
        BY <3>2, <4>1, SumTakesAny
    <3>6. f[x] \in Int /\ g[x] \in Int /\ h[x] = f[x] + g[x]
      OBVIOUS
    <3> QED
      BY <3>2, <3>3, <3>4, <3>5, <3>6
  <2> QED
    BY <2>1, <2>2
<1>2. SUBSET S \subseteq Good
  <2> HIDE DEF Good
  <2> QED
    BY <1>1, PartsInduction
<1> QED
  BY <1>2

(* Two parts of a sum.                                                      *)
LEMMA SumUnion ==
  ASSUME NEW f, NEW S, NEW T, IsFiniteSet(S), IsFiniteSet(T), S \cap T = {},
         \A x \in S \cup T : f[x] \in Int
  PROVE  SumFunctionOnSet(f, S \cup T) = SumFunctionOnSet(f, S) + SumFunctionOnSet(f, T)
<1> DEFINE Good == {s \in SUBSET T : SumFunctionOnSet(f, S \cup s)
                                       = SumFunctionOnSet(f, S) + SumFunctionOnSet(f, s)}
<1>1. ASSUME NEW s \in SUBSET T,
             \A t \in SUBSET T : Cardinality(t) < Cardinality(s) => t \in Good
      PROVE  s \in Good
  <2>1. SumFunctionOnSet(f, S) \in Int
    BY SumTyped
  <2>2. CASE s = {}
    <3>1. S \cup s = S
      BY <2>2
    <3>2. SumFunctionOnSet(f, s) = 0
      BY <2>2, SumEmpty
    <3>3. SumFunctionOnSet(f, S \cup s) = SumFunctionOnSet(f, S)
      BY <3>1
    <3> QED
      BY <2>1, <3>2, <3>3
  <2>3. CASE s # {}
    <3>1. PICK x \in s : TRUE
      BY <2>3
    <3>2. IsFiniteSet(s)
      BY FS_Subset
    <3>3. /\ s \ {x} \in SUBSET T /\ IsFiniteSet(s \ {x})
          /\ Cardinality(s \ {x}) < Cardinality(s)
      BY <3>2, SmallerWithout
    <3>4. SumFunctionOnSet(f, S \cup (s \ {x}))
            = SumFunctionOnSet(f, S) + SumFunctionOnSet(f, s \ {x})
      BY <1>1, <3>3
    <3>5. /\ x \notin s \ {x} /\ x \notin S \cup (s \ {x})
          /\ s = (s \ {x}) \cup {x} /\ S \cup s = (S \cup (s \ {x})) \cup {x}
      OBVIOUS
    <3>6. \A y \in S \cup s : f[y] \in Int
      OBVIOUS
    <3> DEFINE rest == s \ {x}
               more == S \cup rest
    <3>7. IsFiniteSet(more) /\ IsFiniteSet(rest)
      BY <3>3, FS_Union
    <3>8. SumFunctionOnSet(f, rest) \in Int
      BY <3>6, <3>7, SumTyped
    <3>9. x \notin rest /\ (\A y \in rest \cup {x} : f[y] \in Int) /\ s = rest \cup {x}
      BY <3>5, <3>6
    <3>10. x \notin more /\ (\A y \in more \cup {x} : f[y] \in Int) /\ S \cup s = more \cup {x}
      BY <3>5, <3>6
    <3>11. SumFunctionOnSet(f, more) = SumFunctionOnSet(f, S) + SumFunctionOnSet(f, rest)
      BY <3>4
    <3> HIDE DEF rest, more
    <3>12. SumFunctionOnSet(f, s) = SumFunctionOnSet(f, rest) + f[x]
      BY <3>7, <3>9, SumAdds
    <3>13. SumFunctionOnSet(f, S \cup s) = SumFunctionOnSet(f, more) + f[x]
      BY <3>7, <3>10, SumAdds
    <3>14. f[x] \in Int
      BY <3>9
    <3> QED
      BY <2>1, <3>8, <3>11, <3>12, <3>13, <3>14
  <2> QED
    BY <2>2, <2>3
<1>2. SUBSET T \subseteq Good
  <2> HIDE DEF Good
  <2> QED
    BY <1>1, PartsInduction
<1> QED
  BY <1>2

(* A part of a sum of naturals.                                             *)
LEMMA SumOfPart ==
  ASSUME NEW f, NEW S, NEW T, IsFiniteSet(T), S \subseteq T, \A x \in T : f[x] \in Nat
  PROVE  SumFunctionOnSet(f, S) <= SumFunctionOnSet(f, T)
<1> DEFINE R == T \ S
<1>1. /\ IsFiniteSet(S) /\ IsFiniteSet(R) /\ S \cap R = {} /\ T = S \cup R
      /\ \A x \in S \cup R : f[x] \in Int
      /\ (\A x \in S : f[x] \in Nat) /\ (\A x \in R : f[x] \in Nat)
  BY FS_Subset
<1> HIDE DEF R
<1>2. SumFunctionOnSet(f, T) = SumFunctionOnSet(f, S) + SumFunctionOnSet(f, R)
  BY <1>1, SumUnion
<1>3. SumFunctionOnSet(f, S) \in Nat /\ SumFunctionOnSet(f, R) \in Nat
  BY <1>1, SumNatural
<1> QED
  BY <1>2, <1>3
=============================================================================
