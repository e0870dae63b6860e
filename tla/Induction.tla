------------------------------ MODULE Induction ------------------------------
(***************************************************************************)
(* Induction over numbers and finite sets, for a set of which one proves   *)
(* that it has them all; sums over sets by the folds that define them; and *)
(* recursive definitions of functions, which are choices among solutions.  *)
(***************************************************************************)
EXTENDS Integers, Functions, FiniteSets, FiniteSetTheorems, WellFoundedInduction, TLAPS

\* A set of numbers that is not empty has a least one.
LEMMA LeastNumber ==
  ASSUME NEW T, T \subseteq Nat, T # {}
  PROVE  \E m \in T : \A k \in T : m <= k
<1> DEFINE Less == OpToRel(<, Nat)
<1>1. IsWellFoundedOn(Less, Nat) BY NatLessThanWellFounded
<1>2. \A x, y \in Nat : <<x, y>> \in Less <=> x < y BY DEF OpToRel
<1> HIDE DEF Less
<1>3. PICK m \in T : \A k \in T : <<k, m>> \notin Less BY <1>1, WFMin
<1>4. \A k \in T : ~(k < m) BY <1>2, <1>3
<1> QED BY <1>4

\* Induction over the numbers, with the set of those a fact is true of.
LEMMA NumberInduction ==
  ASSUME NEW P, 0 \in P, \A n \in Nat : n \in P => n + 1 \in P
  PROVE  \A n \in Nat : n \in P
<1> SUFFICES ASSUME NEW n \in Nat, n \notin P PROVE FALSE OBVIOUS
<1> DEFINE T == {k \in Nat : k \notin P}
<1>1. T \subseteq Nat /\ T # {} OBVIOUS
<1>2. PICK m \in T : \A k \in T : m <= k
  <2> HIDE DEF T
  <2> QED BY <1>1, LeastNumber
<1>3. m \in Nat \ {0} /\ m \notin P OBVIOUS
<1>4. m - 1 \in Nat /\ (m - 1) + 1 = m BY <1>3
<1>5. m - 1 \notin P BY <1>3, <1>4
<1> QED BY <1>2, <1>4, <1>5

\* Induction over the subsets of a finite set: one element more.
LEMMA SetInduction ==
  ASSUME NEW S, IsFiniteSet(S), NEW P,
         \A T \in SUBSET S : (\A x \in T : T \ {x} \in P) => T \in P
  PROVE  \A T \in SUBSET S : T \in P
<1> SUFFICES ASSUME NEW U \in SUBSET S, U \notin P PROVE FALSE OBVIOUS
<1> DEFINE Sizes == {n \in Nat : \E T \in SUBSET S : T \notin P /\ Cardinality(T) = n}
<1>1. \A T \in SUBSET S : IsFiniteSet(T) /\ Cardinality(T) \in Nat
  BY FS_Subset, FS_CardinalityType
<1>2. Sizes \subseteq Nat /\ Sizes # {} BY <1>1
<1>3. PICK m \in Sizes : \A k \in Sizes : m <= k
  <2> HIDE DEF Sizes
  <2> QED BY <1>2, LeastNumber
<1>4. PICK T \in SUBSET S : T \notin P /\ Cardinality(T) = m OBVIOUS
<1>5. PICK x \in T : T \ {x} \notin P BY <1>4
<1>6. Cardinality(T \ {x}) = Cardinality(T) - 1
  <2>1. IsFiniteSet(T) BY <1>1
  <2> QED BY <2>1, <1>5, FS_RemoveElement
<1>7. T \ {x} \in SUBSET S OBVIOUS
<1>8. Cardinality(T \ {x}) \in Sizes BY <1>1, <1>5, <1>7
<1> HIDE DEF Sizes
<1>9. Cardinality(T) \in Nat /\ Cardinality(T) - 1 \in Sizes BY <1>1, <1>6, <1>8
<1> QED BY <1>3, <1>4, <1>9

-----------------------------------------------------------------------------
\* The element that the folds take next, and what a sum over all subsets of a set is.
AnyOf(s) == CHOOSE x \in s : TRUE
Adds(f, D, g) == g = [s \in D |-> IF s = {} THEN 0 ELSE f[AnyOf(s)] + g[s \ {AnyOf(s)}]]

\* What is chosen of a set is in it.
LEMMA AnyIn == \A s : s # {} => AnyOf(s) \in s
BY DEF AnyOf

\* There is a sum of a function over every subset of a finite set.
LEMMA AddsExists ==
  ASSUME NEW S, IsFiniteSet(S), NEW f
  PROVE  \E g : Adds(f, SUBSET S, g)
<1> DEFINE Upto(n) == {s \in SUBSET S : Cardinality(s) <= n}
           P == {n \in Nat : \E g : Adds(f, Upto(n), g)}
<1>1. \A T \in SUBSET S : IsFiniteSet(T) /\ Cardinality(T) \in Nat
  BY FS_Subset, FS_CardinalityType
<1>2. 0 \in P
  <2> DEFINE g == [s \in Upto(0) |-> 0]
  <2>1. \A s \in Upto(0) : s = {}
    BY <1>1, FS_EmptySet
  <2>2. Adds(f, Upto(0), g) BY <2>1 DEF Adds
  <2> QED BY <2>2
<1>3. ASSUME NEW n \in Nat, n \in P PROVE n + 1 \in P
  <2>1. PICK g : Adds(f, Upto(n), g) BY <1>3
  <2> DEFINE h == [s \in Upto(n + 1) |-> IF s = {} THEN 0 ELSE f[AnyOf(s)] + g[s \ {AnyOf(s)}]]
  <2>2. ASSUME NEW s \in Upto(n + 1), s # {} PROVE h[s \ {AnyOf(s)}] = g[s \ {AnyOf(s)}]
    <3> DEFINE r == s \ {AnyOf(s)}
    <3>1. AnyOf(s) \in s BY <2>2, AnyIn
    <3>2. Cardinality(r) = Cardinality(s) - 1
      <4>1. IsFiniteSet(s) BY <1>1
      <4> QED BY <3>1, <4>1, FS_RemoveElement
    <3>3. r \in Upto(n) /\ r \in Upto(n + 1) BY <1>1, <3>2
    <3> HIDE DEF Upto, r
    <3>4. g[r] = IF r = {} THEN 0 ELSE f[AnyOf(r)] + g[r \ {AnyOf(r)}] BY <2>1, <3>3 DEF Adds
    <3>5. h[r] = IF r = {} THEN 0 ELSE f[AnyOf(r)] + g[r \ {AnyOf(r)}] BY <3>3
    <3> QED BY <3>4, <3>5 DEF r
  <2>3. h = [s \in Upto(n + 1) |-> IF s = {} THEN 0 ELSE f[AnyOf(s)] + h[s \ {AnyOf(s)}]]
    <3> HIDE DEF Upto
    <3>1. \A s \in Upto(n + 1) : (IF s = {} THEN 0 ELSE f[AnyOf(s)] + g[s \ {AnyOf(s)}])
                                 = (IF s = {} THEN 0 ELSE f[AnyOf(s)] + h[s \ {AnyOf(s)}])
      BY <2>2
    <3> QED BY <3>1
  <2>4. Adds(f, Upto(n + 1), h)
    <3> HIDE DEF h, Upto
    <3> QED BY <2>3 DEF Adds
  <2> HIDE DEF Upto
  <2> QED BY <2>4
<1>4. \A n \in Nat : n \in P
  <2> HIDE DEF P
  <2> QED BY <1>2, <1>3, NumberInduction
<1>5. Cardinality(S) \in Nat BY FS_CardinalityType
<1>6. Upto(Cardinality(S)) = SUBSET S
  <2>1. \A T \in SUBSET S : Cardinality(T) <= Cardinality(S) BY FS_Subset
  <2> QED BY <2>1
<1> QED BY <1>4, <1>5, <1>6

\* Functions that agree on D.
Same(f, g, D) == \A x \in D : f[x] = g[x]

\* Sums of functions that agree agree.
LEMMA AddsAgree ==
  ASSUME NEW S, NEW T, T \subseteq S, IsFiniteSet(S), NEW f, NEW g, NEW h, NEW k,
         Adds(f, SUBSET S, h), Adds(g, SUBSET T, k), Same(f, g, T)
  PROVE  Same(h, k, SUBSET T)
<1> DEFINE P == {s \in SUBSET T : h[s] = k[s]}
<1>1. ASSUME NEW s \in SUBSET T, \A x \in s : s \ {x} \in P PROVE s \in P
  <2>1. h[s] = IF s = {} THEN 0 ELSE f[AnyOf(s)] + h[s \ {AnyOf(s)}] BY DEF Adds
  <2>2. k[s] = IF s = {} THEN 0 ELSE g[AnyOf(s)] + k[s \ {AnyOf(s)}] BY DEF Adds
  <2>3. CASE s = {} BY <2>1, <2>2, <2>3
  <2>4. CASE s # {}
    <3>1. AnyOf(s) \in s BY <2>4, AnyIn
    <3>2. f[AnyOf(s)] = g[AnyOf(s)] BY <3>1 DEF Same
    <3> QED BY <1>1, <2>1, <2>2, <2>4, <3>1, <3>2
  <2> QED BY <2>3, <2>4
<1>2. IsFiniteSet(T) BY FS_Subset
<1>3. \A s \in SUBSET T : s \in P
  <2> HIDE DEF P
  <2> QED BY <1>1, <1>2, SetInduction
<1> QED BY <1>3 DEF Same

\* SumFunctionOnSet is such a sum.
LEMMA SumAdds ==
  ASSUME NEW S, IsFiniteSet(S), NEW f
  PROVE  \E g : Adds(f, SUBSET S, g) /\ SumFunctionOnSet(f, S) = g[S]
<1> DEFINE it == CHOOSE g : Adds(f, SUBSET S, g)
<1>1. Adds(f, SUBSET S, it) BY AddsExists
<1>2. SumFunctionOnSet(f, S) = it[S]
  BY DEF SumFunctionOnSet, FoldFunctionOnSet, MapThenFoldSet, Adds, AnyOf
<1> QED BY <1>1, <1>2

\* Only the values of the function count.
LEMMA SumEqual ==
  ASSUME NEW S, IsFiniteSet(S), NEW f, NEW g, \A x \in S : f[x] = g[x]
  PROVE  SumFunctionOnSet(f, S) = SumFunctionOnSet(g, S)
<1>1. PICK h : Adds(f, SUBSET S, h) /\ SumFunctionOnSet(f, S) = h[S] BY SumAdds
<1>2. PICK k : Adds(g, SUBSET S, k) /\ SumFunctionOnSet(g, S) = k[S] BY SumAdds
<1>3. Same(f, g, S) /\ S \subseteq S BY DEF Same
<1>4. Same(h, k, SUBSET S) BY <1>1, <1>2, <1>3, AddsAgree
<1> QED BY <1>1, <1>2, <1>4 DEF Same

\* The sum over a set is that without the element the fold takes, and its value.
LEMMA SumStep ==
  ASSUME NEW S, IsFiniteSet(S), NEW f
  PROVE  /\ S = {} => SumFunctionOnSet(f, S) = 0
         /\ S # {} => /\ AnyOf(S) \in S
                      /\ SumFunctionOnSet(f, S) = f[AnyOf(S)] + SumFunctionOnSet(f, S \ {AnyOf(S)})
<1>1. PICK h : Adds(f, SUBSET S, h) /\ SumFunctionOnSet(f, S) = h[S] BY SumAdds
<1>2. h[S] = IF S = {} THEN 0 ELSE f[AnyOf(S)] + h[S \ {AnyOf(S)}] BY <1>1 DEF Adds
<1>3. ASSUME S # {} PROVE SumFunctionOnSet(f, S \ {AnyOf(S)}) = h[S \ {AnyOf(S)}]
  <2>1. PICK T : T \subseteq S /\ T = S \ {AnyOf(S)} OBVIOUS
  <2>2. IsFiniteSet(T) BY <2>1, FS_Subset
  <2>3. PICK k : Adds(f, SUBSET T, k) /\ SumFunctionOnSet(f, T) = k[T] BY <2>2, SumAdds
  <2>4. Same(f, f, T) BY DEF Same
  <2>5. Same(h, k, SUBSET T) BY <1>1, <2>1, <2>3, <2>4, AddsAgree
  <2> QED BY <2>1, <2>3, <2>5 DEF Same
<1>4. S # {} => AnyOf(S) \in S BY AnyIn
<1> QED BY <1>1, <1>2, <1>3, <1>4

\* Sums of integers are integers, of naturals naturals.
LEMMA SumType ==
  ASSUME NEW S, IsFiniteSet(S), NEW f
  PROVE  /\ (\A x \in S : f[x] \in Int) => SumFunctionOnSet(f, S) \in Int
         /\ (\A x \in S : f[x] \in Nat) => SumFunctionOnSet(f, S) \in Nat
<1> DEFINE P == {T \in SUBSET S : SumFunctionOnSet(f, T) \in Int}
           Q == {T \in SUBSET S : SumFunctionOnSet(f, T) \in Nat}
<1>1. \A T \in SUBSET S : IsFiniteSet(T) BY FS_Subset
<1>2. ASSUME \A x \in S : f[x] \in Int PROVE S \in P
  <2>1. ASSUME NEW T \in SUBSET S, \A x \in T : T \ {x} \in P PROVE T \in P
    <3>1. CASE T = {} BY <1>1, <3>1, SumStep
    <3>2. CASE T # {}
      <4>1. AnyOf(T) \in T /\ SumFunctionOnSet(f, T) = f[AnyOf(T)] + SumFunctionOnSet(f, T \ {AnyOf(T)})
        BY <1>1, <3>2, SumStep
      <4>2. f[AnyOf(T)] \in Int /\ SumFunctionOnSet(f, T \ {AnyOf(T)}) \in Int BY <1>2, <2>1, <4>1
      <4> QED BY <4>1, <4>2
    <3> QED BY <3>1, <3>2
  <2> HIDE DEF P
  <2> QED BY <2>1, SetInduction
<1>3. ASSUME \A x \in S : f[x] \in Nat PROVE S \in Q
  <2>1. ASSUME NEW T \in SUBSET S, \A x \in T : T \ {x} \in Q PROVE T \in Q
    <3>1. CASE T = {}
      <4>1. SumFunctionOnSet(f, T) = 0 BY <1>1, <3>1, SumStep
      <4> QED BY <4>1
    <3>2. CASE T # {}
      <4>1. AnyOf(T) \in T /\ SumFunctionOnSet(f, T) = f[AnyOf(T)] + SumFunctionOnSet(f, T \ {AnyOf(T)})
        BY <1>1, <3>2, SumStep
      <4>2. f[AnyOf(T)] \in Nat /\ SumFunctionOnSet(f, T \ {AnyOf(T)}) \in Nat BY <1>3, <2>1, <4>1
      <4> QED BY <4>1, <4>2
    <3> QED BY <3>1, <3>2
  <2> HIDE DEF Q
  <2> QED BY <2>1, SetInduction
<1> QED BY <1>2, <1>3

\* The sum over a set is that without any of its elements, and its value.
LEMMA SumRemove ==
  ASSUME NEW S, IsFiniteSet(S), NEW f, \A x \in S : f[x] \in Int, NEW x \in S
  PROVE  SumFunctionOnSet(f, S) = f[x] + SumFunctionOnSet(f, S \ {x})
<1> DEFINE Total(T) == SumFunctionOnSet(f, T)
           P == {T \in SUBSET S : \A y \in T : Total(T) = f[y] + Total(T \ {y})}
<1>1. \A T \in SUBSET S : IsFiniteSet(T) /\ Total(T) \in Int BY FS_Subset, SumType
<1>2. ASSUME NEW T \in SUBSET S, \A y \in T : T \ {y} \in P PROVE T \in P
  <2>1. SUFFICES ASSUME NEW y \in T PROVE Total(T) = f[y] + Total(T \ {y}) OBVIOUS
  <2> DEFINE a == AnyOf(T)
  <2>2. a \in T /\ Total(T) = f[a] + Total(T \ {a}) BY <1>1, SumStep
  <2>3. CASE y = a BY <2>2, <2>3
  <2>4. CASE y # a
    <3>1. T \ {a} \in P /\ T \ {y} \in P BY <1>2, <2>2
    <3>2. Total(T \ {a}) = f[y] + Total((T \ {a}) \ {y}) BY <2>4, <3>1
    <3>3. Total(T \ {y}) = f[a] + Total((T \ {y}) \ {a}) BY <2>2, <2>4, <3>1
    <3> DEFINE r == Total((T \ {a}) \ {y})
    <3>4. (T \ {a}) \ {y} = (T \ {y}) \ {a} OBVIOUS
    <3>5. Total(T \ {a}) = f[y] + r /\ Total(T \ {y}) = f[a] + r BY <3>2, <3>3, <3>4
    <3>6. f[a] \in Int /\ f[y] \in Int /\ r \in Int BY <1>1, <2>2
    <3>7. Total(T) = f[a] + (f[y] + r) BY <2>2, <3>5
    <3> HIDE DEF r
    <3>8. f[a] + (f[y] + r) = f[y] + (f[a] + r) BY <3>6
    <3> QED BY <3>5, <3>7, <3>8
  <2> QED BY <2>3, <2>4
<1>3. \A T \in SUBSET S : T \in P
  <2> HIDE DEF P
  <2> QED BY <1>2, SetInduction
<1> QED BY <1>3

\* One value changes and the sum with it.
LEMMA SumChange ==
  ASSUME NEW S, IsFiniteSet(S), NEW f, NEW g, NEW i \in S,
         \A x \in S : f[x] \in Int /\ g[x] \in Int, \A x \in S \ {i} : g[x] = f[x]
  PROVE  SumFunctionOnSet(g, S) = SumFunctionOnSet(f, S) - f[i] + g[i]
<1> DEFINE rest == SumFunctionOnSet(f, S \ {i})
<1>1. IsFiniteSet(S \ {i}) BY FS_Subset
<1>2. SumFunctionOnSet(g, S \ {i}) = rest BY <1>1, SumEqual
<1>3. rest \in Int BY <1>1, SumType
<1>4. SumFunctionOnSet(f, S) = f[i] + rest BY SumRemove
<1>5. SumFunctionOnSet(g, S) = g[i] + rest BY <1>2, SumRemove
<1> HIDE DEF rest
<1> QED BY <1>3, <1>4, <1>5

\* The sum of two functions has the sum of their sums.
LEMMA SumAddition ==
  ASSUME NEW S, IsFiniteSet(S), NEW f, NEW g, NEW h,
         \A x \in S : f[x] \in Int /\ g[x] \in Int /\ h[x] = f[x] + g[x]
  PROVE  SumFunctionOnSet(h, S) = SumFunctionOnSet(f, S) + SumFunctionOnSet(g, S)
<1> DEFINE Total(e, T) == SumFunctionOnSet(e, T)
           P == {T \in SUBSET S : Total(h, T) = Total(f, T) + Total(g, T)}
<1>1. \A T \in SUBSET S : IsFiniteSet(T) /\ Total(f, T) \in Int /\ Total(g, T) \in Int
  BY FS_Subset, SumType
<1>2. ASSUME NEW T \in SUBSET S, \A y \in T : T \ {y} \in P PROVE T \in P
  <2>1. CASE T = {}
    <3>1. Total(h, T) = 0 /\ Total(f, T) = 0 /\ Total(g, T) = 0 BY <1>1, <2>1, SumStep
    <3> QED BY <3>1
  <2>2. CASE T # {}
    <3> DEFINE a == AnyOf(T)
               U == T \ {a}
    <3>1. /\ a \in T /\ Total(h, T) = h[a] + Total(h, U)
          /\ Total(f, T) = f[a] + Total(f, U) /\ Total(g, T) = g[a] + Total(g, U)
      BY <1>1, <2>2, SumStep
    <3>2. Total(h, U) = Total(f, U) + Total(g, U) BY <1>2, <3>1
    <3>3. Total(f, U) \in Int /\ Total(g, U) \in Int BY <1>1
    <3>4. f[a] \in Int /\ g[a] \in Int /\ h[a] = f[a] + g[a] BY <3>1
    <3>5. Total(h, T) = Total(f, T) + Total(g, T) BY <3>1, <3>2, <3>3, <3>4
    <3> QED BY <3>5
  <2> QED BY <2>1, <2>2
<1>3. \A T \in SUBSET S : T \in P
  <2> HIDE DEF P
  <2> QED BY <1>2, SetInduction
<1> QED BY <1>3

\* Zeros add nothing.
LEMMA SumSupport ==
  ASSUME NEW S, IsFiniteSet(S), NEW f, \A x \in S : f[x] \in Int,
         NEW T \in SUBSET S, \A x \in S \ T : f[x] = 0
  PROVE  SumFunctionOnSet(f, S) = SumFunctionOnSet(f, T)
<1> DEFINE Total(U) == SumFunctionOnSet(f, U)
           P == {U \in SUBSET (S \ T) : Total(T \cup U) = Total(T)}
<1>1. \A U \in SUBSET S : IsFiniteSet(U) /\ Total(U) \in Int BY FS_Subset, SumType
<1>2. ASSUME NEW U \in SUBSET (S \ T), \A y \in U : U \ {y} \in P PROVE U \in P
  <2>1. CASE U = {}
    <3>1. T \cup U = T BY <2>1
    <3> QED BY <3>1
  <2>2. CASE U # {}
    <3>1. PICK y \in U : TRUE BY <2>2
    <3>2. /\ T \cup U \in SUBSET S /\ y \in T \cup U /\ y \in S \ T
          /\ (T \cup U) \ {y} = T \cup (U \ {y})
      OBVIOUS
    <3>3. Total(T \cup U) = f[y] + Total((T \cup U) \ {y}) BY <1>1, <3>2, SumRemove
    <3>4. f[y] = 0 /\ Total(T \cup (U \ {y})) = Total(T) BY <1>2, <3>1
    <3>5. Total(T) \in Int BY <1>1
    <3>6. Total(T \cup U) = 0 + Total(T) BY <3>2, <3>3, <3>4
    <3> QED BY <3>5, <3>6
  <2> QED BY <2>1, <2>2
<1>3. \A U \in SUBSET (S \ T) : U \in P
  <2>1. IsFiniteSet(S \ T) BY FS_Subset
  <2> HIDE DEF P
  <2> QED BY <1>2, <2>1, SetInduction
<1>4. T \cup (S \ T) = S /\ S \ T \in SUBSET (S \ T) OBVIOUS
<1>5. S \ T \in P BY <1>3, <1>4
<1>6. Total(T \cup (S \ T)) = Total(T) BY <1>5
<1> QED BY <1>4, <1>6

-----------------------------------------------------------------------------
\* A finite set has finitely many values.
LEMMA FiniteImage ==
  ASSUME NEW S, IsFiniteSet(S), NEW f
  PROVE  IsFiniteSet({f[x] : x \in S})
<1> DEFINE Image(T) == {f[x] : x \in T}
           P == {T \in SUBSET S : IsFiniteSet(Image(T))}
<1>1. ASSUME NEW T \in SUBSET S, \A x \in T : T \ {x} \in P PROVE T \in P
  <2>1. CASE T = {}
    <3>1. Image(T) = {} BY <2>1
    <3> QED BY <3>1, FS_EmptySet
  <2>2. CASE T # {}
    <3>1. PICK x \in T : TRUE BY <2>2
    <3>2. Image(T) = Image(T \ {x}) \cup {f[x]} BY <3>1
    <3>3. IsFiniteSet(Image(T \ {x})) BY <1>1, <3>1
    <3>4. IsFiniteSet(Image(T \ {x}) \cup {f[x]})
      <4> HIDE DEF Image
      <4> QED BY <3>3, FS_AddElement
    <3>5. IsFiniteSet(Image(T))
      <4> HIDE DEF Image
      <4> QED BY <3>2, <3>4
    <3> QED BY <3>5
  <2> QED BY <2>1, <2>2
<1>2. \A T \in SUBSET S : T \in P
  <2> HIDE DEF P
  <2> QED BY <1>1, SetInduction
<1> QED BY <1>2

\* A finite set of numbers that is not empty has a greatest one.
LEMMA GreatestNumber ==
  ASSUME NEW S, S \subseteq Nat, IsFiniteSet(S), S # {}
  PROVE  \E m \in S : \A k \in S : m >= k
<1> DEFINE P == {T \in SUBSET S : T # {} => \E m \in T : \A k \in T : m >= k}
<1>1. ASSUME NEW T \in SUBSET S, \A x \in T : T \ {x} \in P PROVE T \in P
  <2> SUFFICES ASSUME T # {} PROVE \E m \in T : \A k \in T : m >= k OBVIOUS
  <2>1. PICK x \in T : TRUE OBVIOUS
  <2>2. CASE T \ {x} = {} BY <2>1, <2>2
  <2>3. CASE T \ {x} # {}
    <3>1. PICK m \in T \ {x} : \A k \in T \ {x} : m >= k BY <1>1, <2>1, <2>3
    <3>2. CASE m >= x BY <3>1, <3>2
    <3>3. CASE ~(m >= x)
      <4>1. \A k \in T : x >= k BY <2>1, <3>1, <3>3
      <4> QED BY <2>1, <4>1
    <3> QED BY <3>2, <3>3
  <2> QED BY <2>2, <2>3
<1>2. \A T \in SUBSET S : T \in P
  <2> HIDE DEF P
  <2> QED BY <1>1, SetInduction
<1> QED BY <1>2
-----------------------------------------------------------------------------
\* g and h agree below x, and step looks only at what is below.
Below(rank, x, g, h) == \A y \in DOMAIN rank : rank[y] < rank[x] => g[y] = h[y]
Steps(D, V, rank, step) ==
  /\ V # {} /\ \E bound \in Nat : rank \in [D -> 0 .. bound]
  /\ step \in [[D -> V] -> [D -> V]]
  /\ \A g, h \in [D -> V], x \in D : Below(rank, x, g, h) => step[g][x] = step[h][x]

\* Recursion: a definition of a function that uses its values of lower rank has a solution.
LEMMA Recursion ==
  ASSUME NEW D, NEW V, NEW rank, NEW step, Steps(D, V, rank, step)
  PROVE  \E g \in [D -> V] : g = step[g]
<1> USE DEF Steps
<1>0. PICK v \in V, bound \in Nat : rank \in [D -> 0 .. bound] OBVIOUS
<1> DEFINE Upto(n, g) == \A x \in D : rank[x] < n => g[x] = step[g][x]
           P == {n \in Nat : \E g \in [D -> V] : Upto(n, g)}
<1>1. 0 \in P
  <2>1. [x \in D |-> v] \in [D -> V] OBVIOUS
  <2>2. \A x \in D : ~(rank[x] < 0) BY <1>0
  <2> QED BY <2>1, <2>2
<1>2. ASSUME NEW n \in Nat, n \in P PROVE n + 1 \in P
  <2>1. PICK g \in [D -> V] : Upto(n, g) BY <1>2
  <2> DEFINE h == [x \in D |-> IF rank[x] < n THEN g[x] ELSE step[g][x]]
  <2>2. h \in [D -> V] OBVIOUS
  <2>3. ASSUME NEW x \in D, rank[x] < n + 1 PROVE h[x] = step[h][x]
    <3>1. Below(rank, x, g, h) BY <1>0, <2>3 DEF Below
    <3>2. step[g][x] = step[h][x] BY <2>2, <3>1
    <3>3. CASE rank[x] < n BY <2>1, <3>2, <3>3
    <3>4. CASE ~(rank[x] < n) BY <3>2, <3>4
    <3> QED BY <3>3, <3>4
  <2> HIDE DEF h
  <2> QED BY <2>2, <2>3
<1>3. \A n \in Nat : n \in P
  <2> HIDE DEF P
  <2> QED BY <1>1, <1>2, NumberInduction
<1>4. PICK g \in [D -> V] : Upto(bound + 1, g) BY <1>3
<1>5. \A x \in D : g[x] = step[g][x] BY <1>0, <1>4
<1>6. step[g] \in [D -> V] OBVIOUS
<1>7. g = step[g] BY <1>5, <1>6
<1> QED BY <1>7
=============================================================================
