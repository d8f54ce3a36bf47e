---------------------------- MODULE FiniteSums ----------------------------
(***************************************************************************)
(* Sums over finite sets. MapThenSumSet of FiniteSetsExt is the fold of a  *)
(* function chosen to satisfy its own recursion. That one exists, and that *)
(* its value does not depend on the order in which the elements are taken, *)
(* is shown by induction on the number of elements: the set of the sizes   *)
(* for which it fails would have a least member.                           *)
(***************************************************************************)
EXTENDS FiniteSetTheorems, WellFoundedInduction, TLAPS

\* Induction over the numbers, with a set where the library's theorem has an
\* operator.
LEMMA NatSetInduction ==
    ASSUME NEW Q, 0 \in Q, \A n \in Nat : n \in Q => n + 1 \in Q
    PROVE  Nat \subseteq Q
<1> DEFINE R == OpToRel(<, Nat)
           T == Nat \ Q
<1> SUFFICES ASSUME T # {} PROVE FALSE
  OBVIOUS
<1>1. \A x, y \in Nat : y < x => <<y, x>> \in R
  BY DEF OpToRel
<1>2. IsWellFoundedOn(R, Nat)
  BY NatLessThanWellFounded
<1> HIDE DEF R
<1>3. PICK x \in T : \A y \in T : <<y, x>> \notin R
  <2>1. T \subseteq Nat
    OBVIOUS
  <2> HIDE DEF T
  <2> QED
    BY <1>2, <2>1, WFMin
<1>4. x # 0 /\ x - 1 \in Nat /\ x - 1 < x
  OBVIOUS
<1>5. x - 1 \notin T
  BY <1>1, <1>3, <1>4
<1> QED
  BY <1>4, <1>5

Any(s) == CHOOSE x \in s : TRUE

\* g adds up f over every subset of S.
AddsUp(g, f, S) ==
    g = [s \in SUBSET S |-> IF s = {} THEN 0 ELSE f[Any(s)] + g[s \ {Any(s)}]]

\* As MapThenSumSet has it.
SumOf(f, S) == (CHOOSE g : AddsUp(g, f, S))[S]

\* A set with one element less.
LEMMA OneLess ==
    ASSUME NEW S, IsFiniteSet(S), NEW x \in S
    PROVE  /\ IsFiniteSet(S \ {x}) /\ Cardinality(S \ {x}) \in Nat
           /\ Cardinality(S) = Cardinality(S \ {x}) + 1
<1>1. Cardinality(S) \in Nat /\ IsFiniteSet(S \ {x}) /\ Cardinality(S \ {x}) = Cardinality(S) - 1
  BY FS_CardinalityType, FS_RemoveElement
<1>2. Cardinality(S \ {x}) \in Nat
  BY <1>1, FS_CardinalityType
<1> QED
  BY <1>1, <1>2

\* There is such a g: it can be built up by the size of the subsets.
LEMMA SomethingAddsUp ==
    ASSUME NEW S, IsFiniteSet(S), NEW f
    PROVE  \E g : AddsUp(g, f, S)
<1> DEFINE Value(g, s) == IF s = {} THEN 0 ELSE f[Any(s)] + g[s \ {Any(s)}]
           UpTo(g, n) == /\ g = [s \in SUBSET S |-> g[s]]
                         /\ \A s \in SUBSET S : Cardinality(s) <= n => g[s] = Value(g, s)
           Q == {n \in Nat : \E g : UpTo(g, n)}
<1>1. \A s \in SUBSET S : IsFiniteSet(s) /\ Cardinality(s) \in Nat /\ (Cardinality(s) = 0 <=> s = {})
  BY FS_Subset, FS_CardinalityType, FS_EmptySet
<1>2. 0 \in Q
  <2>1. UpTo([s \in SUBSET S |-> 0], 0)
    BY <1>1
  <2> QED
    BY <2>1
<1>3. ASSUME NEW n \in Nat, n \in Q PROVE n + 1 \in Q
  <2>1. PICK g : UpTo(g, n)
    BY <1>3
  <2> DEFINE h == [s \in SUBSET S |-> IF Cardinality(s) = n + 1 THEN Value(g, s) ELSE g[s]]
  <2>2. \A s \in SUBSET S : h[s] = IF Cardinality(s) = n + 1 THEN Value(g, s) ELSE g[s]
    OBVIOUS
  <2>3. h = [s \in SUBSET S |-> h[s]]
    OBVIOUS
  <2>4. \A s \in SUBSET S : Cardinality(s) <= n => g[s] = Value(g, s)
    BY <2>1
  <2> HIDE DEF h
  <2>5. ASSUME NEW s \in SUBSET S, Cardinality(s) <= n + 1 PROVE h[s] = Value(h, s)
    <3>1. h[s] = Value(g, s)
      <4> HIDE DEF Value
      <4> QED
        BY <1>1, <2>2, <2>4, <2>5
    <3>2. ASSUME s # {} PROVE h[s \ {Any(s)}] = g[s \ {Any(s)}]
      <4>1. Any(s) \in s
        BY <3>2 DEF Any
      <4>2. s \ {Any(s)} \in SUBSET S /\ Cardinality(s \ {Any(s)}) # n + 1
        BY <1>1, <2>5, <4>1, OneLess
      <4> QED
        BY <2>2, <4>2
    <3> QED
      BY <3>1, <3>2
  <2>6. UpTo(h, n + 1)
    <3> HIDE DEF Value
    <3> QED
      BY <2>3, <2>5
  <2> QED
    <3> HIDE DEF UpTo
    <3> QED
      BY <2>6
<1>4. Cardinality(S) \in Q
  <2> HIDE DEF Q
  <2> QED
    BY <1>1, <1>2, <1>3, NatSetInduction
<1>5. PICK g : UpTo(g, Cardinality(S))
  BY <1>4
<1>6. \A s \in SUBSET S : Cardinality(s) <= Cardinality(S)
  BY FS_Subset
<1> QED
  BY <1>5, <1>6 DEF AddsUp

\* What is added up over a set depends on the values in the set only.
LEMMA SumsAgree ==
    ASSUME NEW S, NEW f, NEW g, AddsUp(g, f, S),
           NEW R, NEW e, NEW h, AddsUp(h, e, R),
           NEW T \in SUBSET (S \cap R), IsFiniteSet(T), \A x \in T : f[x] = e[x]
    PROVE  g[T] = h[T]
<1> DEFINE Q == {n \in Nat : \A s \in SUBSET T : Cardinality(s) = n => g[s] = h[s]}
<1>1. \A s \in SUBSET T : IsFiniteSet(s) /\ Cardinality(s) \in Nat /\ (Cardinality(s) = 0 <=> s = {})
  BY FS_Subset, FS_CardinalityType, FS_EmptySet
<1>2. 0 \in Q
  BY <1>1 DEF AddsUp
<1>3. ASSUME NEW n \in Nat, n \in Q PROVE n + 1 \in Q
  <2> SUFFICES ASSUME NEW s \in SUBSET T, Cardinality(s) = n + 1 PROVE g[s] = h[s]
    OBVIOUS
  <2>1. Any(s) \in s
    BY <1>1 DEF Any
  <2>2. s \ {Any(s)} \in SUBSET T /\ Cardinality(s \ {Any(s)}) = n
    BY <1>1, <2>1, OneLess
  <2>3. g[s \ {Any(s)}] = h[s \ {Any(s)}]
    BY <1>3, <2>2
  <2>4. g[s] = f[Any(s)] + g[s \ {Any(s)}] /\ h[s] = e[Any(s)] + h[s \ {Any(s)}]
    BY <2>1 DEF AddsUp
  <2> QED
    BY <2>1, <2>3, <2>4
<1>4. Cardinality(T) \in Q
  <2> HIDE DEF Q
  <2> QED
    BY <1>1, <1>2, <1>3, NatSetInduction
<1> QED
  BY <1>4

\* The order in which the elements are chosen does not matter.
LEMMA SumsSplit ==
    ASSUME NEW S, IsFiniteSet(S), NEW f, \A x \in S : f[x] \in Int, NEW g, AddsUp(g, f, S)
    PROVE  \A s \in SUBSET S : g[s] \in Int /\ \A x \in s : g[s] = f[x] + g[s \ {x}]
<1> DEFINE Good(s) == g[s] \in Int /\ \A x \in s : g[s] = f[x] + g[s \ {x}]
           Q == {n \in Nat : \A s \in SUBSET S : Cardinality(s) <= n => Good(s)}
<1>1. \A s \in SUBSET S : IsFiniteSet(s) /\ Cardinality(s) \in Nat /\ (Cardinality(s) = 0 <=> s = {})
  BY FS_Subset, FS_CardinalityType, FS_EmptySet
<1>2. 0 \in Q
  BY <1>1 DEF AddsUp
<1>3. ASSUME NEW n \in Nat, n \in Q PROVE n + 1 \in Q
  <2>0. \A s \in SUBSET S : Cardinality(s) <= n => Good(s)
    BY <1>3
  <2>1. ASSUME NEW s \in SUBSET S, Cardinality(s) = n + 1 PROVE Good(s)
    <3> DEFINE a == Any(s)
    <3>1. a \in s
      BY <1>1, <2>1 DEF Any
    <3>2. g[s] = f[a] + g[s \ {a}]
      BY <3>1 DEF AddsUp
    <3> HIDE DEF a
    <3>3. ASSUME NEW x \in s
          PROVE  s \ {x} \in SUBSET S /\ Cardinality(s \ {x}) <= n /\ f[x] \in Int
      BY <1>1, <2>1, OneLess
    <3>4. \A x \in s : Good(s \ {x})
      <4> HIDE DEF Good
      <4> QED
        BY <2>0, <3>3
    <3>5. g[s] \in Int
      <4>1. Good(s \ {a})
        <5> HIDE DEF Good
        <5> QED
          BY <3>1, <3>4
      <4>2. f[a] \in Int /\ g[s \ {a}] \in Int
        BY <3>1, <3>3, <4>1
      <4> QED
        BY <3>2, <4>2
    <3>6. ASSUME NEW x \in s, x # a PROVE g[s] = f[x] + g[s \ {x}]
      <4> DEFINE rest == (s \ {a}) \ {x}
      <4>1. g[s \ {a}] = f[x] + g[rest] /\ g[s \ {x}] = f[a] + g[(s \ {x}) \ {a}]
        BY <3>1, <3>4, <3>6
      <4>2. (s \ {x}) \ {a} = rest /\ rest \in SUBSET S
        OBVIOUS
      <4>3. Cardinality(rest) <= n
        <5>1. Cardinality(rest) \in Nat /\ Cardinality(s \ {a}) = Cardinality(rest) + 1
          <6>1. x \in s \ {a} /\ IsFiniteSet(s \ {a})
            BY <1>1, <3>1, <3>3, <3>6
          <6> QED
            BY <6>1, OneLess
        <5>2. IsFiniteSet(s) /\ Cardinality(s \ {a}) = n
          BY <1>1, <2>1, <3>1, OneLess
        <5> HIDE DEF rest
        <5> QED
          BY <5>1, <5>2
      <4> HIDE DEF rest
      <4>4. g[rest] \in Int
        BY <2>0, <4>2, <4>3
      <4>5. f[a] \in Int /\ f[x] \in Int
        BY <3>1, <3>3
      <4>6. g[s \ {x}] = f[a] + g[rest]
        BY <4>1, <4>2
      <4> QED
        BY <3>2, <4>1, <4>4, <4>5, <4>6
    <3> QED
      BY <3>2, <3>5, <3>6
  <2>2. \A s \in SUBSET S : Cardinality(s) <= n + 1 => Good(s)
    <3> HIDE DEF Good
    <3> QED
      BY <1>1, <2>0, <2>1
  <2> QED
    <3> HIDE DEF Good
    <3> QED
      BY <2>2
<1>4. Cardinality(S) \in Q
  <2> HIDE DEF Q
  <2> QED
    BY <1>1, <1>2, <1>3, NatSetInduction
<1>5. \A s \in SUBSET S : Cardinality(s) <= Cardinality(S)
  BY FS_Subset
<1> QED
  BY <1>4, <1>5

\* What MapThenSumSet chooses does add up, because something does.
LEMMA SumAddsUp ==
    ASSUME NEW S, IsFiniteSet(S), NEW f
    PROVE  \E g : AddsUp(g, f, S) /\ SumOf(f, S) = g[S]
BY SomethingAddsUp DEF SumOf

\* A sum over no element.
LEMMA SumEmpty == \A f : SumOf(f, {}) = 0
<1>1. IsFiniteSet({})
  BY FS_EmptySet
<1> QED
  BY <1>1, SumAddsUp DEF AddsUp

\* A sum stays in any set that adding a term does not leave.
LEMMA SumInside ==
    ASSUME NEW S, IsFiniteSet(S), NEW f, NEW V, 0 \in V, \A x \in S, v \in V : f[x] + v \in V
    PROVE  SumOf(f, S) \in V
<1>1. PICK g : AddsUp(g, f, S) /\ SumOf(f, S) = g[S]
  BY SumAddsUp
<1>2. \A s \in SUBSET S : IsFiniteSet(s) /\ Cardinality(s) \in Nat /\ (Cardinality(s) = 0 <=> s = {})
  BY FS_Subset, FS_CardinalityType, FS_EmptySet
<1> DEFINE Q == {n \in Nat : \A s \in SUBSET S : Cardinality(s) = n => g[s] \in V}
<1>3. 0 \in Q
  BY <1>1, <1>2 DEF AddsUp
<1>4. ASSUME NEW n \in Nat, n \in Q PROVE n + 1 \in Q
  <2> SUFFICES ASSUME NEW s \in SUBSET S, Cardinality(s) = n + 1 PROVE g[s] \in V
    OBVIOUS
  <2>1. Any(s) \in s
    BY <1>2 DEF Any
  <2>2. s \ {Any(s)} \in SUBSET S /\ Cardinality(s \ {Any(s)}) = n
    BY <1>2, <2>1, OneLess
  <2>3. g[s \ {Any(s)}] \in V
    BY <1>4, <2>2
  <2>4. g[s] = f[Any(s)] + g[s \ {Any(s)}]
    BY <1>1, <2>1 DEF AddsUp
  <2> QED
    BY <2>1, <2>3, <2>4
<1>5. Cardinality(S) \in Q
  <2> HIDE DEF Q
  <2> QED
    BY <1>2, <1>3, <1>4, NatSetInduction
<1> QED
  BY <1>1, <1>5

\* A sum of numbers is a number.
LEMMA SumType ==
    ASSUME NEW S, IsFiniteSet(S), NEW f, \A x \in S : f[x] \in Int
    PROVE  SumOf(f, S) \in Int
<1>1. \A x \in S, v \in Int : f[x] + v \in Int
  OBVIOUS
<1> QED
  BY <1>1, SumInside

\* And of natural numbers, a natural number.
LEMMA SumNat ==
    ASSUME NEW S, IsFiniteSet(S), NEW f, \A x \in S : f[x] \in Nat
    PROVE  SumOf(f, S) \in Nat
<1>1. \A x \in S, v \in Nat : f[x] + v \in Nat
  OBVIOUS
<1> QED
  BY <1>1, SumInside

\* Zeros add up to zero.
LEMMA SumZero ==
    ASSUME NEW S, IsFiniteSet(S), NEW f, \A x \in S : f[x] = 0
    PROVE  SumOf(f, S) = 0
<1>1. \A x \in S, v \in {0} : f[x] + v \in {0}
  OBVIOUS
<1>2. SumOf(f, S) \in {0}
  BY <1>1, SumInside
<1> QED
  BY <1>2

\* Equal terms make equal sums.
LEMMA SumSame ==
    ASSUME NEW S, IsFiniteSet(S), NEW f, NEW e, \A x \in S : f[x] = e[x]
    PROVE  SumOf(f, S) = SumOf(e, S)
<1>1. PICK g : AddsUp(g, f, S) /\ SumOf(f, S) = g[S]
  BY SumAddsUp
<1>2. PICK h : AddsUp(h, e, S) /\ SumOf(e, S) = h[S]
  BY SumAddsUp
<1> QED
  BY <1>1, <1>2, SumsAgree

\* One term more.
LEMMA SumAdd ==
    ASSUME NEW S, IsFiniteSet(S), NEW z, z \notin S, NEW f, \A x \in S \cup {z} : f[x] \in Int
    PROVE  SumOf(f, S \cup {z}) = SumOf(f, S) + f[z]
<1> DEFINE R == S \cup {z}
<1>1. IsFiniteSet(R) /\ R \ {z} = S /\ z \in R /\ S \in SUBSET R
  BY FS_AddElement
<1>2. PICK g : AddsUp(g, f, S) /\ SumOf(f, S) = g[S]
  BY SumAddsUp
<1>3. PICK h : AddsUp(h, f, R) /\ SumOf(f, R) = h[R]
  BY <1>1, SumAddsUp
<1> HIDE DEF R
<1>4. h[R] = f[z] + h[S]
  <2>1. \A x \in R : f[x] \in Int
    BY DEF R
  <2> QED
    BY <1>1, <1>3, <2>1, SumsSplit
<1>5. g[S] = h[S] /\ g[S] \in Int
  <2>1. g[S] = h[S]
    BY <1>1, <1>2, <1>3, SumsAgree
  <2>2. \A x \in S : f[x] \in Int
    OBVIOUS
  <2> QED
    BY <1>2, <2>1, <2>2, SumsSplit
<1> QED
  BY <1>1, <1>2, <1>3, <1>4, <1>5 DEF R

\* One term changed.
LEMMA SumMoved ==
    ASSUME NEW S, IsFiniteSet(S), NEW z \in S, NEW f, NEW e, \A x \in S : f[x] \in Int /\ e[x] \in Int,
           \A x \in S \ {z} : e[x] = f[x]
    PROVE  SumOf(e, S) = (SumOf(f, S) - f[z]) + e[z]
<1> DEFINE R == S \ {z}
<1>1. IsFiniteSet(R) /\ z \notin R /\ R \cup {z} = S
  BY FS_RemoveElement
<1>2. SumOf(f, R) = SumOf(e, R) /\ SumOf(f, R) \in Int
  BY <1>1, SumSame, SumType
<1>3. SumOf(f, S) = SumOf(f, R) + f[z] /\ SumOf(e, S) = SumOf(e, R) + e[z]
  <2>1. \A x \in R \cup {z} : f[x] \in Int /\ e[x] \in Int
    OBVIOUS
  <2> HIDE DEF R
  <2>2. SumOf(f, R \cup {z}) = SumOf(f, R) + f[z]
    BY <1>1, <2>1, SumAdd
  <2>3. SumOf(e, R \cup {z}) = SumOf(e, R) + e[z]
    BY <1>1, <2>1, SumAdd
  <2> QED
    BY <1>1, <2>2, <2>3
<1>4. f[z] \in Int /\ e[z] \in Int
  OBVIOUS
<1> HIDE DEF R
<1> QED
  BY <1>2, <1>3, <1>4
=============================================================================
