--------------------------- MODULE InductionLemmas ---------------------------
(***************************************************************************)
(* Induction stated with sets in place of predicates, which the provers    *)
(* can apply: over the naturals (a least member) and over the subsets of a *)
(* finite set, which follow from the library's well-founded orders, and    *)
(* over the sequences, by Append.  Then sums over finite sets, which are   *)
(* recursive: that they exist, do not depend on the order, what an element *)
(* adds, and how they compare.                                             *)
(***************************************************************************)
EXTENDS Integers, Sequences, Functions, FiniteSetTheorems, WellFoundedInduction, TLAPS

LEMMA LessIsWellFounded == IsWellFoundedOn({p \in Nat \X Nat : p[1] < p[2]}, Nat)
  BY NatLessThanWellFounded DEF OpToRel

\* A set of naturals that is not empty has a least member.
LEMMA LeastNatural ==
  ASSUME NEW T \in SUBSET Nat, T # {}
  PROVE  \E x \in T : \A y \in T : x <= y
<1>1. PICK x \in T : \A y \in T : ~(<<y, x>> \in {p \in Nat \X Nat : p[1] < p[2]})
  BY LessIsWellFounded, WFMin
<1>2. \A y \in T : ~(y < x)
  BY <1>1
<1> QED
  BY <1>2

\* A set of naturals with 0 and with the successor of each member has them all.
LEMMA NaturalsBySuccessor ==
  ASSUME NEW T \in SUBSET Nat, 0 \in T, \A n \in T : n + 1 \in T
  PROVE  T = Nat
<1> SUFFICES ASSUME Nat \ T # {} PROVE FALSE
  OBVIOUS
<1>1. PICK x \in Nat \ T : \A y \in Nat \ T : x <= y
  BY LeastNatural
<1>2. x - 1 \in T
  BY <1>1
<1> QED
  BY <1>1, <1>2

\* What holds of the empty sequence, and of a sequence with one more element whenever
\* it holds of the sequence, holds of every sequence.
LEMMA SequencesByAppend ==
  ASSUME NEW L, NEW G, <<>> \in G,
         \A s \in Seq(L) : s \in G => \A x \in L : Append(s, x) \in G
  PROVE  \A s \in Seq(L) : s \in G
<1> DEFINE T == {n \in Nat : \A s \in Seq(L) : Len(s) = n => s \in G}
<1>1. 0 \in T
  <2>1. \A s \in Seq(L) : Len(s) = 0 => s = <<>>
    OBVIOUS
  <2> QED
    BY <2>1
<1>2. ASSUME NEW n \in T PROVE n + 1 \in T
  <2> SUFFICES ASSUME NEW s \in Seq(L), Len(s) = n + 1 PROVE s \in G
    OBVIOUS
  <2> DEFINE t == SubSeq(s, 1, n)
  <2>0. n \in Nat
    OBVIOUS
  <2>1. t \in Seq(L) /\ Len(t) = n /\ s[n + 1] \in L
    BY <2>0
  <2>2. s = Append(t, s[n + 1])
    BY <2>0, <2>1
  <2>3. t \in G
    BY <2>1
  <2> QED
    BY <2>1, <2>2, <2>3
<1>3. T = Nat
  <2> HIDE DEF T
  <2>1. T \in SUBSET Nat
    BY DEF T
  <2> QED
    BY <1>1, <1>2, <2>1, NaturalsBySuccessor
<1> QED
  <2> TAKE s \in Seq(L)
  <2>1. Len(s) \in T
    BY <1>3
  <2> QED
    BY <2>1

\* What holds of a set when it holds of all its proper subsets holds of a finite set.
LEMMA SubsetsInduction ==
  ASSUME NEW S, IsFiniteSet(S), NEW G,
         \A T \in SUBSET S : (\A U \in SUBSET T : U # T => U \in G) => T \in G
  PROVE  \A T \in SUBSET S : T \in G
<1> SUFFICES ASSUME ~(SUBSET S \subseteq G) PROVE FALSE
  OBVIOUS
<1> DEFINE B == (SUBSET S) \ G
<1>1. B \subseteq FiniteSubsetsOf(S)
  BY FS_FiniteSubsetsOfFinite
<1>2. PICK T \in B : \A U \in B : ~(<<U, T>> \in StrictSubsetOrdering(S))
  <2> HIDE DEF B
  <2>1. B # {}
    BY DEF B
  <2> QED
    BY <1>1, <2>1, FS_StrictSubsetOrderingWellFounded, WFMin
<1>3. \A U \in SUBSET T : U # T => U \in G
  BY <1>2 DEF StrictSubsetOrdering
<1> QED
  BY <1>2, <1>3

-----------------------------------------------------------------------------
\* SumFunctionOnSet
\* f adds up l over every subset of S, one chosen element after the other.
Adds(f, l, S) == f = [s \in SUBSET S |-> IF s = {} THEN 0
                                         ELSE LET x == CHOOSE x \in s : TRUE IN l[x] + f[s \ {x}]]

Chosen(s) == CHOOSE x \in s : TRUE

LEMMA SumByAdding ==
  ASSUME NEW l, NEW S
  PROVE  SumFunctionOnSet(l, S) = (CHOOSE f : Adds(f, l, S))[S]
  BY DEF SumFunctionOnSet, FoldFunctionOnSet, MapThenFoldSet, Adds

LEMMA AddsOne ==
  ASSUME NEW l, NEW S, NEW f, Adds(f, l, S)
  PROVE  /\ f[{}] = 0
         /\ \A s \in SUBSET S : s # {} => Chosen(s) \in s /\ f[s] = l[Chosen(s)] + f[s \ {Chosen(s)}]
<1>2. \A s \in SUBSET S : f[s] = IF s = {} THEN 0 ELSE l[Chosen(s)] + f[s \ {Chosen(s)}]
  BY Zenon DEF Adds, Chosen
<1>3. \A s : s # {} => Chosen(s) \in s
  BY DEF Chosen
<1> QED
  BY <1>2, <1>3

LEMMA AddsEach ==
  \A l, S, f : Adds(f, l, S) => \A s \in SUBSET S : s # {} => f[s] = l[Chosen(s)] + f[s \ {Chosen(s)}]
<1> SUFFICES ASSUME NEW l, NEW S, NEW f, Adds(f, l, S), NEW s \in SUBSET S, s # {}
             PROVE  f[s] = l[Chosen(s)] + f[s \ {Chosen(s)}]
  OBVIOUS
<1> QED
  BY AddsOne

LEMMA AddsFunction ==
  ASSUME NEW l, NEW S, NEW f, Adds(f, l, S)
  PROVE  f = [s \in SUBSET S |-> f[s]]
  BY Zenon DEF Adds

LEMMA AddsIs ==
  ASSUME NEW l, NEW S, NEW f, f = [s \in SUBSET S |-> f[s]], f[{}] = 0,
         \A s \in SUBSET S : s # {} => f[s] = l[Chosen(s)] + f[s \ {Chosen(s)}]
  PROVE  Adds(f, l, S)
<1>1. \A s \in SUBSET S : f[s] = IF s = {} THEN 0 ELSE l[Chosen(s)] + f[s \ {Chosen(s)}]
  OBVIOUS
<1> QED
  BY <1>1, Zenon DEF Adds, Chosen

LEMMA AddsUnique ==
  ASSUME NEW l, NEW S, IsFiniteSet(S), NEW f, NEW g, Adds(f, l, S), Adds(g, l, S)
  PROVE  f = g
<1> DEFINE G == {s \in SUBSET S : f[s] = g[s]}
<1>1. ASSUME NEW T \in SUBSET S, \A U \in SUBSET T : U # T => U \in G PROVE T \in G
  <2>1. CASE T = {}
    BY <2>1, AddsOne
  <2>2. CASE T # {}
    <3>1. Chosen(T) \in T
      BY <2>2 DEF Chosen
    <3>2. T \ {Chosen(T)} \in G
      BY <1>1, <3>1
    <3> QED
      BY <2>2, <3>2, AddsOne
  <2> QED
    BY <2>1, <2>2
<1>2. \A T \in SUBSET S : T \in G
  <2> HIDE DEF G
  <2> QED
    BY <1>1, SubsetsInduction
<1>3. f = [s \in SUBSET S |-> f[s]] /\ g = [s \in SUBSET S |-> g[s]]
  BY AddsFunction
<1> QED
  BY <1>2, <1>3, Zenon

LEMMA AddsSubset ==
  ASSUME NEW l, NEW S, NEW f, Adds(f, l, S), NEW T \in SUBSET S
  PROVE  Adds([s \in SUBSET T |-> f[s]], l, T)
<1> DEFINE h == [s \in SUBSET T |-> f[s]]
<1>1. \A s \in SUBSET T : h[s] = f[s]
  OBVIOUS
<1>2. h = [s \in SUBSET T |-> h[s]] /\ h[{}] = 0
  BY <1>1, AddsOne
<1>3. \A s \in SUBSET T : s # {} => h[s] = l[Chosen(s)] + h[s \ {Chosen(s)}]
  BY <1>1, AddsOne
<1> HIDE DEF h
<1>4. Adds(h, l, T)
  BY <1>2, <1>3, AddsIs
<1> QED
  BY <1>4 DEF h

\* There is such a function on every finite set: put together from those on its subsets.
LEMMA AddsExists ==
  ASSUME NEW l, NEW S, IsFiniteSet(S)
  PROVE  \E f : Adds(f, l, S)
<1> DEFINE The(s) == CHOOSE f : Adds(f, l, s)
           G == {s \in SUBSET S : \E f : Adds(f, l, s)}
<1>1. ASSUME NEW T \in SUBSET S, \A U \in SUBSET T : U # T => U \in G PROVE T \in G
  <2> DEFINE h == [s \in SUBSET T |-> IF s = {} THEN 0
                                     ELSE IF s = T THEN l[Chosen(T)] + The(T \ {Chosen(T)})[T \ {Chosen(T)}]
                                     ELSE The(s)[s]]
  <2>1. \A s \in SUBSET T : s # T => Adds(The(s), l, s)
    BY <1>1, Zenon
  <2>2. \A s \in SUBSET T : s # T => h[s] = The(s)[s]
    <3>1. {} # T => The({})[{}] = 0
      BY <2>1, AddsOne
    <3> HIDE DEF The
    <3> QED
      BY <3>1
  <2>3. \A s, u \in SUBSET T : s # T /\ u \subseteq s => The(s)[u] = The(u)[u]
    <3> SUFFICES ASSUME NEW s \in SUBSET T, NEW u \in SUBSET T, s # T, u \subseteq s PROVE The(s)[u] = The(u)[u]
      OBVIOUS
    <3>1. Adds([v \in SUBSET u |-> The(s)[v]], l, u)
      <4>1. Adds(The(s), l, s) /\ u \in SUBSET s
        BY <2>1
      <4> HIDE DEF The
      <4> QED
        BY <4>1, AddsSubset
    <3>2. Adds(The(u), l, u)
      BY <2>1
    <3>3. IsFiniteSet(u)
      BY FS_Subset
    <3>4. [v \in SUBSET u |-> The(s)[v]] = The(u)
      <4> HIDE DEF The
      <4> QED
        BY <3>1, <3>2, <3>3, AddsUnique
    <3>5. [v \in SUBSET u |-> The(s)[v]][u] = The(s)[u]
      <4> HIDE DEF The
      <4> QED
        OBVIOUS
    <3> QED
      BY <3>4, <3>5, Zenon
  <2>4. h = [s \in SUBSET T |-> h[s]] /\ h[{}] = 0
    <3> HIDE DEF The
    <3> QED
      OBVIOUS
  <2>5. ASSUME NEW s \in SUBSET T, s # {} PROVE h[s] = l[Chosen(s)] + h[s \ {Chosen(s)}]
    <3>1. Chosen(s) \in s
      BY <2>5 DEF Chosen
    <3>2. h[s \ {Chosen(s)}] = The(s \ {Chosen(s)})[s \ {Chosen(s)}]
      <4>1. s \ {Chosen(s)} \in SUBSET T /\ s \ {Chosen(s)} # T
        BY <3>1
      <4> HIDE DEF h, The
      <4> QED
        BY <2>2, <4>1
    <3>3. CASE s = T
      <4>1. h[T] = l[Chosen(T)] + The(T \ {Chosen(T)})[T \ {Chosen(T)}]
        <5> HIDE DEF The
        <5> QED
          BY <2>5, <3>3
      <4> HIDE DEF h, The
      <4> QED
        BY <3>2, <3>3, <4>1
    <3>4. CASE s # T
      <4>1. h[s] = The(s)[s] /\ Adds(The(s), l, s)
        <5> HIDE DEF h, The
        <5> QED
          BY <2>1, <2>2, <3>4
      <4>2. The(s)[s] = l[Chosen(s)] + The(s)[s \ {Chosen(s)}]
        <5> HIDE DEF h, The
        <5>1. Adds(The(s), l, s)
          BY <4>1
        <5>2. s \in SUBSET s
          OBVIOUS
        <5> QED
          BY <2>5, <5>1, <5>2, AddsEach
      <4>3. The(s)[s \ {Chosen(s)}] = The(s \ {Chosen(s)})[s \ {Chosen(s)}]
        <5> HIDE DEF h, The
        <5> QED
          BY <2>3, <3>4
      <4> HIDE DEF h, The
      <4> QED
        BY <3>2, <4>1, <4>2, <4>3
    <3> QED
      BY <3>3, <3>4
  <2> HIDE DEF h, The
  <2>6. Adds(h, l, T)
    BY <2>4, <2>5, AddsIs
  <2> QED
    BY <2>6
<1>2. \A T \in SUBSET S : T \in G
  <2> HIDE DEF G
  <2> QED
    BY <1>1, SubsetsInduction
<1> QED
  BY <1>2

LEMMA SumOne ==
  ASSUME NEW l, NEW S, IsFiniteSet(S)
  PROVE  /\ SumFunctionOnSet(l, {}) = 0
         /\ S # {} => /\ Chosen(S) \in S
                      /\ SumFunctionOnSet(l, S) = l[Chosen(S)] + SumFunctionOnSet(l, S \ {Chosen(S)})
<1> DEFINE The(s) == CHOOSE f : Adds(f, l, s)
<1>1. \A s : IsFiniteSet(s) => Adds(The(s), l, s)
  BY AddsExists, Zenon
<1>2. \A s : SumFunctionOnSet(l, s) = The(s)[s]
  BY SumByAdding
<1>3. SumFunctionOnSet(l, {}) = 0
  <2>1. Adds(The({}), l, {})
    BY <1>1, FS_EmptySet
  <2> HIDE DEF The
  <2> QED
    BY <1>2, <2>1, AddsOne
<1>4. ASSUME S # {} PROVE /\ Chosen(S) \in S
                          /\ SumFunctionOnSet(l, S) = l[Chosen(S)] + SumFunctionOnSet(l, S \ {Chosen(S)})
  <2> DEFINE U == S \ {Chosen(S)}
  <2>1. IsFiniteSet(U) /\ U \in SUBSET S
    BY FS_Subset
  <2> HIDE DEF The
  <2>2. Chosen(S) \in S /\ The(S)[S] = l[Chosen(S)] + The(S)[U]
    BY <1>1, <1>4, AddsOne
  <2>3. [v \in SUBSET U |-> The(S)[v]] = The(U)
    <3>1. Adds([v \in SUBSET U |-> The(S)[v]], l, U) /\ Adds(The(U), l, U)
      <4> HIDE DEF U
      <4> QED
        BY <1>1, <2>1, AddsSubset
    <3> HIDE DEF U
    <3> QED
      BY <2>1, <3>1, AddsUnique
  <2>4. The(S)[U] = The(U)[U]
    <3> HIDE DEF U
    <3>1. [v \in SUBSET U |-> The(S)[v]][U] = The(S)[U]
      OBVIOUS
    <3> QED
      BY <2>3, <3>1, Zenon
  <2> QED
    BY <1>2, <2>2, <2>4
<1> QED
  BY <1>3, <1>4

\* A sum of naturals is a natural.
LEMMA SumType ==
  ASSUME NEW D, NEW l \in [D -> Nat], IsFiniteSet(D)
  PROVE  \A S \in SUBSET D : SumFunctionOnSet(l, S) \in Nat
<1> DEFINE G == {s \in SUBSET D : SumFunctionOnSet(l, s) \in Nat}
<1>1. ASSUME NEW T \in SUBSET D, \A U \in SUBSET T : U # T => U \in G PROVE T \in G
  <2>1. IsFiniteSet(T)
    BY FS_Subset
  <2>2. CASE T # {}
    <3>1. Chosen(T) \in T /\ SumFunctionOnSet(l, T) = l[Chosen(T)] + SumFunctionOnSet(l, T \ {Chosen(T)})
      BY <2>1, <2>2, SumOne
    <3>2. SumFunctionOnSet(l, T \ {Chosen(T)}) \in Nat
      BY <1>1, <3>1
    <3> QED
      BY <3>1, <3>2
  <2>3. CASE T = {}
    <3>1. SumFunctionOnSet(l, {}) = 0
      BY SumOne
    <3>2. SumFunctionOnSet(l, T) = 0
      BY <2>3, <3>1, Zenon
    <3> QED
      BY <3>2
  <2> QED
    BY <2>2, <2>3
<1> HIDE DEF G
<1>2. \A T \in SUBSET D : T \in G
  BY <1>1, SubsetsInduction
<1> QED
  BY <1>2 DEF G

\* Whichever element is taken away last, the sum is the same.
LEMMA SumRemove ==
  ASSUME NEW D, NEW l \in [D -> Nat], IsFiniteSet(D)
  PROVE  \A S \in SUBSET D : \A i \in S : SumFunctionOnSet(l, S) = l[i] + SumFunctionOnSet(l, S \ {i})
<1> DEFINE Rest(s, i) == SumFunctionOnSet(l, s) = l[i] + SumFunctionOnSet(l, s \ {i})
           G == {s \in SUBSET D : \A i \in s : Rest(s, i)}
<1>1. ASSUME NEW T \in SUBSET D, \A U \in SUBSET T : U # T => U \in G PROVE T \in G
  <2> SUFFICES ASSUME NEW i \in T PROVE Rest(T, i)
    OBVIOUS
  <2> DEFINE x == Chosen(T)
  <2>1. IsFiniteSet(T)
    BY FS_Subset
  <2>2. x \in T /\ Rest(T, x)
    BY <2>1, SumOne
  <2>3. CASE i # x
    <3>1. Rest(T \ {x}, i)
      BY <1>1, <2>2, <2>3
    <3>2. Rest(T \ {i}, x)
      BY <1>1, <2>2, <2>3
    <3>3. (T \ {x}) \ {i} = (T \ {i}) \ {x}
      OBVIOUS
    <3>4. l[i] \in Nat /\ l[x] \in Nat /\ SumFunctionOnSet(l, (T \ {x}) \ {i}) \in Nat
      BY <2>2, SumType
    <3> DEFINE a == SumFunctionOnSet(l, T)
               b == SumFunctionOnSet(l, T \ {x})
               c == SumFunctionOnSet(l, T \ {i})
               d == SumFunctionOnSet(l, (T \ {x}) \ {i})
    <3>5. a = l[x] + b /\ b = l[i] + d
      BY <2>2, <3>1, Zenon
    <3>6. c = l[x] + d
      BY <3>2, <3>3, Zenon
    <3>7. l[i] \in Nat /\ l[x] \in Nat /\ d \in Nat
      BY <3>4, Zenon
    <3>8. a = l[i] + c
      <4> HIDE DEF x, a, b, c, d
      <4> QED
        BY <3>5, <3>6, <3>7
    <3> QED
      BY <3>8, Zenon
  <2> QED
    BY <2>2, <2>3
<1> HIDE DEF G
<1>2. \A T \in SUBSET D : T \in G
  BY <1>1, SubsetsInduction
<1> QED
  BY <1>2 DEF G

\* What an element adds to a sum, and takes from it.
LEMMA SumTake ==
  ASSUME NEW D, NEW l \in [D -> Nat], IsFiniteSet(D), NEW S \in SUBSET D, NEW i \in S
  PROVE  SumFunctionOnSet(l, S) = l[i] + SumFunctionOnSet(l, S \ {i})
  BY SumRemove

LEMMA SumAdd ==
  ASSUME NEW D, NEW l \in [D -> Nat], IsFiniteSet(D), NEW S \in SUBSET D, NEW i \in D \ S
  PROVE  SumFunctionOnSet(l, S \cup {i}) = SumFunctionOnSet(l, S) + l[i]
<1>1. (S \cup {i}) \ {i} = S /\ S \cup {i} \in SUBSET D
  OBVIOUS
<1>2. SumFunctionOnSet(l, S \cup {i}) = l[i] + SumFunctionOnSet(l, S)
  BY <1>1, SumRemove
<1> QED
  BY <1>2, SumType

\* A sum says nothing of what is not summed.
LEMMA SumSame ==
  ASSUME NEW f, NEW g, NEW S, IsFiniteSet(S), \A x \in S : f[x] = g[x]
  PROVE  SumFunctionOnSet(f, S) = SumFunctionOnSet(g, S)
<1> DEFINE G == {s \in SUBSET S : SumFunctionOnSet(f, s) = SumFunctionOnSet(g, s)}
<1>1. ASSUME NEW T \in SUBSET S, \A U \in SUBSET T : U # T => U \in G PROVE T \in G
  <2>1. IsFiniteSet(T)
    BY FS_Subset
  <2>2. CASE T # {}
    <3>1. /\ Chosen(T) \in T /\ f[Chosen(T)] = g[Chosen(T)]
          /\ SumFunctionOnSet(f, T) = f[Chosen(T)] + SumFunctionOnSet(f, T \ {Chosen(T)})
          /\ SumFunctionOnSet(g, T) = g[Chosen(T)] + SumFunctionOnSet(g, T \ {Chosen(T)})
      BY <2>1, <2>2, SumOne
    <3>2. SumFunctionOnSet(f, T \ {Chosen(T)}) = SumFunctionOnSet(g, T \ {Chosen(T)})
      BY <1>1, <3>1
    <3> QED
      BY <3>1, <3>2
  <2>3. CASE T = {}
    <3>1. SumFunctionOnSet(f, {}) = 0 /\ SumFunctionOnSet(g, {}) = 0
      BY SumOne, FS_EmptySet
    <3>2. SumFunctionOnSet(f, T) = SumFunctionOnSet(g, T)
      BY <2>3, <3>1, Zenon
    <3> QED
      BY <3>2
  <2> QED
    BY <2>2, <2>3
<1> HIDE DEF G
<1>2. \A T \in SUBSET S : T \in G
  BY <1>1, SubsetsInduction
<1> QED
  BY <1>2 DEF G

\* A sum grows with any one of its terms.
LEMMA SumRaise ==
  ASSUME NEW D, NEW f \in [D -> Nat], NEW g \in [D -> Nat], IsFiniteSet(D), NEW S \in SUBSET D,
         NEW i \in S, NEW w \in Nat, g[i] = f[i] + w, \A x \in S \ {i} : g[x] = f[x]
  PROVE  SumFunctionOnSet(g, S) = SumFunctionOnSet(f, S) + w
<1>1. IsFiniteSet(S \ {i})
  BY FS_Subset
<1>2. SumFunctionOnSet(f, S \ {i}) = SumFunctionOnSet(g, S \ {i})
  BY <1>1, SumSame
<1>3. SumFunctionOnSet(f, S) = f[i] + SumFunctionOnSet(f, S \ {i})
  BY SumTake
<1>4. SumFunctionOnSet(g, S) = g[i] + SumFunctionOnSet(g, S \ {i})
  BY SumTake
<1>5. SumFunctionOnSet(f, S \ {i}) \in Nat /\ f[i] \in Nat
  BY SumType
<1> QED
  BY <1>2, <1>3, <1>4, <1>5

\* A sum is no less than the number of its terms times the least.
LEMMA SumAtLeast ==
  ASSUME NEW D, NEW l \in [D -> Nat], IsFiniteSet(D), NEW S \in SUBSET D,
         NEW k \in Nat, \A x \in S : l[x] >= k
  PROVE  SumFunctionOnSet(l, S) >= Cardinality(S) * k
<1> DEFINE G == {s \in SUBSET S : SumFunctionOnSet(l, s) >= Cardinality(s) * k}
<1>1. ASSUME NEW T \in SUBSET S, \A U \in SUBSET T : U # T => U \in G PROVE T \in G
  <2>1. IsFiniteSet(T) /\ T \in SUBSET D
    BY FS_Subset
  <2>2. CASE T # {}
    <3> DEFINE x == Chosen(T)
               n == Cardinality(T \ {x})
               s == SumFunctionOnSet(l, T \ {x})
    <3>1. x \in T /\ SumFunctionOnSet(l, T) = l[x] + s
      BY <2>1, <2>2, SumOne
    <3>2. s >= n * k
      BY <1>1, <3>1
    <3>3. Cardinality(T) = n + 1 /\ n \in Nat
      <4>1. IsFiniteSet(T \ {x}) /\ Cardinality(T \ {x}) = Cardinality(T) - 1
        BY <2>1, <3>1, FS_RemoveElement
      <4>2. Cardinality(T) \in Nat /\ Cardinality(T \ {x}) \in Nat
        BY <2>1, <4>1, FS_CardinalityType
      <4> QED
        BY <4>1, <4>2
    <3>4. s \in Nat /\ l[x] \in Nat /\ l[x] >= k
      BY <3>1, SumType
    <3>5. SumFunctionOnSet(l, T) >= Cardinality(T) * k
      <4> HIDE DEF x, n, s
      <4>1. (n + 1) * k = n * k + k /\ n * k \in Nat
        BY <3>3
      <4> QED
        BY <3>1, <3>2, <3>3, <3>4, <4>1
    <3> QED
      BY <3>5
  <2>3. CASE T = {}
    <3>1. SumFunctionOnSet(l, {}) = 0 /\ Cardinality({}) = 0
      BY SumOne, FS_EmptySet
    <3>2. SumFunctionOnSet(l, T) = 0 /\ Cardinality(T) = 0
      BY <2>3, <3>1, Zenon
    <3> QED
      BY <3>2
  <2> QED
    BY <2>2, <2>3
<1>0. IsFiniteSet(S)
  BY FS_Subset
<1> HIDE DEF G
<1>2. \A T \in SUBSET S : T \in G
  BY <1>0, <1>1, SubsetsInduction
<1> QED
  BY <1>2 DEF G
=============================================================================
