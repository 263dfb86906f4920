------------------------------ MODULE SetLemmas ------------------------------
(***************************************************************************)
(* Facts about the largest element of a set of numbers and about the sum   *)
(* of a function over a finite set, which the proofs about submissions,    *)
(* editions and budgets need. They are shown by well-foundedness of the    *)
(* natural numbers, with the claim as a set: an induction rule takes an    *)
(* operator as its parameter, which the installed provers do not           *)
(* instantiate.                                                            *)
(***************************************************************************)
EXTENDS Integers, FiniteSetsExt, FiniteSetTheorems, WellFoundedInduction, TLAPS

(* A nonempty set of natural numbers has a least element.                  *)
LEMMA LeastElement ==
  ASSUME NEW T \in SUBSET Nat, T # {}
  PROVE  \E k \in T : \A j \in T : k <= j
<1>1. PICK k \in T : \A j \in T : ~(<<j, k>> \in OpToRel(<, Nat))
  BY NatLessThanWellFounded, WFMin
<1>2. ASSUME NEW j \in T PROVE k <= j
  <2>1. ~(j < k)
    BY <1>1 DEF OpToRel
  <2> QED
    BY <2>1
<1> QED
  BY <1>2

(* The largest element of a nonempty set of bounded numbers is one of them *)
(* and bounds the others.                                                  *)
LEMMA MaxOfBounded ==
  ASSUME NEW n \in Nat, NEW S \in SUBSET (0..n), S # {}
  PROVE  Max(S) \in S /\ \A y \in S : y <= Max(S)
<1> DEFINE T == {k \in 0..n : n - k \in S}
<1>1. T \subseteq Nat /\ T # {}
  <2>1. PICK x \in S : TRUE
    OBVIOUS
  <2>2. n - x \in 0..n /\ n - (n - x) = x
    OBVIOUS
  <2>3. n - x \in T
    BY <2>2
  <2>4. T \subseteq Nat
    OBVIOUS
  <2> HIDE DEF T
  <2> QED
    BY <2>3, <2>4
<1>2. PICK k \in T : \A j \in T : k <= j
  <2> HIDE DEF T
  <2> QED
    BY <1>1, LeastElement
<1>3. n - k \in S /\ \A y \in S : n - k >= y
  <2>1. n - k \in S /\ k \in 0..n
    BY <1>2
  <2>2. ASSUME NEW y \in S PROVE n - k >= y
    <3>1. y \in 0..n /\ n - y \in 0..n /\ n - (n - y) = y
      OBVIOUS
    <3>2. n - y \in T
      BY <3>1
    <3> HIDE DEF T
    <3>3. k <= n - y
      BY <3>2, <1>2
    <3> QED
      BY <3>1, <3>3, <2>1
  <2> QED
    BY <2>1, <2>2
<1>4. \E x \in S : \A y \in S : x >= y
  BY <1>3
<1>5. Max(S) \in S /\ \A y \in S : Max(S) >= y
  BY <1>4 DEF Max
<1> QED
  BY <1>5

-----------------------------------------------------------------------------
(* Sums. The element with which the sum over a set begins is some element. *)

Some(s) == CHOOSE x \in s : TRUE

(* A function that sums f over the sets of D, as the library defines it.   *)
Sums(h, f, D) ==
    h = [s \in D |-> IF s = {} THEN 0 ELSE f[Some(s)] + h[s \ {Some(s)}]]

(* What holds of the empty set, and of a set if it holds without some      *)
(* element of it, holds of every finite set.                               *)
LEMMA FiniteSetsHave ==
  ASSUME NEW S, IsFiniteSet(S), NEW P \in SUBSET (SUBSET S), {} \in P,
         \A s \in SUBSET S : s # {} /\ s \ {Some(s)} \in P => s \in P
  PROVE  S \in P
<1> DEFINE T == {n \in Nat : \E s \in SUBSET S : Cardinality(s) = n /\ s \notin P}
<1>1. \A s \in SUBSET S : IsFiniteSet(s) /\ Cardinality(s) \in Nat
  BY FS_Subset, FS_CardinalityType
<1>2. CASE T = {}
  BY <1>1, <1>2
<1>3. CASE T # {}
  <2>1. PICK n \in T : \A j \in T : n <= j
    <3> HIDE DEF T
    <3>1. T \in SUBSET Nat
      BY DEF T
    <3> QED
      BY <3>1, <1>3, LeastElement
  <2>2. PICK s \in SUBSET S : Cardinality(s) = n /\ s \notin P
    BY <2>1
  <2>3. s # {} /\ Some(s) \in s
    BY <2>2 DEF Some
  <2> DEFINE t == s \ {Some(s)}
  <2>4. t \in SUBSET S /\ Cardinality(t) = n - 1
    BY <1>1, <2>2, <2>3, FS_RemoveElement
  <2>5. t \in P
    <3>1. Cardinality(t) \in Nat /\ n \in Nat
      BY <1>1, <2>1, <2>4
    <3>2. Cardinality(t) \notin T
      <4> HIDE DEF t
      <4> QED
        BY <2>1, <2>4, <3>1
    <3> HIDE DEF t
    <3> QED
      BY <2>4, <3>1, <3>2
  <2> QED
    BY <2>2, <2>3, <2>5
<1> QED
  BY <1>2, <1>3

(* The sum over a finite set is defined by its recursion.                  *)
LEMMA SumsExist ==
  ASSUME NEW S, IsFiniteSet(S), NEW f
  PROVE  \E h : Sums(h, f, SUBSET S)
<1> DEFINE Small(n) == {s \in SUBSET S : Cardinality(s) <= n}
           T == {n \in Nat : ~\E h : Sums(h, f, Small(n))}
<1>1. \A s \in SUBSET S : IsFiniteSet(s) /\ Cardinality(s) \in Nat
  BY FS_Subset, FS_CardinalityType
<1>2. T = {}
  <2> SUFFICES ASSUME T # {} PROVE FALSE
    OBVIOUS
  <2>1. PICK n \in T : \A j \in T : n <= j
    <3> HIDE DEF T
    <3>1. T \in SUBSET Nat
      BY DEF T
    <3> QED
      BY <3>1, LeastElement
  <2>2. n \in Nat /\ ~\E h : Sums(h, f, Small(n))
    OBVIOUS
  <2>3. CASE n = 0
    <3> DEFINE h == [s \in Small(0) |-> 0]
    <3>1. \A s \in Small(0) : s = {}
      BY <1>1, FS_EmptySet
    <3>2. Sums(h, f, Small(0))
      BY <3>1 DEF Sums
    <3> QED
      BY <3>2, <2>2, <2>3
  <2>4. CASE n # 0
    <3>1. n - 1 \in Nat /\ n - 1 \notin T
      <4> HIDE DEF T
      <4> QED
        BY <2>1, <2>2, <2>4
    <3>2. PICK h : Sums(h, f, Small(n - 1))
      BY <3>1
    <3> DEFINE g == [s \in Small(n) |-> IF s = {} THEN 0
                                        ELSE f[Some(s)] + h[s \ {Some(s)}]]
    <3>3. ASSUME NEW t \in Small(n - 1) PROVE t \in Small(n) /\ g[t] = h[t]
      <4>1. t \in Small(n)
        BY <1>1, <2>2
      <4>2. h[t] = IF t = {} THEN 0 ELSE f[Some(t)] + h[t \ {Some(t)}]
        <5> HIDE DEF Small
        <5> QED
          BY <3>2 DEF Sums
      <4> QED
        BY <4>1, <4>2
    <3>4. ASSUME NEW s \in Small(n), s # {} PROVE s \ {Some(s)} \in Small(n - 1)
      <4>1. Some(s) \in s
        BY <3>4 DEF Some
      <4>2. Cardinality(s \ {Some(s)}) = Cardinality(s) - 1
        BY <1>1, <4>1, FS_RemoveElement
      <4> QED
        BY <1>1, <2>2, <4>2
    <3>5. Sums(g, f, Small(n))
      <4>1. \A s \in Small(n) : s # {} => g[s \ {Some(s)}] = h[s \ {Some(s)}]
        <5> HIDE DEF g, Small
        <5> QED
          BY <3>3, <3>4
      <4>2. g = [s \in Small(n) |-> IF s = {} THEN 0
                                    ELSE f[Some(s)] + g[s \ {Some(s)}]]
        <5>1. \A s \in Small(n) :
                (IF s = {} THEN 0 ELSE f[Some(s)] + h[s \ {Some(s)}]) =
                (IF s = {} THEN 0 ELSE f[Some(s)] + g[s \ {Some(s)}])
          <6> HIDE DEF g, Small
          <6> QED
            BY <4>1
        <5> HIDE DEF Small
        <5>2. [s \in Small(n) |-> IF s = {} THEN 0 ELSE f[Some(s)] + h[s \ {Some(s)}]] =
              [s \in Small(n) |-> IF s = {} THEN 0 ELSE f[Some(s)] + g[s \ {Some(s)}]]
          <6> HIDE DEF g
          <6> QED
            BY <5>1
        <5> QED
          BY <5>2, Zenon
      <4> HIDE DEF g
      <4> QED
        BY <4>2 DEF Sums
    <3> QED
      BY <3>5, <2>2
  <2> QED
    BY <2>3, <2>4
<1>3. Cardinality(S) \in Nat /\ Small(Cardinality(S)) = SUBSET S
  BY FS_Subset, FS_CardinalityType
<1>4. Cardinality(S) \notin T
  <2> HIDE DEF T
  <2> QED
    BY <1>2
<1> QED
  BY <1>3, <1>4

(* What the library's sum of a function is.                                *)
LEMMA SumUnfolds ==
  ASSUME NEW S, IsFiniteSet(S), NEW f
  PROVE  \E h : /\ Sums(h, f, SUBSET S)
                /\ SumFunctionOnSet(f, S) = h[S]
<1> DEFINE h == CHOOSE h : Sums(h, f, SUBSET S)
<1>1. SumFunctionOnSet(f, S) = h[S]
  BY DEF SumFunctionOnSet, FoldFunctionOnSet, MapThenFoldSet, Sums, Some
<1>2. Sums(h, f, SUBSET S)
  BY SumsExist
<1> QED
  BY <1>1, <1>2

(* The sum of natural numbers is one, and is monotone.                     *)
LEMMA SumCompared ==
  ASSUME NEW S, IsFiniteSet(S), NEW f, NEW g,
         \A x \in S : f[x] \in Nat /\ g[x] \in Nat /\ f[x] <= g[x]
  PROVE  /\ SumFunctionOnSet(f, S) \in Nat /\ SumFunctionOnSet(g, S) \in Nat
         /\ SumFunctionOnSet(f, S) <= SumFunctionOnSet(g, S)
<1>1. PICK h : Sums(h, f, SUBSET S) /\ SumFunctionOnSet(f, S) = h[S]
  BY SumUnfolds
<1>2. PICK k : Sums(k, g, SUBSET S) /\ SumFunctionOnSet(g, S) = k[S]
  BY SumUnfolds
<1>3. \A s \in SUBSET S :
        /\ h[s] = IF s = {} THEN 0 ELSE f[Some(s)] + h[s \ {Some(s)}]
        /\ k[s] = IF s = {} THEN 0 ELSE g[Some(s)] + k[s \ {Some(s)}]
  BY <1>1, <1>2 DEF Sums
<1> DEFINE P == {s \in SUBSET S : h[s] \in Nat /\ k[s] \in Nat /\ h[s] <= k[s]}
<1>4. {} \in P
  <2>1. h[{}] = 0 /\ k[{}] = 0
    BY <1>3
  <2> QED
    BY <2>1
<1>5. ASSUME NEW s \in SUBSET S, s # {}, s \ {Some(s)} \in P PROVE s \in P
  <2>1. Some(s) \in S
    BY <1>5 DEF Some
  <2>2. h[s] = f[Some(s)] + h[s \ {Some(s)}] /\ k[s] = g[Some(s)] + k[s \ {Some(s)}]
    BY <1>3, <1>5
  <2> QED
    BY <2>1, <2>2, <1>5
<1>6. S \in P
  <2> HIDE DEF P
  <2>1. P \in SUBSET (SUBSET S)
    BY DEF P
  <2> QED
    BY <2>1, <1>4, <1>5, FiniteSetsHave
<1> QED
  BY <1>6, <1>1, <1>2

(* The sum of the same values is the same.                                 *)
LEMMA SumSame ==
  ASSUME NEW S, IsFiniteSet(S), NEW f, NEW g, \A x \in S : f[x] \in Nat /\ g[x] = f[x]
  PROVE  SumFunctionOnSet(g, S) = SumFunctionOnSet(f, S)
<1>1. /\ SumFunctionOnSet(f, S) \in Nat /\ SumFunctionOnSet(g, S) \in Nat
      /\ SumFunctionOnSet(f, S) <= SumFunctionOnSet(g, S)
  BY SumCompared
<1>2. SumFunctionOnSet(g, S) <= SumFunctionOnSet(f, S)
  BY SumCompared
<1> QED
  BY <1>1, <1>2

(* One value changes: the sum changes by as much.                          *)
LEMMA SumChanges ==
  ASSUME NEW S, IsFiniteSet(S), NEW f, NEW g, NEW a \in S,
         \A x \in S : f[x] \in Nat /\ g[x] \in Nat,
         \A x \in S : x # a => g[x] = f[x]
  PROVE  SumFunctionOnSet(g, S) = SumFunctionOnSet(f, S) - f[a] + g[a]
<1>1. PICK h : Sums(h, f, SUBSET S) /\ SumFunctionOnSet(f, S) = h[S]
  BY SumUnfolds
<1>2. PICK k : Sums(k, g, SUBSET S) /\ SumFunctionOnSet(g, S) = k[S]
  BY SumUnfolds
<1>3. \A s \in SUBSET S :
        /\ h[s] = IF s = {} THEN 0 ELSE f[Some(s)] + h[s \ {Some(s)}]
        /\ k[s] = IF s = {} THEN 0 ELSE g[Some(s)] + k[s \ {Some(s)}]
  BY <1>1, <1>2 DEF Sums
<1> DEFINE P == {s \in SUBSET S : h[s] \in Int /\ k[s] \in Int
                  /\ k[s] = IF a \in s THEN h[s] - f[a] + g[a] ELSE h[s]}
<1>4. {} \in P
  BY <1>3
<1>5. ASSUME NEW s \in SUBSET S, s # {}, s \ {Some(s)} \in P PROVE s \in P
  <2>1. Some(s) \in s /\ Some(s) \in S
    BY <1>5 DEF Some
  <2> DEFINE t == s \ {Some(s)}
  <2>2. h[s] = f[Some(s)] + h[t] /\ k[s] = g[Some(s)] + k[t]
    BY <1>3, <1>5
  <2>3. /\ h[t] \in Int /\ k[t] \in Int
        /\ k[t] = IF a \in t THEN h[t] - f[a] + g[a] ELSE h[t]
    BY <1>5
  <2>4. /\ f[a] \in Nat /\ g[a] \in Nat /\ f[Some(s)] \in Nat /\ g[Some(s)] \in Nat
        /\ Some(s) # a => g[Some(s)] = f[Some(s)]
    BY <2>1
  <2>5. CASE Some(s) = a
    <3>1. a \in s /\ a \notin t
      BY <2>1, <2>5
    <3> HIDE DEF t
    <3> QED
      BY <3>1, <2>2, <2>3, <2>4, <2>5
  <2>6. CASE Some(s) # a
    <3>1. a \in s <=> a \in t
      BY <2>6
    <3> HIDE DEF t
    <3> QED
      BY <3>1, <2>2, <2>3, <2>4, <2>6
  <2> QED
    BY <2>5, <2>6
<1>6. S \in P
  <2> HIDE DEF P
  <2>1. P \in SUBSET (SUBSET S)
    BY DEF P
  <2> QED
    BY <2>1, <1>4, <1>5, FiniteSetsHave
<1> QED
  BY <1>6, <1>1, <1>2
=============================================================================
