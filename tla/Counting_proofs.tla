--------------------------- MODULE Counting_proofs ---------------------------
(***************************************************************************)
(* Induction without operator parameters, the two recursive functions the  *)
(* models define (sums over a page, the pages of a list), and what it      *)
(* takes to count.                                                         *)
(***************************************************************************)
EXTENDS Integers, Sequences, FiniteSets, SequenceTheorems, FiniteSetTheorems,
        WellFoundedInduction, TLAPS

(* Every set of naturals that is not empty has a least member.             *)
LEMMA LeastNat ==
    ASSUME NEW T, T \subseteq Nat, T # {}
    PROVE  \E x \in T : \A y \in T : x <= y
<1>1. PICK x \in T : \A y \in T : ~(<<y, x>> \in OpToRel(<, Nat))
  BY NatLessThanWellFounded, WFMin
<1>2. ASSUME NEW y \in T PROVE ~(y < x)
  BY <1>1, <1>2 DEF OpToRel
<1> QED
  BY <1>2

(* Induction over the naturals, for a set instead of a predicate.          *)
LEMMA NatSetInduction ==
    ASSUME NEW S, 0 \in S, \A n \in Nat : n \in S => n + 1 \in S
    PROVE  Nat \subseteq S
<1> SUFFICES ASSUME Nat \ S # {} PROVE FALSE
  OBVIOUS
<1>1. PICK x \in Nat \ S : \A y \in Nat \ S : x <= y
  BY LeastNat
<1>2. x # 0
  OBVIOUS
<1>3. x - 1 \in Nat /\ x - 1 \notin S
  BY <1>1, <1>2
<1> QED
  BY <1>1, <1>3

(* The function that adds up the numbers g[1], g[2], ... from base exists. *)
LEMMA PartialSums ==
    ASSUME NEW n \in Nat, NEW base \in Nat, NEW g \in [1 .. n -> Nat]
    PROVE  \E f \in [0 .. n -> Nat] :
              f[0] = base /\ \A k \in 1 .. n : f[k] = f[k - 1] + g[k]
<1> DEFINE Sums(m, f) == f[0] = base /\ \A k \in 1 .. m : f[k] = f[k - 1] + g[k]
           S == {m \in Nat : m <= n => \E f \in [0 .. n -> Nat] : Sums(m, f)}
<1>1. 0 \in S
  <2>1. [k \in 0 .. n |-> base] \in [0 .. n -> Nat]
    OBVIOUS
  <2>2. Sums(0, [k \in 0 .. n |-> base])
    OBVIOUS
  <2> QED
    BY <2>1, <2>2
<1>2. ASSUME NEW m \in Nat, m \in S PROVE m + 1 \in S
  <2>1. ASSUME m + 1 <= n PROVE \E f \in [0 .. n -> Nat] : Sums(m + 1, f)
    <3>1. PICK f \in [0 .. n -> Nat] : Sums(m, f)
      BY <1>2, <2>1
    <3> DEFINE h == [k \in 0 .. n |-> IF k = m + 1 THEN f[m] + g[m + 1] ELSE f[k]]
    <3>2. f[m] \in Nat /\ g[m + 1] \in Nat
      BY <2>1, m \in 0 .. n, m + 1 \in 1 .. n
    <3>3. h \in [0 .. n -> Nat]
      BY <3>2
    <3>4. Sums(m + 1, h)
      BY <2>1, <3>1, SMTT(30)
    <3> QED
      BY <3>3, <3>4
  <2> HIDE DEF Sums
  <2> QED
    BY <2>1
<1>3. Nat \subseteq S
  <2> HIDE DEF S
  <2> QED
    BY <1>1, <1>2, NatSetInduction
<1>4. n \in S
  <2> HIDE DEF S
  <2> QED
    BY <1>3
<1>5. n <= n
  OBVIOUS
<1>6. \E f \in [0 .. n -> Nat] : Sums(n, f)
  <2> HIDE DEF Sums
  <2> QED
    BY <1>4, <1>5
<1> QED
  BY <1>6

(* The function that collects, for each k, the numbers met on the way down *)
(* from k exists, where a link that does not lead down is not followed.    *)
LEMMA Descents ==
    ASSUME NEW n \in Nat, NEW next \in [1 .. n -> Nat]
    PROVE  \E f \in [0 .. n -> SUBSET (1 .. n)] :
              /\ f[0] = {}
              /\ \A k \in 1 .. n : f[k] = IF next[k] < k THEN {k} \cup f[next[k]] ELSE {k}
<1> DEFINE Down(m, f) ==
             /\ f[0] = {}
             /\ \A k \in 1 .. m : f[k] = IF next[k] < k THEN {k} \cup f[next[k]] ELSE {k}
           F == [0 .. n -> SUBSET (1 .. n)]
           S == {m \in Nat : m <= n => \E f \in F : Down(m, f)}
<1>1. 0 \in S
  <2>1. [k \in 0 .. n |-> {}] \in [0 .. n -> SUBSET (1 .. n)]
    OBVIOUS
  <2>2. Down(0, [k \in 0 .. n |-> {}])
    OBVIOUS
  <2> QED
    BY <2>1, <2>2
<1>2. ASSUME NEW m \in Nat, m \in S PROVE m + 1 \in S
  <2>1. ASSUME m + 1 <= n PROVE \E f \in F : Down(m + 1, f)
    <3>1. PICK f \in F : Down(m, f)
      <4> HIDE DEF Down, F
      <4> QED
        BY <1>2, <2>1
    <3> DEFINE j == m + 1
               top == IF next[j] < j THEN {j} \cup f[next[j]] ELSE {j}
               h == [k \in 0 .. n |-> IF k = j THEN top ELSE f[k]]
    <3>2. j \in 1 .. n /\ j \in 0 .. n /\ j # 0 /\ next[j] \in Nat
      BY <2>1
    <3>3. top \in SUBSET (1 .. n)
      BY <3>2
    <3>4. h \in [0 .. n -> SUBSET (1 .. n)]
      <4> HIDE DEF top, j
      <4> QED
        BY <3>3
    <3>5. h[0] = {}
      BY <3>1, <3>2
    <3>6. ASSUME NEW k \in 1 .. j
          PROVE  h[k] = IF next[k] < k THEN {k} \cup h[next[k]] ELSE {k}
      <4>1. k \in 1 .. n /\ next[k] \in Nat
        BY <3>2, <3>6
      <4>2. next[k] < k => next[k] \in 0 .. n /\ next[k] # j
        BY <3>2, <3>6, <4>1
      <4>3. next[k] < k => h[next[k]] = f[next[k]]
        BY <4>2
      <4>4. CASE k = j
        <5>1. h[k] = top
          BY <3>2, <4>4
        <5> QED
          BY <4>3, <4>4, <5>1
      <4>5. CASE k # j
        <5>1. k \in 1 .. m /\ k \in 0 .. n
          BY <3>6, <4>1, <4>5
        <5>2. h[k] = f[k]
          BY <4>5, <5>1
        <5> HIDE DEF h
        <5> QED
          BY <3>1, <4>3, <5>1, <5>2
      <4> QED
        BY <4>4, <4>5
    <3>7. Down(j, h)
      <4> HIDE DEF h
      <4> QED
        BY <3>5, <3>6
    <3> QED
      BY <3>4, <3>7
  <2> HIDE DEF Down, F
  <2> QED
    BY <2>1
<1>3. Nat \subseteq S
  <2> HIDE DEF S
  <2> QED
    BY <1>1, <1>2, NatSetInduction
<1>4. \E f \in F : Down(n, f)
  <2> HIDE DEF Down, F
  <2> QED
    BY <1>3
<1> QED
  BY <1>4

(* What has no member in common is counted by adding.                      *)
LEMMA DisjointCount ==
    ASSUME NEW S, NEW T, IsFiniteSet(S), IsFiniteSet(T), S \cap T = {}
    PROVE  /\ IsFiniteSet(S \cup T)
           /\ Cardinality(S \cup T) = Cardinality(S) + Cardinality(T)
<1>1. Cardinality(S \cap T) = 0
  BY FS_EmptySet
<1>2. Cardinality(S) \in Nat /\ Cardinality(T) \in Nat
  BY FS_CardinalityType
<1>3. /\ IsFiniteSet(S \cup T)
      /\ Cardinality(S \cup T) = Cardinality(S) + Cardinality(T) - Cardinality(S \cap T)
  BY FS_Union
<1> QED
  BY <1>1, <1>2, <1>3

(* Pairs with one first component are as many as their second components.  *)
LEMMA PairCount ==
    ASSUME NEW m, NEW T, IsFiniteSet(T)
    PROVE  IsFiniteSet({m} \X T) /\ Cardinality({m} \X T) = Cardinality(T)
<1>1. IsFiniteSet({m}) /\ Cardinality({m}) = 1
  BY FS_Singleton
<1>2. Cardinality(T) \in Nat
  BY FS_CardinalityType
<1> QED
  BY <1>1, <1>2, FS_Product
=============================================================================
