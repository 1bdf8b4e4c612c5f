---------------------------- MODULE Wire_proofs ----------------------------
(***************************************************************************)
(* What the generated writers and readers of nt_structs_types.c promise     *)
(* together, for messages of any length and structs nested to any depth: a  *)
(* struct that travels (Travels) is written as tokens which the reader      *)
(* reads to the last one, as the same struct, and of which it reads no      *)
(* proper part.                                                             *)
(*                                                                          *)
(* Neither direction is a recursion over the struct. Output is a number of  *)
(* passes over the items still to be written, Read a number of steps over   *)
(* the tokens, with the calls that wait in the record: the form in which    *)
(* the provers can follow them. Leads says where steps lead; Travels of a   *)
(* struct follows from Travels of its fields, of a list from that of its    *)
(* elements; a chain of conditions is put together from its last link in    *)
(* the module of the call.                                                  *)
(***************************************************************************)
EXTENDS Wire, Serializer, SequenceTheorems, Counting_proofs, TLAPS

(* A sequence, of whatever.                                                 *)
IsSeq(s) == s \in Seq({s[i] : i \in DOMAIN s})

(* The domain of a sequence.                                                *)
LEMMA SeqLen ==
    ASSUME NEW s, IsSeq(s)
    PROVE  Len(s) \in Nat /\ DOMAIN s = 1 .. Len(s)
BY DEF IsSeq

(* Every member of a Seq is a sequence.                                     *)
LEMMA SeqIs ==
    ASSUME NEW S, NEW s \in Seq(S)
    PROVE  IsSeq(s)
<1>1. \A i \in 1 .. Len(s) : s[i] \in {s[j] : j \in DOMAIN s}
  OBVIOUS
<1>2. Len(s) \in Nat /\ s = [i \in 1 .. Len(s) |-> s[i]]
  OBVIOUS
<1> QED
  BY <1>1, <1>2 DEF IsSeq

(* A function on 1 .. n is a sequence.                                      *)
LEMMA SeqMade ==
    ASSUME NEW n \in Nat, NEW f, DOMAIN f = 1 .. n, f = [i \in DOMAIN f |-> f[i]]
    PROVE  IsSeq(f) /\ Len(f) = n
<1>1. f \in Seq({f[i] : i \in DOMAIN f})
  OBVIOUS
<1> QED
  BY <1>1 DEF IsSeq

(* The empty sequence is one.                                               *)
LEMMA SeqEmpty == IsSeq(<<>>) /\ Len(<<>>) = 0
<1>1. <<>> \in Seq({})
  OBVIOUS
<1> QED
  BY <1>1, SeqIs

(* So is a sequence of one.                                                 *)
LEMMA SeqOne ==
    ASSUME NEW x
    PROVE  IsSeq(<<x>>) /\ Len(<<x>>) = 1 /\ <<x>>[1] = x
<1>1. <<x>> \in Seq({x})
  OBVIOUS
<1> QED
  BY <1>1, SeqIs

(* Two sequences one after the other.                                       *)
LEMMA SeqConcat ==
    ASSUME NEW a, NEW b, IsSeq(a), IsSeq(b)
    PROVE  /\ IsSeq(a \o b)
           /\ Len(a \o b) = Len(a) + Len(b)
           /\ \A i \in 1 .. Len(a) : (a \o b)[i] = a[i]
           /\ \A i \in 1 .. Len(b) : (a \o b)[Len(a) + i] = b[i]
<1> DEFINE S == {a[i] : i \in DOMAIN a} \cup {b[i] : i \in DOMAIN b}
<1>1. a \in Seq(S) /\ b \in Seq(S)
  BY DEF IsSeq
<1> HIDE DEF S
<1>2. a \o b \in Seq(S) /\ Len(a \o b) = Len(a) + Len(b)
  BY <1>1
<1>3. IsSeq(a \o b)
  BY <1>2, SeqIs
<1> QED
  BY <1>1, <1>2, <1>3

(* Sequences of one length that agree at every index are the same.          *)
LEMMA SameSeq ==
    ASSUME NEW a, NEW b, IsSeq(a), IsSeq(b), Len(a) = Len(b),
           \A i \in 1 .. Len(a) : a[i] = b[i]
    PROVE  a = b
<1> DEFINE S == {a[i] : i \in DOMAIN a} \cup {b[i] : i \in DOMAIN b}
<1>1. a \in Seq(S) /\ b \in Seq(S)
  BY DEF IsSeq
<1> HIDE DEF S
<1> QED
  BY <1>1

(* The empty sequence adds nothing on either side.                          *)
LEMMA ConcatEmpty ==
    ASSUME NEW a, IsSeq(a)
    PROVE  a \o <<>> = a /\ <<>> \o a = a
<1> DEFINE S == {a[i] : i \in DOMAIN a}
<1>1. a \in Seq(S)
  BY DEF IsSeq
<1> HIDE DEF S
<1> QED
  BY <1>1

(* How three sequences are grouped makes no difference.                     *)
LEMMA ConcatAssoc ==
    ASSUME NEW a, NEW b, NEW c, IsSeq(a), IsSeq(b), IsSeq(c)
    PROVE  (a \o b) \o c = a \o (b \o c)
<1> DEFINE S == {a[i] : i \in DOMAIN a} \cup {b[i] : i \in DOMAIN b} \cup {c[i] : i \in DOMAIN c}
<1>1. a \in Seq(S) /\ b \in Seq(S) /\ c \in Seq(S)
  BY DEF IsSeq
<1> HIDE DEF S
<1> QED
  BY <1>1, ConcatAssociative

(* f[i] is what the first i parts make.                                     *)
PartsJoined(ss, f) ==
    /\ f[1] = ss[1]
    /\ \A i \in 2 .. Len(ss) : f[i] = f[i - 1] \o ss[i]

(* FlattenSeq joins a sequence to what its first parts make, part by part.  *)
LEMMA FlattenPrefixes ==
    ASSUME NEW ss, IsSeq(ss), Len(ss) # 0
    PROVE  \E f : PartsJoined(ss, f) /\ FlattenSeq(ss) = f[Len(ss)]
<1> DEFINE N == Len(ss)
           Up(m, f) == /\ f = [i \in 1 .. m |-> f[i]]
                       /\ f[1] = ss[1]
                       /\ \A i \in 2 .. m : f[i] = f[i - 1] \o ss[i]
           S == {m \in Nat : m >= 1 => \E f : Up(m, f)}
           Def(f) == f = [i \in 1 .. N |-> IF i = 1 THEN ss[1] ELSE f[i - 1] \o ss[i]]
<1>1. N \in Nat /\ N >= 1
  BY SeqLen
<1>2. 0 \in S
  OBVIOUS
<1>3. ASSUME NEW m \in Nat, m \in S PROVE m + 1 \in S
  <2>1. CASE m = 0
    <3>1. Up(1, [i \in 1 .. 1 |-> ss[1]])
      OBVIOUS
    <3> HIDE DEF Up
    <3> QED
      BY <2>1, <3>1
  <2>2. CASE m >= 1
    <3>1. PICK f : Up(m, f)
      <4> HIDE DEF Up
      <4> QED
        BY <1>3, <2>2
    <3> DEFINE h == [i \in 1 .. m + 1 |-> IF i = m + 1 THEN f[m] \o ss[m + 1] ELSE f[i]]
    <3>2. h = [i \in 1 .. m + 1 |-> h[i]]
      OBVIOUS
    <3>3. h[1] = ss[1]
      BY <2>2, <3>1
    <3>4. \A i \in 2 .. m + 1 : h[i] = h[i - 1] \o ss[i]
      <4> SUFFICES ASSUME NEW i \in 2 .. m + 1 PROVE h[i] = h[i - 1] \o ss[i]
        OBVIOUS
      <4>1. CASE i = m + 1
        <5>1. m + 1 \in 1 .. m + 1 /\ m \in 1 .. m + 1 /\ m # m + 1 /\ i - 1 = m
          BY <2>2, <4>1
        <5>2. h[m + 1] = f[m] \o ss[m + 1] /\ h[m] = f[m]
          BY <5>1
        <5> HIDE DEF h
        <5> QED
          BY <4>1, <5>1, <5>2
      <4>2. CASE i # m + 1
        <5>1. i \in 2 .. m /\ i - 1 \in 1 .. m + 1 /\ i \in 1 .. m + 1 /\ i - 1 # m + 1
          BY <4>2
        <5>2. h[i] = f[i] /\ h[i - 1] = f[i - 1]
          BY <4>2, <5>1
        <5> HIDE DEF h
        <5> QED
          BY <3>1, <5>1, <5>2
      <4> QED
        BY <4>1, <4>2
    <3>5. Up(m + 1, h)
      <4> HIDE DEF h
      <4> QED
        BY <3>2, <3>3, <3>4
    <3> HIDE DEF Up
    <3> QED
      BY <3>5
  <2> HIDE DEF S
  <2> QED
    BY <2>1, <2>2
<1>4. N \in S
  <2> HIDE DEF S, N
  <2> QED
    BY <1>1, <1>2, <1>3, NatSetInduction
<1>5. \E f : Up(N, f)
  <2> HIDE DEF Up, N
  <2> QED
    BY <1>1, <1>4
<1>6. \E f : Def(f)
  <2>1. PICK f : Up(N, f)
    <3> HIDE DEF Up, N
    <3> QED
      BY <1>5
  <2>2. f = [i \in 1 .. N |-> f[i]]
    BY <2>1
  <2>3. \A i \in 1 .. N : f[i] = IF i = 1 THEN ss[1] ELSE f[i - 1] \o ss[i]
    <3> HIDE DEF N
    <3> SUFFICES ASSUME NEW i \in 1 .. N
                 PROVE  f[i] = IF i = 1 THEN ss[1] ELSE f[i - 1] \o ss[i]
      OBVIOUS
    <3>1. CASE i = 1
      BY <2>1, <3>1
    <3>2. CASE i # 1
      BY <1>1, <2>1, <3>2, i \in 2 .. N
    <3> QED
      BY <3>1, <3>2
  <2>4. f = [i \in 1 .. N |-> IF i = 1 THEN ss[1] ELSE f[i - 1] \o ss[i]]
    <3> HIDE DEF N
    <3> QED
      BY <2>2, <2>3
  <2> QED
    BY <2>4
<1> DEFINE g == CHOOSE f : Def(f)
<1>7. Def(g)
  <2> HIDE DEF Def
  <2> QED
    BY <1>6
<1>8. FlattenSeq(ss) = g[N]
  <2>1. DOMAIN ss = 1 .. N
    BY SeqLen
  <2> QED
    BY <2>1, Zenon DEF FlattenSeq
<1> HIDE DEF g
<1>9. PartsJoined(ss, g)
  <2> HIDE DEF N
  <2>1. \A i \in 1 .. N : g[i] = IF i = 1 THEN ss[1] ELSE g[i - 1] \o ss[i]
    BY <1>7
  <2>2. g[1] = ss[1]
    BY <1>1, <2>1
  <2>3. ASSUME NEW i \in 2 .. N PROVE g[i] = g[i - 1] \o ss[i]
    <3>1. i \in 1 .. N /\ i # 1
      BY <1>1
    <3> QED
      BY <2>1, <3>1
  <2> QED
    BY <2>2, <2>3 DEF PartsJoined, N
<1> QED
  BY <1>8, <1>9

(* FlattenSeq of nothing.                                                   *)
LEMMA FlattenEmpty == FlattenSeq(<<>>) = <<>>
BY SeqEmpty DEF FlattenSeq

(* What holds of the first part, and of each longer beginning if of the one *)
(* before it, holds of the whole of FlattenSeq: the induction that the      *)
(* proofs below are made by, W[i] being what is said of the first i parts.  *)
LEMMA FlattenFamily ==
    ASSUME NEW ss, IsSeq(ss), Len(ss) # 0, NEW W, ss[1] \in W[1],
           \A i \in 2 .. Len(ss) : \A a \in W[i - 1] : a \o ss[i] \in W[i]
    PROVE  FlattenSeq(ss) \in W[Len(ss)]
<1>1. PICK f : PartsJoined(ss, f) /\ FlattenSeq(ss) = f[Len(ss)]
  BY FlattenPrefixes
<1> DEFINE S == {m \in Nat : m \in 1 .. Len(ss) => f[m] \in W[m]}
<1>2. Len(ss) \in Nat
  BY SeqLen
<1>3. 0 \in S
  OBVIOUS
<1>4. ASSUME NEW m \in Nat, m \in S PROVE m + 1 \in S
  <2> SUFFICES ASSUME m + 1 <= Len(ss) PROVE f[m + 1] \in W[m + 1]
    OBVIOUS
  <2>1. CASE m = 0
    BY <1>1, <2>1 DEF PartsJoined
  <2>2. CASE m # 0
    <3>1. m \in 1 .. Len(ss) /\ m + 1 \in 2 .. Len(ss) /\ (m + 1) - 1 = m
      BY <1>2, <2>2
    <3>2. f[m] \in W[m] /\ f[m + 1] = f[m] \o ss[m + 1]
      BY <1>1, <1>4, <3>1 DEF PartsJoined
    <3> QED
      BY <3>1, <3>2
  <2> QED
    BY <2>1, <2>2
<1>5. Len(ss) \in S
  <2> HIDE DEF S
  <2> QED
    BY <1>2, <1>3, <1>4, NatSetInduction
<1> QED
  BY <1>1, <1>2, <1>5

(* Sequences joined make a sequence.                                        *)
LEMMA FlattenIsSeq ==
    ASSUME NEW ss, IsSeq(ss), \A i \in 1 .. Len(ss) : IsSeq(ss[i])
    PROVE  IsSeq(FlattenSeq(ss))
<1>1. Len(ss) \in Nat
  BY SeqLen
<1>2. CASE Len(ss) = 0
  BY <1>2, FlattenEmpty, SeqEmpty, SameSeq
<1>3. CASE Len(ss) # 0
  <2>1. PICK f : PartsJoined(ss, f) /\ FlattenSeq(ss) = f[Len(ss)]
    BY <1>3, FlattenPrefixes
  <2> DEFINE W == [i \in 1 .. Len(ss) |-> {a \in {f[i]} \cup {ss[1]} : IsSeq(a)}]
             V == [i \in Nat |-> {a \in {f[k] : k \in Nat} : IsSeq(a) /\ a = f[i]}]
  <2>2. ss[1] \in V[1]
    BY <1>1, <1>3, <2>1, 1 \in 1 .. Len(ss) DEF PartsJoined
  <2>3. ASSUME NEW i \in 2 .. Len(ss), NEW a \in V[i - 1] PROVE a \o ss[i] \in V[i]
    <3>1. i \in Nat /\ i - 1 \in Nat /\ i \in 1 .. Len(ss)
      BY <1>1
    <3>2. IsSeq(a) /\ a = f[i - 1]
      BY <2>3, <3>1
    <3>3. a \o ss[i] = f[i] /\ IsSeq(a \o ss[i])
      BY <2>1, <3>1, <3>2, SeqConcat DEF PartsJoined
    <3> QED
      BY <3>1, <3>3
  <2>4. FlattenSeq(ss) \in V[Len(ss)]
    <3> HIDE DEF V
    <3> QED
      BY <1>3, <2>2, <2>3, FlattenFamily
  <2> QED
    BY <1>1, <2>4
<1> QED
  BY <1>2, <1>3

(* FlattenSeq of one sequence.                                              *)
LEMMA FlattenOne ==
    ASSUME NEW s
    PROVE  FlattenSeq(<<s>>) = s
<1>1. IsSeq(<<s>>) /\ Len(<<s>>) = 1 /\ <<s>>[1] = s
  BY SeqOne
<1> DEFINE t == <<s>>
<1>2. IsSeq(t) /\ Len(t) = 1 /\ t[1] = s
  BY <1>1
<1> HIDE DEF t
<1>3. PICK f : PartsJoined(t, f) /\ FlattenSeq(t) = f[Len(t)]
  BY <1>2, Len(t) # 0, FlattenPrefixes
<1>4. FlattenSeq(t) = t[1]
  BY <1>2, <1>3 DEF PartsJoined
<1> QED
  BY <1>2, <1>4 DEF t

(* FlattenSeq of two sequences of sequences, one after the other.           *)
LEMMA FlattenConcat ==
    ASSUME NEW a, NEW b, IsSeq(a), IsSeq(b), \A i \in 1 .. Len(a) : IsSeq(a[i]),
           \A i \in 1 .. Len(b) : IsSeq(b[i])
    PROVE  FlattenSeq(a \o b) = FlattenSeq(a) \o FlattenSeq(b)
<1> DEFINE c == a \o b
           A == Len(a)
           B == Len(b)
<1>1. A \in Nat /\ B \in Nat
  BY SeqLen
<1>2. /\ IsSeq(c) /\ Len(c) = A + B
      /\ \A i \in 1 .. A : c[i] = a[i]
      /\ \A i \in 1 .. B : c[A + i] = b[i]
  BY SeqConcat
<1>3. IsSeq(FlattenSeq(a)) /\ IsSeq(FlattenSeq(b))
  BY FlattenIsSeq
<1>4. CASE A = 0
  <2>1. a = <<>>
    BY <1>4, SeqEmpty, SameSeq
  <2> QED
    BY <1>3, <2>1, FlattenEmpty, ConcatEmpty
<1>5. CASE B = 0
  <2>1. b = <<>>
    BY <1>5, SeqEmpty, SameSeq
  <2> QED
    BY <1>3, <2>1, FlattenEmpty, ConcatEmpty
<1>6. CASE A # 0 /\ B # 0
  <2> HIDE DEF c
  <2>1. PICK f : PartsJoined(c, f) /\ FlattenSeq(c) = f[A + B]
    BY <1>1, <1>2, <1>6, FlattenPrefixes
  <2>2. PICK g : PartsJoined(a, g) /\ FlattenSeq(a) = g[A]
    BY <1>6, FlattenPrefixes
  <2>3. PICK h : PartsJoined(b, h) /\ FlattenSeq(b) = h[B]
    BY <1>6, FlattenPrefixes
  <2> DEFINE S == {m \in Nat : m \in 1 .. A => f[m] = g[m]}
             Both(m) == IsSeq(h[m]) /\ f[A + m] = g[A] \o h[m]
           T == {m \in Nat : m \in 1 .. B => Both(m)}
  <2> HIDE DEF A, B
  <2>4. 0 \in S
    OBVIOUS
  <2>5. ASSUME NEW m \in Nat, m \in S PROVE m + 1 \in S
    <3> SUFFICES ASSUME m + 1 <= A PROVE f[m + 1] = g[m + 1]
      OBVIOUS
    <3>1. CASE m = 0
      BY <1>1, <1>2, <1>6, <2>1, <2>2, <3>1, 1 \in 1 .. A DEF PartsJoined
    <3>2. CASE m # 0
      <4>1. m \in 1 .. A /\ m + 1 \in 2 .. A /\ (m + 1) - 1 = m /\ m + 1 \in 2 .. A + B
            /\ m + 1 \in 1 .. A
        BY <1>1, <3>2
      <4>2. f[m] = g[m] /\ g[m + 1] = g[m] \o a[m + 1] /\ f[m + 1] = f[m] \o c[m + 1]
        BY <1>2, <2>1, <2>2, <2>5, <4>1 DEF PartsJoined, A
      <4> QED
        BY <1>2, <4>1, <4>2
    <3> QED
      BY <3>1, <3>2
  <2>6. A \in S
    <3> HIDE DEF S
    <3> QED
      BY <1>1, <2>4, <2>5, NatSetInduction
  <2>7. f[A] = g[A]
    BY <1>1, <1>6, <2>6
  <2>8. 0 \in T
    OBVIOUS
  <2>9. ASSUME NEW m \in Nat, m \in T PROVE m + 1 \in T
    <3> SUFFICES ASSUME m + 1 <= B PROVE Both(m + 1)
      <4> HIDE DEF Both
      <4> QED
        OBVIOUS
    <3>0. /\ m + 1 \in 1 .. B /\ A + (m + 1) \in 2 .. A + B /\ (A + (m + 1)) - 1 = A + m
      BY <1>1, <1>6
    <3>1. f[A + (m + 1)] = f[A + m] \o b[m + 1] /\ IsSeq(b[m + 1]) /\ IsSeq(g[A])
      BY <1>2, <1>3, <2>1, <2>2, <3>0, Zenon DEF PartsJoined, B
    <3>2. CASE m = 0
      <4>1. h[1] = b[1] /\ A + m = A /\ m + 1 = 1
        BY <1>1, <2>3, <3>2 DEF PartsJoined
      <4>2. f[A + m] = g[A]
        BY <2>7, <4>1
      <4> QED
        BY <3>1, <4>1, <4>2
    <3>3. CASE m # 0
      <4>1. m \in 1 .. B /\ m + 1 \in 2 .. B /\ (m + 1) - 1 = m
        BY <1>1, <3>3
      <4>2. h[m + 1] = h[m] \o b[m + 1]
        BY <2>3, <4>1 DEF PartsJoined, B
      <4>3. Both(m)
        <5> HIDE DEF Both
        <5> QED
          BY <2>9, <4>1
      <4>4. IsSeq(h[m]) /\ f[A + m] = g[A] \o h[m]
        BY <4>3
      <4>5. IsSeq(h[m + 1]) /\ f[A + (m + 1)] = g[A] \o h[m + 1]
        <5> DEFINE x == g[A]
                   y == h[m]
                   z == b[m + 1]
                   xy == f[A + m]
                   yz == h[m + 1]
                   xyz == f[A + (m + 1)]
        <5>1. IsSeq(x) /\ IsSeq(y) /\ IsSeq(z) /\ xy = x \o y
          BY <3>1, <4>4
        <5>2. yz = y \o z /\ xyz = xy \o z
          BY <3>1, <4>2
        <5> HIDE DEF x, y, z, xy, yz, xyz, Both
        <5>3. IsSeq(y \o z)
          BY <5>1, SeqConcat
        <5>4. (x \o y) \o z = x \o (y \o z)
          BY <5>1, ConcatAssoc
        <5>5. IsSeq(yz) /\ xyz = x \o yz
          BY ONLY <5>1, <5>2, <5>3, <5>4
        <5> QED
          BY <5>5 DEF x, yz, xyz
      <4> QED
        BY <4>5
    <3> QED
      BY <3>2, <3>3
  <2>10. B \in T
    <3> HIDE DEF T
    <3> QED
      BY <1>1, <2>8, <2>9, NatSetInduction
  <2>11. Both(B)
    <3> HIDE DEF Both
    <3> QED
      BY <1>1, <1>6, <2>10
  <2> QED
    BY <2>1, <2>2, <2>3, <2>11 DEF c
<1> QED
  BY <1>4, <1>5, <1>6

----------------------------------------------------------------------------
(* Steps.  The readers and the writers of the bindings go step by step; so  *)
(* does the handler along a condition.  Each is a function on the naturals, *)
(* and what it leads to is proved from the lengths of its parts.            *)

(* One step of a process: a pass of the writers, a step of the readers, or the *)
(* way from a condition to the one on its right.                               *)
Go(p, x) ==
    IF p = <<>> THEN Pass(x) ELSE IF p = <<1, 1>> THEN x.has.right[1] ELSE ReadStep(p[1], x)

(* Passes are always taken; a reader is busy while it reads a struct or a   *)
(* list.                                                                    *)
Busy(p, x) == p = <<>> \/ x.call.reads \in {"struct", "list"}

(* f follows the steps n times.                                             *)
Run(p, f, n) == \A k \in 0 .. n - 1 : f[k + 1] = Go(p, f[k])

(* And is busy all the way.                                                 *)
Trace(p, f, n) == Run(p, f, n) /\ \A k \in 0 .. n - 1 : Busy(p, f[k])

(* n steps lead from x to y.                                                *)
Leads(p, x, y, n) == \E f : f[0] = x /\ f[n] = y /\ Trace(p, f, n)

(* No step leads from x to x.                                               *)
LEMMA LeadsZero == ASSUME NEW p, NEW x PROVE Leads(p, x, x, 0)
<1> DEFINE f == [k \in {0} |-> x]
<1>1. f[0] = x /\ Trace(p, f, 0)
  BY DEF Trace, Run
<1> HIDE DEF f
<1> QED
  BY <1>1 DEF Leads

(* One step.                                                                *)
LEMMA LeadsOne == ASSUME NEW p, NEW x, Busy(p, x) PROVE Leads(p, x, Go(p, x), 1)
<1> DEFINE g == Go(p, x)
           f == [k \in {0, 1} |-> IF k = 0 THEN x ELSE g]
<1>1. f[0] = x /\ f[1] = g
  OBVIOUS
<1> HIDE DEF f
<1>2. Trace(p, f, 1)
  <2>1. ASSUME NEW k \in 0 .. 1 - 1 PROVE f[k + 1] = Go(p, f[k]) /\ Busy(p, f[k])
    <3>1. k = 0 /\ k + 1 = 1
      OBVIOUS
    <3> QED
      BY <1>1, <3>1
  <2> QED
    BY <2>1 DEF Trace, Run
<1> QED
  BY <1>1, <1>2 DEF Leads

(* Steps after steps.                                                       *)
LEMMA LeadsOn ==
    ASSUME NEW p, NEW x, NEW y, NEW z, NEW n \in Nat, NEW m \in Nat,
           Leads(p, x, y, n), Leads(p, y, z, m)
    PROVE  Leads(p, x, z, n + m)
<1>1. PICK f : f[0] = x /\ f[n] = y /\ Trace(p, f, n)
  BY DEF Leads
<1>2. PICK g : g[0] = y /\ g[m] = z /\ Trace(p, g, m)
  BY DEF Leads
<1> DEFINE h == [k \in 0 .. n + m |-> IF k <= n THEN f[k] ELSE g[k - n]]
<1>3. ASSUME NEW k \in 0 .. n PROVE h[k] = f[k]
  BY <1>3
<1>4. ASSUME NEW k \in 0 .. m PROVE h[n + k] = g[k]
  <2>1. n + k \in 0 .. n + m /\ (n + k) - n = k /\ n \in 0 .. n
    OBVIOUS
  <2>2. CASE k = 0
    <3>1. h[n] = f[n] /\ n + k = n
      BY <1>3, <2>1, <2>2
    <3> HIDE DEF h
    <3> QED
      BY <1>1, <1>2, <2>2, <3>1
  <2>3. CASE k # 0
    <3>1. ~(n + k <= n)
      BY <2>3
    <3> QED
      BY <2>1, <3>1
  <2> QED
    BY <2>2, <2>3
<1> HIDE DEF h
<1>5. h[0] = x /\ h[n + m] = z
  BY <1>1, <1>2, <1>3, <1>4, 0 \in 0 .. n, m \in 0 .. m
<1>6. ASSUME NEW k \in 0 .. (n + m) - 1 PROVE h[k + 1] = Go(p, h[k]) /\ Busy(p, h[k])
  <2>1. CASE k < n
    <3>1. k \in 0 .. n - 1 /\ k \in 0 .. n /\ k + 1 \in 0 .. n
      BY <2>1
    <3>2. f[k + 1] = Go(p, f[k]) /\ Busy(p, f[k]) /\ h[k] = f[k] /\ h[k + 1] = f[k + 1]
      BY <1>1, <1>3, <3>1 DEF Trace, Run
    <3> QED
      BY <3>2
  <2>2. CASE k >= n
    <3> DEFINE j == k - n
    <3>1. j \in 0 .. m - 1 /\ j \in 0 .. m /\ j + 1 \in 0 .. m /\ n + j = k /\ n + (j + 1) = k + 1
      BY <2>2
    <3> HIDE DEF j
    <3>2. g[j + 1] = Go(p, g[j]) /\ Busy(p, g[j])
      BY <1>2, <3>1 DEF Trace, Run
    <3>3. h[n + j] = g[j]
      BY <1>4, <3>1
    <3>4. h[n + (j + 1)] = g[j + 1]
      BY <1>4, <3>1
    <3> QED
      BY <3>1, <3>2, <3>3, <3>4
  <2> QED
    BY <2>1, <2>2
<1> QED
  BY <1>5, <1>6 DEF Leads, Trace, Run

(* From one beginning there is one way to go.                               *)
LEMMA LeadsSame ==
    ASSUME NEW p, NEW f, NEW g, NEW n \in Nat, f[0] = g[0], Run(p, f, n), Run(p, g, n)
    PROVE  \A k \in 0 .. n : f[k] = g[k]
<1> DEFINE S == {k \in Nat : k <= n => f[k] = g[k]}
<1>1. 0 \in S
  OBVIOUS
<1>2. ASSUME NEW k \in Nat, k \in S PROVE k + 1 \in S
  <2> SUFFICES ASSUME k + 1 <= n PROVE f[k + 1] = g[k + 1]
    OBVIOUS
  <2>1. k \in 0 .. n - 1 /\ k <= n
    OBVIOUS
  <2>2. f[k + 1] = Go(p, f[k]) /\ g[k + 1] = Go(p, g[k])
    BY <2>1 DEF Run
  <2>3. f[k] = g[k]
    BY <1>2, <2>1
  <2> QED
    BY <2>2, <2>3
<1>3. Nat \subseteq S
  <2> HIDE DEF S
  <2> QED
    BY <1>1, <1>2, NatSetInduction
<1> QED
  BY <1>3

(* What a recursive function on the naturals makes of it. *)
Iterate(p, x, f) == f = [n \in Nat |-> IF n = 0 THEN x ELSE Go(p, f[n - 1])]

(* There is a function that follows the steps from x.                       *)
LEMMA Iterates ==
    ASSUME NEW p, NEW x
    PROVE  \E f : Iterate(p, x, f)
<1> DEFINE Runs(f, n) == f[0] = x /\ Run(p, f, n)
           S == {n \in Nat : \E f : Runs(f, n)}
           run == [n \in Nat |-> CHOOSE f : Runs(f, n)]
           h == [n \in Nat |-> run[n][n]]
<1>1. 0 \in S
  <2> DEFINE f == [k \in {0} |-> x]
  <2>1. f[0] = x
    OBVIOUS
  <2> HIDE DEF f
  <2>2. Runs(f, 0)
    BY <2>1 DEF Run
  <2> QED
    BY <2>2
<1>2. ASSUME NEW n \in Nat, n \in S PROVE n + 1 \in S
  <2>1. PICK f : Runs(f, n)
    BY <1>2
  <2> DEFINE g == [k \in 0 .. n + 1 |-> IF k = n + 1 THEN Go(p, f[n]) ELSE f[k]]
  <2>2. g[n + 1] = Go(p, f[n])
    OBVIOUS
  <2>3. \A k \in 0 .. n : g[k] = f[k]
    OBVIOUS
  <2> HIDE DEF g
  <2>4. ASSUME NEW k \in 0 .. (n + 1) - 1 PROVE g[k + 1] = Go(p, g[k])
    <3>1. CASE k = n
      BY <2>2, <2>3, <3>1
    <3>2. CASE k # n
      <4>1. k \in 0 .. n - 1 /\ k \in 0 .. n /\ k + 1 \in 0 .. n
        BY <3>2
      <4> QED
        BY <2>1, <2>3, <4>1 DEF Run
    <3> QED
      BY <3>1, <3>2
  <2>5. g[0] = x
    BY <2>1, <2>3, 0 \in 0 .. n
  <2>6. Runs(g, n + 1)
    BY <2>4, <2>5 DEF Run
  <2> QED
    BY <2>6
<1>3. Nat \subseteq S
  <2> HIDE DEF S
  <2> QED
    BY <1>1, <1>2, NatSetInduction
<1>4. ASSUME NEW n \in Nat PROVE Runs(run[n], n)
  <2>1. \E f : Runs(f, n)
    BY <1>3
  <2> HIDE DEF Runs
  <2> QED
    BY <2>1
<1> HIDE DEF run
<1>6. h[0] = x
  BY <1>4
<1>7. ASSUME NEW n \in Nat PROVE h[n + 1] = Go(p, h[n])
  <2> DEFINE f == run[n + 1]
             g == run[n]
  <2>1. f[0] = x /\ Run(p, f, n + 1) /\ g[0] = x /\ Run(p, g, n)
    BY <1>4, n + 1 \in Nat
  <2>2. h[n + 1] = f[n + 1] /\ h[n] = g[n]
    OBVIOUS
  <2> HIDE DEF f, g, h
  <2>3. Run(p, f, n) /\ f[n + 1] = Go(p, f[n])
    BY <2>1 DEF Run
  <2>4. f[n] = g[n]
    BY <2>1, <2>3, LeadsSame, n \in 0 .. n
  <2> QED
    BY <2>2, <2>3, <2>4
<1> HIDE DEF h
<1>8. ASSUME NEW n \in Nat PROVE h[n] = IF n = 0 THEN x ELSE Go(p, h[n - 1])
  <2>1. CASE n = 0
    BY <1>6, <2>1
  <2>2. CASE n # 0
    <3>1. n - 1 \in Nat /\ (n - 1) + 1 = n
      BY <2>2
    <3> QED
      BY <1>7, <2>2, <3>1
  <2> QED
    BY <2>1, <2>2
<1>9. h = [n \in Nat |-> h[n]]
  BY DEF h
<1>10. h = [n \in Nat |-> IF n = 0 THEN x ELSE Go(p, h[n - 1])]
  BY <1>8, <1>9
<1>11. Iterate(p, x, h)
  BY <1>10, Zenon DEF Iterate
<1> QED
  BY <1>11

(* And it arrives where the steps lead.                                     *)
LEMMA IteratesLead ==
    ASSUME NEW p, NEW x, NEW f, Iterate(p, x, f),
           NEW n \in Nat, NEW y, Leads(p, x, y, n)
    PROVE  f[n] = y
<1>0. f = [m \in Nat |-> IF m = 0 THEN x ELSE Go(p, f[m - 1])]
  BY Zenon DEF Iterate
<1>1. f[0] = x
  BY <1>0
<1>2. Run(p, f, n)
  <2>1. ASSUME NEW k \in 0 .. n - 1 PROVE f[k + 1] = Go(p, f[k])
    <3>1. k + 1 \in Nat /\ k + 1 # 0 /\ (k + 1) - 1 = k
      OBVIOUS
    <3>2. f[k + 1] = IF k + 1 = 0 THEN x ELSE Go(p, f[(k + 1) - 1])
      BY <1>0, <3>1
    <3> QED
      BY <3>1, <3>2
  <2> QED
    BY <2>1 DEF Run
<1>3. PICK g : g[0] = x /\ g[n] = y /\ Run(p, g, n)
  BY DEF Leads, Trace
<1> QED
  BY <1>1, <1>2, <1>3, LeadsSame, n \in 0 .. n

----------------------------------------------------------------------------
(* Writing: what the passes of the writers make of a message.               *)

(* Nothing is left to be written.                                           *)
Settled(t) == IsSeq(t) /\ \A i \in 1 .. Len(t) : IsToken(t[i]) \/ IsFatal(t[i])

(* Every item can be written.                                               *)
Clear(w) == IsSeq(w) /\ \A i \in 1 .. Len(w) : IsSeq(Write(w[i]))

(* n passes write w as t.                                                   *)
Writing(w, t, f, n) ==
    f[0] = w /\ f[n] = t /\ Run(<<>>, f, n) /\ \A k \in 0 .. n : Clear(f[k])

(* The items of w are written as the tokens t.                              *)
WritesTo(w, t) == Settled(t) /\ \E n \in Nat : \E f : Writing(w, t, f, n)

(* A token holds what it was made of.                                       *)
LEMMA TokenItem ==
    ASSUME NEW x
    PROVE  IsToken(Token(x)) /\ Token(x).token = x
BY DEF IsToken, Token

(* What is a token already, or ends the writer, is written as it is.        *)
LEMMA TokenWrites ==
    ASSUME NEW x, IsToken(x) \/ IsFatal(x)
    PROVE  Write(x) = <<x>> /\ IsSeq(Write(x))
<1>1. IsFatal(x) => x.type.wire # "T_STRING" /\ x.type.wire # "T_LIST"
  BY DEF IsFatal
<1>2. ASSUME IsFatal(x) PROVE Write(x) = <<x>>
  BY <1>1, <1>2, Zenon DEF Write
<1>3. ASSUME IsToken(x) PROVE Write(x) = <<x>>
  BY <1>3, Zenon DEF Write
<1> QED
  BY <1>2, <1>3, SeqOne

(* Written tokens can be passed over again.                                 *)
LEMMA TokensClear == ASSUME NEW t, Settled(t) PROVE Clear(t)
BY TokenWrites DEF Settled, Clear

(* A step of the writers is one pass over what is to be written.            *)
LEMMA GoPass == ASSUME NEW x PROVE Go(<<>>, x) = Pass(x)
BY DEF Go

(* A pass writes each item in its place.                                    *)
LEMMA PassParts ==
    ASSUME NEW w, Clear(w)
    PROVE  LET ss == [i \in DOMAIN w |-> Write(w[i])]
           IN  /\ Pass(w) = FlattenSeq(ss) /\ IsSeq(ss) /\ Len(ss) = Len(w)
               /\ \A i \in 1 .. Len(w) : ss[i] = Write(w[i]) /\ IsSeq(ss[i])
<1> DEFINE ss == [i \in DOMAIN w |-> Write(w[i])]
<1>1. Pass(w) = FlattenSeq(ss)
  BY DEF Pass
<1>2. Len(w) \in Nat /\ DOMAIN w = 1 .. Len(w)
  BY SeqLen DEF Clear
<1>3. DOMAIN ss = 1 .. Len(w) /\ ss = [i \in DOMAIN ss |-> ss[i]]
  BY <1>2
<1>4. \A i \in 1 .. Len(w) : ss[i] = Write(w[i]) /\ IsSeq(ss[i])
  BY <1>2 DEF Clear
<1> HIDE DEF ss
<1>5. IsSeq(ss) /\ Len(ss) = Len(w)
  BY <1>2, <1>3, SeqMade
<1> QED
  BY <1>1, <1>4, <1>5 DEF ss

(* A pass over one item.                                                    *)
LEMMA PassOne ==
    ASSUME NEW x, IsSeq(Write(x))
    PROVE  Clear(<<x>>) /\ Pass(<<x>>) = Write(x)
<1> DEFINE w == <<x>>
<1>1. IsSeq(w) /\ Len(w) = 1 /\ w[1] = x
  BY SeqOne
<1> HIDE DEF w
<1>2. Clear(w)
  BY <1>1 DEF Clear
<1> DEFINE ss == [i \in DOMAIN w |-> Write(w[i])]
<1>3. Pass(w) = FlattenSeq(ss) /\ IsSeq(ss) /\ Len(ss) = 1 /\ ss[1] = Write(x)
  BY <1>1, <1>2, PassParts
<1> HIDE DEF ss
<1>4. ss = <<Write(x)>>
  <2>1. IsSeq(<<Write(x)>>) /\ Len(<<Write(x)>>) = 1 /\ <<Write(x)>>[1] = Write(x)
    BY SeqOne
  <2> HIDE DEF Write
  <2> DEFINE o == <<Write(x)>>
  <2> HIDE DEF o
  <2>2. IsSeq(o) /\ Len(o) = 1 /\ o[1] = Write(x)
    BY <2>1 DEF o
  <2>3. ss = o
    BY <1>3, <2>2, SameSeq
  <2> QED
    BY <2>3 DEF o
<1> QED
  BY <1>2, <1>3, <1>4, FlattenOne DEF w

(* A pass over two stretches is a pass over each.                           *)
LEMMA ClearConcat ==
    ASSUME NEW a, NEW b, Clear(a), Clear(b)
    PROVE  Clear(a \o b) /\ Pass(a \o b) = Pass(a) \o Pass(b)
<1> DEFINE c == a \o b
           ss == [i \in DOMAIN a |-> Write(a[i])]
           tt == [i \in DOMAIN b |-> Write(b[i])]
           uu == [i \in DOMAIN c |-> Write(c[i])]
<1>1. /\ IsSeq(c) /\ Len(c) = Len(a) + Len(b)
      /\ \A i \in 1 .. Len(a) : c[i] = a[i]
      /\ \A i \in 1 .. Len(b) : c[Len(a) + i] = b[i]
      /\ Len(a) \in Nat /\ Len(b) \in Nat
  BY SeqConcat, SeqLen DEF Clear
<1> HIDE DEF c
<1>2. ASSUME NEW i \in 1 .. Len(c)
      PROVE  i \in 1 .. Len(a) \/ \E j \in 1 .. Len(b) : i = Len(a) + j
  <2>1. CASE i <= Len(a)
    BY <1>1, <2>1
  <2>2. CASE i > Len(a)
    <3>1. i - Len(a) \in 1 .. Len(b) /\ i = Len(a) + (i - Len(a))
      BY <1>1, <2>2
    <3> QED
      BY <3>1
  <2> QED
    BY <1>1, <2>1, <2>2
<1>3. Clear(c)
  BY <1>1, <1>2 DEF Clear
<1>4. /\ Pass(a) = FlattenSeq(ss) /\ IsSeq(ss) /\ Len(ss) = Len(a)
      /\ \A i \in 1 .. Len(a) : ss[i] = Write(a[i]) /\ IsSeq(ss[i])
  BY PassParts
<1>5. /\ Pass(b) = FlattenSeq(tt) /\ IsSeq(tt) /\ Len(tt) = Len(b)
      /\ \A i \in 1 .. Len(b) : tt[i] = Write(b[i]) /\ IsSeq(tt[i])
  BY PassParts
<1>6. /\ Pass(c) = FlattenSeq(uu) /\ IsSeq(uu) /\ Len(uu) = Len(c)
      /\ \A i \in 1 .. Len(c) : uu[i] = Write(c[i])
  BY <1>3, PassParts
<1> HIDE DEF ss, tt, uu
<1>7. FlattenSeq(ss \o tt) = FlattenSeq(ss) \o FlattenSeq(tt)
  BY <1>4, <1>5, FlattenConcat
<1> DEFINE st == ss \o tt
<1>8. /\ IsSeq(st) /\ Len(st) = Len(c)
      /\ \A i \in 1 .. Len(a) : st[i] = Write(a[i])
      /\ \A i \in 1 .. Len(b) : st[Len(a) + i] = Write(b[i])
  <2>1. /\ IsSeq(ss \o tt) /\ Len(ss \o tt) = Len(ss) + Len(tt)
        /\ \A i \in 1 .. Len(ss) : (ss \o tt)[i] = ss[i]
        /\ \A i \in 1 .. Len(tt) : (ss \o tt)[Len(ss) + i] = tt[i]
    BY <1>4, <1>5, SeqConcat
  <2>2. /\ IsSeq(st) /\ Len(st) = Len(a) + Len(b)
        /\ \A i \in 1 .. Len(a) : st[i] = ss[i]
        /\ \A i \in 1 .. Len(b) : st[Len(a) + i] = tt[i]
    BY <1>4, <1>5, <2>1
  <2> HIDE DEF st
  <2> QED
    BY <1>1, <1>4, <1>5, <2>2
<1> HIDE DEF st
<1>9. \A i \in 1 .. Len(uu) : uu[i] = st[i]
  <2> SUFFICES ASSUME NEW i \in 1 .. Len(uu) PROVE uu[i] = st[i]
    OBVIOUS
  <2>1. i \in 1 .. Len(c) /\ uu[i] = Write(c[i])
    BY <1>6
  <2>2. CASE i \in 1 .. Len(a)
    BY <1>1, <1>8, <2>1, <2>2
  <2>3. ASSUME NEW j \in 1 .. Len(b), i = Len(a) + j PROVE uu[i] = st[i]
    BY <1>1, <1>8, <2>1, <2>3
  <2> QED
    BY <1>2, <2>1, <2>2, <2>3
<1>10. uu = st
  BY <1>6, <1>8, <1>9, SameSeq
<1> QED
  BY <1>3, <1>4, <1>5, <1>6, <1>7, <1>10 DEF c, st

(* A pass leaves tokens as they are.                                        *)
LEMMA TokensPass == ASSUME NEW t, Settled(t) PROVE Pass(t) = t
<1> DEFINE ss == [i \in DOMAIN t |-> Write(t[i])]
<1>0. Clear(t)
  BY TokensClear
<1>1. /\ Pass(t) = FlattenSeq(ss) /\ IsSeq(ss) /\ Len(ss) = Len(t)
      /\ \A i \in 1 .. Len(t) : ss[i] = Write(t[i]) /\ IsSeq(ss[i])
  BY <1>0, PassParts
<1> HIDE DEF ss
<1>2. \A i \in 1 .. Len(t) : ss[i] = <<t[i]>>
  BY <1>1, TokenWrites DEF Settled
<1>3. IsSeq(t) /\ Len(t) \in Nat
  BY SeqLen DEF Settled
<1>4. CASE Len(t) = 0
  <2>1. t = <<>> /\ ss = <<>>
    BY <1>1, <1>3, <1>4, SeqEmpty, SameSeq
  <2> QED
    BY <1>1, <2>1, FlattenEmpty
<1>5. CASE Len(t) # 0
  <2>1. PICK f : PartsJoined(ss, f) /\ FlattenSeq(ss) = f[Len(t)]
    BY <1>1, <1>5, FlattenPrefixes
  <2> DEFINE Begins(a, m) == IsSeq(a) /\ Len(a) = m /\ \A i \in 1 .. m : a[i] = t[i]
             S == {m \in Nat : m \in 1 .. Len(t) => Begins(f[m], m)}
  <2>2. 0 \in S
    OBVIOUS
  <2>3. ASSUME NEW m \in Nat, m \in S PROVE m + 1 \in S
    <3> SUFFICES ASSUME m + 1 <= Len(t) PROVE Begins(f[m + 1], m + 1)
      <4> HIDE DEF Begins
      <4> QED
        OBVIOUS
    <3>0. m + 1 \in 1 .. Len(t)
      BY <1>3
    <3> DEFINE x == t[m + 1]
    <3>1. ss[m + 1] = <<x>>
      BY <1>2, <3>0
    <3>2. IsSeq(<<x>>) /\ Len(<<x>>) = 1 /\ <<x>>[1] = x
      BY SeqOne
    <3> HIDE DEF x
    <3>3. CASE m = 0
      <4>1. f[m + 1] = <<x>>
        BY <1>1, <2>1, <3>1, <3>3 DEF PartsJoined
      <4>2. Begins(<<x>>, 1)
        <5> DEFINE o == <<x>>
        <5> HIDE DEF o
        <5>1. IsSeq(o) /\ Len(o) = 1 /\ o[1] = t[1]
          BY <3>2, <3>3 DEF o, x
        <5>2. Begins(o, 1)
          BY <5>1
        <5> QED
          BY <5>2 DEF o
      <4> HIDE DEF Begins
      <4> QED
        BY <3>3, <4>1, <4>2
    <3>4. CASE m # 0
      <4>1. m \in 1 .. Len(t) /\ m + 1 \in 2 .. Len(ss) /\ (m + 1) - 1 = m
        BY <1>1, <3>0, <3>4
      <4> DEFINE a == f[m]
                 o == <<x>>
      <4>2. f[m + 1] = a \o o
        BY <2>1, <3>1, <4>1 DEF PartsJoined
      <4>3. Begins(a, m)
        <5> HIDE DEF Begins
        <5> QED
          BY <2>3, <4>1
      <4>4. IsSeq(o) /\ Len(o) = 1 /\ o[1] = t[m + 1]
        BY <3>2 DEF x
      <4> HIDE DEF a, o
      <4>5. /\ IsSeq(a \o o) /\ Len(a \o o) = m + 1
            /\ \A i \in 1 .. m : (a \o o)[i] = a[i]
            /\ \A i \in 1 .. 1 : (a \o o)[m + i] = o[i]
        <5>0. IsSeq(a) /\ IsSeq(o)
          BY <4>3, <4>4
        <5>1. /\ IsSeq(a \o o) /\ Len(a \o o) = Len(a) + Len(o)
              /\ \A i \in 1 .. Len(a) : (a \o o)[i] = a[i]
              /\ \A i \in 1 .. Len(o) : (a \o o)[Len(a) + i] = o[i]
          BY ONLY <5>0, SeqConcat
        <5>2. Len(a) = m /\ Len(o) = 1
          BY <4>3, <4>4
        <5> HIDE DEF Begins
        <5> QED
          BY <5>1, <5>2
      <4> DEFINE ao == a \o o
      <4>6. /\ IsSeq(ao) /\ Len(ao) = m + 1 /\ ao[m + 1] = t[m + 1]
            /\ \A i \in 1 .. m : ao[i] = t[i]
        BY <4>3, <4>4, <4>5
      <4> HIDE DEF ao
      <4>7. Begins(ao, m + 1)
        <5>1. ASSUME NEW i \in 1 .. m + 1 PROVE ao[i] = t[i]
          <6>1. i = m + 1 \/ i \in 1 .. m
            OBVIOUS
          <6> QED
            BY <4>6, <6>1
        <5> QED
          BY <4>6, <5>1
      <4> HIDE DEF Begins
      <4> QED
        BY <4>2, <4>7 DEF ao
    <3> QED
      BY <3>3, <3>4
  <2>4. Len(t) \in S
    <3> HIDE DEF S
    <3> QED
      BY <1>3, <2>2, <2>3, NatSetInduction
  <2>5. Begins(f[Len(t)], Len(t))
    <3> HIDE DEF Begins
    <3> QED
      BY <1>3, <1>5, <2>4
  <2>6. f[Len(t)] = t
    BY <1>3, <2>5, SameSeq
  <2> QED
    BY <1>1, <2>1, <2>6
<1> QED
  BY <1>4, <1>5

(* Once everything is written, more passes change nothing.                  *)
LEMMA WritingLonger ==
    ASSUME NEW w, NEW t, Settled(t), NEW n \in Nat, NEW f, Writing(w, t, f, n), NEW m \in Nat
    PROVE  \E h : Writing(w, t, h, n + m)
<1> DEFINE h == [k \in 0 .. n + m |-> IF k <= n THEN f[k] ELSE t]
<1>1. ASSUME NEW k \in 0 .. n PROVE h[k] = f[k]
  BY <1>1
<1>2. ASSUME NEW k \in n .. n + m PROVE h[k] = t
  <2>1. k \in 0 .. n + m /\ (k <= n => k = n) /\ f[n] = t
    BY <1>2 DEF Writing
  <2> QED
    BY <2>1
<1> HIDE DEF h
<1>3. h[0] = w /\ h[n + m] = t
  BY <1>1, <1>2, 0 \in 0 .. n, n + m \in n .. n + m DEF Writing
<1>4. ASSUME NEW k \in 0 .. (n + m) - 1 PROVE h[k + 1] = Go(<<>>, h[k])
  <2>1. CASE k < n
    <3>1. k \in 0 .. n - 1 /\ k \in 0 .. n /\ k + 1 \in 0 .. n
      BY <2>1
    <3>2. h[k] = f[k] /\ h[k + 1] = f[k + 1]
      BY <1>1, <3>1
    <3>3. f[k + 1] = Go(<<>>, f[k])
      BY <3>1 DEF Writing, Run
    <3> QED
      BY <3>2, <3>3
  <2>2. CASE k >= n
    <3>1. h[k] = t /\ h[k + 1] = t
      BY <1>2, <2>2, k \in n .. n + m, k + 1 \in n .. n + m
    <3> QED
      BY <3>1, TokensPass, GoPass
  <2> QED
    BY <2>1, <2>2
<1>5. ASSUME NEW k \in 0 .. n + m PROVE Clear(h[k])
  <2>1. CASE k <= n
    <3>1. k \in 0 .. n
      BY <2>1
    <3> QED
      BY <1>1, <3>1 DEF Writing
  <2>2. CASE k > n
    BY <1>2, <2>2, TokensClear, k \in n .. n + m
  <2> QED
    BY <2>1, <2>2
<1> QED
  BY <1>3, <1>4, <1>5 DEF Writing, Run

(* Tokens after tokens are tokens.                                          *)
LEMMA TokensConcat ==
    ASSUME NEW s, NEW t, Settled(s), Settled(t)
    PROVE  Settled(s \o t) /\ Len(s \o t) = Len(s) + Len(t)
<1>1. /\ IsSeq(s \o t) /\ Len(s \o t) = Len(s) + Len(t)
      /\ \A i \in 1 .. Len(s) : (s \o t)[i] = s[i]
      /\ \A i \in 1 .. Len(t) : (s \o t)[Len(s) + i] = t[i]
      /\ Len(s) \in Nat /\ Len(t) \in Nat
  BY SeqConcat, SeqLen DEF Settled
<1> DEFINE u == s \o t
<1> HIDE DEF u
<1>2. ASSUME NEW i \in 1 .. Len(u) PROVE IsToken(u[i]) \/ IsFatal(u[i])
  <2>1. CASE i <= Len(s)
    BY <1>1, <2>1 DEF u, Settled
  <2>2. CASE i > Len(s)
    <3>1. i - Len(s) \in 1 .. Len(t) /\ i = Len(s) + (i - Len(s))
      BY <1>1, <2>2 DEF u
    <3> QED
      BY <1>1, <3>1 DEF u, Settled
  <2> QED
    BY <1>1, <2>1, <2>2
<1> QED
  BY <1>1, <1>2 DEF u, Settled

(* Tokens are written as themselves.                                        *)
LEMMA WritesTokens == ASSUME NEW t, Settled(t) PROVE WritesTo(t, t)
<1> DEFINE f == [k \in {0} |-> t]
<1>1. f[0] = t /\ Run(<<>>, f, 0)
  BY DEF Run
<1> HIDE DEF f
<1>2. \A k \in 0 .. 0 : Clear(f[k])
  BY <1>1, TokensClear, 0 .. 0 = {0}
<1> QED
  BY <1>1, <1>2 DEF WritesTo, Writing

(* Two stretches are written one after the other.                           *)
LEMMA WritesConcat ==
    ASSUME NEW a, NEW b, NEW s, NEW t, WritesTo(a, s), WritesTo(b, t)
    PROVE  WritesTo(a \o b, s \o t)
<1>1. PICK n \in Nat : \E f : Writing(a, s, f, n)
  BY DEF WritesTo
<1>2. PICK m \in Nat : \E g : Writing(b, t, g, m)
  BY DEF WritesTo
<1> DEFINE N == n + m
<1>3. PICK f : Writing(a, s, f, N)
  BY <1>1, WritingLonger DEF WritesTo
<1>4. PICK g : Writing(b, t, g, N)
  <2>1. \E g : Writing(b, t, g, m + n)
    BY <1>2, WritingLonger DEF WritesTo
  <2> QED
    BY <2>1, m + n = N
<1> DEFINE h == [k \in 0 .. N |-> f[k] \o g[k]]
<1>5. N \in Nat
  OBVIOUS
<1> HIDE DEF N
<1>7. ASSUME NEW k \in 0 .. N PROVE h[k] = f[k] \o g[k]
  OBVIOUS
<1> HIDE DEF h
<1>6. h[0] = a \o b /\ h[N] = s \o t
  <2>1. h[0] = f[0] \o g[0] /\ h[N] = f[N] \o g[N]
    BY <1>5, <1>7, 0 \in 0 .. N, N \in 0 .. N
  <2>2. f[0] = a /\ g[0] = b /\ f[N] = s /\ g[N] = t
    BY <1>3, <1>4 DEF Writing
  <2> QED
    BY <2>1, <2>2, Zenon
<1>8. ASSUME NEW k \in 0 .. N PROVE Clear(h[k])
  BY <1>3, <1>4, <1>7, ClearConcat DEF Writing
<1>9. ASSUME NEW k \in 0 .. N - 1 PROVE h[k + 1] = Go(<<>>, h[k])
  <2>1. k \in 0 .. N /\ k + 1 \in 0 .. N
    BY <1>5
  <2> DEFINE x == f[k]
             y == g[k]
  <2>2. f[k + 1] = Pass(x) /\ g[k + 1] = Pass(y) /\ Clear(x) /\ Clear(y)
    BY <1>3, <1>4, <2>1, GoPass DEF Writing, Run
  <2>3. h[k] = x \o y /\ h[k + 1] = Pass(x) \o Pass(y)
    BY <1>7, <2>1, <2>2
  <2> HIDE DEF x, y
  <2>4. Pass(x \o y) = Pass(x) \o Pass(y)
    BY <2>2, ClearConcat
  <2> QED
    BY <2>3, <2>4, GoPass
<1>10. Settled(s \o t)
  BY TokensConcat DEF WritesTo
<1>11. Writing(a \o b, s \o t, h, N)
  BY <1>6, <1>8, <1>9 DEF Writing, Run
<1> QED
  BY <1>5, <1>10, <1>11 DEF WritesTo

(* What a pass makes of the items is written as the items are.              *)
LEMMA WritesPass ==
    ASSUME NEW w, NEW t, Clear(w), WritesTo(Pass(w), t)
    PROVE  WritesTo(w, t)
<1>1. PICK n \in Nat : \E f : Writing(Pass(w), t, f, n)
  BY DEF WritesTo
<1>2. PICK f : Writing(Pass(w), t, f, n)
  BY <1>1
<1> DEFINE h == [k \in 0 .. n + 1 |-> IF k = 0 THEN w ELSE f[k - 1]]
<1>3. h[0] = w
  OBVIOUS
<1>4. ASSUME NEW k \in 0 .. n PROVE h[k + 1] = f[k]
  <2>1. k + 1 \in 0 .. n + 1 /\ k + 1 # 0 /\ (k + 1) - 1 = k
    OBVIOUS
  <2> QED
    BY <2>1
<1> HIDE DEF h
<1>5. ASSUME NEW k \in 0 .. (n + 1) - 1 PROVE h[k + 1] = Go(<<>>, h[k])
  <2>1. CASE k = 0
    BY <1>2, <1>3, <1>4, <2>1, GoPass DEF Writing
  <2>2. CASE k # 0
    <3> DEFINE j == k - 1
    <3>1. j \in 0 .. n - 1 /\ j \in 0 .. n /\ j + 1 = k /\ k \in 0 .. n
      BY <2>2
    <3> HIDE DEF j
    <3>2. h[k] = f[j] /\ h[k + 1] = f[k]
      BY <1>4, <3>1
    <3>3. f[j + 1] = Go(<<>>, f[j])
      BY <1>2, <3>1 DEF Writing, Run
    <3> QED
      BY <3>1, <3>2, <3>3
  <2> QED
    BY <2>1, <2>2
<1>6. ASSUME NEW k \in 0 .. n + 1 PROVE Clear(h[k])
  <2>1. CASE k = 0
    BY <1>3, <2>1
  <2>2. CASE k # 0
    <3> DEFINE j == k - 1
    <3>1. j \in 0 .. n /\ j + 1 = k
      BY <2>2
    <3> HIDE DEF j
    <3> QED
      BY <1>2, <1>4, <3>1 DEF Writing
  <2> QED
    BY <2>1, <2>2
<1>7. h[n + 1] = t
  BY <1>2, <1>4, n \in 0 .. n DEF Writing
<1>8. Writing(w, t, h, n + 1)
  BY <1>3, <1>5, <1>6, <1>7 DEF Writing, Run
<1> QED
  BY <1>8, n + 1 \in Nat DEF WritesTo

(* Passes over tokens lead to the tokens.                                   *)
LEMMA TokensStay ==
    ASSUME NEW t, Settled(t), NEW n \in Nat
    PROVE  Leads(<<>>, t, t, n)
<1>1. Writing(t, t, [k \in {0} |-> t], 0)
  <2> DEFINE f == [k \in {0} |-> t]
  <2>1. f[0] = t /\ Run(<<>>, f, 0)
    BY DEF Run
  <2> HIDE DEF f
  <2>2. \A k \in 0 .. 0 : Clear(f[k])
    BY <2>1, TokensClear, 0 .. 0 = {0}
  <2>3. Writing(t, t, f, 0)
    BY <2>1, <2>2 DEF Writing
  <2> QED
    BY <2>3 DEF f
<1>2. \E h : Writing(t, t, h, 0 + n)
  BY <1>1, WritingLonger
<1> QED
  BY <1>2, 0 + n = n DEF Writing, Leads, Trace, Busy

(* The only member of a set of one.                                         *)
LEMMA OneOf ==
    ASSUME NEW x
    PROVE  (CHOOSE y \in {x} : TRUE) = x
OBVIOUS

(* Output is what the items are written as.                                 *)
LEMMA OutputIs ==
    ASSUME NEW w, NEW t, WritesTo(w, t)
    PROVE  Output(w) = t
<1> DEFINE After(f) == f = [n \in Nat |-> IF n = 0 THEN w
                                ELSE CHOOSE next \in {Pass(now) : now \in {f[n - 1]}} : TRUE]
           after == CHOOSE f : After(f)
           Passes(g) == g = [n \in Nat |-> IF \A now \in {after[n]} : AllWritten(now) THEN n
                                           ELSE g[n + 1]]
           passes == CHOOSE g : Passes(g)
<1>1. Output(w) = after[passes[0]]
  BY Zenon DEF Output
<1>2. ASSUME NEW f PROVE After(f) <=> Iterate(<<>>, w, f)
  <2>1. ASSUME NEW x PROVE (CHOOSE next \in {Pass(now) : now \in {x}} : TRUE) = Go(<<>>, x)
    <3>1. {Pass(now) : now \in {x}} = {Pass(x)}
      OBVIOUS
    <3> QED
      BY <3>1, OneOf, GoPass
  <2> QED
    BY <2>1, Zenon DEF Iterate
<1> HIDE DEF After
<1>3. \E f : After(f)
  <2>1. PICK f : Iterate(<<>>, w, f)
    BY Iterates
  <2> QED
    BY <1>2, <2>1
<1>4. After(after)
  BY <1>3
<1>5. Iterate(<<>>, w, after)
  BY <1>2, <1>4
<1> HIDE DEF after
<1>6. PICK n \in Nat : \E f : Writing(w, t, f, n)
  BY DEF WritesTo
<1>7. Settled(t)
  BY DEF WritesTo
<1>8. ASSUME NEW m \in Nat, NEW y, Leads(<<>>, w, y, m) PROVE after[m] = y
  BY <1>5, <1>8, IteratesLead
<1>9. ASSUME NEW m \in Nat PROVE Clear(after[m]) /\ Leads(<<>>, w, after[m], m)
  <2>1. PICK h : Writing(w, t, h, n + m)
    BY <1>6, <1>7, WritingLonger
  <2>2. Leads(<<>>, w, h[m], m) /\ Clear(h[m])
    BY <2>1 DEF Writing, Leads, Trace, Run, Busy
  <2> QED
    BY <1>8, <2>2
<1>10. after[n] = t
  BY <1>6, <1>8 DEF Writing, Leads, Trace, Busy
<1> DEFINE Done == {m \in Nat : AllWritten(after[m])}
<1>11. n \in Done
  <2>1. AllWritten(t)
    <3>1. DOMAIN t = 1 .. Len(t)
      BY <1>7, SeqLen DEF Settled
    <3> QED
      BY <1>7, <3>1 DEF Settled, AllWritten
  <2> QED
    BY <1>10, <2>1
<1>12. PICK N \in Done : \A m \in Done : N <= m
  <2> HIDE DEF Done
  <2>1. Done \subseteq Nat
    BY DEF Done
  <2> QED
    BY <1>11, <2>1, LeastNat
<1> DEFINE u == after[N]
<1>13. Settled(u)
  <2>1. Clear(u) /\ AllWritten(u)
    BY <1>9, <1>12
  <2> HIDE DEF u
  <2>2. DOMAIN u = 1 .. Len(u)
    BY <2>1, SeqLen DEF Clear
  <2> QED
    BY <2>1, <2>2 DEF Clear, AllWritten, Settled
<1>14. N \in Nat /\ N <= n
  BY <1>11, <1>12
<1>15. ASSUME NEW m \in Nat, N <= m PROVE after[m] = u
  <2> HIDE DEF u
  <2> DEFINE j == m - N
  <2>1. j \in Nat /\ N + j = m
    BY <1>14, <1>15
  <2> HIDE DEF j
  <2>2. Leads(<<>>, u, u, j)
    BY <1>13, <2>1, TokensStay
  <2>3. Leads(<<>>, w, u, N)
    BY <1>9, <1>14 DEF u
  <2>4. Leads(<<>>, w, u, N + j)
    BY <1>14, <2>1, <2>2, <2>3, LeadsOn
  <2> QED
    BY <1>8, <2>1, <2>4
<1>16. u = t
  BY <1>10, <1>14, <1>15
<1>17. ASSUME NEW m \in Nat PROVE AllWritten(after[m]) <=> N <= m
  <2>1. AllWritten(after[m]) => N <= m
    BY <1>12
  <2>2. N <= m => AllWritten(after[m])
    BY <1>12, <1>15
  <2> QED
    BY <2>1, <2>2
<1>18. ASSUME NEW g
       PROVE  Passes(g) <=> g = [m \in Nat |-> IF N <= m THEN m ELSE g[m + 1]]
  <2>1. ASSUME NEW m \in Nat PROVE (\A now \in {after[m]} : AllWritten(now)) <=> N <= m
    BY <1>17
  <2> QED
    BY <2>1, Zenon
<1> HIDE DEF Passes
<1>19. \E g : Passes(g)
  <2> DEFINE g == [m \in Nat |-> IF N <= m THEN m ELSE N]
  <2>1. ASSUME NEW m \in Nat PROVE g[m] = IF N <= m THEN m ELSE g[m + 1]
    <3>1. CASE N <= m
      BY <3>1
    <3>2. CASE ~(N <= m)
      <4>1. m + 1 \in Nat /\ (N <= m + 1 => m + 1 = N)
        BY <1>14, <3>2
      <4>2. g[m + 1] = N
        BY <4>1
      <4>3. g[m] = N
        BY <3>2
      <4> QED
        BY <3>2, <4>2, <4>3
    <3> QED
      BY <3>1, <3>2
  <2>2. g = [m \in Nat |-> g[m]]
    OBVIOUS
  <2> HIDE DEF g
  <2>3. g = [m \in Nat |-> IF N <= m THEN m ELSE g[m + 1]]
    BY <2>1, <2>2
  <2> QED
    BY <1>18, <2>3
<1>20. passes = [m \in Nat |-> IF N <= m THEN m ELSE passes[m + 1]]
  BY <1>18, <1>19
<1> HIDE DEF passes
<1>21. ASSUME NEW m \in Nat PROVE passes[m] = IF N <= m THEN m ELSE passes[m + 1]
  BY <1>20
<1> DEFINE S == {m \in Nat : m <= N => passes[0] = passes[m]}
<1>22. 0 \in S
  OBVIOUS
<1>23. ASSUME NEW m \in Nat, m \in S PROVE m + 1 \in S
  <2> SUFFICES ASSUME m + 1 <= N PROVE passes[0] = passes[m + 1]
    OBVIOUS
  <2>1. m <= N /\ ~(N <= m)
    BY <1>14
  <2> QED
    BY <1>21, <1>23, <2>1
<1>24. N \in S
  <2> HIDE DEF S
  <2> QED
    BY <1>14, <1>22, <1>23, NatSetInduction
<1>25. passes[0] = N
  BY <1>14, <1>21, <1>24
<1> QED
  BY <1>1, <1>16, <1>25

----------------------------------------------------------------------------
(* Reading: what travels from a writer to a reader.                         *)

(* The tokens toks stand behind the first at of a message.                  *)
Here(tokens, at, toks) ==
    /\ IsSeq(tokens) /\ at \in Nat /\ at + Len(toks) <= Len(tokens)
    /\ \A i \in 1 .. Len(toks) : tokens[at + i] = toks[i]

(* Wherever toks stand in a message, Read gives its caller v and goes on    *)
(* behind them. There are fewer than two steps per token: a message of any  *)
(* length is read within the steps Read allows itself.                      *)
ReadsAs(type, old, toks, v) ==
    \A tokens, caller, at :
        Here(tokens, at, toks) =>
            \E n \in 0 .. 2 * Len(toks) - 1 :
                Leads(<<tokens>>, Read(tokens, type, old, caller, at),
                      Goes(Received(caller, v), at + Len(toks)), n)

(* Wherever toks stand, the reader of a struct goes from c1 to c2.          *)
ReadsFields(c1, toks, c2) ==
    \A tokens, caller, at, m1 :
        Here(tokens, at, toks) =>
            \E m2 : \E n \in 0 .. 2 * Len(toks) :
                Leads(<<tokens>>, Goes(StructCall(c1, m1, caller), at),
                      Goes(StructCall(c2, m2, caller), at + Len(toks)), n)

(* Wherever toks stand, the reader of a list goes from l1 to l2, k elements *)
(* on.                                                                      *)
ReadsElements(of, toks, k, l1, l2) ==
    \A tokens, caller, at, left :
        Here(tokens, at, toks) /\ left \in Nat /\ k <= left =>
            \E n \in 0 .. 2 * Len(toks) :
                Leads(<<tokens>>, Goes(ListCall(of, left, l1, caller), at),
                      Goes(ListCall(of, left - k, l2, caller), at + Len(toks)), n)

(* The value v is written as tokens that a reader which begins with old     *)
(* reads as v2: what the two functions generated for a struct promise       *)
(* together.                                                                *)
Travels(type, v, old, v2) ==
    \E toks : WritesTo(<<Value(type, v)>>, toks) /\ Len(toks) # 0 /\ ReadsAs(type, old, toks, v2)

(* So do the items of a struct for the struct that is read.                 *)
Carries(items, c1, c2) ==
    \E toks : WritesTo(items, toks) /\ ReadsFields(c1, toks, c2)

(* So do the items of a list.                                               *)
CarriesElements(of, items, k, l1, l2) ==
    \E toks : WritesTo(items, toks) /\ ReadsElements(of, toks, k, l1, l2)

(* A step of a reader is ReadStep.                                          *)
LEMMA GoRead == ASSUME NEW tokens, NEW r PROVE Go(<<tokens>>, r) = ReadStep(tokens, r)
<1>1. <<tokens>> # <<>> /\ <<tokens>>[1] = tokens
  OBVIOUS
<1> QED
  BY <1>1, Zenon DEF Go

(* Kept as a definition, so that the provers take a concatenation apart     *)
(* where they are told to.                                                  *)
Joined(u, s, t) == u = s \o t

(* Where a stretch of tokens stands, so do its two parts.                   *)
LEMMA HereSplit ==
    ASSUME NEW tokens, NEW at, NEW front, NEW back, NEW whole, Joined(whole, front, back), IsSeq(front), IsSeq(back),
           Here(tokens, at, whole)
    PROVE  /\ Here(tokens, at, front) /\ Here(tokens, at + Len(front), back)
           /\ at + Len(front) + Len(back) = at + Len(whole)
           /\ Len(front) \in Nat /\ Len(back) \in Nat /\ at \in Nat /\ Len(tokens) \in Nat
<1>1. /\ Len(whole) = Len(front) + Len(back) /\ Len(front) \in Nat /\ Len(back) \in Nat
      /\ \A i \in 1 .. Len(front) : whole[i] = front[i]
      /\ \A i \in 1 .. Len(back) : whole[Len(front) + i] = back[i]
  BY SeqConcat, SeqLen DEF Joined
<1>2. /\ IsSeq(tokens) /\ at \in Nat /\ at + Len(whole) <= Len(tokens) /\ Len(tokens) \in Nat
      /\ \A i \in 1 .. Len(whole) : tokens[at + i] = whole[i]
  BY SeqLen DEF Here
<1>3. \A i \in 1 .. Len(front) : tokens[at + i] = front[i]
  BY <1>1, <1>2
<1>4. ASSUME NEW i \in 1 .. Len(back) PROVE tokens[(at + Len(front)) + i] = back[i]
  <2>1. Len(front) + i \in 1 .. Len(whole) /\ at + (Len(front) + i) = (at + Len(front)) + i
    BY <1>1, <1>2
  <2> QED
    BY <1>1, <1>2, <2>1
<1>5. Here(tokens, at, front)
  BY <1>1, <1>2, <1>3 DEF Here
<1>6. Here(tokens, at + Len(front), back)
  BY <1>1, <1>2, <1>4 DEF Here
<1> QED
  BY <1>1, <1>2, <1>5, <1>6

(* No field changes no struct.                                              *)
LEMMA FieldsNone == ASSUME NEW c PROVE ReadsFields(c, <<>>, c)
<1> SUFFICES ASSUME NEW tokens, NEW caller, NEW at, NEW m1, Here(tokens, at, <<>>)
             PROVE  \E m2 : \E n \in 0 .. 2 * Len(<<>>) :
                        Leads(<<tokens>>, Goes(StructCall(c, m1, caller), at),
                              Goes(StructCall(c, m2, caller), at + Len(<<>>)), n)
  BY Zenon DEF ReadsFields
<1>1. at + Len(<<>>) = at /\ 0 \in 0 .. 2 * Len(<<>>)
  BY DEF Here
<1>2. Leads(<<tokens>>, Goes(StructCall(c, m1, caller), at),
                              Goes(StructCall(c, m1, caller), at), 0)
  BY LeadsZero
<1> QED
  BY <1>1, <1>2

(* Fields are read one after the other.                                     *)
LEMMA FieldsConcat ==
    ASSUME NEW c1, NEW c2, NEW c3, NEW s, NEW t, IsSeq(s), IsSeq(t),
           ReadsFields(c1, s, c2), ReadsFields(c2, t, c3)
    PROVE  ReadsFields(c1, s \o t, c3)
<1> DEFINE u == s \o t
<1>0. Joined(u, s, t) /\ Len(u) = Len(s) + Len(t)
  BY SeqConcat DEF Joined
<1> HIDE DEF u
<1> SUFFICES ASSUME NEW tokens, NEW caller, NEW at, NEW m1, Here(tokens, at, u)
             PROVE  \E m2 : \E n \in 0 .. 2 * Len(u) :
                        Leads(<<tokens>>, Goes(StructCall(c1, m1, caller), at),
                              Goes(StructCall(c3, m2, caller), at + Len(u)), n)
  BY Zenon DEF ReadsFields, u
<1>1. /\ Here(tokens, at, s) /\ Here(tokens, at + Len(s), t)
      /\ at + Len(s) + Len(t) = at + Len(u)
      /\ Len(s) \in Nat /\ Len(t) \in Nat /\ at \in Nat
  BY <1>0, HereSplit
<1>3. PICK m2 : \E n \in 0 .. 2 * Len(s) :
                        Leads(<<tokens>>, Goes(StructCall(c1, m1, caller), at),
                              Goes(StructCall(c2, m2, caller), at + Len(s)), n)
  BY <1>1, Zenon DEF ReadsFields
<1>4. PICK n \in 0 .. 2 * Len(s) :
                        Leads(<<tokens>>, Goes(StructCall(c1, m1, caller), at),
                              Goes(StructCall(c2, m2, caller), at + Len(s)), n)
  BY <1>3
<1>5. PICK m3 : \E m \in 0 .. 2 * Len(t) :
                        Leads(<<tokens>>, Goes(StructCall(c2, m2, caller), at + Len(s)),
                              Goes(StructCall(c3, m3, caller), at + Len(s) + Len(t)), m)
  BY <1>1, Zenon DEF ReadsFields
<1>6. PICK m \in 0 .. 2 * Len(t) :
                        Leads(<<tokens>>, Goes(StructCall(c2, m2, caller), at + Len(s)),
                              Goes(StructCall(c3, m3, caller), at + Len(s) + Len(t)), m)
  BY <1>5
<1>7. n \in Nat /\ m \in Nat /\ n + m \in 0 .. 2 * Len(u)
  BY <1>0, <1>1
<1>8. Leads(<<tokens>>, Goes(StructCall(c1, m1, caller), at),
                              Goes(StructCall(c3, m3, caller), at + Len(s) + Len(t)), n + m)
  BY <1>4, <1>6, <1>7, LeadsOn
<1> QED
  BY <1>1, <1>7, <1>8

(* Nothing written carries nothing.                                         *)
LEMMA CarriesNone == ASSUME NEW c PROVE Carries(<<>>, c, c)
<1>1. WritesTo(<<>>, <<>>)
  <2>1. Settled(<<>>)
    BY SeqEmpty DEF Settled
  <2> QED
    BY <2>1, WritesTokens
<1> QED
  BY <1>1, FieldsNone DEF Carries

(* What two stretches carry, they carry one after the other.                *)
LEMMA CarriesConcat ==
    ASSUME NEW a, NEW b, NEW c1, NEW c2, NEW c3, Carries(a, c1, c2), Carries(b, c2, c3)
    PROVE  Carries(a \o b, c1, c3)
<1>1. PICK s : WritesTo(a, s) /\ ReadsFields(c1, s, c2)
  BY DEF Carries
<1>2. PICK t : WritesTo(b, t) /\ ReadsFields(c2, t, c3)
  BY DEF Carries
<1>3. WritesTo(a \o b, s \o t)
  BY <1>1, <1>2, WritesConcat
<1>4. IsSeq(s) /\ IsSeq(t)
  BY <1>1, <1>2 DEF WritesTo, Settled
<1>5. ReadsFields(c1, s \o t, c3)
  BY <1>1, <1>2, <1>4, FieldsConcat
<1> QED
  BY <1>3, <1>5 DEF Carries

(* The reader of the struct c has a field of this number, name and type.    *)
Knows(c, fid, name, type) ==
    /\ c.type # NoObject.type /\ fid \in DOMAIN ReadTable[c.type]
    /\ ReadTable[c.type][fid] = M(name, type)
    /\ type.wire # "T_STOP" /\ name # "none"

(* The struct with a value put in and marked set.                           *)
With(c, name, v) == [c EXCEPT !.has[name] = v, !.isset = @ \cup {name}]

(* A value that has been read is put into the struct, and marked set.       *)
LEMMA ReceivedField ==
    ASSUME NEW c, NEW name, name # "none", NEW caller, NEW v
    PROVE  Received(StructCall(c, name, caller), v) = StructCall(With(c, name, v), name, caller)
<1> DEFINE s == StructCall(c, name, caller)
<1>1. s = [reads |-> "struct", object |-> c, member |-> name, caller |-> caller]
  BY DEF StructCall
<1>2. s.reads = "struct" /\ s.member = name /\ s.object = c /\ s.caller = caller
  BY <1>1
<1> HIDE DEF s
<1>3. Received(s, v) = [s EXCEPT !.object.has[s.member] = v,
                                !.object.isset = @ \cup {s.member}]
  BY <1>2 DEF Received
<1> DEFINE o1 == [c EXCEPT !.has[name] = v]
           s1 == [s EXCEPT !.object = o1]
           s2 == [s1 EXCEPT !.object = [o1 EXCEPT !.isset = @ \cup {name}]]
<1>4. [s EXCEPT !.object.has[name] = v, !.object.isset = @ \cup {name}] = s2
  BY <1>2
<1>5. [o1 EXCEPT !.isset = @ \cup {name}] = With(c, name, v)
  BY DEF With
<1>6. s2 = [reads |-> "struct", object |-> With(c, name, v), member |-> name, caller |-> caller]
  <2> HIDE DEF o1
  <2>1. s2 = [s1 EXCEPT !.object = With(c, name, v)]
    BY <1>5
  <2>2. s1 = [reads |-> "struct", object |-> o1, member |-> name, caller |-> caller]
    BY <1>1 DEF s
  <2> HIDE DEF s1, s2
  <2> QED
    BY <2>1, <2>2
<1> QED
  BY <1>2, <1>3, <1>4, <1>6 DEF StructCall, s

----------------------------------------------------------------------------
(* A field, a struct, a number and a string travel.                         *)

(* The first token of a stretch, and the others.                            *)
LEMMA HereFirst ==
    ASSUME NEW tokens, NEW at, NEW first, NEW others, NEW them, Joined(them, first, others),
           IsSeq(first), Len(first) = 1, IsSeq(others), Here(tokens, at, them)
    PROVE  /\ at \in Nat /\ at # Len(tokens) /\ tokens[at + 1] = first[1]
           /\ Here(tokens, at + 1, others)
           /\ at + 1 + Len(others) = at + Len(them) /\ Len(them) = 1 + Len(others)
           /\ Len(others) \in Nat
<1>1. /\ Here(tokens, at, first) /\ Here(tokens, at + Len(first), others)
      /\ at + Len(first) + Len(others) = at + Len(them)
      /\ Len(first) \in Nat /\ Len(others) \in Nat /\ at \in Nat /\ Len(tokens) \in Nat
  BY ONLY Joined(them, first, others), IsSeq(first), IsSeq(others), Here(tokens, at, them), HereSplit
<1>2. at + 1 <= Len(tokens) /\ tokens[at + 1] = first[1]
  BY <1>1, 1 \in 1 .. 1 DEF Here
<1>3. Len(them) = Len(first) + Len(others)
  BY SeqConcat DEF Joined
<1> QED
  BY <1>1, <1>2, <1>3

(* The last token of a stretch, and the others.                             *)
LEMMA HereLast ==
    ASSUME NEW tokens, NEW at, NEW last, NEW others, NEW them, Joined(them, others, last),
           IsSeq(last), Len(last) = 1, IsSeq(others), Here(tokens, at, them)
    PROVE  /\ at \in Nat /\ Here(tokens, at, others) /\ Len(others) \in Nat
           /\ at + Len(others) # Len(tokens) /\ tokens[at + Len(others) + 1] = last[1]
           /\ at + Len(others) + 1 = at + Len(them) /\ Len(them) = Len(others) + 1
<1>1. /\ Here(tokens, at, others) /\ Here(tokens, at + Len(others), last)
      /\ at + Len(others) + Len(last) = at + Len(them)
      /\ Len(last) \in Nat /\ Len(others) \in Nat /\ at \in Nat /\ Len(tokens) \in Nat
  BY ONLY Joined(them, others, last), IsSeq(last), IsSeq(others), Here(tokens, at, them), HereSplit
<1>2. at + Len(others) + 1 <= Len(tokens) /\ tokens[at + Len(others) + 1] = last[1]
  BY <1>1, 1 \in 1 .. 1 DEF Here
<1>3. Len(them) = Len(others) + Len(last)
  BY SeqConcat DEF Joined
<1> QED
  BY <1>1, <1>2, <1>3

(* Two tokens are one and one.                                              *)
LEMMA PairIs == ASSUME NEW x, NEW y PROVE <<x, y>> = <<x>> \o <<y>>
<1> DEFINE s == <<x>>
           t == <<y>>
           u == <<x, y>>
<1>1. IsSeq(s) /\ Len(s) = 1 /\ s[1] = x /\ IsSeq(t) /\ Len(t) = 1 /\ t[1] = y
  BY SeqOne
<1>2. u \in Seq({x, y}) /\ Len(u) = 2 /\ u[1] = x /\ u[2] = y
  OBVIOUS
<1> HIDE DEF s, t, u
<1> DEFINE w == s \o t
<1>3. IsSeq(w) /\ Len(w) = 2 /\ w[1] = x /\ w[1 + 1] = y
  <2>0. IsSeq(s) /\ IsSeq(t)
    BY <1>1
  <2>1. /\ IsSeq(s \o t) /\ Len(s \o t) = Len(s) + Len(t)
        /\ \A i \in 1 .. Len(s) : (s \o t)[i] = s[i]
        /\ \A i \in 1 .. Len(t) : (s \o t)[Len(s) + i] = t[i]
    BY ONLY <2>0, SeqConcat
  <2>2. /\ IsSeq(w) /\ Len(w) = Len(s) + Len(t)
        /\ \A i \in 1 .. Len(s) : w[i] = s[i]
        /\ \A i \in 1 .. Len(t) : w[Len(s) + i] = t[i]
    BY <2>1
  <2> HIDE DEF w
  <2> QED
    BY <1>1, <2>2, 1 \in 1 .. 1
<1>4. IsSeq(u)
  BY <1>2, SeqIs
<1> HIDE DEF w
<1>5. \A i \in 1 .. 2 : i = 1 \/ i = 1 + 1
  OBVIOUS
<1>6. u = w
  BY <1>2, <1>3, <1>4, <1>5, SameSeq
<1> QED
  BY <1>6 DEF s, t, u, w

(* A token is written as itself.                                            *)
LEMMA TokenWritesTo ==
    ASSUME NEW x
    PROVE  Settled(<<Token(x)>>) /\ WritesTo(<<Token(x)>>, <<Token(x)>>)
<1> DEFINE k == Token(x)
<1>1. IsToken(k)
  BY TokenItem
<1> HIDE DEF k
<1> DEFINE o == <<k>>
<1>2. IsSeq(o) /\ Len(o) = 1 /\ o[1] = k
  BY SeqOne
<1> HIDE DEF o
<1>3. Settled(o)
  BY <1>1, <1>2 DEF Settled
<1>4. WritesTo(o, o)
  BY <1>3, WritesTokens
<1> QED
  BY <1>3, <1>4 DEF o, k

(* A field that is written carries its value into the struct that is read.  *)
LEMMA FieldCarries ==
    ASSUME NEW f, NEW o, NEW c, NEW v,
           f.ifset => f.name \in o.isset,
           Knows(c, f.fid, f.name, f.type),
           Travels(f.type, o.has[f.name], c.has[f.name], v)
    PROVE  Carries(WriteField(f, o), c, With(c, f.name, v))
<1> DEFINE F == Field(f.fid, f.type.wire)
           k == Token(F)
           x == Value(f.type, o.has[f.name])
<1>1. WriteField(f, o) = <<k>> \o <<x>>
  <2>1. WriteField(f, o) = <<k, x>>
    BY Zenon DEF WriteField
  <2>2. <<k, x>> = <<k>> \o <<x>>
    BY ONLY PairIs
  <2> QED
    BY ONLY <2>1, <2>2
<1>2. PICK toks : WritesTo(<<x>>, toks) /\ Len(toks) # 0 /\ ReadsAs(f.type, c.has[f.name], toks, v)
  BY DEF Travels
<1>3. IsSeq(toks) /\ Len(toks) \in Nat
  BY <1>2, SeqLen DEF WritesTo, Settled
<1>4. WritesTo(<<k>>, <<k>>)
  BY TokenWritesTo
<1>5. WritesTo(<<k>> \o <<x>>, <<k>> \o toks)
  BY ONLY <1>2, <1>4, WritesConcat
<1>6. k.token = F /\ F.fid = f.fid /\ F.wire = f.type.wire
  BY TokenItem DEF Field
<1>7. F # Stop
  BY <1>6, Zenon DEF Stop, Field, Knows
<1>8. Known(c, F) /\ ReadTable[c.type][F.fid].type = f.type
      /\ ReadTable[c.type][F.fid].name = f.name
  <2>1. ReadTable[c.type][f.fid].type = f.type /\ ReadTable[c.type][f.fid].name = f.name
    <3>1. M(f.name, f.type).type = f.type /\ M(f.name, f.type).name = f.name
      BY DEF M
    <3> QED
      BY <3>1, Zenon DEF Knows
  <2> QED
    BY <1>6, <2>1, Zenon DEF Known, Knows
<1> HIDE DEF F, k, x
<1>9. ReadsFields(c, <<k>> \o toks, With(c, f.name, v))
  <2> DEFINE all == <<k>> \o toks
             d == With(c, f.name, v)
  <2> SUFFICES ASSUME NEW tokens, NEW caller, NEW at, NEW m1, Here(tokens, at, all)
               PROVE  \E m2 : \E n \in 0 .. 2 * Len(all) :
                          Leads(<<tokens>>, Goes(StructCall(c, m1, caller), at),
                                Goes(StructCall(d, m2, caller), at + Len(all)), n)
    BY Zenon DEF ReadsFields
  <2>1. /\ at \in Nat /\ at # Len(tokens) /\ tokens[at + 1] = k /\ Here(tokens, at + 1, toks)
        /\ at + 1 + Len(toks) = at + Len(all) /\ Len(all) = 1 + Len(toks)
    <3>1. Joined(all, <<k>>, toks)
      BY DEF Joined
    <3> DEFINE one == <<k>>
    <3>2. IsSeq(one) /\ Len(one) = 1 /\ one[1] = k
      BY SeqOne
    <3>3. Joined(all, one, toks)
      BY <3>1
    <3> HIDE DEF all, one
    <3> QED
      BY <1>3, <3>2, <3>3, HereFirst
  <2> HIDE DEF all, d
  <2> DEFINE call == StructCall(c, m1, caller)
             inner == StructCall(c, f.name, caller)
             r1 == Read(tokens, f.type, c.has[f.name], inner, at + 1)
             r0 == Goes(call, at)
  <2>2. call.reads = "struct" /\ call.object = c /\ [call EXCEPT !.member = f.name] = inner
    BY DEF StructCall
  <2>3. r0.call = call /\ r0.at = at
    BY DEF Goes
  <2> HIDE DEF call, inner, r0
  <2>4. Go(<<tokens>>, r0) = r1
    <3>1. Go(<<tokens>>, r0) = ReadField(tokens, call, at)
      BY <2>2, <2>3, GoRead DEF ReadStep
    <3>2. ReadField(tokens, call, at) = r1
      BY <1>6, <1>7, <1>8, <2>1, <2>2, Zenon DEF ReadField
    <3> QED
      BY <3>1, <3>2
  <2>5. Leads(<<tokens>>, r0, r1, 1)
    BY <2>2, <2>3, <2>4, LeadsOne DEF Busy
  <2>6. Received(inner, v) = StructCall(d, f.name, caller)
    BY ReceivedField DEF inner, d, Knows
  <2>7. PICK n \in 0 .. 2 * Len(toks) - 1 :
            Leads(<<tokens>>, r1, Goes(Received(inner, v), at + 1 + Len(toks)), n)
    BY <1>2, <2>1, Zenon DEF ReadsAs
  <2> HIDE DEF r1
  <2>8. n \in Nat /\ 1 + n \in 0 .. 2 * Len(all)
    BY <1>3, <2>1
  <2>9. Leads(<<tokens>>, r0, Goes(Received(inner, v), at + 1 + Len(toks)), 1 + n)
    BY <2>5, <2>7, <2>8, LeadsOn
  <2>10. Leads(<<tokens>>, r0, Goes(StructCall(d, f.name, caller), at + Len(all)), 1 + n)
    BY <2>1, <2>6, <2>9
  <2> QED
    BY <2>8, <2>10, Zenon DEF r0, call
<1> QED
  BY <1>1, <1>5, <1>9 DEF Carries

(* A field of a union that is not set carries nothing.                      *)
LEMMA FieldUnset ==
    ASSUME NEW f, NEW o, NEW c, f.ifset, f.name \notin o.isset
    PROVE  Carries(WriteField(f, o), c, c)
<1>1. WriteField(f, o) = <<>>
  BY Zenon DEF WriteField
<1> QED
  BY <1>1, CarriesNone

(* A struct travels if what its writer writes, the stop left aside, carries *)
(* it.                                                                      *)
LEMMA StructTravels ==
    ASSUME NEW n, NEW o, NEW c1, NEW c2, NEW items, o.type # NoObject.type, IsSeq(items),
           WriteStruct(o) = items \o <<Token(Stop)>>, Carries(items, c1, c2)
    PROVE  Travels(Struct(n), o, c1, c2)
<1> DEFINE x == Value(Struct(n), o)
           k == Token(Stop)
<1>1. x.type.wire = "T_STRUCT" /\ x.value = o /\ ~IsToken(x)
  BY DEF Value, Struct, IsToken
<1>2. Struct(n).wire = "T_STRUCT"
  BY DEF Struct
<1>3. k.token = Stop
  BY TokenItem
<1> HIDE DEF x
<1>4. ~IsFatal(x) /\ Write(x) = items \o <<k>>
  <2>1. ~IsFatal(x)
    BY <1>1, Zenon DEF IsFatal
  <2>2. "T_STRUCT" # "T_STRING" /\ "T_STRUCT" # "T_LIST"
    OBVIOUS
  <2>3. Write(x) = WriteStruct(o)
    BY <1>1, <2>1, <2>2, Zenon DEF Write
  <2> QED
    BY <2>1, <2>3
<1>5. IsSeq(<<k>>)
  BY SeqOne
<1>6. IsSeq(items \o <<k>>)
  BY ONLY <1>5, IsSeq(items), SeqConcat
<1>7. Clear(<<x>>) /\ Pass(<<x>>) = items \o <<k>>
  BY <1>4, <1>6, PassOne
<1>8. PICK toks : WritesTo(items, toks) /\ ReadsFields(c1, toks, c2)
  BY DEF Carries
<1>9. WritesTo(<<k>>, <<k>>)
  BY TokenWritesTo
<1> HIDE DEF k
<1>10. WritesTo(items \o <<k>>, toks \o <<k>>)
  BY ONLY <1>8, <1>9, WritesConcat
<1>11. WritesTo(<<x>>, toks \o <<k>>)
  BY <1>7, <1>10, WritesPass
<1>12. IsSeq(toks) /\ Len(toks) \in Nat
  BY <1>8, SeqLen DEF WritesTo, Settled
<1> DEFINE all == toks \o <<k>>
<1>13. Len(all) = Len(toks) + 1
  <2>1. Len(<<k>>) = 1
    BY SeqOne
  <2> QED
    BY <1>5, <1>12, <2>1, SeqConcat
<1> HIDE DEF all
<1>14. ReadsAs(Struct(n), c1, all, c2)
  <2> SUFFICES ASSUME NEW tokens, NEW caller, NEW at, Here(tokens, at, all)
               PROVE  \E m \in 0 .. 2 * Len(all) - 1 :
                          Leads(<<tokens>>, Read(tokens, Struct(n), c1, caller, at),
                                Goes(Received(caller, c2), at + Len(all)), m)
    BY Zenon DEF ReadsAs
  <2>1. /\ at \in Nat /\ Here(tokens, at, toks)
        /\ at + Len(toks) # Len(tokens) /\ tokens[at + Len(toks) + 1] = k
        /\ at + Len(toks) + 1 = at + Len(all)
    <3>1. Joined(all, toks, <<k>>)
      BY DEF all, Joined
    <3> DEFINE one == <<k>>
    <3>2. IsSeq(one) /\ Len(one) = 1 /\ one[1] = k
      BY SeqOne
    <3>3. Joined(all, toks, one)
      BY <3>1
    <3> HIDE DEF one
    <3> QED
      BY <1>12, <3>2, <3>3, HereLast
  <2>2. Read(tokens, Struct(n), c1, caller, at) = Goes(StructCall(c1, "none", caller), at)
    BY <1>2, Zenon DEF Read
  <2> DEFINE x0 == Goes(StructCall(c1, "none", caller), at)
  <2>3. PICK m2 : \E m \in 0 .. 2 * Len(toks) :
            Leads(<<tokens>>, x0, Goes(StructCall(c2, m2, caller), at + Len(toks)), m)
    BY <1>8, <2>1, Zenon DEF ReadsFields
  <2>4. PICK m \in 0 .. 2 * Len(toks) :
            Leads(<<tokens>>, x0, Goes(StructCall(c2, m2, caller), at + Len(toks)), m)
    BY <2>3
  <2> HIDE DEF x0
  <2> DEFINE call == StructCall(c2, m2, caller)
             r == Goes(call, at + Len(toks))
             y == Goes(Received(caller, c2), at + Len(toks) + 1)
  <2>5. call.reads = "struct" /\ call.object = c2 /\ call.caller = caller
    BY DEF StructCall
  <2>6. r.call = call /\ r.at = at + Len(toks)
    BY DEF Goes
  <2> HIDE DEF call, r
  <2>7. Go(<<tokens>>, r) = y
    <3>1. Go(<<tokens>>, r) = ReadField(tokens, call, at + Len(toks))
      BY <2>5, <2>6, GoRead DEF ReadStep
    <3>2. ReadField(tokens, call, at + Len(toks)) = y
      BY <1>3, <2>1, <2>5, Zenon DEF ReadField, k
    <3> QED
      BY <3>1, <3>2
  <2>8. Leads(<<tokens>>, r, y, 1)
    BY <2>5, <2>6, <2>7, LeadsOne DEF Busy
  <2>9. m \in Nat /\ m + 1 \in 0 .. 2 * Len(all) - 1
    BY <1>12, <1>13
  <2> HIDE DEF y
  <2>10. Leads(<<tokens>>, x0, y, m + 1)
    BY <2>4, <2>8, <2>9, LeadsOn DEF r, call
  <2>11. y = Goes(Received(caller, c2), at + Len(all))
    BY <2>1 DEF y
  <2> QED
    BY <2>2, <2>9, <2>10, <2>11 DEF x0
<1>15. WritesTo(<<x>>, all) /\ Len(all) # 0
  BY <1>11, <1>12, <1>13 DEF all
<1> QED
  BY <1>14, <1>15 DEF Travels, x

(* A number travels as it is.                                               *)
LEMMA ScalarTravels ==
    ASSUME NEW type, NEW v, NEW old, type.wire \notin {"T_STRUCT", "T_LIST", "T_STRING"}
    PROVE  Travels(type, v, old, v)
<1> DEFINE x == Value(type, v)
           k == Token(v)
<1>1. x.type = type /\ x.value = v /\ ~IsToken(x)
  BY DEF Value, IsToken
<1>2. k.token = v
  BY TokenItem
<1> HIDE DEF x
<1>3. ~IsFatal(x) /\ Write(x) = <<k>>
  BY <1>1, Zenon DEF IsFatal, Write
<1>4. IsSeq(<<k>>) /\ Len(<<k>>) = 1 /\ <<k>>[1] = k
  BY SeqOne
<1>5. WritesTo(<<k>>, <<k>>)
  BY TokenWritesTo
<1> DEFINE toks == <<k>>
<1> HIDE DEF toks
<1>6. WritesTo(<<x>>, toks)
  BY <1>3, <1>4, <1>5, PassOne, WritesPass DEF toks
<1> HIDE DEF k
<1>7. ReadsAs(type, old, toks, v)
  <2> SUFFICES ASSUME NEW tokens, NEW caller, NEW at, Here(tokens, at, toks)
               PROVE  \E m \in 0 .. 2 * Len(toks) - 1 :
                          Leads(<<tokens>>, Read(tokens, type, old, caller, at),
                                Goes(Received(caller, v), at + Len(toks)), m)
    BY Zenon DEF ReadsAs
  <2>1. Len(toks) = 1 /\ toks[1] = k /\ IsSeq(toks)
    BY <1>4 DEF toks
  <2>2. at \in Nat /\ at # Len(tokens) /\ tokens[at + 1] = k
    <3>1. 1 \in 1 .. Len(toks) /\ Len(tokens) \in Nat
      BY <2>1, SeqLen DEF Here
    <3> QED
      BY <2>1, <3>1 DEF Here
  <2>3. Read(tokens, type, old, caller, at) = Goes(Received(caller, v), at + 1)
    BY <1>2, <2>2, Zenon DEF Read
  <2>4. 0 \in 0 .. 2 * Len(toks) - 1
    BY <2>1
  <2> QED
    BY <2>1, <2>3, <2>4, LeadsZero
<1>8. Len(toks) # 0
  BY <1>4 DEF toks
<1> QED
  BY <1>6, <1>7, <1>8 DEF Travels, x

(* A string travels through WriteString and ReadString.                     *)
LEMMA StringTravels ==
    ASSUME NEW s, NEW old
    PROVE  Travels(Str, s, old, ReadString(WriteString(s)))
<1> DEFINE x == Value(Str, s)
           w == WriteString(s)
           v == ReadString(w)
           k == Token(w)
<1>1. x.type.wire = "T_STRING" /\ x.value = s /\ ~IsToken(x)
  BY DEF Value, IsToken, Str
<1>2. k.token = w
  BY TokenItem
<1> HIDE DEF x, w
<1>3. ~IsFatal(x) /\ Write(x) = <<k>>
  <2>1. ~IsFatal(x)
    BY <1>1, Zenon DEF IsFatal
  <2> QED
    BY <1>1, <2>1, Zenon DEF Write, w
<1>4. IsSeq(<<k>>) /\ Len(<<k>>) = 1 /\ <<k>>[1] = k
  BY SeqOne
<1>5. WritesTo(<<k>>, <<k>>)
  BY TokenWritesTo
<1> DEFINE toks == <<k>>
<1> HIDE DEF toks
<1>6. WritesTo(<<x>>, toks)
  BY <1>3, <1>4, <1>5, PassOne, WritesPass DEF toks
<1> HIDE DEF k
<1>7. ReadsAs(Str, old, toks, v)
  <2> SUFFICES ASSUME NEW tokens, NEW caller, NEW at, Here(tokens, at, toks)
               PROVE  \E m \in 0 .. 2 * Len(toks) - 1 :
                          Leads(<<tokens>>, Read(tokens, Str, old, caller, at),
                                Goes(Received(caller, v), at + Len(toks)), m)
    BY Zenon DEF ReadsAs
  <2>1. Len(toks) = 1 /\ toks[1] = k /\ IsSeq(toks)
    BY <1>4 DEF toks
  <2>2. at \in Nat /\ at # Len(tokens) /\ tokens[at + 1] = k
    <3>1. 1 \in 1 .. Len(toks) /\ Len(tokens) \in Nat
      BY <2>1, SeqLen DEF Here
    <3> QED
      BY <2>1, <3>1 DEF Here
  <2>3. Read(tokens, Str, old, caller, at) = Goes(Received(caller, v), at + 1)
    BY <1>2, <2>2, Zenon DEF Read, Str
  <2>4. 0 \in 0 .. 2 * Len(toks) - 1
    BY <2>1
  <2> QED
    BY <2>1, <2>3, <2>4, LeadsZero
<1>8. Len(toks) # 0
  BY <1>4 DEF toks
<1> QED
  BY <1>6, <1>7, <1>8 DEF Travels, x, v, w

----------------------------------------------------------------------------
(* Structs of several fields.                                               *)

(* What a field is written as is a sequence, of one or two items or none.   *)
LEMMA WriteFieldIsSeq == ASSUME NEW f, NEW o PROVE IsSeq(WriteField(f, o))
<1>1. CASE f.ifset /\ f.name \notin o.isset
  BY <1>1, SeqEmpty DEF WriteField
<1>2. CASE ~(f.ifset /\ f.name \notin o.isset)
  <2> DEFINE x == Token(Field(f.fid, f.type.wire))
             y == Value(f.type, o.has[f.name])
  <2>1. WriteField(f, o) = <<x, y>>
    BY <1>2, Zenon DEF WriteField
  <2> HIDE DEF x, y
  <2>2. <<x, y>> \in Seq({x, y})
    OBVIOUS
  <2> QED
    BY <2>1, <2>2, SeqIs
<1> QED
  BY <1>1, <1>2

(* Fields written one after the other carry one after the other.            *)
LEMMA FieldsCarry ==
    ASSUME NEW fields, IsSeq(fields), Len(fields) # 0, NEW o, NEW c,
           \A i \in 1 .. Len(fields) : Carries(WriteField(fields[i], o), c[i], c[i + 1])
    PROVE  LET items == FlattenSeq([i \in DOMAIN fields |-> WriteField(fields[i], o)])
           IN  IsSeq(items) /\ Carries(items, c[1], c[Len(fields) + 1])
<1> DEFINE ss == [i \in DOMAIN fields |-> WriteField(fields[i], o)]
<1>1. Len(fields) \in Nat /\ DOMAIN fields = 1 .. Len(fields)
  BY SeqLen
<1>2. DOMAIN ss = 1 .. Len(fields) /\ ss = [i \in DOMAIN ss |-> ss[i]]
  BY <1>1
<1>3. \A i \in 1 .. Len(fields) : ss[i] = WriteField(fields[i], o)
  BY <1>1
<1> HIDE DEF ss
<1>4. IsSeq(ss) /\ Len(ss) = Len(fields)
  BY <1>1, <1>2, SeqMade
<1>5. \A i \in 1 .. Len(fields) : IsSeq(ss[i]) /\ Carries(ss[i], c[i], c[i + 1])
  BY <1>3, WriteFieldIsSeq
<1>6. PICK f : PartsJoined(ss, f) /\ FlattenSeq(ss) = f[Len(ss)]
  BY <1>4, <1>5, FlattenPrefixes
<1> DEFINE Right(m) == IsSeq(f[m]) /\ Carries(f[m], c[1], c[m + 1])
           S == {m \in Nat : m \in 1 .. Len(fields) => Right(m)}
<1>7. 0 \in S
  OBVIOUS
<1>8. ASSUME NEW m \in Nat, m \in S PROVE m + 1 \in S
  <2> SUFFICES ASSUME m + 1 <= Len(fields) PROVE Right(m + 1)
    <3> HIDE DEF Right
    <3> QED
      OBVIOUS
  <2>1. m + 1 \in 1 .. Len(fields)
    BY <1>1
  <2>2. CASE m = 0
    <3>1. f[1] = ss[1] /\ m + 1 = 1
      BY <1>6, <2>2 DEF PartsJoined
    <3> QED
      BY <1>5, <2>1, <3>1
  <2>3. CASE m # 0
    <3>1. m \in 1 .. Len(fields) /\ m + 1 \in 2 .. Len(ss) /\ (m + 1) - 1 = m
      BY <1>4, <2>1, <2>3
    <3> DEFINE a == f[m]
               b == ss[m + 1]
    <3>2. f[m + 1] = a \o b
      BY <1>6, <3>1 DEF PartsJoined
    <3>3. IsSeq(a) /\ Carries(a, c[1], c[m + 1])
      BY <1>8, <3>1
    <3>4. IsSeq(b) /\ Carries(b, c[m + 1], c[(m + 1) + 1])
      BY <1>5, <2>1
    <3> HIDE DEF a, b
    <3>5. IsSeq(a \o b)
      BY ONLY <3>3, <3>4, SeqConcat
    <3>6. Carries(a \o b, c[1], c[(m + 1) + 1])
      BY ONLY <3>3, <3>4, CarriesConcat
    <3> QED
      BY <3>2, <3>5, <3>6
  <2> QED
    BY <2>2, <2>3
<1>9. Len(fields) \in S
  <2> HIDE DEF S
  <2> QED
    BY <1>1, <1>7, <1>8, NatSetInduction
<1>10. Right(Len(fields))
  <2> HIDE DEF Right
  <2> QED
    BY <1>1, <1>9
<1> QED
  BY <1>4, <1>6, <1>10 DEF ss

(* A struct travels if each of its fields carries; c[i] is what has been    *)
(* read before the field i.                                                 *)
LEMMA StructOf ==
    ASSUME NEW n, NEW o, o.type # NoObject.type, NEW fields, WriteTable[o.type] = fields,
           IsSeq(fields), Len(fields) # 0, NEW c,
           \A i \in 1 .. Len(fields) : Carries(WriteField(fields[i], o), c[i], c[i + 1])
    PROVE  Travels(Struct(n), o, c[1], c[Len(fields) + 1])
<1> DEFINE items == FlattenSeq([i \in DOMAIN fields |-> WriteField(fields[i], o)])
<1>1. WriteStruct(o) = items \o <<Token(Stop)>>
  BY Zenon DEF WriteStruct
<1>2. IsSeq(items) /\ Carries(items, c[1], c[Len(fields) + 1])
  BY FieldsCarry
<1> HIDE DEF items
<1> QED
  BY <1>1, <1>2, StructTravels

(* A struct of one field.                                                   *)
LEMMA Struct1 ==
    ASSUME NEW n, NEW o, o.type # NoObject.type, NEW f1, WriteTable[o.type] = <<f1>>,
           NEW c1, NEW c2, Carries(WriteField(f1, o), c1, c2)
    PROVE  Travels(Struct(n), o, c1, c2)
<1> DEFINE fields == <<f1>>
           c == <<c1, c2>>
<1>1. IsSeq(fields) /\ Len(fields) = 1 /\ fields[1] = f1
  BY SeqOne
<1>2. c[1] = c1 /\ c[2] = c2
  OBVIOUS
<1>3. WriteTable[o.type] = fields
  OBVIOUS
<1> HIDE DEF fields, c
<1>4. ASSUME NEW i \in 1 .. Len(fields)
      PROVE  Carries(WriteField(fields[i], o), c[i], c[i + 1])
  <2>1. i = 1 /\ i + 1 = 2
    BY <1>1
  <2> QED
    BY <1>1, <1>2, <2>1
<1>5. Len(fields) # 0 /\ Len(fields) + 1 = 2
  BY <1>1
<1>6. Travels(Struct(n), o, c[1], c[Len(fields) + 1])
  BY <1>1, <1>3, <1>4, <1>5, StructOf
<1> QED
  BY <1>2, <1>5, <1>6

(* A struct of two fields.                                                  *)
LEMMA Struct2 ==
    ASSUME NEW n, NEW o, o.type # NoObject.type,
           NEW f1, NEW f2, WriteTable[o.type] = <<f1, f2>>,
           NEW c1, NEW c2, NEW c3,
           Carries(WriteField(f1, o), c1, c2),
           Carries(WriteField(f2, o), c2, c3)
    PROVE  Travels(Struct(n), o, c1, c3)
<1> DEFINE fields == <<f1, f2>>
           c == <<c1, c2, c3>>
<1>1. fields \in Seq({f1, f2}) /\ Len(fields) = 2
  OBVIOUS
<1>2. c[1] = c1 /\ c[2] = c2 /\ c[3] = c3
  OBVIOUS
<1>3. fields[1] = f1 /\ fields[2] = f2
  OBVIOUS
<1>4. WriteTable[o.type] = fields
  OBVIOUS
<1> HIDE DEF fields, c
<1>5. ASSUME NEW i \in 1 .. Len(fields)
      PROVE  Carries(WriteField(fields[i], o), c[i], c[i + 1])
  <2>1. (i = 1 /\ i + 1 = 2) \/ (i = 2 /\ i + 1 = 3)
    BY <1>1
  <2> QED
    BY <1>2, <1>3, <2>1
<1>6. Len(fields) # 0 /\ Len(fields) + 1 = 3 /\ IsSeq(fields)
  BY <1>1, SeqIs
<1>7. Travels(Struct(n), o, c[1], c[Len(fields) + 1])
  BY <1>4, <1>5, <1>6, StructOf
<1> QED
  BY <1>2, <1>6, <1>7

(* A struct of three fields.                                                *)
LEMMA Struct3 ==
    ASSUME NEW n, NEW o, o.type # NoObject.type,
           NEW f1, NEW f2, NEW f3, WriteTable[o.type] = <<f1, f2, f3>>,
           NEW c1, NEW c2, NEW c3, NEW c4,
           Carries(WriteField(f1, o), c1, c2),
           Carries(WriteField(f2, o), c2, c3),
           Carries(WriteField(f3, o), c3, c4)
    PROVE  Travels(Struct(n), o, c1, c4)
<1> DEFINE fields == <<f1, f2, f3>>
           c == <<c1, c2, c3, c4>>
<1>1. fields \in Seq({f1, f2, f3}) /\ Len(fields) = 3
  OBVIOUS
<1>2. c[1] = c1 /\ c[2] = c2 /\ c[3] = c3 /\ c[4] = c4
  OBVIOUS
<1>3. fields[1] = f1 /\ fields[2] = f2 /\ fields[3] = f3
  OBVIOUS
<1>4. WriteTable[o.type] = fields
  OBVIOUS
<1> HIDE DEF fields, c
<1>5. ASSUME NEW i \in 1 .. Len(fields)
      PROVE  Carries(WriteField(fields[i], o), c[i], c[i + 1])
  <2>1. (i = 1 /\ i + 1 = 2) \/ (i = 2 /\ i + 1 = 3) \/ (i = 3 /\ i + 1 = 4)
    BY <1>1
  <2> QED
    BY <1>2, <1>3, <2>1
<1>6. Len(fields) # 0 /\ Len(fields) + 1 = 4 /\ IsSeq(fields)
  BY <1>1, SeqIs
<1>7. Travels(Struct(n), o, c[1], c[Len(fields) + 1])
  BY <1>4, <1>5, <1>6, StructOf
<1> QED
  BY <1>2, <1>6, <1>7

(* A struct of four fields.                                                 *)
LEMMA Struct4 ==
    ASSUME NEW n, NEW o, o.type # NoObject.type,
           NEW f1, NEW f2, NEW f3, NEW f4, WriteTable[o.type] = <<f1, f2, f3, f4>>,
           NEW c1, NEW c2, NEW c3, NEW c4, NEW c5,
           Carries(WriteField(f1, o), c1, c2),
           Carries(WriteField(f2, o), c2, c3),
           Carries(WriteField(f3, o), c3, c4),
           Carries(WriteField(f4, o), c4, c5)
    PROVE  Travels(Struct(n), o, c1, c5)
<1> DEFINE fields == <<f1, f2, f3, f4>>
           c == <<c1, c2, c3, c4, c5>>
<1>1. fields \in Seq({f1, f2, f3, f4}) /\ Len(fields) = 4
  OBVIOUS
<1>2. c[1] = c1 /\ c[2] = c2 /\ c[3] = c3 /\ c[4] = c4 /\ c[5] = c5
  OBVIOUS
<1>3. fields[1] = f1 /\ fields[2] = f2 /\ fields[3] = f3 /\ fields[4] = f4
  OBVIOUS
<1>4. WriteTable[o.type] = fields
  OBVIOUS
<1> HIDE DEF fields, c
<1>5. ASSUME NEW i \in 1 .. Len(fields)
      PROVE  Carries(WriteField(fields[i], o), c[i], c[i + 1])
  <2>1. (i = 1 /\ i + 1 = 2) \/ (i = 2 /\ i + 1 = 3) \/ (i = 3 /\ i + 1 = 4) \/ (i = 4 /\ i + 1 = 5)
    BY <1>1
  <2> QED
    BY <1>2, <1>3, <2>1
<1>6. Len(fields) # 0 /\ Len(fields) + 1 = 5 /\ IsSeq(fields)
  BY <1>1, SeqIs
<1>7. Travels(Struct(n), o, c[1], c[Len(fields) + 1])
  BY <1>4, <1>5, <1>6, StructOf
<1> QED
  BY <1>2, <1>6, <1>7

(* A struct of six fields.                                                  *)
LEMMA Struct6 ==
    ASSUME NEW n, NEW o, o.type # NoObject.type,
           NEW f1, NEW f2, NEW f3, NEW f4, NEW f5, NEW f6, WriteTable[o.type] = <<f1, f2, f3, f4, f5, f6>>,
           NEW c1, NEW c2, NEW c3, NEW c4, NEW c5, NEW c6, NEW c7,
           Carries(WriteField(f1, o), c1, c2),
           Carries(WriteField(f2, o), c2, c3),
           Carries(WriteField(f3, o), c3, c4),
           Carries(WriteField(f4, o), c4, c5),
           Carries(WriteField(f5, o), c5, c6),
           Carries(WriteField(f6, o), c6, c7)
    PROVE  Travels(Struct(n), o, c1, c7)
<1> DEFINE fields == <<f1, f2, f3, f4, f5, f6>>
           c == <<c1, c2, c3, c4, c5, c6, c7>>
<1>1. fields \in Seq({f1, f2, f3, f4, f5, f6}) /\ Len(fields) = 6
  OBVIOUS
<1>2. c[1] = c1 /\ c[2] = c2 /\ c[3] = c3 /\ c[4] = c4 /\ c[5] = c5 /\ c[6] = c6 /\ c[7] = c7
  OBVIOUS
<1>3. fields[1] = f1 /\ fields[2] = f2 /\ fields[3] = f3 /\ fields[4] = f4 /\ fields[5] = f5 /\ fields[6] = f6
  OBVIOUS
<1>4. WriteTable[o.type] = fields
  OBVIOUS
<1> HIDE DEF fields, c
<1>5. ASSUME NEW i \in 1 .. Len(fields)
      PROVE  Carries(WriteField(fields[i], o), c[i], c[i + 1])
  <2>1. (i = 1 /\ i + 1 = 2) \/ (i = 2 /\ i + 1 = 3) \/ (i = 3 /\ i + 1 = 4) \/ (i = 4 /\ i + 1 = 5) \/ (i = 5 /\ i + 1 = 6) \/ (i = 6 /\ i + 1 = 7)
    BY <1>1
  <2> QED
    BY <1>2, <1>3, <2>1
<1>6. Len(fields) # 0 /\ Len(fields) + 1 = 7 /\ IsSeq(fields)
  BY <1>1, SeqIs
<1>7. Travels(Struct(n), o, c[1], c[Len(fields) + 1])
  BY <1>4, <1>5, <1>6, StructOf
<1> QED
  BY <1>2, <1>6, <1>7

----------------------------------------------------------------------------
(* The elements of a list.                                                  *)

(* Append is a sequence of one put behind.                                  *)
LEMMA AppendIs ==
    ASSUME NEW s, IsSeq(s), NEW x
    PROVE  /\ Append(s, x) = [i \in 1 .. Len(s) + 1 |-> IF i = Len(s) + 1 THEN x ELSE s[i]]
           /\ Append(s, x) = s \o <<x>>
<1> DEFINE T == {s[i] : i \in DOMAIN s} \cup {x}
<1>1. s \in Seq(T) /\ x \in T
  BY DEF IsSeq
<1> HIDE DEF T
<1>2. Append(s, x) \in Seq(T) /\ Len(Append(s, x)) = Len(s) + 1
  BY <1>1
<1>3. \A i \in 1 .. Len(s) + 1 : Append(s, x)[i] = IF i = Len(s) + 1 THEN x ELSE s[i]
  BY <1>1
<1>5. Append(s, x) = s \o <<x>>
  BY <1>1
<1> DEFINE t == Append(s, x)
<1> HIDE DEF t
<1>4. t = [i \in 1 .. Len(s) + 1 |-> t[i]]
  <2>1. t \in Seq(T) /\ Len(t) = Len(s) + 1
    BY <1>2 DEF t
  <2> QED
    BY <2>1
<1>6. t = [i \in 1 .. Len(s) + 1 |-> IF i = Len(s) + 1 THEN x ELSE s[i]]
  BY <1>3, <1>4 DEF t
<1> QED
  BY <1>5, <1>6 DEF t

(* No element changes no list.                                              *)
LEMMA ElementsNone == ASSUME NEW of, NEW l PROVE CarriesElements(of, <<>>, 0, l, l)
<1>1. WritesTo(<<>>, <<>>)
  <2>1. Settled(<<>>)
    BY SeqEmpty DEF Settled
  <2> QED
    BY <2>1, WritesTokens
<1>2. ReadsElements(of, <<>>, 0, l, l)
  <2> SUFFICES ASSUME NEW tokens, NEW caller, NEW at, NEW left, Here(tokens, at, <<>>), left \in Nat
               PROVE  \E n \in 0 .. 2 * Len(<<>>) :
                Leads(<<tokens>>, Goes(ListCall(of, left, l, caller), at),
                      Goes(ListCall(of, left - 0, l, caller), at + Len(<<>>)), n)
    BY Zenon DEF ReadsElements
  <2>1. at + Len(<<>>) = at /\ 0 \in 0 .. 2 * Len(<<>>) /\ left - 0 = left
    BY DEF Here
  <2>2. Leads(<<tokens>>, Goes(ListCall(of, left, l, caller), at),
                      Goes(ListCall(of, left, l, caller), at), 0)
    BY LeadsZero
  <2> QED
    BY <2>1, <2>2
<1> QED
  BY <1>1, <1>2 DEF CarriesElements

(* Elements are read one after the other.                                   *)
LEMMA ElementsConcat ==
    ASSUME NEW of, NEW s, NEW t, NEW k \in Nat, NEW m \in Nat, NEW l1, NEW l2, NEW l3,
           CarriesElements(of, s, k, l1, l2), CarriesElements(of, t, m, l2, l3)
    PROVE  CarriesElements(of, s \o t, k + m, l1, l3)
<1>1. PICK x : WritesTo(s, x) /\ ReadsElements(of, x, k, l1, l2)
  BY DEF CarriesElements
<1>2. PICK y : WritesTo(t, y) /\ ReadsElements(of, y, m, l2, l3)
  BY DEF CarriesElements
<1>3. WritesTo(s \o t, x \o y)
  BY ONLY <1>1, <1>2, WritesConcat
<1>4. IsSeq(x) /\ IsSeq(y)
  BY <1>1, <1>2 DEF WritesTo, Settled
<1> DEFINE u == x \o y
<1>5. Joined(u, x, y) /\ Len(u) = Len(x) + Len(y)
  BY <1>4, SeqConcat DEF Joined
<1>6. WritesTo(s \o t, u)
  BY <1>3
<1> HIDE DEF u
<1>7. ReadsElements(of, u, k + m, l1, l3)
  <2> SUFFICES ASSUME NEW tokens, NEW caller, NEW at, NEW left, Here(tokens, at, u), left \in Nat,
                      k + m <= left
               PROVE  \E n \in 0 .. 2 * Len(u) :
                Leads(<<tokens>>, Goes(ListCall(of, left, l1, caller), at),
                      Goes(ListCall(of, left - (k + m), l3, caller), at + Len(u)), n)
    BY Zenon DEF ReadsElements
  <2>1. /\ Here(tokens, at, x) /\ Here(tokens, at + Len(x), y)
        /\ at + Len(x) + Len(y) = at + Len(u)
        /\ Len(x) \in Nat /\ Len(y) \in Nat /\ at \in Nat
    BY <1>4, <1>5, HereSplit
  <2> DEFINE p == left - k
  <2>2. p \in Nat /\ m <= p /\ p - m = left - (k + m) /\ k <= left
    OBVIOUS
  <2>3. PICK n \in 0 .. 2 * Len(x) :
                Leads(<<tokens>>, Goes(ListCall(of, left, l1, caller), at),
                      Goes(ListCall(of, left - k, l2, caller), at + Len(x)), n)
    BY <1>1, <2>1, <2>2, Zenon DEF ReadsElements
  <2> HIDE DEF p
  <2>4. PICK j \in 0 .. 2 * Len(y) :
                Leads(<<tokens>>, Goes(ListCall(of, p, l2, caller), at + Len(x)),
                      Goes(ListCall(of, p - m, l3, caller), at + Len(x) + Len(y)), j)
    BY <1>2, <2>1, <2>2, Zenon DEF ReadsElements
  <2>5. n \in Nat /\ j \in Nat /\ n + j \in 0 .. 2 * Len(u)
    BY <1>5, <2>1
  <2>6. Leads(<<tokens>>, Goes(ListCall(of, left, l1, caller), at),
                      Goes(ListCall(of, p - m, l3, caller), at + Len(x) + Len(y)), n + j)
    BY <2>3, <2>4, <2>5, LeadsOn DEF p
  <2> QED
    BY <2>1, <2>2, <2>5, <2>6
<1> QED
  BY <1>6, <1>7 DEF CarriesElements

(* One element is put behind those read before.                             *)
LEMMA ElementsOne ==
    ASSUME NEW of, NEW v, NEW w, NEW list, Travels(of, v, Element(of), w)
    PROVE  CarriesElements(of, <<Value(of, v)>>, 1, list, Append(list, w))
<1>1. PICK toks : WritesTo(<<Value(of, v)>>, toks) /\ Len(toks) # 0
                    /\ ReadsAs(of, Element(of), toks, w)
  BY DEF Travels
<1>2. Len(toks) \in Nat
  BY <1>1, SeqLen DEF WritesTo, Settled
<1> DEFINE longer == Append(list, w)
<1> HIDE DEF longer
<1>3. ReadsElements(of, toks, 1, list, longer)
  <2> SUFFICES ASSUME NEW tokens, NEW caller, NEW at, NEW left, Here(tokens, at, toks), left \in Nat,
                      1 <= left
               PROVE  \E n \in 0 .. 2 * Len(toks) :
                Leads(<<tokens>>, Goes(ListCall(of, left, list, caller), at),
                      Goes(ListCall(of, left - 1, longer, caller), at + Len(toks)), n)
    BY Zenon DEF ReadsElements
  <2> DEFINE call == ListCall(of, left, list, caller)
             inner == ListCall(of, left - 1, list, caller)
             r0 == Goes(call, at)
             r1 == Read(tokens, of, Element(of), inner, at)
  <2>1. call.reads = "list" /\ call.left = left /\ call.of = of /\ [call EXCEPT !.left = @ - 1] = inner
    BY DEF ListCall
  <2>2. r0.call = call /\ r0.at = at
    BY DEF Goes
  <2>3. Received(inner, w) = ListCall(of, left - 1, longer, caller)
    <3>1. inner.reads = "list" /\ inner.list = list
      BY DEF ListCall
    <3>2. Received(inner, w) = [inner EXCEPT !.list = Append(@, w)]
      <4> HIDE DEF inner
      <4>1. "list" # "nothing"
        OBVIOUS
      <4> QED
        BY <3>1, <4>1, Zenon DEF Received
    <3>3. [inner EXCEPT !.list = Append(@, w)] = [inner EXCEPT !.list = longer]
      BY <3>1 DEF longer
    <3>4. [inner EXCEPT !.list = longer] = ListCall(of, left - 1, longer, caller)
      BY DEF ListCall
    <3> QED
      BY <3>2, <3>3, <3>4
  <2> HIDE DEF call, inner, r0
  <2>4. Go(<<tokens>>, r0) = r1
    <3>1. Go(<<tokens>>, r0) = ReadElement(tokens, call, at)
      BY <2>1, <2>2, GoRead DEF ReadStep
    <3>2. ReadElement(tokens, call, at) = r1
      <4>1. left # 0
        OBVIOUS
      <4> QED
        BY <2>1, <4>1, Zenon DEF ReadElement
    <3> QED
      BY <3>1, <3>2
  <2>5. Leads(<<tokens>>, r0, r1, 1)
    BY <2>1, <2>2, <2>4, LeadsOne DEF Busy
  <2>6. PICK n \in 0 .. 2 * Len(toks) - 1 :
            Leads(<<tokens>>, r1, Goes(Received(inner, w), at + Len(toks)), n)
    BY <1>1, Zenon DEF ReadsAs
  <2> HIDE DEF r1
  <2>7. n \in Nat /\ 1 + n \in 0 .. 2 * Len(toks)
    BY <1>2
  <2>8. Leads(<<tokens>>, r0, Goes(Received(inner, w), at + Len(toks)), 1 + n)
    BY <2>5, <2>6, <2>7, LeadsOn
  <2> QED
    BY <2>3, <2>7, <2>8 DEF r0, call
<1> QED
  BY <1>1, <1>3 DEF CarriesElements, longer

(* The elements of a list travel if each does.                              *)
LEMMA ElementsCarry ==
    ASSUME NEW of, NEW v, NEW w, IsSeq(v), IsSeq(w), Len(v) = Len(w),
           \A i \in 1 .. Len(v) : Travels(of, v[i], Element(of), w[i])
    PROVE  /\ IsSeq([i \in DOMAIN v |-> Value(of, v[i])])
           /\ CarriesElements(of, [i \in DOMAIN v |-> Value(of, v[i])], Len(v), <<>>, w)
<1> DEFINE x == [i \in DOMAIN v |-> Value(of, v[i])]
           xs(m) == [i \in 1 .. m |-> Value(of, v[i])]
           ws(m) == [i \in 1 .. m |-> w[i]]
           Right(m) == CarriesElements(of, xs(m), m, <<>>, ws(m))
           S == {m \in Nat : m <= Len(v) => Right(m)}
<1>1. Len(v) \in Nat /\ DOMAIN v = 1 .. Len(v) /\ DOMAIN w = 1 .. Len(v)
  BY SeqLen
<1>2. ASSUME NEW m \in Nat PROVE IsSeq(xs(m)) /\ Len(xs(m)) = m /\ IsSeq(ws(m)) /\ Len(ws(m)) = m
  <2>1. DOMAIN xs(m) = 1 .. m /\ xs(m) = [i \in DOMAIN xs(m) |-> xs(m)[i]]
    OBVIOUS
  <2>2. DOMAIN ws(m) = 1 .. m /\ ws(m) = [i \in DOMAIN ws(m) |-> ws(m)[i]]
    OBVIOUS
  <2> HIDE DEF xs, ws
  <2>3. IsSeq(xs(m)) /\ Len(xs(m)) = m
    BY <2>1, SeqMade
  <2>4. IsSeq(ws(m)) /\ Len(ws(m)) = m
    BY <2>2, SeqMade
  <2> QED
    BY <2>3, <2>4
<1>3. 0 \in S
  <2>1. xs(0) = <<>> /\ ws(0) = <<>>
    OBVIOUS
  <2> HIDE DEF xs, ws
  <2>2. Right(0)
    BY <2>1, ElementsNone
  <2> HIDE DEF Right
  <2> QED
    BY <2>2
<1>4. ASSUME NEW m \in Nat, m \in S PROVE m + 1 \in S
  <2> SUFFICES ASSUME m + 1 <= Len(v) PROVE Right(m + 1)
    <3> HIDE DEF Right
    <3> QED
      OBVIOUS
  <2>0. Right(m) /\ m + 1 \in 1 .. Len(v)
    <3>1. m <= Len(v)
      BY <1>1
    <3> HIDE DEF Right
    <3> QED
      BY <1>1, <1>4, <3>1
  <2> DEFINE a == v[m + 1]
             b == w[m + 1]
             c == Value(of, a)
             one == <<c>>
             wm == ws(m)
             xm == xs(m)
  <2>1. Travels(of, a, Element(of), b)
    BY <2>0
  <2>2. xs(m + 1) = Append(xm, c)
    <3>1. xs(m + 1) = [i \in 1 .. m + 1 |-> IF i = m + 1 THEN c ELSE xm[i]]
      <4>1. \A i \in 1 .. m + 1 : Value(of, v[i]) = IF i = m + 1 THEN c ELSE xm[i]
        <5> SUFFICES ASSUME NEW i \in 1 .. m + 1, i # m + 1 PROVE Value(of, v[i]) = xm[i]
          OBVIOUS
        <5> QED
          OBVIOUS
      <4> HIDE DEF xm, c
      <4> QED
        BY <4>1
    <3>2. IsSeq(xm) /\ Len(xm) = m
      BY <1>2
    <3> HIDE DEF xs, xm, c
    <3>3. Append(xm, c) = [i \in 1 .. Len(xm) + 1 |-> IF i = Len(xm) + 1 THEN c ELSE xm[i]]
      BY <3>2, AppendIs
    <3> QED
      BY <3>1, <3>2, <3>3
  <2>3. ws(m + 1) = Append(wm, b)
    <3>1. ws(m + 1) = [i \in 1 .. m + 1 |-> IF i = m + 1 THEN b ELSE wm[i]]
      <4>1. \A i \in 1 .. m + 1 : w[i] = IF i = m + 1 THEN b ELSE wm[i]
        <5> SUFFICES ASSUME NEW i \in 1 .. m + 1, i # m + 1 PROVE w[i] = wm[i]
          OBVIOUS
        <5> QED
          OBVIOUS
      <4> HIDE DEF wm, b
      <4> QED
        BY <4>1
    <3>2. IsSeq(wm) /\ Len(wm) = m
      BY <1>2
    <3> HIDE DEF ws, wm, b
    <3>3. Append(wm, b) = [i \in 1 .. Len(wm) + 1 |-> IF i = Len(wm) + 1 THEN b ELSE wm[i]]
      BY <3>2, AppendIs
    <3> QED
      BY <3>1, <3>2, <3>3
  <2>4. Append(xm, c) = xm \o one
    <3>1. IsSeq(xm) /\ Len(xm) = m
      BY <1>2
    <3> HIDE DEF xm, c
    <3>2. PICK T : xm \in Seq(T) /\ c \in T
      <4>1. xm \in Seq({xm[i] : i \in DOMAIN xm} \cup {c})
        BY <3>1 DEF IsSeq
      <4> QED
        BY <4>1
    <3> QED
      BY <3>2
  <2>5. CarriesElements(of, xm, m, <<>>, wm)
    BY <2>0
  <2>6. CarriesElements(of, one, 1, wm, Append(wm, b))
    <3> HIDE DEF a, b, wm
    <3> QED
      BY <2>1, ElementsOne
  <2> HIDE DEF xs, ws, a, b, c, one, wm, xm
  <2>7. CarriesElements(of, xm \o one, m + 1, <<>>, Append(wm, b))
    BY <2>5, <2>6, ElementsConcat
  <2> QED
    BY <2>2, <2>3, <2>4, <2>7
<1>5. Right(Len(v))
  <2> HIDE DEF Right
  <2>1. Len(v) \in S
    <3> HIDE DEF S
    <3> QED
      BY <1>1, <1>3, <1>4, NatSetInduction
  <2> QED
    BY <1>1, <2>1
<1>6. x = xs(Len(v)) /\ w = ws(Len(v))
  <2>1. x = xs(Len(v))
    BY <1>1
  <2>2. w = ws(Len(v))
    BY <1>1 DEF IsSeq
  <2> QED
    BY <2>1, <2>2
<1>7. IsSeq(xs(Len(v)))
  BY <1>1, <1>2
<1> HIDE DEF x, xs, ws
<1>8. IsSeq(x) /\ CarriesElements(of, x, Len(v), <<>>, w)
  BY <1>5, <1>6, <1>7
<1> QED
  BY <1>8 DEF x

----------------------------------------------------------------------------
(* Lists, and the steps of ReadStruct.                                      *)

(* A list travels if each of its elements does.                             *)
LEMMA ListTravels ==
    ASSUME NEW of, NEW v, NEW w, IsSeq(v), IsSeq(w), Len(v) = Len(w),
           \A i \in 1 .. Len(v) : Travels(of, v[i], Element(of), w[i])
    PROVE  Travels(List(of), v, <<>>, w)
<1> DEFINE x == Value(List(of), v)
           items == [i \in DOMAIN v |-> Value(of, v[i])]
           begin == ListBegin(of.wire, Len(v))
           k == Token(begin)
<1>1. /\ x.type.wire = "T_LIST" /\ x.value = v /\ ~IsToken(x) /\ x.type.of = of
      /\ List(of).wire = "T_LIST" /\ List(of).of = of /\ "of" \in DOMAIN List(of)
  BY DEF Value, List, IsToken
<1>2. k.token = begin /\ begin.size = Len(v)
  BY TokenItem DEF ListBegin
<1> HIDE DEF x
<1>3. ~IsFatal(x) /\ Write(x) = <<k>> \o items
  <2>1. ~IsFatal(x)
    BY <1>1, Zenon DEF IsFatal
  <2>2. "T_LIST" # "T_STRING"
    OBVIOUS
  <2>3. Write(x) = <<Token(ListBegin(x.type.of.wire, Len(x.value)))>>
                      \o [i \in DOMAIN x.value |-> Value(x.type.of, x.value[i])]
    BY <1>1, <2>1, <2>2, Zenon DEF Write
  <2> QED
    BY <1>1, <2>1, <2>3
<1>4. IsSeq(items) /\ CarriesElements(of, items, Len(v), <<>>, w)
  BY ElementsCarry
<1>5. IsSeq(<<k>>) /\ WritesTo(<<k>>, <<k>>)
  BY SeqOne, TokenWritesTo
<1> HIDE DEF items, begin
<1>6. IsSeq(<<k>> \o items)
  BY ONLY <1>4, <1>5, SeqConcat
<1>7. Clear(<<x>>) /\ Pass(<<x>>) = <<k>> \o items
  BY <1>3, <1>6, PassOne
<1>8. PICK toks : WritesTo(items, toks) /\ ReadsElements(of, toks, Len(v), <<>>, w)
  BY <1>4 DEF CarriesElements
<1> HIDE DEF k
<1>9. WritesTo(<<k>> \o items, <<k>> \o toks)
  BY ONLY <1>5, <1>8, WritesConcat
<1>10. WritesTo(<<x>>, <<k>> \o toks)
  BY <1>7, <1>9, WritesPass
<1>11. IsSeq(toks) /\ Len(toks) \in Nat /\ Len(v) \in Nat
  BY <1>8, SeqLen DEF WritesTo, Settled
<1> DEFINE all == <<k>> \o toks
           one == <<k>>
<1>12. IsSeq(one) /\ Len(one) = 1 /\ one[1] = k
  BY SeqOne
<1>13. Joined(all, one, toks)
  BY DEF Joined
<1>14. WritesTo(<<x>>, all)
  BY <1>10
<1> HIDE DEF all, one
<1>15. Len(all) = 1 + Len(toks)
  <2>1. IsSeq(one)
    BY <1>12
  <2>2. Len(all) = Len(one) + Len(toks)
    BY ONLY <1>11, <1>13, <2>1, SeqConcat DEF Joined
  <2> QED
    BY <1>12, <2>2
<1>16. ReadsAs(List(of), <<>>, all, w)
  <2> SUFFICES ASSUME NEW tokens, NEW caller, NEW at, Here(tokens, at, all)
               PROVE  \E m \in 0 .. 2 * Len(all) - 1 :
                          Leads(<<tokens>>, Read(tokens, List(of), <<>>, caller, at),
                                Goes(Received(caller, w), at + Len(all)), m)
    BY Zenon DEF ReadsAs
  <2>1. /\ at \in Nat /\ at # Len(tokens) /\ tokens[at + 1] = k /\ Here(tokens, at + 1, toks)
        /\ at + 1 + Len(toks) = at + Len(all)
    BY <1>11, <1>12, <1>13, HereFirst
  <2> DEFINE r0 == Goes(ListCall(of, Len(v), <<>>, caller), at + 1)
             left == Len(v) - Len(v)
             call == ListCall(of, left, w, caller)
             r1 == Goes(call, at + 1 + Len(toks))
             y == Goes(Received(caller, w), at + 1 + Len(toks))
  <2>2. Read(tokens, List(of), <<>>, caller, at) = r0
    <3>1. "T_LIST" # "T_STRING" /\ "T_LIST" # "T_STRUCT"
      OBVIOUS
    <3> QED
      BY <1>1, <1>2, <2>1, <3>1, Zenon DEF Read
  <2>3. left = 0 /\ Len(v) <= Len(v)
    BY <1>11
  <2>4. PICK n \in 0 .. 2 * Len(toks) : Leads(<<tokens>>, r0, r1, n)
    BY <1>8, <1>11, <2>1, <2>3, Zenon DEF ReadsElements
  <2>5. call.reads = "list" /\ call.left = 0 /\ call.list = w /\ call.caller = caller
    BY <2>3 DEF ListCall
  <2>6. r1.call = call /\ r1.at = at + 1 + Len(toks)
    BY DEF Goes
  <2> HIDE DEF r0, call, r1
  <2>7. Go(<<tokens>>, r1) = y
    <3>1. Go(<<tokens>>, r1) = ReadElement(tokens, call, at + 1 + Len(toks))
      BY <2>5, <2>6, GoRead DEF ReadStep
    <3>2. ReadElement(tokens, call, at + 1 + Len(toks)) = y
      BY <2>5, Zenon DEF ReadElement
    <3> QED
      BY <3>1, <3>2
  <2>8. Leads(<<tokens>>, r1, y, 1)
    BY <2>5, <2>6, <2>7, LeadsOne DEF Busy
  <2>9. n \in Nat /\ n + 1 \in 0 .. 2 * Len(all) - 1
    BY <1>11, <1>15
  <2> HIDE DEF y
  <2>10. Leads(<<tokens>>, r0, y, n + 1)
    BY <2>4, <2>8, <2>9, LeadsOn
  <2> QED
    BY <2>1, <2>2, <2>9, <2>10 DEF y
<1>17. Len(all) # 0
  BY <1>11, <1>15
<1> QED
  BY <1>14, <1>16, <1>17 DEF Travels, x

(* A message with one struct. *)
Whole(o, toks, v) == \E n : IsSeq(toks) /\ ReadsAs(Struct(n), o, toks, v)

(* One step of the function that follows the steps.                         *)
LEMMA IterateStep ==
    ASSUME NEW p, NEW x, NEW f, Iterate(p, x, f)
    PROVE  f[0] = x /\ \A n \in Nat : f[n + 1] = Go(p, f[n])
<1>1. f = [m \in Nat |-> IF m = 0 THEN x ELSE Go(p, f[m - 1])]
  BY Zenon DEF Iterate
<1>2. ASSUME NEW n \in Nat PROVE f[n + 1] = Go(p, f[n])
  <2>1. n + 1 \in Nat /\ n + 1 # 0 /\ (n + 1) - 1 = n
    OBVIOUS
  <2>2. f[n + 1] = IF n + 1 = 0 THEN x ELSE Go(p, f[(n + 1) - 1])
    BY <1>1, <2>1
  <2> QED
    BY <2>1, <2>2
<1> QED
  BY <1>1, <1>2

(* Where a step leads nowhere, no more steps do.                            *)
LEMMA IterateStays ==
    ASSUME NEW p, NEW x, NEW f, Iterate(p, x, f), NEW n \in Nat, Go(p, f[n]) = f[n]
    PROVE  \A m \in Nat : n <= m => f[m] = f[n]
<1> DEFINE S == {m \in Nat : n <= m => f[m] = f[n]}
<1>1. \A m \in Nat : f[m + 1] = Go(p, f[m])
  BY IterateStep
<1>2. 0 \in S
  OBVIOUS
<1>3. ASSUME NEW m \in Nat, m \in S PROVE m + 1 \in S
  <2> SUFFICES ASSUME n <= m + 1 PROVE f[m + 1] = f[n]
    OBVIOUS
  <2>1. CASE n = m + 1
    BY <2>1
  <2>2. CASE n # m + 1
    <3>1. n <= m
      BY <2>2
    <3> QED
      BY <1>1, <1>3, <3>1
  <2> QED
    BY <2>1, <2>2
<1>4. Nat \subseteq S
  <2> HIDE DEF S
  <2> QED
    BY <1>2, <1>3, NatSetInduction
<1> QED
  BY <1>4

(* What the recursive function of a reader that takes its steps makes.      *)
LEMMA StepsChosen ==
    ASSUME NEW tokens, NEW x
    PROVE  Iterate(<<tokens>>, x,
             CHOOSE f : f = [n \in Nat |-> IF n = 0 THEN x
                  ELSE CHOOSE next \in {ReadStep(tokens, r) : r \in {f[n - 1]}} : TRUE])
<1> DEFINE After(f) == f = [n \in Nat |-> IF n = 0 THEN x
                  ELSE CHOOSE next \in {ReadStep(tokens, r) : r \in {f[n - 1]}} : TRUE]
           after == CHOOSE f : After(f)
<1>1. ASSUME NEW f PROVE After(f) <=> Iterate(<<tokens>>, x, f)
  <2>1. ASSUME NEW y
        PROVE  (CHOOSE next \in {ReadStep(tokens, r) : r \in {y}} : TRUE) = Go(<<tokens>>, y)
    <3>1. {ReadStep(tokens, r) : r \in {y}} = {ReadStep(tokens, y)}
      OBVIOUS
    <3> QED
      BY <3>1, OneOf, GoRead
  <2> QED
    BY <2>1, Zenon DEF Iterate
<1> HIDE DEF After
<1>2. \E f : After(f)
  <2>1. PICK f : Iterate(<<tokens>>, x, f)
    BY Iterates
  <2> QED
    BY <1>1, <2>1
<1>3. Iterate(<<tokens>>, x, after)
  BY <1>1, <1>2
<1> QED
  BY <1>3, Zenon DEF After

(* Eight steps of the reader are eight steps of the function that follows   *)
(* the steps.                                                               *)
LEMMA EightSteps ==
    ASSUME NEW tokens, NEW x, NEW h, Iterate(<<tokens>>, x, h), NEW k \in Nat
    PROVE  ReadSteps(tokens, h[k]) = h[k + 8]
<1> DEFINE f == CHOOSE g : g = [n \in Nat |-> IF n = 0 THEN h[k]
                  ELSE CHOOSE next \in {ReadStep(tokens, r) : r \in {g[n - 1]}} : TRUE]
           S == {i \in Nat : f[i] = h[k + i]}
<1>1. ReadSteps(tokens, h[k]) = f[8]
  BY Zenon DEF ReadSteps
<1>2. Iterate(<<tokens>>, h[k], f)
  BY StepsChosen
<1> HIDE DEF f
<1>3. f[0] = h[k] /\ \A i \in Nat : f[i + 1] = Go(<<tokens>>, f[i])
  BY <1>2, IterateStep
<1>4. \A i \in Nat : h[i + 1] = Go(<<tokens>>, h[i])
  BY IterateStep
<1>5. 0 \in S
  BY <1>3
<1>6. ASSUME NEW i \in Nat, i \in S PROVE i + 1 \in S
  <2>1. f[i] = h[k + i] /\ k + i \in Nat
    BY <1>6
  <2>2. h[(k + i) + 1] = Go(<<tokens>>, h[k + i])
    BY <1>4, <2>1
  <2>3. f[i + 1] = h[(k + i) + 1]
    BY <1>3, <2>1, <2>2
  <2>4. (k + i) + 1 = k + (i + 1)
    OBVIOUS
  <2> QED
    BY <2>3, <2>4
<1>7. 8 \in S
  <2> HIDE DEF S
  <2> QED
    BY <1>5, <1>6, NatSetInduction
<1> QED
  BY <1>1, <1>7

(* The reader of a message takes its steps from the first token of the      *)
(* struct, and at least two of them for each token.                         *)
LEMMA ReadRuns ==
    ASSUME NEW o, NEW tokens, tokens # <<>>, Len(tokens) \in Nat
    PROVE  \E h, n :
              /\ n \in Nat /\ 2 * Len(tokens) <= n
              /\ Iterate(<<tokens>>, Goes(StructCall(o, "none", TopCall), 1), h)
              /\ ReadStruct(o, tokens) = ReadResult(tokens, h[n])
<1> DEFINE x == Goes(StructCall(o, "none", TopCall), 1)
           last == Len(tokens) \div 4 + 1
           After(f) == f = [n \in Nat |-> IF n = 0 THEN x
                  ELSE CHOOSE next \in {ReadSteps(tokens, r) : r \in {f[n - 1]}} : TRUE]
           after == CHOOSE f : After(f)
<1>1. ReadStruct(o, tokens) =
        CHOOSE result \in {ReadResult(tokens, r) : r \in {after[last]}} : TRUE
  BY Zenon DEF ReadStruct
<1>2. last \in Nat /\ 8 * last \in Nat /\ 2 * Len(tokens) <= 8 * last
  OBVIOUS
<1> HIDE DEF x, last
<1>3. PICK h : Iterate(<<tokens>>, x, h)
  BY Iterates
<1>4. h[0] = x
  BY <1>3, IterateStep
<1>5. ASSUME NEW n \in Nat, NEW y, y = h[8 * n]
      PROVE  (CHOOSE next \in {ReadSteps(tokens, r) : r \in {y}} : TRUE) = h[8 * (n + 1)]
  <2>1. {ReadSteps(tokens, r) : r \in {y}} = {ReadSteps(tokens, y)}
    OBVIOUS
  <2>2. 8 * n \in Nat /\ 8 * n + 8 = 8 * (n + 1)
    OBVIOUS
  <2>3. ReadSteps(tokens, y) = h[8 * (n + 1)]
    BY <1>3, <1>5, <2>2, EightSteps
  <2> QED
    BY <2>1, <2>3, OneOf
<1>6. \E f : After(f)
  <2> DEFINE a == [n \in Nat |-> h[8 * n]]
             next(y) == CHOOSE next \in {ReadSteps(tokens, r) : r \in {y}} : TRUE
  <2>1. ASSUME NEW n \in Nat PROVE a[n] = IF n = 0 THEN x ELSE next(a[n - 1])
    <3>1. CASE n = 0
      BY <1>4, <3>1
    <3>2. CASE n # 0
      <4>1. n - 1 \in Nat /\ (n - 1) + 1 = n /\ a[n] = h[8 * n]
        BY <3>2
      <4>2. a[n - 1] = h[8 * (n - 1)]
        BY <4>1
      <4> HIDE DEF a
      <4>3. next(a[n - 1]) = h[8 * n]
        BY <1>5, <4>1, <4>2
      <4> QED
        BY <3>2, <4>1, <4>3
    <3> QED
      BY <3>1, <3>2
  <2>2. a = [n \in Nat |-> a[n]]
    OBVIOUS
  <2> HIDE DEF a, next
  <2>3. a = [n \in Nat |-> IF n = 0 THEN x ELSE next(a[n - 1])]
    BY <2>1, <2>2
  <2> QED
    BY <2>3, Zenon DEF next
<1>7. After(after)
  BY <1>6, Zenon
<1> HIDE DEF after
<1>8. after[last] = h[8 * last]
  <2> DEFINE S == {n \in Nat : after[n] = h[8 * n]}
             next(y) == CHOOSE next \in {ReadSteps(tokens, r) : r \in {y}} : TRUE
  <2>1. after = [n \in Nat |-> IF n = 0 THEN x ELSE next(after[n - 1])]
    BY <1>7, Zenon
  <2>2. \A n \in Nat : after[n] = h[8 * n] => next(after[n]) = h[8 * (n + 1)]
    BY <1>5
  <2> HIDE DEF next
  <2>3. 0 \in S
    BY <1>4, <2>1
  <2>4. ASSUME NEW n \in Nat, n \in S PROVE n + 1 \in S
    <3>1. n + 1 \in Nat /\ n + 1 # 0 /\ (n + 1) - 1 = n
      OBVIOUS
    <3>2. after[n + 1] = IF n + 1 = 0 THEN x ELSE next(after[(n + 1) - 1])
      BY <2>1, <3>1
    <3>3. after[n + 1] = next(after[n])
      BY <3>1, <3>2
    <3> QED
      BY <2>2, <2>4, <3>3
  <2>5. last \in S
    <3> HIDE DEF S
    <3> QED
      BY <1>2, <2>3, <2>4, NatSetInduction
  <2> QED
    BY <2>5
<1>9. ReadStruct(o, tokens) = ReadResult(tokens, h[8 * last])
  <2> DEFINE y == after[last]
  <2> HIDE DEF y
  <2>1. {ReadResult(tokens, r) : r \in {y}} = {ReadResult(tokens, y)}
    OBVIOUS
  <2>2. ReadStruct(o, tokens) = ReadResult(tokens, y)
    BY <1>1, <2>1, OneOf DEF y
  <2> QED
    BY <1>8, <2>2 DEF y
<1> QED
  BY <1>2, <1>3, <1>9 DEF x

----------------------------------------------------------------------------
(* A message is read to its last token.                                     *)

(* Nothing is left behind the last token.                                   *)
LEMMA NothingAfter ==
    ASSUME NEW s, IsSeq(s)
    PROVE  SubSeq(s, Len(s) + 1, Len(s)) = <<>>
<1> DEFINE T == {s[i] : i \in DOMAIN s}
<1>1. s \in Seq(T)
  BY DEF IsSeq
<1> HIDE DEF T
<1>2. Len(s) \in Nat
  BY <1>1
<1> QED
  BY <1>1, <1>2

(* The reader is at the end of a message that has given v.                  *)
Done(v, at) == Goes([reads |-> "nothing", got |-> <<v>>], at)

(* The call that waits for the outermost struct has got it.                 *)
LEMMA DoneIs ==
    ASSUME NEW v, NEW at
    PROVE  /\ Goes(Received(TopCall, v), at) = Done(v, at)
           /\ Done(v, at).call.reads = "nothing" /\ Done(v, at).call.got = <<v>>
           /\ Done(v, at).at = at
<1>1. TopCall.reads = "nothing"
  BY DEF TopCall
<1>2. Received(TopCall, v) = [TopCall EXCEPT !.got = <<v>>]
  BY <1>1, Zenon DEF Received
<1>3. [TopCall EXCEPT !.got = <<v>>] = [reads |-> "nothing", got |-> <<v>>]
  BY DEF TopCall
<1> QED
  BY <1>2, <1>3 DEF Done, Goes

(* A call that reads nothing stays as it is.                                *)
LEMMA NothingStays ==
    ASSUME NEW tokens, NEW r, r.call.reads = "nothing"
    PROVE  Go(<<tokens>>, r) = r
<1>1. "nothing" # "struct" /\ "nothing" # "list"
  OBVIOUS
<1>2. ReadStep(tokens, r) = r
  BY <1>1, Zenon DEF ReadStep
<1> QED
  BY <1>2, GoRead

(* A whole message is read in fewer steps than Read allows itself.          *)
LEMMA WholeLeads ==
    ASSUME NEW n, NEW o, NEW toks, IsSeq(toks), NEW v, ReadsAs(Struct(n), o, toks, v),
           NEW first, NEW tokens, IsSeq(first), Len(first) = 1, Joined(tokens, first, toks)
    PROVE  /\ IsSeq(tokens) /\ Len(tokens) = 1 + Len(toks) /\ Len(toks) \in Nat
           /\ \E m \in 0 .. 2 * Len(toks) - 1 :
                 Leads(<<tokens>>, Goes(StructCall(o, "none", TopCall), 1),
                       Done(v, Len(tokens)), m)
<1>1. /\ IsSeq(tokens) /\ Len(tokens) = Len(first) + Len(toks)
      /\ \A i \in 1 .. Len(toks) : tokens[Len(first) + i] = toks[i]
  BY ONLY IsSeq(toks), IsSeq(first), Joined(tokens, first, toks), SeqConcat DEF Joined
<1>2. Len(toks) \in Nat
  BY SeqLen
<1>3. Here(tokens, 1, toks)
  BY <1>1, <1>2 DEF Here
<1>4. PICK m \in 0 .. 2 * Len(toks) - 1 :
         Leads(<<tokens>>, Read(tokens, Struct(n), o, TopCall, 1),
               Goes(Received(TopCall, v), 1 + Len(toks)), m)
  BY <1>3, Zenon DEF ReadsAs
<1>5. Read(tokens, Struct(n), o, TopCall, 1) = Goes(StructCall(o, "none", TopCall), 1)
  <2>1. Struct(n).wire = "T_STRUCT"
    BY DEF Struct
  <2> QED
    BY <2>1, Zenon DEF Read
<1>6. Goes(Received(TopCall, v), 1 + Len(toks)) = Done(v, 1 + Len(toks))
  BY DoneIs
<1>7. Len(tokens) = 1 + Len(toks)
  BY <1>1
<1> QED
  BY <1>1, <1>2, <1>4, <1>5, <1>6, <1>7

(* A whole message is read to its last token and gives the struct.          *)
LEMMA WholeRead ==
    ASSUME NEW n, NEW o, NEW toks, IsSeq(toks), NEW v, ReadsAs(Struct(n), o, toks, v),
           NEW first, NEW tokens, IsSeq(first), Len(first) = 1, Joined(tokens, first, toks)
    PROVE  ReadStruct(o, tokens) = Got(v, <<>>)
<1> DEFINE x == Goes(StructCall(o, "none", TopCall), 1)
           y == Done(v, Len(tokens))
<1>1. IsSeq(tokens) /\ Len(tokens) = 1 + Len(toks) /\ Len(toks) \in Nat
  BY WholeLeads
<1>2. PICK m \in 0 .. 2 * Len(toks) - 1 : Leads(<<tokens>>, x, y, m)
  BY WholeLeads
<1>3. tokens # <<>>
  BY <1>1, SeqEmpty
<1>4. PICK f, N :
         /\ N \in Nat /\ 2 * Len(tokens) <= N /\ Iterate(<<tokens>>, x, f)
         /\ ReadStruct(o, tokens) = ReadResult(tokens, f[N])
  BY <1>1, <1>3, ReadRuns
<1> HIDE DEF x
<1>5. m \in Nat /\ N \in Nat /\ m <= N
  BY <1>1, <1>4
<1>6. f[m] = y
  BY <1>2, <1>4, <1>5, IteratesLead
<1>7. y.call.reads = "nothing" /\ y.call.got = <<v>> /\ y.at = Len(tokens)
  BY DoneIs
<1> HIDE DEF y
<1>8. Go(<<tokens>>, f[m]) = f[m]
  BY <1>6, <1>7, NothingStays
<1>9. f[N] = y
  BY <1>4, <1>5, <1>6, <1>8, IterateStays
<1>10. <<v>> # <<>> /\ <<v>>[1] = v
  OBVIOUS
<1>11. ReadResult(tokens, y) = Got(v, SubSeq(tokens, Len(tokens) + 1, Len(tokens)))
  BY <1>7, <1>10, Zenon DEF ReadResult
<1> QED
  BY <1>1, <1>4, <1>9, <1>11, NothingAfter

(* What has been broken off is not read. *)
Short(tokens, k, s) ==
    /\ k \in Nat /\ k < Len(tokens) /\ IsSeq(tokens) /\ IsSeq(s) /\ Len(s) = k
    /\ \A i \in 1 .. k : s[i] = tokens[i]

(* A step in the short message ends with the tokens, or is that of the      *)
(* whole one.                                                               *)
Alike(k, r, q) == r = OutOfTokens \/ (r = q /\ r.at \in 0 .. k)

(* The parts of what a step goes to.                                        *)
LEMMA GoesAt == ASSUME NEW c, NEW at PROVE Goes(c, at).at = at /\ Goes(c, at).call = c
BY DEF Goes

(* Reading one value of a message that has been cut off does what it does   *)
(* of the whole message, or ends with the tokens.                           *)
LEMMA ShortRead ==
    ASSUME NEW tokens, NEW k, NEW s, Short(tokens, k, s), NEW type, NEW old, NEW caller,
           NEW at \in 0 .. k
    PROVE  Alike(k, Read(s, type, old, caller, at), Read(tokens, type, old, caller, at))
<1>1. k \in Nat /\ Len(tokens) \in Nat /\ k < Len(tokens) /\ Len(s) = k
  BY SeqLen DEF Short
<1>2. CASE type.wire = "T_STRUCT"
  <2>1. /\ Read(s, type, old, caller, at) = Goes(StructCall(old, "none", caller), at)
        /\ Read(tokens, type, old, caller, at) = Goes(StructCall(old, "none", caller), at)
    BY <1>2, Zenon DEF Read
  <2> QED
    BY <2>1, GoesAt DEF Alike
<1>3. CASE type.wire # "T_STRUCT" /\ at = k
  <2>1. Read(s, type, old, caller, at) = OutOfTokens
    BY <1>1, <1>3, Zenon DEF Read
  <2> QED
    BY <2>1 DEF Alike
<1>4. CASE type.wire # "T_STRUCT" /\ at # k
  <2>1. at # Len(s) /\ at # Len(tokens) /\ at + 1 \in 1 .. k /\ at + 1 \in 0 .. k
    BY <1>1, <1>4
  <2>2. s[at + 1] = tokens[at + 1]
    BY <2>1 DEF Short
  <2> DEFINE token == tokens[at + 1].token
             of == IF "of" \in DOMAIN type THEN type.of ELSE Skipped(token.elem)
  <2>3. CASE type.wire = "T_STRING"
    <3>1. /\ Read(s, type, old, caller, at) = Goes(Received(caller, ReadString(token)), at + 1)
          /\ Read(tokens, type, old, caller, at) = Goes(Received(caller, ReadString(token)), at + 1)
      BY <1>4, <2>1, <2>2, <2>3, Zenon DEF Read
    <3> QED
      BY <2>1, <3>1, GoesAt DEF Alike
  <2>4. CASE type.wire = "T_LIST"
    <3>0. "T_LIST" # "T_STRING"
      OBVIOUS
    <3>1. /\ Read(s, type, old, caller, at) = Goes(ListCall(of, token.size, old, caller), at + 1)
          /\ Read(tokens, type, old, caller, at) = Goes(ListCall(of, token.size, old, caller), at + 1)
      BY <1>4, <2>1, <2>2, <2>4, <3>0, Zenon DEF Read
    <3> QED
      BY <2>1, <3>1, GoesAt DEF Alike
  <2>5. CASE type.wire # "T_STRING" /\ type.wire # "T_LIST"
    <3>1. /\ Read(s, type, old, caller, at) = Goes(Received(caller, token), at + 1)
          /\ Read(tokens, type, old, caller, at) = Goes(Received(caller, token), at + 1)
      BY <1>4, <2>1, <2>2, <2>5, Zenon DEF Read
    <3> QED
      BY <2>1, <3>1, GoesAt DEF Alike
  <2> QED
    BY <2>3, <2>4, <2>5
<1> QED
  BY <1>2, <1>3, <1>4

(* So does one step.                                                        *)
LEMMA ShortStep ==
    ASSUME NEW tokens, NEW k, NEW s, Short(tokens, k, s), NEW r, r.at \in 0 .. k,
           r.call.reads \in {"struct", "list"}
    PROVE  Alike(k, ReadStep(s, r), ReadStep(tokens, r))
<1>1. k \in Nat /\ Len(tokens) \in Nat /\ k < Len(tokens) /\ Len(s) = k
  BY SeqLen DEF Short
<1> DEFINE c == r.call
           at == r.at
<1>0. at \in 0 .. k
  OBVIOUS
<1>2. CASE r.call.reads = "struct"
  <2>1. ReadStep(s, r) = ReadField(s, c, at) /\ ReadStep(tokens, r) = ReadField(tokens, c, at)
    BY <1>2, Zenon DEF ReadStep
  <2> HIDE DEF c, at
  <2>2. CASE at = k
    <3>1. ReadField(s, c, at) = OutOfTokens
      BY <1>1, <2>2, Zenon DEF ReadField
    <3> QED
      BY <2>1, <3>1 DEF Alike
  <2>3. CASE at # k
    <3>1. at # Len(s) /\ at # Len(tokens) /\ at + 1 \in 1 .. k /\ at + 1 \in 0 .. k
      BY <1>0, <1>1, <2>3
    <3>2. s[at + 1] = tokens[at + 1]
      BY <3>1 DEF Short
    <3> DEFINE field == tokens[at + 1].token
               skip == Skipped(field.wire)
               m == ReadTable[c.object.type][field.fid]
    <3>3. CASE field = Stop
      <4>1. /\ ReadField(s, c, at) = Goes(Received(c.caller, c.object), at + 1)
            /\ ReadField(tokens, c, at) = Goes(Received(c.caller, c.object), at + 1)
        BY <3>1, <3>2, <3>3, Zenon DEF ReadField
      <4> QED
        BY <2>1, <3>1, <4>1, GoesAt DEF Alike
    <3>4. CASE field # Stop /\ ~Known(c.object, field)
      <4> DEFINE caller == [c EXCEPT !.member = "none"]
      <4>1. /\ ReadField(s, c, at) = Read(s, skip, Element(skip), caller, at + 1)
            /\ ReadField(tokens, c, at) = Read(tokens, skip, Element(skip), caller, at + 1)
        BY <3>1, <3>2, <3>4, Zenon DEF ReadField
      <4> HIDE DEF caller, skip
      <4> QED
        BY <2>1, <3>1, <4>1, ShortRead
    <3>5. CASE field # Stop /\ Known(c.object, field)
      <4> DEFINE caller == [c EXCEPT !.member = m.name]
      <4>1. /\ ReadField(s, c, at) = Read(s, m.type, c.object.has[m.name], caller, at + 1)
            /\ ReadField(tokens, c, at) = Read(tokens, m.type, c.object.has[m.name], caller, at + 1)
        BY <3>1, <3>2, <3>5, Zenon DEF ReadField
      <4> HIDE DEF caller, m
      <4> QED
        BY <2>1, <3>1, <4>1, ShortRead
    <3> QED
      BY <3>3, <3>4, <3>5
  <2> QED
    BY <2>2, <2>3
<1>3. CASE r.call.reads = "list"
  <2>0. "list" # "struct"
    OBVIOUS
  <2>1. ReadStep(s, r) = ReadElement(s, c, at) /\ ReadStep(tokens, r) = ReadElement(tokens, c, at)
    BY <1>3, <2>0, Zenon DEF ReadStep
  <2> HIDE DEF c, at
  <2>2. CASE c.left = 0
    <3>1. /\ ReadElement(s, c, at) = Goes(Received(c.caller, c.list), at)
          /\ ReadElement(tokens, c, at) = Goes(Received(c.caller, c.list), at)
      BY <2>2, Zenon DEF ReadElement
    <3> QED
      BY <1>0, <2>1, <3>1, GoesAt DEF Alike
  <2>3. CASE c.left # 0
    <3> DEFINE caller == [c EXCEPT !.left = @ - 1]
    <3>1. /\ ReadElement(s, c, at) = Read(s, c.of, Element(c.of), caller, at)
          /\ ReadElement(tokens, c, at) = Read(tokens, c.of, Element(c.of), caller, at)
      BY <2>3, Zenon DEF ReadElement
    <3> HIDE DEF caller
    <3> QED
      BY <1>0, <2>1, <3>1, ShortRead
  <2> QED
    BY <2>2, <2>3
<1> QED
  BY <1>2, <1>3

----------------------------------------------------------------------------
(* No part of a message is read as one.                                     *)

(* A reader that has run out of tokens has failed.                          *)
LEMMA OutOfTokensIs ==
    /\ OutOfTokens.call.reads = "nothing" /\ OutOfTokens.call.got = <<>>
    /\ \A tokens : ReadResult(tokens, OutOfTokens) = Failed
<1>1. OutOfTokens.call.reads = "nothing" /\ OutOfTokens.call.got = <<>>
  BY DEF OutOfTokens, Goes, TopCall
<1>2. ASSUME NEW tokens PROVE ReadResult(tokens, OutOfTokens) = Failed
  BY <1>1, Zenon DEF ReadResult
<1> QED
  BY <1>1, <1>2

(* Whatever is cut off a message, the reader fails: it goes the way it      *)
(* would go in the whole message as long as there are tokens, and that way  *)
(* does not end before the last one.                                        *)
LEMMA CutUnread ==
    ASSUME NEW n, NEW o, NEW toks, IsSeq(toks), NEW v, ReadsAs(Struct(n), o, toks, v),
           NEW first, NEW tokens, IsSeq(first), Len(first) = 1, Joined(tokens, first, toks),
           NEW k, NEW s, Short(tokens, k, s)
    PROVE  ReadStruct(o, s) = Failed
<1> DEFINE x == Goes(StructCall(o, "none", TopCall), 1)
           y == Done(v, Len(tokens))
<1>1. k \in Nat /\ k < Len(tokens) /\ IsSeq(s) /\ Len(s) = k
  BY DEF Short
<1>2. CASE k = 0
  <2>1. s = <<>>
    BY <1>1, <1>2, SeqEmpty, SameSeq
  <2> QED
    BY <2>1, Zenon DEF ReadStruct
<1>3. CASE k # 0
  <2>1. IsSeq(tokens) /\ Len(tokens) = 1 + Len(toks) /\ Len(toks) \in Nat
    BY WholeLeads
  <2>2. PICK m \in 0 .. 2 * Len(toks) - 1 : Leads(<<tokens>>, x, y, m)
    BY WholeLeads
  <2>3. s # <<>>
    BY <1>1, <1>3, SeqEmpty
  <2>4. PICK f, N :
           N \in Nat /\ Iterate(<<s>>, x, f) /\ ReadStruct(o, s) = ReadResult(s, f[N])
    BY <1>1, <2>3, ReadRuns
  <2>5. x.at = 1 /\ y.at = Len(tokens)
    BY GoesAt, DoneIs
  <2> HIDE DEF x
  <2>6. PICK g : g[0] = x /\ g[m] = y /\ Trace(<<tokens>>, g, m)
    BY <2>2 DEF Leads
  <2> HIDE DEF y
  <2>7. f[0] = x /\ \A i \in Nat : f[i + 1] = Go(<<s>>, f[i])
    BY <2>4, IterateStep
  <2> DEFINE S == {i \in Nat : i <= m => Alike(k, f[i], g[i])}
  <2>8. 0 \in S
    <3>1. f[0] = g[0] /\ g[0].at = 1 /\ 1 \in 0 .. k
      BY <1>1, <1>3, <2>5, <2>6, <2>7
    <3>2. f[0].at \in 0 .. k
      BY <3>1
    <3> QED
      BY <3>1, <3>2 DEF Alike
  <2>9. ASSUME NEW i \in Nat, i \in S PROVE i + 1 \in S
    <3> SUFFICES ASSUME i + 1 <= m PROVE Alike(k, f[i + 1], g[i + 1])
      OBVIOUS
    <3>1. i \in 0 .. m - 1 /\ i <= m
      OBVIOUS
    <3>2. g[i + 1] = Go(<<tokens>>, g[i]) /\ Busy(<<tokens>>, g[i])
      BY <2>6, <3>1 DEF Trace, Run
    <3>3. g[i + 1] = ReadStep(tokens, g[i]) /\ g[i].call.reads \in {"struct", "list"}
      <4>1. <<tokens>> # <<>>
        OBVIOUS
      <4>2. g[i + 1] = ReadStep(tokens, g[i])
        BY <3>2, GoRead
      <4>3. g[i].call.reads \in {"struct", "list"}
        BY <3>2, <4>1, Zenon DEF Busy
      <4> QED
        BY <4>2, <4>3
    <3>4. Alike(k, f[i], g[i])
      BY <2>9, <3>1
    <3>5. CASE f[i] = OutOfTokens
      <4>1. Go(<<s>>, f[i]) = f[i]
        BY <3>5, OutOfTokensIs, NothingStays
      <4>2. f[i + 1] = OutOfTokens
        BY <2>7, <3>5, <4>1
      <4> QED
        BY <4>2 DEF Alike
    <3>6. CASE f[i] = g[i] /\ f[i].at \in 0 .. k
      <4>1. f[i + 1] = ReadStep(s, g[i])
        BY <2>7, <3>6, GoRead
      <4>2. g[i].at \in 0 .. k
        BY <3>6
      <4>3. Alike(k, ReadStep(s, g[i]), ReadStep(tokens, g[i]))
        BY <3>3, <4>2, ShortStep
      <4> QED
        BY <3>3, <4>1, <4>3
    <3> QED
      BY <3>4, <3>5, <3>6 DEF Alike
  <2>10. ASSUME NEW i \in Nat, i <= m PROVE Alike(k, f[i], g[i])
    <3>1. Nat \subseteq S
      <4> HIDE DEF S
      <4> QED
        BY <2>8, <2>9, NatSetInduction
    <3> QED
      BY <2>10, <3>1
  <2>11. N \in Nat /\ m \in Nat
    BY <2>1, <2>4
  <2>12. CASE m <= N
    <3>1. Alike(k, f[m], g[m])
      BY <2>10, <2>11
    <3>2. f[m] = OutOfTokens
      <4> SUFFICES ASSUME f[m] = g[m], f[m].at \in 0 .. k PROVE FALSE
        BY <3>1 DEF Alike
      <4>1. f[m].at = Len(tokens)
        BY <2>5, <2>6
      <4> QED
        BY <1>1, <2>1, <4>1
    <3>3. Go(<<s>>, f[m]) = f[m]
      BY <3>2, OutOfTokensIs, NothingStays
    <3>4. f[N] = OutOfTokens
      BY <2>4, <2>11, <2>12, <3>2, <3>3, IterateStays
    <3> QED
      BY <2>4, <3>4, OutOfTokensIs
  <2>13. CASE ~(m <= N)
    <3>1. N <= m /\ N \in 0 .. m - 1
      BY <2>11, <2>13
    <3>2. Alike(k, f[N], g[N]) /\ Busy(<<tokens>>, g[N])
      BY <2>6, <2>10, <2>11, <3>1 DEF Trace
    <3>3. CASE f[N] = OutOfTokens
      BY <2>4, <3>3, OutOfTokensIs
    <3>4. CASE f[N] = g[N]
      <4>1. <<tokens>> # <<>> /\ "struct" # "nothing" /\ "list" # "nothing"
        OBVIOUS
      <4>2. f[N].call.reads # "nothing"
        BY <3>2, <3>4, <4>1, Zenon DEF Busy
      <4>3. ReadResult(s, f[N]) = Failed
        BY <4>2, Zenon DEF ReadResult
      <4> QED
        BY <2>4, <4>3
    <3> QED
      BY <3>2, <3>3, <3>4 DEF Alike
  <2> QED
    BY <2>11, <2>12, <2>13
<1> QED
  BY <1>2, <1>3

----------------------------------------------------------------------------
(* The structs of nt_structs_types.c, one after the other: its writer, its  *)
(* reader, and that it travels if its fields do.                            *)

(* A struct of the bindings by its parts.                                   *)
Obj(type, has, isset) == [type |-> type, has |-> has, isset |-> isset]

(* A value put into a struct given by its parts.                            *)
LEMMA WithObj ==
    ASSUME NEW type, NEW has, NEW isset, NEW name, NEW new
    PROVE  With(Obj(type, has, isset), name, new)
             = Obj(type, [has EXCEPT ![name] = new], isset \cup {name})
<1> DEFINE c == Obj(type, has, isset)
           more == [has EXCEPT ![name] = new]
           d == [c EXCEPT !.has = more]
<1>1. c.has = has /\ c.isset = isset
  BY DEF Obj
<1>2. d = Obj(type, more, isset)
  <2> HIDE DEF more
  <2> QED
    BY DEF Obj
<1>3. [d EXCEPT !.isset = @ \cup {name}] = Obj(type, more, isset \cup {name})
  <2> DEFINE e == Obj(type, more, isset)
  <2> HIDE DEF more
  <2>1. [e EXCEPT !.isset = @ \cup {name}] = Obj(type, more, isset \cup {name})
    BY DEF Obj
  <2> HIDE DEF d, e
  <2> QED
    BY <1>2, <2>1 DEF e
<1>4. With(c, name, new) = [d EXCEPT !.isset = @ \cup {name}]
  BY <1>1 DEF With
<1> QED
  BY <1>3, <1>4

(* A required field carries its value.                                      *)
LEMMA AlwaysCarries ==
    ASSUME NEW fid, NEW name, NEW type, NEW o, NEW c, NEW v, Knows(c, fid, name, type),
           Travels(type, o.has[name], c.has[name], v)
    PROVE  Carries(WriteField(Always(fid, name, type), o), c, With(c, name, v))
<1> DEFINE f == Always(fid, name, type)
<1>1. f.fid = fid /\ f.name = name /\ f.type = type /\ ~f.ifset
  BY DEF Always
<1> HIDE DEF f
<1>2. Knows(c, f.fid, f.name, f.type) /\ Travels(f.type, o.has[f.name], c.has[f.name], v)
  BY <1>1
<1>3. Carries(WriteField(f, o), c, With(c, f.name, v))
  BY <1>1, <1>2, FieldCarries
<1> QED
  BY <1>1, <1>3 DEF f

(* A set field of a union carries its value.                                *)
LEMMA IfSetCarries ==
    ASSUME NEW fid, NEW name, NEW type, NEW o, NEW c, NEW v, name \in o.isset,
           Knows(c, fid, name, type), Travels(type, o.has[name], c.has[name], v)
    PROVE  Carries(WriteField(IfSet(fid, name, type), o), c, With(c, name, v))
<1> DEFINE f == IfSet(fid, name, type)
<1>1. f.fid = fid /\ f.name = name /\ f.type = type
  BY DEF IfSet
<1> HIDE DEF f
<1>2. Knows(c, f.fid, f.name, f.type) /\ Travels(f.type, o.has[f.name], c.has[f.name], v)
  BY <1>1
<1>3. Carries(WriteField(f, o), c, With(c, f.name, v))
  BY <1>1, <1>2, FieldCarries
<1> QED
  BY <1>1, <1>3 DEF f

(* A field that is not set carries nothing.                                 *)
LEMMA IfSetCarriesNot ==
    ASSUME NEW fid, NEW name, NEW type, NEW o, NEW c, name \notin o.isset
    PROVE  Carries(WriteField(IfSet(fid, name, type), o), c, c)
<1> DEFINE f == IfSet(fid, name, type)
<1>1. f.name = name /\ f.ifset
  BY DEF IfSet
<1> HIDE DEF f
<1>2. Carries(WriteField(f, o), c, c)
  BY <1>1, FieldUnset
<1> QED
  BY <1>2 DEF f

(* The writer of Column, and a new object.                                  *)
LEMMA ColumnTables ==
    /\ WriteTable["Column_"] = <<Always(1, "column_name", Str), Always(2, "data_type", I32), Always(3, "size", I16)>>
    /\ New("Column_") = Obj("Column_", [column_name |-> NULL, data_type |-> 0, size |-> 0], {})
<1>1. WriteTable["Column_"] = column__write
  BY DEF WriteTable
<1>2. InstanceInit["Column_"] = column__instance_init
  BY DEF InstanceInit
<1> QED
  BY <1>1, <1>2 DEF column__write, column__instance_init, New, InstanceInit, Object, Obj

(* The reader of Column knows its fields.                                   *)
LEMMA ColumnKnows ==
    ASSUME NEW has, NEW isset
    PROVE  /\ Knows(Obj("Column_", has, isset), 1, "column_name", Str)
           /\ Knows(Obj("Column_", has, isset), 2, "data_type", I32)
           /\ Knows(Obj("Column_", has, isset), 3, "size", I16)
<1> DEFINE c == Obj("Column_", has, isset)
<1>1. c.type = "Column_" /\ "Column_" # NoObject.type
  BY DEF Obj, NoObject, Object
<1>2. ReadTable["Column_"] = column__read
  BY DEF ReadTable
<1>3. DOMAIN column__read = 1 .. 3
  BY DEF column__read
<1>4. column__read[1] = M("column_name", Str) /\ column__read[2] = M("data_type", I32) /\ column__read[3] = M("size", I16)
  BY DEF column__read
<1>5. Str.wire # "T_STOP" /\ I32.wire # "T_STOP" /\ I16.wire # "T_STOP"
  BY DEF Str, I16, I32, Struct, List
<1> HIDE DEF c
<1> QED
  BY <1>1, <1>2, <1>3, <1>4, <1>5 DEF Knows, c

(* A struct travels if its fields do, here and below: Column_.              *)
LEMMA ColumnTravels ==
    ASSUME NEW a1, NEW a2, NEW a3, NEW b1, NEW b2, NEW b3, NEW isset,
           Travels(Str, a1, NULL, b1),
           Travels(I32, a2, 0, b2),
           Travels(I16, a3, 0, b3)
    PROVE  Travels(Struct("Column_"), Obj("Column_", [column_name |-> a1, data_type |-> a2, size |-> a3], isset), New("Column_"),
                   Obj("Column_", [column_name |-> b1, data_type |-> b2, size |-> b3], {"column_name", "data_type", "size"}))
<1> DEFINE a == [column_name |-> a1, data_type |-> a2, size |-> a3]
           o == Obj("Column_", a, isset)
           h0 == [column_name |-> NULL, data_type |-> 0, size |-> 0]
           c0 == Obj("Column_", h0, {})
           h1 == [column_name |-> b1, data_type |-> 0, size |-> 0]
           c1 == Obj("Column_", h1, {"column_name"})
           h2 == [column_name |-> b1, data_type |-> b2, size |-> 0]
           c2 == Obj("Column_", h2, {"column_name", "data_type"})
           h3 == [column_name |-> b1, data_type |-> b2, size |-> b3]
           c3 == Obj("Column_", h3, {"column_name", "data_type", "size"})
           f1 == Always(1, "column_name", Str)
           f2 == Always(2, "data_type", I32)
           f3 == Always(3, "size", I16)
<1>1. o.type = "Column_" /\ o.has = a
  BY DEF Obj
<1>2. "Column_" # NoObject.type
  BY DEF NoObject, Object
<1>3. Carries(WriteField(f1, o), c0, c1)
  <2>1. Knows(c0, 1, "column_name", Str)
    BY ColumnKnows
  <2>2. a["column_name"] = a1 /\ c0.has["column_name"] = NULL
    BY DEF Obj
  <2>3. With(c0, "column_name", b1) = c1
    <3>1. [h0 EXCEPT !["column_name"] = b1] = h1
      OBVIOUS
    <3>2. {} \cup {"column_name"} = {"column_name"}
      OBVIOUS
    <3> HIDE DEF h0, h1
    <3> QED
      BY <3>1, <3>2, WithObj
  <2> HIDE DEF a, o, c0, c1
  <2> QED
    BY <1>1, <2>1, <2>2, <2>3, AlwaysCarries
<1>4. Carries(WriteField(f2, o), c1, c2)
  <2>1. Knows(c1, 2, "data_type", I32)
    BY ColumnKnows
  <2>2. a["data_type"] = a2 /\ c1.has["data_type"] = 0
    BY DEF Obj
  <2>3. With(c1, "data_type", b2) = c2
    <3>1. [h1 EXCEPT !["data_type"] = b2] = h2
      OBVIOUS
    <3>2. {"column_name"} \cup {"data_type"} = {"column_name", "data_type"}
      OBVIOUS
    <3> HIDE DEF h1, h2
    <3> QED
      BY <3>1, <3>2, WithObj
  <2> HIDE DEF a, o, c1, c2
  <2> QED
    BY <1>1, <2>1, <2>2, <2>3, AlwaysCarries
<1>5. Carries(WriteField(f3, o), c2, c3)
  <2>1. Knows(c2, 3, "size", I16)
    BY ColumnKnows
  <2>2. a["size"] = a3 /\ c2.has["size"] = 0
    BY DEF Obj
  <2>3. With(c2, "size", b3) = c3
    <3>1. [h2 EXCEPT !["size"] = b3] = h3
      OBVIOUS
    <3>2. {"column_name", "data_type"} \cup {"size"} = {"column_name", "data_type", "size"}
      OBVIOUS
    <3> HIDE DEF h2, h3
    <3> QED
      BY <3>1, <3>2, WithObj
  <2> HIDE DEF a, o, c2, c3
  <2> QED
    BY <1>1, <2>1, <2>2, <2>3, AlwaysCarries
<1>6. WriteTable["Column_"] = <<f1, f2, f3>> /\ c0 = New("Column_")
  BY ColumnTables
<1> HIDE DEF o, c0, c1, c2, c3, f1, f2, f3
<1>7. Travels(Struct("Column_"), o, c0, c3)
  BY <1>1, <1>2, <1>3, <1>4, <1>5, <1>6, Struct3
<1> QED
  BY <1>6, <1>7 DEF o, c3

(* The writer of CreateStmt, and a new object.                              *)
LEMMA CreateStmtTables ==
    /\ WriteTable["CreateStmt_"] = <<Always(1, "cols", List(Struct("Column_"))), Always(2, "tblName", Str)>>
    /\ New("CreateStmt_") = Obj("CreateStmt_", [cols |-> <<>>, tblName |-> NULL], {})
<1>1. WriteTable["CreateStmt_"] = create_stmt__write
  BY DEF WriteTable
<1>2. InstanceInit["CreateStmt_"] = create_stmt__instance_init
  BY DEF InstanceInit
<1> QED
  BY <1>1, <1>2 DEF create_stmt__write, create_stmt__instance_init, New, InstanceInit, Object, Obj

(* The reader of CreateStmt knows its fields.                               *)
LEMMA CreateStmtKnows ==
    ASSUME NEW has, NEW isset
    PROVE  /\ Knows(Obj("CreateStmt_", has, isset), 1, "cols", List(Struct("Column_")))
           /\ Knows(Obj("CreateStmt_", has, isset), 2, "tblName", Str)
<1> DEFINE c == Obj("CreateStmt_", has, isset)
<1>1. c.type = "CreateStmt_" /\ "CreateStmt_" # NoObject.type
  BY DEF Obj, NoObject, Object
<1>2. ReadTable["CreateStmt_"] = create_stmt__read
  BY DEF ReadTable
<1>3. DOMAIN create_stmt__read = 1 .. 2
  BY DEF create_stmt__read
<1>4. create_stmt__read[1] = M("cols", List(Struct("Column_"))) /\ create_stmt__read[2] = M("tblName", Str)
  BY DEF create_stmt__read
<1>5. List(Struct("Column_")).wire # "T_STOP" /\ Str.wire # "T_STOP"
  BY DEF Str, I16, I32, Struct, List
<1> HIDE DEF c
<1> QED
  BY <1>1, <1>2, <1>3, <1>4, <1>5 DEF Knows, c

(* CreateStmt: it travels if its fields do.                                 *)
LEMMA CreateStmtTravels ==
    ASSUME NEW a1, NEW a2, NEW b1, NEW b2, NEW isset,
           Travels(List(Struct("Column_")), a1, <<>>, b1),
           Travels(Str, a2, NULL, b2)
    PROVE  Travels(Struct("CreateStmt_"), Obj("CreateStmt_", [cols |-> a1, tblName |-> a2], isset), New("CreateStmt_"),
                   Obj("CreateStmt_", [cols |-> b1, tblName |-> b2], {"cols", "tblName"}))
<1> DEFINE a == [cols |-> a1, tblName |-> a2]
           o == Obj("CreateStmt_", a, isset)
           h0 == [cols |-> <<>>, tblName |-> NULL]
           c0 == Obj("CreateStmt_", h0, {})
           h1 == [cols |-> b1, tblName |-> NULL]
           c1 == Obj("CreateStmt_", h1, {"cols"})
           h2 == [cols |-> b1, tblName |-> b2]
           c2 == Obj("CreateStmt_", h2, {"cols", "tblName"})
           f1 == Always(1, "cols", List(Struct("Column_")))
           f2 == Always(2, "tblName", Str)
<1>1. o.type = "CreateStmt_" /\ o.has = a
  BY DEF Obj
<1>2. "CreateStmt_" # NoObject.type
  BY DEF NoObject, Object
<1>3. Carries(WriteField(f1, o), c0, c1)
  <2>1. Knows(c0, 1, "cols", List(Struct("Column_")))
    BY CreateStmtKnows
  <2>2. a["cols"] = a1 /\ c0.has["cols"] = <<>>
    BY DEF Obj
  <2>3. With(c0, "cols", b1) = c1
    <3>1. [h0 EXCEPT !["cols"] = b1] = h1
      OBVIOUS
    <3>2. {} \cup {"cols"} = {"cols"}
      OBVIOUS
    <3> HIDE DEF h0, h1
    <3> QED
      BY <3>1, <3>2, WithObj
  <2> HIDE DEF a, o, c0, c1
  <2> QED
    BY <1>1, <2>1, <2>2, <2>3, AlwaysCarries
<1>4. Carries(WriteField(f2, o), c1, c2)
  <2>1. Knows(c1, 2, "tblName", Str)
    BY CreateStmtKnows
  <2>2. a["tblName"] = a2 /\ c1.has["tblName"] = NULL
    BY DEF Obj
  <2>3. With(c1, "tblName", b2) = c2
    <3>1. [h1 EXCEPT !["tblName"] = b2] = h2
      OBVIOUS
    <3>2. {"cols"} \cup {"tblName"} = {"cols", "tblName"}
      OBVIOUS
    <3> HIDE DEF h1, h2
    <3> QED
      BY <3>1, <3>2, WithObj
  <2> HIDE DEF a, o, c1, c2
  <2> QED
    BY <1>1, <2>1, <2>2, <2>3, AlwaysCarries
<1>5. WriteTable["CreateStmt_"] = <<f1, f2>> /\ c0 = New("CreateStmt_")
  BY CreateStmtTables
<1> HIDE DEF o, c0, c1, c2, f1, f2
<1>6. Travels(Struct("CreateStmt_"), o, c0, c2)
  BY <1>1, <1>2, <1>3, <1>4, <1>5, Struct2
<1> QED
  BY <1>5, <1>6 DEF o, c2

(* The writer of Val, and a new object.                                     *)
LEMMA ValTables ==
    /\ WriteTable["Val_"] = <<Always(1, "cell", Struct("Cell_")), Always(2, "type", I32)>>
    /\ New("Val_") = Obj("Val_", [cell |-> New("Cell_"), type |-> 0], {})
<1>1. WriteTable["Val_"] = val__write
  BY DEF WriteTable
<1>2. InstanceInit["Val_"] = val__instance_init
  BY DEF InstanceInit
<1> QED
  BY <1>1, <1>2 DEF val__write, val__instance_init, New, InstanceInit, Object, Obj

(* The reader of Val knows its fields.                                      *)
LEMMA ValKnows ==
    ASSUME NEW has, NEW isset
    PROVE  /\ Knows(Obj("Val_", has, isset), 1, "cell", Struct("Cell_"))
           /\ Knows(Obj("Val_", has, isset), 2, "type", I32)
<1> DEFINE c == Obj("Val_", has, isset)
<1>1. c.type = "Val_" /\ "Val_" # NoObject.type
  BY DEF Obj, NoObject, Object
<1>2. ReadTable["Val_"] = val__read
  BY DEF ReadTable
<1>3. DOMAIN val__read = 1 .. 2
  BY DEF val__read
<1>4. val__read[1] = M("cell", Struct("Cell_")) /\ val__read[2] = M("type", I32)
  BY DEF val__read
<1>5. Struct("Cell_").wire # "T_STOP" /\ I32.wire # "T_STOP"
  BY DEF Str, I16, I32, Struct, List
<1> HIDE DEF c
<1> QED
  BY <1>1, <1>2, <1>3, <1>4, <1>5 DEF Knows, c

(* Val: it travels if its fields do.                                        *)
LEMMA ValTravels ==
    ASSUME NEW a1, NEW a2, NEW b1, NEW b2, NEW isset,
           Travels(Struct("Cell_"), a1, New("Cell_"), b1),
           Travels(I32, a2, 0, b2)
    PROVE  Travels(Struct("Val_"), Obj("Val_", [cell |-> a1, type |-> a2], isset), New("Val_"),
                   Obj("Val_", [cell |-> b1, type |-> b2], {"cell", "type"}))
<1> DEFINE a == [cell |-> a1, type |-> a2]
           o == Obj("Val_", a, isset)
           h0 == [cell |-> New("Cell_"), type |-> 0]
           c0 == Obj("Val_", h0, {})
           h1 == [cell |-> b1, type |-> 0]
           c1 == Obj("Val_", h1, {"cell"})
           h2 == [cell |-> b1, type |-> b2]
           c2 == Obj("Val_", h2, {"cell", "type"})
           f1 == Always(1, "cell", Struct("Cell_"))
           f2 == Always(2, "type", I32)
<1>1. o.type = "Val_" /\ o.has = a
  BY DEF Obj
<1>2. "Val_" # NoObject.type
  BY DEF NoObject, Object
<1>3. Carries(WriteField(f1, o), c0, c1)
  <2>1. Knows(c0, 1, "cell", Struct("Cell_"))
    BY ValKnows
  <2>2. a["cell"] = a1 /\ c0.has["cell"] = New("Cell_")
    BY DEF Obj
  <2>3. With(c0, "cell", b1) = c1
    <3>1. [h0 EXCEPT !["cell"] = b1] = h1
      OBVIOUS
    <3>2. {} \cup {"cell"} = {"cell"}
      OBVIOUS
    <3> HIDE DEF h0, h1
    <3> QED
      BY <3>1, <3>2, WithObj
  <2> HIDE DEF a, o, c0, c1
  <2> QED
    BY <1>1, <2>1, <2>2, <2>3, AlwaysCarries
<1>4. Carries(WriteField(f2, o), c1, c2)
  <2>1. Knows(c1, 2, "type", I32)
    BY ValKnows
  <2>2. a["type"] = a2 /\ c1.has["type"] = 0
    BY DEF Obj
  <2>3. With(c1, "type", b2) = c2
    <3>1. [h1 EXCEPT !["type"] = b2] = h2
      OBVIOUS
    <3>2. {"cell"} \cup {"type"} = {"cell", "type"}
      OBVIOUS
    <3> HIDE DEF h1, h2
    <3> QED
      BY <3>1, <3>2, WithObj
  <2> HIDE DEF a, o, c1, c2
  <2> QED
    BY <1>1, <2>1, <2>2, <2>3, AlwaysCarries
<1>5. WriteTable["Val_"] = <<f1, f2>> /\ c0 = New("Val_")
  BY ValTables
<1> HIDE DEF o, c0, c1, c2, f1, f2
<1>6. Travels(Struct("Val_"), o, c0, c2)
  BY <1>1, <1>2, <1>3, <1>4, <1>5, Struct2
<1> QED
  BY <1>5, <1>6 DEF o, c2

(* The writer of ColVal, and a new object.                                  *)
LEMMA ColValTables ==
    /\ WriteTable["ColVal_"] = <<Always(1, "col", Str), Always(2, "val", Struct("Val_"))>>
    /\ New("ColVal_") = Obj("ColVal_", [col |-> NULL, val |-> New("Val_")], {})
<1>1. WriteTable["ColVal_"] = col_val__write
  BY DEF WriteTable
<1>2. InstanceInit["ColVal_"] = col_val__instance_init
  BY DEF InstanceInit
<1> QED
  BY <1>1, <1>2 DEF col_val__write, col_val__instance_init, New, InstanceInit, Object, Obj

(* The reader of ColVal knows its fields.                                   *)
LEMMA ColValKnows ==
    ASSUME NEW has, NEW isset
    PROVE  /\ Knows(Obj("ColVal_", has, isset), 1, "col", Str)
           /\ Knows(Obj("ColVal_", has, isset), 2, "val", Struct("Val_"))
<1> DEFINE c == Obj("ColVal_", has, isset)
<1>1. c.type = "ColVal_" /\ "ColVal_" # NoObject.type
  BY DEF Obj, NoObject, Object
<1>2. ReadTable["ColVal_"] = col_val__read
  BY DEF ReadTable
<1>3. DOMAIN col_val__read = 1 .. 2
  BY DEF col_val__read
<1>4. col_val__read[1] = M("col", Str) /\ col_val__read[2] = M("val", Struct("Val_"))
  BY DEF col_val__read
<1>5. Str.wire # "T_STOP" /\ Struct("Val_").wire # "T_STOP"
  BY DEF Str, I16, I32, Struct, List
<1> HIDE DEF c
<1> QED
  BY <1>1, <1>2, <1>3, <1>4, <1>5 DEF Knows, c

(* ColVal: it travels if its fields do.                                     *)
LEMMA ColValTravels ==
    ASSUME NEW a1, NEW a2, NEW b1, NEW b2, NEW isset,
           Travels(Str, a1, NULL, b1),
           Travels(Struct("Val_"), a2, New("Val_"), b2)
    PROVE  Travels(Struct("ColVal_"), Obj("ColVal_", [col |-> a1, val |-> a2], isset), New("ColVal_"),
                   Obj("ColVal_", [col |-> b1, val |-> b2], {"col", "val"}))
<1> DEFINE a == [col |-> a1, val |-> a2]
           o == Obj("ColVal_", a, isset)
           h0 == [col |-> NULL, val |-> New("Val_")]
           c0 == Obj("ColVal_", h0, {})
           h1 == [col |-> b1, val |-> New("Val_")]
           c1 == Obj("ColVal_", h1, {"col"})
           h2 == [col |-> b1, val |-> b2]
           c2 == Obj("ColVal_", h2, {"col", "val"})
           f1 == Always(1, "col", Str)
           f2 == Always(2, "val", Struct("Val_"))
<1>1. o.type = "ColVal_" /\ o.has = a
  BY DEF Obj
<1>2. "ColVal_" # NoObject.type
  BY DEF NoObject, Object
<1>3. Carries(WriteField(f1, o), c0, c1)
  <2>1. Knows(c0, 1, "col", Str)
    BY ColValKnows
  <2>2. a["col"] = a1 /\ c0.has["col"] = NULL
    BY DEF Obj
  <2>3. With(c0, "col", b1) = c1
    <3>1. [h0 EXCEPT !["col"] = b1] = h1
      OBVIOUS
    <3>2. {} \cup {"col"} = {"col"}
      OBVIOUS
    <3> HIDE DEF h0, h1
    <3> QED
      BY <3>1, <3>2, WithObj
  <2> HIDE DEF a, o, c0, c1
  <2> QED
    BY <1>1, <2>1, <2>2, <2>3, AlwaysCarries
<1>4. Carries(WriteField(f2, o), c1, c2)
  <2>1. Knows(c1, 2, "val", Struct("Val_"))
    BY ColValKnows
  <2>2. a["val"] = a2 /\ c1.has["val"] = New("Val_")
    BY DEF Obj
  <2>3. With(c1, "val", b2) = c2
    <3>1. [h1 EXCEPT !["val"] = b2] = h2
      OBVIOUS
    <3>2. {"col"} \cup {"val"} = {"col", "val"}
      OBVIOUS
    <3> HIDE DEF h1, h2
    <3> QED
      BY <3>1, <3>2, WithObj
  <2> HIDE DEF a, o, c1, c2
  <2> QED
    BY <1>1, <2>1, <2>2, <2>3, AlwaysCarries
<1>5. WriteTable["ColVal_"] = <<f1, f2>> /\ c0 = New("ColVal_")
  BY ColValTables
<1> HIDE DEF o, c0, c1, c2, f1, f2
<1>6. Travels(Struct("ColVal_"), o, c0, c2)
  BY <1>1, <1>2, <1>3, <1>4, <1>5, Struct2
<1> QED
  BY <1>5, <1>6 DEF o, c2

(* The writer of InsertStmt, and a new object.                              *)
LEMMA InsertStmtTables ==
    /\ WriteTable["InsertStmt_"] = <<Always(1, "tblName", Str), Always(2, "rows", List(List(Struct("ColVal_"))))>>
    /\ New("InsertStmt_") = Obj("InsertStmt_", [tblName |-> NULL, rows |-> <<>>], {})
<1>1. WriteTable["InsertStmt_"] = insert_stmt__write
  BY DEF WriteTable
<1>2. InstanceInit["InsertStmt_"] = insert_stmt__instance_init
  BY DEF InstanceInit
<1> QED
  BY <1>1, <1>2 DEF insert_stmt__write, insert_stmt__instance_init, New, InstanceInit, Object, Obj

(* The reader of InsertStmt knows its fields.                               *)
LEMMA InsertStmtKnows ==
    ASSUME NEW has, NEW isset
    PROVE  /\ Knows(Obj("InsertStmt_", has, isset), 1, "tblName", Str)
           /\ Knows(Obj("InsertStmt_", has, isset), 2, "rows", List(List(Struct("ColVal_"))))
<1> DEFINE c == Obj("InsertStmt_", has, isset)
<1>1. c.type = "InsertStmt_" /\ "InsertStmt_" # NoObject.type
  BY DEF Obj, NoObject, Object
<1>2. ReadTable["InsertStmt_"] = insert_stmt__read
  BY DEF ReadTable
<1>3. DOMAIN insert_stmt__read = 1 .. 2
  BY DEF insert_stmt__read
<1>4. insert_stmt__read[1] = M("tblName", Str) /\ insert_stmt__read[2] = M("rows", List(List(Struct("ColVal_"))))
  BY DEF insert_stmt__read
<1>5. Str.wire # "T_STOP" /\ List(List(Struct("ColVal_"))).wire # "T_STOP"
  BY DEF Str, I16, I32, Struct, List
<1> HIDE DEF c
<1> QED
  BY <1>1, <1>2, <1>3, <1>4, <1>5 DEF Knows, c

(* InsertStmt: it travels if its fields do.                                 *)
LEMMA InsertStmtTravels ==
    ASSUME NEW a1, NEW a2, NEW b1, NEW b2, NEW isset,
           Travels(Str, a1, NULL, b1),
           Travels(List(List(Struct("ColVal_"))), a2, <<>>, b2)
    PROVE  Travels(Struct("InsertStmt_"), Obj("InsertStmt_", [tblName |-> a1, rows |-> a2], isset), New("InsertStmt_"),
                   Obj("InsertStmt_", [tblName |-> b1, rows |-> b2], {"tblName", "rows"}))
<1> DEFINE a == [tblName |-> a1, rows |-> a2]
           o == Obj("InsertStmt_", a, isset)
           h0 == [tblName |-> NULL, rows |-> <<>>]
           c0 == Obj("InsertStmt_", h0, {})
           h1 == [tblName |-> b1, rows |-> <<>>]
           c1 == Obj("InsertStmt_", h1, {"tblName"})
           h2 == [tblName |-> b1, rows |-> b2]
           c2 == Obj("InsertStmt_", h2, {"tblName", "rows"})
           f1 == Always(1, "tblName", Str)
           f2 == Always(2, "rows", List(List(Struct("ColVal_"))))
<1>1. o.type = "InsertStmt_" /\ o.has = a
  BY DEF Obj
<1>2. "InsertStmt_" # NoObject.type
  BY DEF NoObject, Object
<1>3. Carries(WriteField(f1, o), c0, c1)
  <2>1. Knows(c0, 1, "tblName", Str)
    BY InsertStmtKnows
  <2>2. a["tblName"] = a1 /\ c0.has["tblName"] = NULL
    BY DEF Obj
  <2>3. With(c0, "tblName", b1) = c1
    <3>1. [h0 EXCEPT !["tblName"] = b1] = h1
      OBVIOUS
    <3>2. {} \cup {"tblName"} = {"tblName"}
      OBVIOUS
    <3> HIDE DEF h0, h1
    <3> QED
      BY <3>1, <3>2, WithObj
  <2> HIDE DEF a, o, c0, c1
  <2> QED
    BY <1>1, <2>1, <2>2, <2>3, AlwaysCarries
<1>4. Carries(WriteField(f2, o), c1, c2)
  <2>1. Knows(c1, 2, "rows", List(List(Struct("ColVal_"))))
    BY InsertStmtKnows
  <2>2. a["rows"] = a2 /\ c1.has["rows"] = <<>>
    BY DEF Obj
  <2>3. With(c1, "rows", b2) = c2
    <3>1. [h1 EXCEPT !["rows"] = b2] = h2
      OBVIOUS
    <3>2. {"tblName"} \cup {"rows"} = {"tblName", "rows"}
      OBVIOUS
    <3> HIDE DEF h1, h2
    <3> QED
      BY <3>1, <3>2, WithObj
  <2> HIDE DEF a, o, c1, c2
  <2> QED
    BY <1>1, <2>1, <2>2, <2>3, AlwaysCarries
<1>5. WriteTable["InsertStmt_"] = <<f1, f2>> /\ c0 = New("InsertStmt_")
  BY InsertStmtTables
<1> HIDE DEF o, c0, c1, c2, f1, f2
<1>6. Travels(Struct("InsertStmt_"), o, c0, c2)
  BY <1>1, <1>2, <1>3, <1>4, <1>5, Struct2
<1> QED
  BY <1>5, <1>6 DEF o, c2

(* The writer of DropStmt, and a new object.                                *)
LEMMA DropStmtTables ==
    /\ WriteTable["DropStmt_"] = <<Always(1, "tblName", Str)>>
    /\ New("DropStmt_") = Obj("DropStmt_", [tblName |-> NULL], {})
<1>1. WriteTable["DropStmt_"] = drop_stmt__write
  BY DEF WriteTable
<1>2. InstanceInit["DropStmt_"] = drop_stmt__instance_init
  BY DEF InstanceInit
<1> QED
  BY <1>1, <1>2 DEF drop_stmt__write, drop_stmt__instance_init, New, InstanceInit, Object, Obj

(* The reader of DropStmt knows its fields.                                 *)
LEMMA DropStmtKnows ==
    ASSUME NEW has, NEW isset
    PROVE  /\ Knows(Obj("DropStmt_", has, isset), 1, "tblName", Str)
<1> DEFINE c == Obj("DropStmt_", has, isset)
<1>1. c.type = "DropStmt_" /\ "DropStmt_" # NoObject.type
  BY DEF Obj, NoObject, Object
<1>2. ReadTable["DropStmt_"] = drop_stmt__read
  BY DEF ReadTable
<1>3. DOMAIN drop_stmt__read = 1 .. 1
  BY DEF drop_stmt__read
<1>4. drop_stmt__read[1] = M("tblName", Str)
  BY DEF drop_stmt__read
<1>5. Str.wire # "T_STOP"
  BY DEF Str, I16, I32, Struct, List
<1> HIDE DEF c
<1> QED
  BY <1>1, <1>2, <1>3, <1>4, <1>5 DEF Knows, c

(* DropStmt: it travels if its fields do.                                   *)
LEMMA DropStmtTravels ==
    ASSUME NEW a1, NEW b1, NEW isset,
           Travels(Str, a1, NULL, b1)
    PROVE  Travels(Struct("DropStmt_"), Obj("DropStmt_", [tblName |-> a1], isset), New("DropStmt_"),
                   Obj("DropStmt_", [tblName |-> b1], {"tblName"}))
<1> DEFINE a == [tblName |-> a1]
           o == Obj("DropStmt_", a, isset)
           h0 == [tblName |-> NULL]
           c0 == Obj("DropStmt_", h0, {})
           h1 == [tblName |-> b1]
           c1 == Obj("DropStmt_", h1, {"tblName"})
           f1 == Always(1, "tblName", Str)
<1>1. o.type = "DropStmt_" /\ o.has = a
  BY DEF Obj
<1>2. "DropStmt_" # NoObject.type
  BY DEF NoObject, Object
<1>3. Carries(WriteField(f1, o), c0, c1)
  <2>1. Knows(c0, 1, "tblName", Str)
    BY DropStmtKnows
  <2>2. a["tblName"] = a1 /\ c0.has["tblName"] = NULL
    BY DEF Obj
  <2>3. With(c0, "tblName", b1) = c1
    <3>1. [h0 EXCEPT !["tblName"] = b1] = h1
      OBVIOUS
    <3>2. {} \cup {"tblName"} = {"tblName"}
      OBVIOUS
    <3> HIDE DEF h0, h1
    <3> QED
      BY <3>1, <3>2, WithObj
  <2> HIDE DEF a, o, c0, c1
  <2> QED
    BY <1>1, <2>1, <2>2, <2>3, AlwaysCarries
<1>4. WriteTable["DropStmt_"] = <<f1>> /\ c0 = New("DropStmt_")
  BY DropStmtTables
<1> HIDE DEF o, c0, c1, f1
<1>5. Travels(Struct("DropStmt_"), o, c0, c1)
  BY <1>1, <1>2, <1>3, <1>4, Struct1
<1> QED
  BY <1>4, <1>5 DEF o, c1

(* The writer of FullColumnName, and a new object.                          *)
LEMMA FullColumnNameTables ==
    /\ WriteTable["FullColumnName_"] = <<Always(1, "row_name", Str), Always(2, "col_name", Str)>>
    /\ New("FullColumnName_") = Obj("FullColumnName_", [row_name |-> NULL, col_name |-> NULL], {})
<1>1. WriteTable["FullColumnName_"] = full_column_name__write
  BY DEF WriteTable
<1>2. InstanceInit["FullColumnName_"] = full_column_name__instance_init
  BY DEF InstanceInit
<1> QED
  BY <1>1, <1>2 DEF full_column_name__write, full_column_name__instance_init, New, InstanceInit, Object, Obj

(* The reader of FullColumnName knows its fields.                           *)
LEMMA FullColumnNameKnows ==
    ASSUME NEW has, NEW isset
    PROVE  /\ Knows(Obj("FullColumnName_", has, isset), 1, "row_name", Str)
           /\ Knows(Obj("FullColumnName_", has, isset), 2, "col_name", Str)
<1> DEFINE c == Obj("FullColumnName_", has, isset)
<1>1. c.type = "FullColumnName_" /\ "FullColumnName_" # NoObject.type
  BY DEF Obj, NoObject, Object
<1>2. ReadTable["FullColumnName_"] = full_column_name__read
  BY DEF ReadTable
<1>3. DOMAIN full_column_name__read = 1 .. 2
  BY DEF full_column_name__read
<1>4. full_column_name__read[1] = M("row_name", Str) /\ full_column_name__read[2] = M("col_name", Str)
  BY DEF full_column_name__read
<1>5. Str.wire # "T_STOP" /\ Str.wire # "T_STOP"
  BY DEF Str, I16, I32, Struct, List
<1> HIDE DEF c
<1> QED
  BY <1>1, <1>2, <1>3, <1>4, <1>5 DEF Knows, c

(* FullColumnName: it travels if its fields do.                             *)
LEMMA FullColumnNameTravels ==
    ASSUME NEW a1, NEW a2, NEW b1, NEW b2, NEW isset,
           Travels(Str, a1, NULL, b1),
           Travels(Str, a2, NULL, b2)
    PROVE  Travels(Struct("FullColumnName_"), Obj("FullColumnName_", [row_name |-> a1, col_name |-> a2], isset), New("FullColumnName_"),
                   Obj("FullColumnName_", [row_name |-> b1, col_name |-> b2], {"row_name", "col_name"}))
<1> DEFINE a == [row_name |-> a1, col_name |-> a2]
           o == Obj("FullColumnName_", a, isset)
           h0 == [row_name |-> NULL, col_name |-> NULL]
           c0 == Obj("FullColumnName_", h0, {})
           h1 == [row_name |-> b1, col_name |-> NULL]
           c1 == Obj("FullColumnName_", h1, {"row_name"})
           h2 == [row_name |-> b1, col_name |-> b2]
           c2 == Obj("FullColumnName_", h2, {"row_name", "col_name"})
           f1 == Always(1, "row_name", Str)
           f2 == Always(2, "col_name", Str)
<1>1. o.type = "FullColumnName_" /\ o.has = a
  BY DEF Obj
<1>2. "FullColumnName_" # NoObject.type
  BY DEF NoObject, Object
<1>3. Carries(WriteField(f1, o), c0, c1)
  <2>1. Knows(c0, 1, "row_name", Str)
    BY FullColumnNameKnows
  <2>2. a["row_name"] = a1 /\ c0.has["row_name"] = NULL
    BY DEF Obj
  <2>3. With(c0, "row_name", b1) = c1
    <3>1. [h0 EXCEPT !["row_name"] = b1] = h1
      OBVIOUS
    <3>2. {} \cup {"row_name"} = {"row_name"}
      OBVIOUS
    <3> HIDE DEF h0, h1
    <3> QED
      BY <3>1, <3>2, WithObj
  <2> HIDE DEF a, o, c0, c1
  <2> QED
    BY <1>1, <2>1, <2>2, <2>3, AlwaysCarries
<1>4. Carries(WriteField(f2, o), c1, c2)
  <2>1. Knows(c1, 2, "col_name", Str)
    BY FullColumnNameKnows
  <2>2. a["col_name"] = a2 /\ c1.has["col_name"] = NULL
    BY DEF Obj
  <2>3. With(c1, "col_name", b2) = c2
    <3>1. [h1 EXCEPT !["col_name"] = b2] = h2
      OBVIOUS
    <3>2. {"row_name"} \cup {"col_name"} = {"row_name", "col_name"}
      OBVIOUS
    <3> HIDE DEF h1, h2
    <3> QED
      BY <3>1, <3>2, WithObj
  <2> HIDE DEF a, o, c1, c2
  <2> QED
    BY <1>1, <2>1, <2>2, <2>3, AlwaysCarries
<1>5. WriteTable["FullColumnName_"] = <<f1, f2>> /\ c0 = New("FullColumnName_")
  BY FullColumnNameTables
<1> HIDE DEF o, c0, c1, c2, f1, f2
<1>6. Travels(Struct("FullColumnName_"), o, c0, c2)
  BY <1>1, <1>2, <1>3, <1>4, <1>5, Struct2
<1> QED
  BY <1>5, <1>6 DEF o, c2

(* The writer of Condition, and a new object.                               *)
LEMMA ConditionTables ==
    /\ WriteTable["Condition_"] = <<Always(1, "column", Struct("FullColumnName_")), Always(2, "comp_type", I32), Always(3, "value", Struct("Val_"))>>
    /\ New("Condition_") = Obj("Condition_", [column |-> New("FullColumnName_"), comp_type |-> 0, value |-> New("Val_")], {})
<1>1. WriteTable["Condition_"] = condition__write
  BY DEF WriteTable
<1>2. InstanceInit["Condition_"] = condition__instance_init
  BY DEF InstanceInit
<1> QED
  BY <1>1, <1>2 DEF condition__write, condition__instance_init, New, InstanceInit, Object, Obj

(* The reader of Condition knows its fields.                                *)
LEMMA ConditionKnows ==
    ASSUME NEW has, NEW isset
    PROVE  /\ Knows(Obj("Condition_", has, isset), 1, "column", Struct("FullColumnName_"))
           /\ Knows(Obj("Condition_", has, isset), 2, "comp_type", I32)
           /\ Knows(Obj("Condition_", has, isset), 3, "value", Struct("Val_"))
<1> DEFINE c == Obj("Condition_", has, isset)
<1>1. c.type = "Condition_" /\ "Condition_" # NoObject.type
  BY DEF Obj, NoObject, Object
<1>2. ReadTable["Condition_"] = condition__read
  BY DEF ReadTable
<1>3. DOMAIN condition__read = 1 .. 3
  BY DEF condition__read
<1>4. condition__read[1] = M("column", Struct("FullColumnName_")) /\ condition__read[2] = M("comp_type", I32) /\ condition__read[3] = M("value", Struct("Val_"))
  BY DEF condition__read
<1>5. Struct("FullColumnName_").wire # "T_STOP" /\ I32.wire # "T_STOP" /\ Struct("Val_").wire # "T_STOP"
  BY DEF Str, I16, I32, Struct, List
<1> HIDE DEF c
<1> QED
  BY <1>1, <1>2, <1>3, <1>4, <1>5 DEF Knows, c

(* Condition: it travels if its fields do.                                  *)
LEMMA ConditionTravels ==
    ASSUME NEW a1, NEW a2, NEW a3, NEW b1, NEW b2, NEW b3, NEW isset,
           Travels(Struct("FullColumnName_"), a1, New("FullColumnName_"), b1),
           Travels(I32, a2, 0, b2),
           Travels(Struct("Val_"), a3, New("Val_"), b3)
    PROVE  Travels(Struct("Condition_"), Obj("Condition_", [column |-> a1, comp_type |-> a2, value |-> a3], isset), New("Condition_"),
                   Obj("Condition_", [column |-> b1, comp_type |-> b2, value |-> b3], {"column", "comp_type", "value"}))
<1> DEFINE a == [column |-> a1, comp_type |-> a2, value |-> a3]
           o == Obj("Condition_", a, isset)
           h0 == [column |-> New("FullColumnName_"), comp_type |-> 0, value |-> New("Val_")]
           c0 == Obj("Condition_", h0, {})
           h1 == [column |-> b1, comp_type |-> 0, value |-> New("Val_")]
           c1 == Obj("Condition_", h1, {"column"})
           h2 == [column |-> b1, comp_type |-> b2, value |-> New("Val_")]
           c2 == Obj("Condition_", h2, {"column", "comp_type"})
           h3 == [column |-> b1, comp_type |-> b2, value |-> b3]
           c3 == Obj("Condition_", h3, {"column", "comp_type", "value"})
           f1 == Always(1, "column", Struct("FullColumnName_"))
           f2 == Always(2, "comp_type", I32)
           f3 == Always(3, "value", Struct("Val_"))
<1>1. o.type = "Condition_" /\ o.has = a
  BY DEF Obj
<1>2. "Condition_" # NoObject.type
  BY DEF NoObject, Object
<1>3. Carries(WriteField(f1, o), c0, c1)
  <2>1. Knows(c0, 1, "column", Struct("FullColumnName_"))
    BY ConditionKnows
  <2>2. a["column"] = a1 /\ c0.has["column"] = New("FullColumnName_")
    BY DEF Obj
  <2>3. With(c0, "column", b1) = c1
    <3>1. [h0 EXCEPT !["column"] = b1] = h1
      OBVIOUS
    <3>2. {} \cup {"column"} = {"column"}
      OBVIOUS
    <3> HIDE DEF h0, h1
    <3> QED
      BY <3>1, <3>2, WithObj
  <2> HIDE DEF a, o, c0, c1
  <2> QED
    BY <1>1, <2>1, <2>2, <2>3, AlwaysCarries
<1>4. Carries(WriteField(f2, o), c1, c2)
  <2>1. Knows(c1, 2, "comp_type", I32)
    BY ConditionKnows
  <2>2. a["comp_type"] = a2 /\ c1.has["comp_type"] = 0
    BY DEF Obj
  <2>3. With(c1, "comp_type", b2) = c2
    <3>1. [h1 EXCEPT !["comp_type"] = b2] = h2
      OBVIOUS
    <3>2. {"column"} \cup {"comp_type"} = {"column", "comp_type"}
      OBVIOUS
    <3> HIDE DEF h1, h2
    <3> QED
      BY <3>1, <3>2, WithObj
  <2> HIDE DEF a, o, c1, c2
  <2> QED
    BY <1>1, <2>1, <2>2, <2>3, AlwaysCarries
<1>5. Carries(WriteField(f3, o), c2, c3)
  <2>1. Knows(c2, 3, "value", Struct("Val_"))
    BY ConditionKnows
  <2>2. a["value"] = a3 /\ c2.has["value"] = New("Val_")
    BY DEF Obj
  <2>3. With(c2, "value", b3) = c3
    <3>1. [h2 EXCEPT !["value"] = b3] = h3
      OBVIOUS
    <3>2. {"column", "comp_type"} \cup {"value"} = {"column", "comp_type", "value"}
      OBVIOUS
    <3> HIDE DEF h2, h3
    <3> QED
      BY <3>1, <3>2, WithObj
  <2> HIDE DEF a, o, c2, c3
  <2> QED
    BY <1>1, <2>1, <2>2, <2>3, AlwaysCarries
<1>6. WriteTable["Condition_"] = <<f1, f2, f3>> /\ c0 = New("Condition_")
  BY ConditionTables
<1> HIDE DEF o, c0, c1, c2, c3, f1, f2, f3
<1>7. Travels(Struct("Condition_"), o, c0, c3)
  BY <1>1, <1>2, <1>3, <1>4, <1>5, <1>6, Struct3
<1> QED
  BY <1>6, <1>7 DEF o, c3

(* The writer of UpdateStmt, and a new object.                              *)
LEMMA UpdateStmtTables ==
    /\ WriteTable["UpdateStmt_"] = <<Always(1, "tblName", Str), Always(2, "new_row", List(Struct("ColVal_"))), Always(3, "cond", Struct("CompoundCondition_"))>>
    /\ New("UpdateStmt_") = Obj("UpdateStmt_", [tblName |-> NULL, new_row |-> <<>>, cond |-> New("CompoundCondition_")], {})
<1>1. WriteTable["UpdateStmt_"] = update_stmt__write
  BY DEF WriteTable
<1>2. InstanceInit["UpdateStmt_"] = update_stmt__instance_init
  BY DEF InstanceInit
<1> QED
  BY <1>1, <1>2 DEF update_stmt__write, update_stmt__instance_init, New, InstanceInit, Object, Obj

(* The reader of UpdateStmt knows its fields.                               *)
LEMMA UpdateStmtKnows ==
    ASSUME NEW has, NEW isset
    PROVE  /\ Knows(Obj("UpdateStmt_", has, isset), 1, "tblName", Str)
           /\ Knows(Obj("UpdateStmt_", has, isset), 2, "new_row", List(Struct("ColVal_")))
           /\ Knows(Obj("UpdateStmt_", has, isset), 3, "cond", Struct("CompoundCondition_"))
<1> DEFINE c == Obj("UpdateStmt_", has, isset)
<1>1. c.type = "UpdateStmt_" /\ "UpdateStmt_" # NoObject.type
  BY DEF Obj, NoObject, Object
<1>2. ReadTable["UpdateStmt_"] = update_stmt__read
  BY DEF ReadTable
<1>3. DOMAIN update_stmt__read = 1 .. 3
  BY DEF update_stmt__read
<1>4. update_stmt__read[1] = M("tblName", Str) /\ update_stmt__read[2] = M("new_row", List(Struct("ColVal_"))) /\ update_stmt__read[3] = M("cond", Struct("CompoundCondition_"))
  BY DEF update_stmt__read
<1>5. Str.wire # "T_STOP" /\ List(Struct("ColVal_")).wire # "T_STOP" /\ Struct("CompoundCondition_").wire # "T_STOP"
  BY DEF Str, I16, I32, Struct, List
<1> HIDE DEF c
<1> QED
  BY <1>1, <1>2, <1>3, <1>4, <1>5 DEF Knows, c

(* UpdateStmt: it travels if its fields do.                                 *)
LEMMA UpdateStmtTravels ==
    ASSUME NEW a1, NEW a2, NEW a3, NEW b1, NEW b2, NEW b3, NEW isset,
           Travels(Str, a1, NULL, b1),
           Travels(List(Struct("ColVal_")), a2, <<>>, b2),
           Travels(Struct("CompoundCondition_"), a3, New("CompoundCondition_"), b3)
    PROVE  Travels(Struct("UpdateStmt_"), Obj("UpdateStmt_", [tblName |-> a1, new_row |-> a2, cond |-> a3], isset), New("UpdateStmt_"),
                   Obj("UpdateStmt_", [tblName |-> b1, new_row |-> b2, cond |-> b3], {"tblName", "new_row", "cond"}))
<1> DEFINE a == [tblName |-> a1, new_row |-> a2, cond |-> a3]
           o == Obj("UpdateStmt_", a, isset)
           h0 == [tblName |-> NULL, new_row |-> <<>>, cond |-> New("CompoundCondition_")]
           c0 == Obj("UpdateStmt_", h0, {})
           h1 == [tblName |-> b1, new_row |-> <<>>, cond |-> New("CompoundCondition_")]
           c1 == Obj("UpdateStmt_", h1, {"tblName"})
           h2 == [tblName |-> b1, new_row |-> b2, cond |-> New("CompoundCondition_")]
           c2 == Obj("UpdateStmt_", h2, {"tblName", "new_row"})
           h3 == [tblName |-> b1, new_row |-> b2, cond |-> b3]
           c3 == Obj("UpdateStmt_", h3, {"tblName", "new_row", "cond"})
           f1 == Always(1, "tblName", Str)
           f2 == Always(2, "new_row", List(Struct("ColVal_")))
           f3 == Always(3, "cond", Struct("CompoundCondition_"))
<1>1. o.type = "UpdateStmt_" /\ o.has = a
  BY DEF Obj
<1>2. "UpdateStmt_" # NoObject.type
  BY DEF NoObject, Object
<1>3. Carries(WriteField(f1, o), c0, c1)
  <2>1. Knows(c0, 1, "tblName", Str)
    BY UpdateStmtKnows
  <2>2. a["tblName"] = a1 /\ c0.has["tblName"] = NULL
    BY DEF Obj
  <2>3. With(c0, "tblName", b1) = c1
    <3>1. [h0 EXCEPT !["tblName"] = b1] = h1
      OBVIOUS
    <3>2. {} \cup {"tblName"} = {"tblName"}
      OBVIOUS
    <3> HIDE DEF h0, h1
    <3> QED
      BY <3>1, <3>2, WithObj
  <2> HIDE DEF a, o, c0, c1
  <2> QED
    BY <1>1, <2>1, <2>2, <2>3, AlwaysCarries
<1>4. Carries(WriteField(f2, o), c1, c2)
  <2>1. Knows(c1, 2, "new_row", List(Struct("ColVal_")))
    BY UpdateStmtKnows
  <2>2. a["new_row"] = a2 /\ c1.has["new_row"] = <<>>
    BY DEF Obj
  <2>3. With(c1, "new_row", b2) = c2
    <3>1. [h1 EXCEPT !["new_row"] = b2] = h2
      OBVIOUS
    <3>2. {"tblName"} \cup {"new_row"} = {"tblName", "new_row"}
      OBVIOUS
    <3> HIDE DEF h1, h2
    <3> QED
      BY <3>1, <3>2, WithObj
  <2> HIDE DEF a, o, c1, c2
  <2> QED
    BY <1>1, <2>1, <2>2, <2>3, AlwaysCarries
<1>5. Carries(WriteField(f3, o), c2, c3)
  <2>1. Knows(c2, 3, "cond", Struct("CompoundCondition_"))
    BY UpdateStmtKnows
  <2>2. a["cond"] = a3 /\ c2.has["cond"] = New("CompoundCondition_")
    BY DEF Obj
  <2>3. With(c2, "cond", b3) = c3
    <3>1. [h2 EXCEPT !["cond"] = b3] = h3
      OBVIOUS
    <3>2. {"tblName", "new_row"} \cup {"cond"} = {"tblName", "new_row", "cond"}
      OBVIOUS
    <3> HIDE DEF h2, h3
    <3> QED
      BY <3>1, <3>2, WithObj
  <2> HIDE DEF a, o, c2, c3
  <2> QED
    BY <1>1, <2>1, <2>2, <2>3, AlwaysCarries
<1>6. WriteTable["UpdateStmt_"] = <<f1, f2, f3>> /\ c0 = New("UpdateStmt_")
  BY UpdateStmtTables
<1> HIDE DEF o, c0, c1, c2, c3, f1, f2, f3
<1>7. Travels(Struct("UpdateStmt_"), o, c0, c3)
  BY <1>1, <1>2, <1>3, <1>4, <1>5, <1>6, Struct3
<1> QED
  BY <1>6, <1>7 DEF o, c3

(* The writer of Statement, and a new object.                               *)
LEMMA StatementTables ==
    /\ WriteTable["Statement_"] = <<Always(1, "st_type", I32), Always(2, "stmt", Struct("Stmt_"))>>
    /\ New("Statement_") = Obj("Statement_", [st_type |-> 0, stmt |-> New("Stmt_")], {})
<1>1. WriteTable["Statement_"] = statement__write
  BY DEF WriteTable
<1>2. InstanceInit["Statement_"] = statement__instance_init
  BY DEF InstanceInit
<1> QED
  BY <1>1, <1>2 DEF statement__write, statement__instance_init, New, InstanceInit, Object, Obj

(* The reader of Statement knows its fields.                                *)
LEMMA StatementKnows ==
    ASSUME NEW has, NEW isset
    PROVE  /\ Knows(Obj("Statement_", has, isset), 1, "st_type", I32)
           /\ Knows(Obj("Statement_", has, isset), 2, "stmt", Struct("Stmt_"))
<1> DEFINE c == Obj("Statement_", has, isset)
<1>1. c.type = "Statement_" /\ "Statement_" # NoObject.type
  BY DEF Obj, NoObject, Object
<1>2. ReadTable["Statement_"] = statement__read
  BY DEF ReadTable
<1>3. DOMAIN statement__read = 1 .. 2
  BY DEF statement__read
<1>4. statement__read[1] = M("st_type", I32) /\ statement__read[2] = M("stmt", Struct("Stmt_"))
  BY DEF statement__read
<1>5. I32.wire # "T_STOP" /\ Struct("Stmt_").wire # "T_STOP"
  BY DEF Str, I16, I32, Struct, List
<1> HIDE DEF c
<1> QED
  BY <1>1, <1>2, <1>3, <1>4, <1>5 DEF Knows, c

(* Statement: it travels if its fields do.                                  *)
LEMMA StatementTravels ==
    ASSUME NEW a1, NEW a2, NEW b1, NEW b2, NEW isset,
           Travels(I32, a1, 0, b1),
           Travels(Struct("Stmt_"), a2, New("Stmt_"), b2)
    PROVE  Travels(Struct("Statement_"), Obj("Statement_", [st_type |-> a1, stmt |-> a2], isset), New("Statement_"),
                   Obj("Statement_", [st_type |-> b1, stmt |-> b2], {"st_type", "stmt"}))
<1> DEFINE a == [st_type |-> a1, stmt |-> a2]
           o == Obj("Statement_", a, isset)
           h0 == [st_type |-> 0, stmt |-> New("Stmt_")]
           c0 == Obj("Statement_", h0, {})
           h1 == [st_type |-> b1, stmt |-> New("Stmt_")]
           c1 == Obj("Statement_", h1, {"st_type"})
           h2 == [st_type |-> b1, stmt |-> b2]
           c2 == Obj("Statement_", h2, {"st_type", "stmt"})
           f1 == Always(1, "st_type", I32)
           f2 == Always(2, "stmt", Struct("Stmt_"))
<1>1. o.type = "Statement_" /\ o.has = a
  BY DEF Obj
<1>2. "Statement_" # NoObject.type
  BY DEF NoObject, Object
<1>3. Carries(WriteField(f1, o), c0, c1)
  <2>1. Knows(c0, 1, "st_type", I32)
    BY StatementKnows
  <2>2. a["st_type"] = a1 /\ c0.has["st_type"] = 0
    BY DEF Obj
  <2>3. With(c0, "st_type", b1) = c1
    <3>1. [h0 EXCEPT !["st_type"] = b1] = h1
      OBVIOUS
    <3>2. {} \cup {"st_type"} = {"st_type"}
      OBVIOUS
    <3> HIDE DEF h0, h1
    <3> QED
      BY <3>1, <3>2, WithObj
  <2> HIDE DEF a, o, c0, c1
  <2> QED
    BY <1>1, <2>1, <2>2, <2>3, AlwaysCarries
<1>4. Carries(WriteField(f2, o), c1, c2)
  <2>1. Knows(c1, 2, "stmt", Struct("Stmt_"))
    BY StatementKnows
  <2>2. a["stmt"] = a2 /\ c1.has["stmt"] = New("Stmt_")
    BY DEF Obj
  <2>3. With(c1, "stmt", b2) = c2
    <3>1. [h1 EXCEPT !["stmt"] = b2] = h2
      OBVIOUS
    <3>2. {"st_type"} \cup {"stmt"} = {"st_type", "stmt"}
      OBVIOUS
    <3> HIDE DEF h1, h2
    <3> QED
      BY <3>1, <3>2, WithObj
  <2> HIDE DEF a, o, c1, c2
  <2> QED
    BY <1>1, <2>1, <2>2, <2>3, AlwaysCarries
<1>5. WriteTable["Statement_"] = <<f1, f2>> /\ c0 = New("Statement_")
  BY StatementTables
<1> HIDE DEF o, c0, c1, c2, f1, f2
<1>6. Travels(Struct("Statement_"), o, c0, c2)
  BY <1>1, <1>2, <1>3, <1>4, <1>5, Struct2
<1> QED
  BY <1>5, <1>6 DEF o, c2

(* The writer of ServerResponse, and a new object.                          *)
LEMMA ServerResponseTables ==
    /\ WriteTable["ServerResponse"] = <<Always(1, "info", Str), Always(2, "rows", List(List(Struct("ColVal_")))), Always(3, "status", I32)>>
    /\ New("ServerResponse") = Obj("ServerResponse", [info |-> NULL, rows |-> <<>>, status |-> 0], {})
<1>1. WriteTable["ServerResponse"] = server_response_write
  BY DEF WriteTable
<1>2. InstanceInit["ServerResponse"] = server_response_instance_init
  BY DEF InstanceInit
<1> QED
  BY <1>1, <1>2 DEF server_response_write, server_response_instance_init, New, InstanceInit, Object, Obj

(* The reader of ServerResponse knows its fields.                           *)
LEMMA ServerResponseKnows ==
    ASSUME NEW has, NEW isset
    PROVE  /\ Knows(Obj("ServerResponse", has, isset), 1, "info", Str)
           /\ Knows(Obj("ServerResponse", has, isset), 2, "rows", List(List(Struct("ColVal_"))))
           /\ Knows(Obj("ServerResponse", has, isset), 3, "status", I32)
<1> DEFINE c == Obj("ServerResponse", has, isset)
<1>1. c.type = "ServerResponse" /\ "ServerResponse" # NoObject.type
  BY DEF Obj, NoObject, Object
<1>2. ReadTable["ServerResponse"] = server_response_read
  BY DEF ReadTable
<1>3. DOMAIN server_response_read = 1 .. 3
  BY DEF server_response_read
<1>4. server_response_read[1] = M("info", Str) /\ server_response_read[2] = M("rows", List(List(Struct("ColVal_")))) /\ server_response_read[3] = M("status", I32)
  BY DEF server_response_read
<1>5. Str.wire # "T_STOP" /\ List(List(Struct("ColVal_"))).wire # "T_STOP" /\ I32.wire # "T_STOP"
  BY DEF Str, I16, I32, Struct, List
<1> HIDE DEF c
<1> QED
  BY <1>1, <1>2, <1>3, <1>4, <1>5 DEF Knows, c

(* ServerResponse: it travels if its fields do.                             *)
LEMMA ServerResponseTravels ==
    ASSUME NEW a1, NEW a2, NEW a3, NEW b1, NEW b2, NEW b3, NEW isset,
           Travels(Str, a1, NULL, b1),
           Travels(List(List(Struct("ColVal_"))), a2, <<>>, b2),
           Travels(I32, a3, 0, b3)
    PROVE  Travels(Struct("ServerResponse"), Obj("ServerResponse", [info |-> a1, rows |-> a2, status |-> a3], isset), New("ServerResponse"),
                   Obj("ServerResponse", [info |-> b1, rows |-> b2, status |-> b3], {"info", "rows", "status"}))
<1> DEFINE a == [info |-> a1, rows |-> a2, status |-> a3]
           o == Obj("ServerResponse", a, isset)
           h0 == [info |-> NULL, rows |-> <<>>, status |-> 0]
           c0 == Obj("ServerResponse", h0, {})
           h1 == [info |-> b1, rows |-> <<>>, status |-> 0]
           c1 == Obj("ServerResponse", h1, {"info"})
           h2 == [info |-> b1, rows |-> b2, status |-> 0]
           c2 == Obj("ServerResponse", h2, {"info", "rows"})
           h3 == [info |-> b1, rows |-> b2, status |-> b3]
           c3 == Obj("ServerResponse", h3, {"info", "rows", "status"})
           f1 == Always(1, "info", Str)
           f2 == Always(2, "rows", List(List(Struct("ColVal_"))))
           f3 == Always(3, "status", I32)
<1>1. o.type = "ServerResponse" /\ o.has = a
  BY DEF Obj
<1>2. "ServerResponse" # NoObject.type
  BY DEF NoObject, Object
<1>3. Carries(WriteField(f1, o), c0, c1)
  <2>1. Knows(c0, 1, "info", Str)
    BY ServerResponseKnows
  <2>2. a["info"] = a1 /\ c0.has["info"] = NULL
    BY DEF Obj
  <2>3. With(c0, "info", b1) = c1
    <3>1. [h0 EXCEPT !["info"] = b1] = h1
      OBVIOUS
    <3>2. {} \cup {"info"} = {"info"}
      OBVIOUS
    <3> HIDE DEF h0, h1
    <3> QED
      BY <3>1, <3>2, WithObj
  <2> HIDE DEF a, o, c0, c1
  <2> QED
    BY <1>1, <2>1, <2>2, <2>3, AlwaysCarries
<1>4. Carries(WriteField(f2, o), c1, c2)
  <2>1. Knows(c1, 2, "rows", List(List(Struct("ColVal_"))))
    BY ServerResponseKnows
  <2>2. a["rows"] = a2 /\ c1.has["rows"] = <<>>
    BY DEF Obj
  <2>3. With(c1, "rows", b2) = c2
    <3>1. [h1 EXCEPT !["rows"] = b2] = h2
      OBVIOUS
    <3>2. {"info"} \cup {"rows"} = {"info", "rows"}
      OBVIOUS
    <3> HIDE DEF h1, h2
    <3> QED
      BY <3>1, <3>2, WithObj
  <2> HIDE DEF a, o, c1, c2
  <2> QED
    BY <1>1, <2>1, <2>2, <2>3, AlwaysCarries
<1>5. Carries(WriteField(f3, o), c2, c3)
  <2>1. Knows(c2, 3, "status", I32)
    BY ServerResponseKnows
  <2>2. a["status"] = a3 /\ c2.has["status"] = 0
    BY DEF Obj
  <2>3. With(c2, "status", b3) = c3
    <3>1. [h2 EXCEPT !["status"] = b3] = h3
      OBVIOUS
    <3>2. {"info", "rows"} \cup {"status"} = {"info", "rows", "status"}
      OBVIOUS
    <3> HIDE DEF h2, h3
    <3> QED
      BY <3>1, <3>2, WithObj
  <2> HIDE DEF a, o, c2, c3
  <2> QED
    BY <1>1, <2>1, <2>2, <2>3, AlwaysCarries
<1>6. WriteTable["ServerResponse"] = <<f1, f2, f3>> /\ c0 = New("ServerResponse")
  BY ServerResponseTables
<1> HIDE DEF o, c0, c1, c2, c3, f1, f2, f3
<1>7. Travels(Struct("ServerResponse"), o, c0, c3)
  BY <1>1, <1>2, <1>3, <1>4, <1>5, <1>6, Struct3
<1> QED
  BY <1>6, <1>7 DEF o, c3

----------------------------------------------------------------------------
(* The unions and the structs with optional fields.                         *)

(* A union with one member set, the one its field j writes, travels if that *)
(* member does, and the other end has that member set alone.                *)
LEMMA OneSetTravels ==
    ASSUME NEW n, NEW o, o.type # NoObject.type, NEW fields, WriteTable[o.type] = fields,
           IsSeq(fields), NEW j \in 1 .. Len(fields), NEW c, NEW v,
           \A i \in 1 .. Len(fields) : fields[i].ifset,
           \A i \in 1 .. Len(fields) : fields[i].name \in o.isset <=> i = j,
           Knows(c, fields[j].fid, fields[j].name, fields[j].type),
           Travels(fields[j].type, o.has[fields[j].name], c.has[fields[j].name], v)
    PROVE  Travels(Struct(n), o, c, With(c, fields[j].name, v))
<1> DEFINE d == With(c, fields[j].name, v)
           cs == [i \in 1 .. Len(fields) + 1 |-> IF i <= j THEN c ELSE d]
<1>1. Len(fields) \in Nat
  BY SeqLen
<1> HIDE DEF d
<1>2. cs[1] = c /\ cs[Len(fields) + 1] = d
  BY <1>1
<1>3. ASSUME NEW i \in 1 .. Len(fields)
      PROVE  Carries(WriteField(fields[i], o), cs[i], cs[i + 1])
  <2> DEFINE f == fields[i]
  <2>1. CASE i < j
    <3>1. cs[i] = c /\ cs[i + 1] = c
      BY <1>1, <2>1
    <3>2. f.ifset /\ f.name \notin o.isset
      BY <2>1
    <3> HIDE DEF f, cs
    <3>3. Carries(WriteField(f, o), c, c)
      BY <3>2, FieldUnset
    <3> QED
      BY <3>1, <3>3 DEF f
  <2>2. CASE i > j
    <3>1. cs[i] = d /\ cs[i + 1] = d
      BY <1>1, <2>2
    <3>2. f.ifset /\ f.name \notin o.isset
      BY <2>2
    <3> HIDE DEF f, cs
    <3>3. Carries(WriteField(f, o), d, d)
      BY <3>2, FieldUnset
    <3> QED
      BY <3>1, <3>3 DEF f
  <2>3. CASE i = j
    <3>1. cs[i] = c /\ cs[i + 1] = d
      BY <1>1, <2>3
    <3>2. /\ f.ifset => f.name \in o.isset
          /\ Knows(c, f.fid, f.name, f.type)
          /\ Travels(f.type, o.has[f.name], c.has[f.name], v)
      BY <2>3
    <3>0. d = With(c, f.name, v)
      BY <2>3 DEF d
    <3> HIDE DEF f, cs
    <3>3. Carries(WriteField(f, o), c, With(c, f.name, v))
      BY <3>2, FieldCarries
    <3> QED
      BY <3>0, <3>1, <3>3 DEF f
  <2> QED
    BY <1>1, <2>1, <2>2, <2>3
<1> HIDE DEF cs
<1>4. Len(fields) # 0
  BY <1>1
<1>5. Travels(Struct(n), o, cs[1], cs[Len(fields) + 1])
  BY <1>3, <1>4, StructOf
<1> QED
  BY <1>2, <1>5 DEF d

(* The writer of Cell, and a new object.                                    *)
LEMMA CellTables ==
    /\ WriteTable["Cell_"] = <<IfSet(1, "integer", I64), IfSet(2, "dbl", Double), IfSet(3, "bl", Bool), IfSet(4, "str", Str)>>
    /\ New("Cell_") = Obj("Cell_", [integer |-> 0, dbl |-> 0, bl |-> FALSE, str |-> NULL], {})
<1>1. WriteTable["Cell_"] = cell__write
  BY DEF WriteTable
<1>2. InstanceInit["Cell_"] = cell__instance_init
  BY DEF InstanceInit
<1> QED
  BY <1>1, <1>2 DEF cell__write, cell__instance_init, New, InstanceInit, Object, Obj

(* The reader of Cell knows its fields.                                     *)
LEMMA CellKnows ==
    ASSUME NEW has, NEW isset
    PROVE  /\ Knows(Obj("Cell_", has, isset), 1, "integer", I64)
           /\ Knows(Obj("Cell_", has, isset), 2, "dbl", Double)
           /\ Knows(Obj("Cell_", has, isset), 3, "bl", Bool)
           /\ Knows(Obj("Cell_", has, isset), 4, "str", Str)
<1> DEFINE c == Obj("Cell_", has, isset)
<1>1. c.type = "Cell_" /\ "Cell_" # NoObject.type
  BY DEF Obj, NoObject, Object
<1>2. ReadTable["Cell_"] = cell__read
  BY DEF ReadTable
<1>3. DOMAIN cell__read = 1 .. 4
  BY DEF cell__read
<1>4. cell__read[1] = M("integer", I64) /\ cell__read[2] = M("dbl", Double) /\ cell__read[3] = M("bl", Bool) /\ cell__read[4] = M("str", Str)
  BY DEF cell__read
<1>5. I64.wire # "T_STOP" /\ Double.wire # "T_STOP" /\ Bool.wire # "T_STOP" /\ Str.wire # "T_STOP"
  BY DEF Str, I16, I32, I64, Double, Bool, Struct, List
<1> HIDE DEF c
<1> QED
  BY <1>1, <1>2, <1>3, <1>4, <1>5 DEF Knows, c

(* The writer of Stmt, and a new object.                                    *)
LEMMA StmtTables ==
    /\ WriteTable["Stmt_"] = <<IfSet(1, "create_tbl", Struct("CreateStmt_")), IfSet(2, "drop_tbl", Struct("DropStmt_")), IfSet(3, "insert", Struct("InsertStmt_")), IfSet(4, "select", Struct("SelectStmt_")), IfSet(5, "update", Struct("UpdateStmt_")), IfSet(6, "dl", Struct("DeleteStmt_"))>>
    /\ New("Stmt_") = Obj("Stmt_", [create_tbl |-> New("CreateStmt_"), drop_tbl |-> New("DropStmt_"), insert |-> New("InsertStmt_"), select |-> New("SelectStmt_"), update |-> New("UpdateStmt_"), dl |-> New("DeleteStmt_")], {})
<1>1. WriteTable["Stmt_"] = stmt__write
  BY DEF WriteTable
<1>2. InstanceInit["Stmt_"] = stmt__instance_init
  BY DEF InstanceInit
<1> QED
  BY <1>1, <1>2 DEF stmt__write, stmt__instance_init, New, InstanceInit, Object, Obj

(* The reader of Stmt knows its fields.                                     *)
LEMMA StmtKnows ==
    ASSUME NEW has, NEW isset
    PROVE  /\ Knows(Obj("Stmt_", has, isset), 1, "create_tbl", Struct("CreateStmt_"))
           /\ Knows(Obj("Stmt_", has, isset), 2, "drop_tbl", Struct("DropStmt_"))
           /\ Knows(Obj("Stmt_", has, isset), 3, "insert", Struct("InsertStmt_"))
           /\ Knows(Obj("Stmt_", has, isset), 4, "select", Struct("SelectStmt_"))
           /\ Knows(Obj("Stmt_", has, isset), 5, "update", Struct("UpdateStmt_"))
           /\ Knows(Obj("Stmt_", has, isset), 6, "dl", Struct("DeleteStmt_"))
<1> DEFINE c == Obj("Stmt_", has, isset)
<1>1. c.type = "Stmt_" /\ "Stmt_" # NoObject.type
  BY DEF Obj, NoObject, Object
<1>2. ReadTable["Stmt_"] = stmt__read
  BY DEF ReadTable
<1>3. DOMAIN stmt__read = 1 .. 6
  BY DEF stmt__read
<1>4. stmt__read[1] = M("create_tbl", Struct("CreateStmt_")) /\ stmt__read[2] = M("drop_tbl", Struct("DropStmt_")) /\ stmt__read[3] = M("insert", Struct("InsertStmt_")) /\ stmt__read[4] = M("select", Struct("SelectStmt_")) /\ stmt__read[5] = M("update", Struct("UpdateStmt_")) /\ stmt__read[6] = M("dl", Struct("DeleteStmt_"))
  BY DEF stmt__read
<1>5. Struct("CreateStmt_").wire # "T_STOP" /\ Struct("DropStmt_").wire # "T_STOP" /\ Struct("InsertStmt_").wire # "T_STOP" /\ Struct("SelectStmt_").wire # "T_STOP" /\ Struct("UpdateStmt_").wire # "T_STOP" /\ Struct("DeleteStmt_").wire # "T_STOP"
  BY DEF Str, I16, I32, I64, Double, Bool, Struct, List
<1> HIDE DEF c
<1> QED
  BY <1>1, <1>2, <1>3, <1>4, <1>5 DEF Knows, c

(* A Cell_ travels if the member that is set does, whichever it is.         *)
LEMMA CellOneSet ==
    ASSUME NEW has, NEW v
    PROVE  /\ Travels(I64, has["integer"], 0, v) =>
                Travels(Struct("Cell_"), Obj("Cell_", has, {"integer"}), New("Cell_"),
                        With(New("Cell_"), "integer", v))
           /\ Travels(Double, has["dbl"], 0, v) =>
                Travels(Struct("Cell_"), Obj("Cell_", has, {"dbl"}), New("Cell_"),
                        With(New("Cell_"), "dbl", v))
           /\ Travels(Bool, has["bl"], FALSE, v) =>
                Travels(Struct("Cell_"), Obj("Cell_", has, {"bl"}), New("Cell_"),
                        With(New("Cell_"), "bl", v))
           /\ Travels(Str, has["str"], NULL, v) =>
                Travels(Struct("Cell_"), Obj("Cell_", has, {"str"}), New("Cell_"),
                        With(New("Cell_"), "str", v))
<1> DEFINE fields == <<IfSet(1, "integer", I64), IfSet(2, "dbl", Double), IfSet(3, "bl", Bool), IfSet(4, "str", Str)>>
           names == <<"integer", "dbl", "bl", "str">>
           c == New("Cell_")
<1>1. WriteTable["Cell_"] = fields /\ c = Obj("Cell_", [integer |-> 0, dbl |-> 0, bl |-> FALSE, str |-> NULL], {})
  BY CellTables
<1>2. DOMAIN fields = 1 .. 4 /\ fields = [i \in DOMAIN fields |-> fields[i]]
  BY DEF IfSet
<1>3. /\ fields[1].fid = 1 /\ fields[1].name = "integer" /\ fields[1].type = I64
      /\ fields[2].fid = 2 /\ fields[2].name = "dbl" /\ fields[2].type = Double
      /\ fields[3].fid = 3 /\ fields[3].name = "bl" /\ fields[3].type = Bool
      /\ fields[4].fid = 4 /\ fields[4].name = "str" /\ fields[4].type = Str
      /\ \A i \in 1 .. 4 : fields[i].ifset /\ fields[i].name = names[i]
  BY DEF IfSet
<1>4. c.has["integer"] = 0 /\ c.has["dbl"] = 0 /\ c.has["bl"] = FALSE /\ c.has["str"] = NULL
  BY <1>1 DEF Obj
<1>5. /\ Knows(c, 1, "integer", I64)
      /\ Knows(c, 2, "dbl", Double)
      /\ Knows(c, 3, "bl", Bool)
      /\ Knows(c, 4, "str", Str)
  BY <1>1, CellKnows
<1>6. names[1] = "integer" /\ names[2] = "dbl" /\ names[3] = "bl" /\ names[4] = "str"
  OBVIOUS
<1> HIDE DEF fields, names, c
<1>7. IsSeq(fields) /\ Len(fields) = 4
  BY <1>2, SeqMade
<1>8. ASSUME NEW j \in 1 .. 4,
             Travels(fields[j].type, has[names[j]], c.has[names[j]], v),
             Knows(c, fields[j].fid, names[j], fields[j].type)
      PROVE  Travels(Struct("Cell_"), Obj("Cell_", has, {names[j]}), c, With(c, names[j], v))
  <2> DEFINE o == Obj("Cell_", has, {names[j]})
  <2>1. o.type = "Cell_" /\ o.has = has /\ o.isset = {names[j]}
    BY DEF Obj
  <2>2. "Cell_" # NoObject.type
    BY DEF NoObject, Object
  <2> HIDE DEF o
  <2>3. ASSUME NEW i \in 1 .. 4, names[i] = names[j] PROVE i = j
    BY <1>6, <2>3
  <2>4. \A i \in 1 .. 4 : fields[i].name \in o.isset <=> i = j
    BY <1>3, <2>1, <2>3
  <2>5. WriteTable[o.type] = fields /\ fields[j].name = names[j] /\ \A i \in 1 .. 4 : fields[i].ifset
    BY <1>1, <1>3, <2>1
  <2>6. /\ j \in 1 .. Len(fields)
        /\ \A i \in 1 .. Len(fields) : fields[i].ifset
        /\ \A i \in 1 .. Len(fields) : fields[i].name \in o.isset <=> i = j
    BY <1>7, <2>4, <2>5
  <2>7. Knows(c, fields[j].fid, fields[j].name, fields[j].type)
    BY ONLY <1>8, <2>5
  <2>8. Travels(fields[j].type, o.has[fields[j].name], c.has[fields[j].name], v)
    BY ONLY <1>8, <2>1, <2>5
  <2>9. o.type # NoObject.type
    BY ONLY <2>1, <2>2
  <2>10. Travels(Struct("Cell_"), o, c, With(c, fields[j].name, v))
    BY ONLY <1>7, <2>5, <2>6, <2>7, <2>8, <2>9, OneSetTravels, Zenon
  <2> QED
    BY <2>5, <2>10 DEF o
<1>9. Travels(I64, has["integer"], 0, v) =>
        Travels(Struct("Cell_"), Obj("Cell_", has, {"integer"}), c, With(c, "integer", v))
  <2>1. 1 \in 1 .. 4
    OBVIOUS
  <2> QED
    BY <1>3, <1>4, <1>5, <1>6, <1>8, <2>1
<1>10. Travels(Double, has["dbl"], 0, v) =>
        Travels(Struct("Cell_"), Obj("Cell_", has, {"dbl"}), c, With(c, "dbl", v))
  <2>1. 2 \in 1 .. 4
    OBVIOUS
  <2> QED
    BY <1>3, <1>4, <1>5, <1>6, <1>8, <2>1
<1>11. Travels(Bool, has["bl"], FALSE, v) =>
        Travels(Struct("Cell_"), Obj("Cell_", has, {"bl"}), c, With(c, "bl", v))
  <2>1. 3 \in 1 .. 4
    OBVIOUS
  <2> QED
    BY <1>3, <1>4, <1>5, <1>6, <1>8, <2>1
<1>12. Travels(Str, has["str"], NULL, v) =>
        Travels(Struct("Cell_"), Obj("Cell_", has, {"str"}), c, With(c, "str", v))
  <2>1. 4 \in 1 .. 4
    OBVIOUS
  <2> QED
    BY <1>3, <1>4, <1>5, <1>6, <1>8, <2>1
<1> QED
  BY <1>9, <1>10, <1>11, <1>12 DEF c

(* A Stmt_ travels if the statement that is set does, whichever it is.      *)
LEMMA StmtOneSet ==
    ASSUME NEW has, NEW v
    PROVE  /\ Travels(Struct("CreateStmt_"), has["create_tbl"], New("CreateStmt_"), v) =>
                Travels(Struct("Stmt_"), Obj("Stmt_", has, {"create_tbl"}), New("Stmt_"),
                        With(New("Stmt_"), "create_tbl", v))
           /\ Travels(Struct("DropStmt_"), has["drop_tbl"], New("DropStmt_"), v) =>
                Travels(Struct("Stmt_"), Obj("Stmt_", has, {"drop_tbl"}), New("Stmt_"),
                        With(New("Stmt_"), "drop_tbl", v))
           /\ Travels(Struct("InsertStmt_"), has["insert"], New("InsertStmt_"), v) =>
                Travels(Struct("Stmt_"), Obj("Stmt_", has, {"insert"}), New("Stmt_"),
                        With(New("Stmt_"), "insert", v))
           /\ Travels(Struct("SelectStmt_"), has["select"], New("SelectStmt_"), v) =>
                Travels(Struct("Stmt_"), Obj("Stmt_", has, {"select"}), New("Stmt_"),
                        With(New("Stmt_"), "select", v))
           /\ Travels(Struct("UpdateStmt_"), has["update"], New("UpdateStmt_"), v) =>
                Travels(Struct("Stmt_"), Obj("Stmt_", has, {"update"}), New("Stmt_"),
                        With(New("Stmt_"), "update", v))
           /\ Travels(Struct("DeleteStmt_"), has["dl"], New("DeleteStmt_"), v) =>
                Travels(Struct("Stmt_"), Obj("Stmt_", has, {"dl"}), New("Stmt_"),
                        With(New("Stmt_"), "dl", v))
<1> DEFINE fields == <<IfSet(1, "create_tbl", Struct("CreateStmt_")), IfSet(2, "drop_tbl", Struct("DropStmt_")), IfSet(3, "insert", Struct("InsertStmt_")), IfSet(4, "select", Struct("SelectStmt_")), IfSet(5, "update", Struct("UpdateStmt_")), IfSet(6, "dl", Struct("DeleteStmt_"))>>
           names == <<"create_tbl", "drop_tbl", "insert", "select", "update", "dl">>
           c == New("Stmt_")
<1>1. WriteTable["Stmt_"] = fields /\ c = Obj("Stmt_", [create_tbl |-> New("CreateStmt_"), drop_tbl |-> New("DropStmt_"), insert |-> New("InsertStmt_"), select |-> New("SelectStmt_"), update |-> New("UpdateStmt_"), dl |-> New("DeleteStmt_")], {})
  BY StmtTables
<1>2. DOMAIN fields = 1 .. 6 /\ fields = [i \in DOMAIN fields |-> fields[i]]
  BY DEF IfSet
<1>3. /\ fields[1].fid = 1 /\ fields[1].name = "create_tbl" /\ fields[1].type = Struct("CreateStmt_")
      /\ fields[2].fid = 2 /\ fields[2].name = "drop_tbl" /\ fields[2].type = Struct("DropStmt_")
      /\ fields[3].fid = 3 /\ fields[3].name = "insert" /\ fields[3].type = Struct("InsertStmt_")
      /\ fields[4].fid = 4 /\ fields[4].name = "select" /\ fields[4].type = Struct("SelectStmt_")
      /\ fields[5].fid = 5 /\ fields[5].name = "update" /\ fields[5].type = Struct("UpdateStmt_")
      /\ fields[6].fid = 6 /\ fields[6].name = "dl" /\ fields[6].type = Struct("DeleteStmt_")
      /\ \A i \in 1 .. 6 : fields[i].ifset /\ fields[i].name = names[i]
  BY DEF IfSet
<1>4. c.has["create_tbl"] = New("CreateStmt_") /\ c.has["drop_tbl"] = New("DropStmt_") /\ c.has["insert"] = New("InsertStmt_") /\ c.has["select"] = New("SelectStmt_") /\ c.has["update"] = New("UpdateStmt_") /\ c.has["dl"] = New("DeleteStmt_")
  BY <1>1 DEF Obj
<1>5. /\ Knows(c, 1, "create_tbl", Struct("CreateStmt_"))
      /\ Knows(c, 2, "drop_tbl", Struct("DropStmt_"))
      /\ Knows(c, 3, "insert", Struct("InsertStmt_"))
      /\ Knows(c, 4, "select", Struct("SelectStmt_"))
      /\ Knows(c, 5, "update", Struct("UpdateStmt_"))
      /\ Knows(c, 6, "dl", Struct("DeleteStmt_"))
  BY <1>1, StmtKnows
<1>6. names[1] = "create_tbl" /\ names[2] = "drop_tbl" /\ names[3] = "insert" /\ names[4] = "select" /\ names[5] = "update" /\ names[6] = "dl"
  OBVIOUS
<1> HIDE DEF fields, names, c
<1>7. IsSeq(fields) /\ Len(fields) = 6
  BY <1>2, SeqMade
<1>8. ASSUME NEW j \in 1 .. 6,
             Travels(fields[j].type, has[names[j]], c.has[names[j]], v),
             Knows(c, fields[j].fid, names[j], fields[j].type)
      PROVE  Travels(Struct("Stmt_"), Obj("Stmt_", has, {names[j]}), c, With(c, names[j], v))
  <2> DEFINE o == Obj("Stmt_", has, {names[j]})
  <2>1. o.type = "Stmt_" /\ o.has = has /\ o.isset = {names[j]}
    BY DEF Obj
  <2>2. "Stmt_" # NoObject.type
    BY DEF NoObject, Object
  <2> HIDE DEF o
  <2>3. ASSUME NEW i \in 1 .. 6, names[i] = names[j] PROVE i = j
    BY <1>6, <2>3
  <2>4. \A i \in 1 .. 6 : fields[i].name \in o.isset <=> i = j
    BY <1>3, <2>1, <2>3
  <2>5. WriteTable[o.type] = fields /\ fields[j].name = names[j] /\ \A i \in 1 .. 6 : fields[i].ifset
    BY <1>1, <1>3, <2>1
  <2>6. /\ j \in 1 .. Len(fields)
        /\ \A i \in 1 .. Len(fields) : fields[i].ifset
        /\ \A i \in 1 .. Len(fields) : fields[i].name \in o.isset <=> i = j
    BY <1>7, <2>4, <2>5
  <2>7. Knows(c, fields[j].fid, fields[j].name, fields[j].type)
    BY ONLY <1>8, <2>5
  <2>8. Travels(fields[j].type, o.has[fields[j].name], c.has[fields[j].name], v)
    BY ONLY <1>8, <2>1, <2>5
  <2>9. o.type # NoObject.type
    BY ONLY <2>1, <2>2
  <2>10. Travels(Struct("Stmt_"), o, c, With(c, fields[j].name, v))
    BY ONLY <1>7, <2>5, <2>6, <2>7, <2>8, <2>9, OneSetTravels, Zenon
  <2> QED
    BY <2>5, <2>10 DEF o
<1>9. Travels(Struct("CreateStmt_"), has["create_tbl"], New("CreateStmt_"), v) =>
        Travels(Struct("Stmt_"), Obj("Stmt_", has, {"create_tbl"}), c, With(c, "create_tbl", v))
  <2>1. 1 \in 1 .. 6
    OBVIOUS
  <2> QED
    BY <1>3, <1>4, <1>5, <1>6, <1>8, <2>1
<1>10. Travels(Struct("DropStmt_"), has["drop_tbl"], New("DropStmt_"), v) =>
        Travels(Struct("Stmt_"), Obj("Stmt_", has, {"drop_tbl"}), c, With(c, "drop_tbl", v))
  <2>1. 2 \in 1 .. 6
    OBVIOUS
  <2> QED
    BY <1>3, <1>4, <1>5, <1>6, <1>8, <2>1
<1>11. Travels(Struct("InsertStmt_"), has["insert"], New("InsertStmt_"), v) =>
        Travels(Struct("Stmt_"), Obj("Stmt_", has, {"insert"}), c, With(c, "insert", v))
  <2>1. 3 \in 1 .. 6
    OBVIOUS
  <2> QED
    BY <1>3, <1>4, <1>5, <1>6, <1>8, <2>1
<1>12. Travels(Struct("SelectStmt_"), has["select"], New("SelectStmt_"), v) =>
        Travels(Struct("Stmt_"), Obj("Stmt_", has, {"select"}), c, With(c, "select", v))
  <2>1. 4 \in 1 .. 6
    OBVIOUS
  <2> QED
    BY <1>3, <1>4, <1>5, <1>6, <1>8, <2>1
<1>13. Travels(Struct("UpdateStmt_"), has["update"], New("UpdateStmt_"), v) =>
        Travels(Struct("Stmt_"), Obj("Stmt_", has, {"update"}), c, With(c, "update", v))
  <2>1. 5 \in 1 .. 6
    OBVIOUS
  <2> QED
    BY <1>3, <1>4, <1>5, <1>6, <1>8, <2>1
<1>14. Travels(Struct("DeleteStmt_"), has["dl"], New("DeleteStmt_"), v) =>
        Travels(Struct("Stmt_"), Obj("Stmt_", has, {"dl"}), c, With(c, "dl", v))
  <2>1. 6 \in 1 .. 6
    OBVIOUS
  <2> QED
    BY <1>3, <1>4, <1>5, <1>6, <1>8, <2>1
<1> QED
  BY <1>9, <1>10, <1>11, <1>12, <1>13, <1>14 DEF c

(* The writer of CompoundCondition, and a new object.                       *)
LEMMA CompoundConditionTables ==
    /\ WriteTable["CompoundCondition_"] = <<Always(1, "left", Struct("Condition_")), Always(2, "op", I32), IfSet(3, "right", List(Struct("CompoundCondition_")))>>
    /\ New("CompoundCondition_") = Obj("CompoundCondition_", [left |-> New("Condition_"), op |-> 0, right |-> <<>>], {})
<1>1. WriteTable["CompoundCondition_"] = compound_condition__write
  BY DEF WriteTable
<1>2. InstanceInit["CompoundCondition_"] = compound_condition__instance_init
  BY DEF InstanceInit
<1> QED
  BY <1>1, <1>2 DEF compound_condition__write, compound_condition__instance_init, New, InstanceInit, Object, Obj

(* The reader of CompoundCondition knows its fields.                        *)
LEMMA CompoundConditionKnows ==
    ASSUME NEW has, NEW isset
    PROVE  /\ Knows(Obj("CompoundCondition_", has, isset), 1, "left", Struct("Condition_"))
           /\ Knows(Obj("CompoundCondition_", has, isset), 2, "op", I32)
           /\ Knows(Obj("CompoundCondition_", has, isset), 3, "right", List(Struct("CompoundCondition_")))
<1> DEFINE c == Obj("CompoundCondition_", has, isset)
<1>1. c.type = "CompoundCondition_" /\ "CompoundCondition_" # NoObject.type
  BY DEF Obj, NoObject, Object
<1>2. ReadTable["CompoundCondition_"] = compound_condition__read
  BY DEF ReadTable
<1>3. DOMAIN compound_condition__read = 1 .. 3
  BY DEF compound_condition__read
<1>4. compound_condition__read[1] = M("left", Struct("Condition_")) /\ compound_condition__read[2] = M("op", I32) /\ compound_condition__read[3] = M("right", List(Struct("CompoundCondition_")))
  BY DEF compound_condition__read
<1>5. Struct("Condition_").wire # "T_STOP" /\ I32.wire # "T_STOP" /\ List(Struct("CompoundCondition_")).wire # "T_STOP"
  BY DEF Str, I16, I32, I64, Double, Bool, Struct, List
<1> HIDE DEF c
<1> QED
  BY <1>1, <1>2, <1>3, <1>4, <1>5 DEF Knows, c

(* CompoundCondition: it travels if its fields do.                          *)
LEMMA CompoundConditionTravels ==
    ASSUME NEW a1, NEW a2, NEW a3, NEW b1, NEW b2, NEW b3, NEW isset,
           "right" \in isset,
           Travels(Struct("Condition_"), a1, New("Condition_"), b1),
           Travels(I32, a2, 0, b2),
           Travels(List(Struct("CompoundCondition_")), a3, <<>>, b3)
    PROVE  Travels(Struct("CompoundCondition_"), Obj("CompoundCondition_", [left |-> a1, op |-> a2, right |-> a3], isset), New("CompoundCondition_"),
                   Obj("CompoundCondition_", [left |-> b1, op |-> b2, right |-> b3], {"left", "op", "right"}))
<1> DEFINE a == [left |-> a1, op |-> a2, right |-> a3]
           o == Obj("CompoundCondition_", a, isset)
           h0 == [left |-> New("Condition_"), op |-> 0, right |-> <<>>]
           c0 == Obj("CompoundCondition_", h0, {})
           h1 == [left |-> b1, op |-> 0, right |-> <<>>]
           c1 == Obj("CompoundCondition_", h1, {"left"})
           h2 == [left |-> b1, op |-> b2, right |-> <<>>]
           c2 == Obj("CompoundCondition_", h2, {"left", "op"})
           h3 == [left |-> b1, op |-> b2, right |-> b3]
           c3 == Obj("CompoundCondition_", h3, {"left", "op", "right"})
           f1 == Always(1, "left", Struct("Condition_"))
           f2 == Always(2, "op", I32)
           f3 == IfSet(3, "right", List(Struct("CompoundCondition_")))
<1>1. o.type = "CompoundCondition_" /\ o.has = a /\ o.isset = isset
  BY DEF Obj
<1>2. "CompoundCondition_" # NoObject.type
  BY DEF NoObject, Object
<1>3. Carries(WriteField(f1, o), c0, c1)
  <2>1. Knows(c0, 1, "left", Struct("Condition_"))
    BY CompoundConditionKnows
  <2>2. a["left"] = a1 /\ c0.has["left"] = New("Condition_")
    BY DEF Obj
  <2>3. With(c0, "left", b1) = c1
    <3>1. [h0 EXCEPT !["left"] = b1] = h1
      OBVIOUS
    <3>2. {} \cup {"left"} = {"left"}
      OBVIOUS
    <3> HIDE DEF h0, h1
    <3> QED
      BY <3>1, <3>2, WithObj
  <2> HIDE DEF a, o, c0, c1
  <2> QED
    BY <1>1, <2>1, <2>2, <2>3, AlwaysCarries
<1>4. Carries(WriteField(f2, o), c1, c2)
  <2>1. Knows(c1, 2, "op", I32)
    BY CompoundConditionKnows
  <2>2. a["op"] = a2 /\ c1.has["op"] = 0
    BY DEF Obj
  <2>3. With(c1, "op", b2) = c2
    <3>1. [h1 EXCEPT !["op"] = b2] = h2
      OBVIOUS
    <3>2. {"left"} \cup {"op"} = {"left", "op"}
      OBVIOUS
    <3> HIDE DEF h1, h2
    <3> QED
      BY <3>1, <3>2, WithObj
  <2> HIDE DEF a, o, c1, c2
  <2> QED
    BY <1>1, <2>1, <2>2, <2>3, AlwaysCarries
<1>5. Carries(WriteField(f3, o), c2, c3)
  <2>1. Knows(c2, 3, "right", List(Struct("CompoundCondition_")))
    BY CompoundConditionKnows
  <2>2. a["right"] = a3 /\ c2.has["right"] = <<>>
    BY DEF Obj
  <2>3. With(c2, "right", b3) = c3
    <3>1. [h2 EXCEPT !["right"] = b3] = h3
      OBVIOUS
    <3>2. {"left", "op"} \cup {"right"} = {"left", "op", "right"}
      OBVIOUS
    <3> HIDE DEF h2, h3
    <3> QED
      BY <3>1, <3>2, WithObj
  <2> HIDE DEF a, o, c2, c3
  <2> QED
    BY <1>1, <2>1, <2>2, <2>3, IfSetCarries
<1>6. WriteTable["CompoundCondition_"] = <<f1, f2, f3>> /\ c0 = New("CompoundCondition_")
  BY CompoundConditionTables
<1> HIDE DEF o, c0, c1, c2, c3, f1, f2, f3
<1>7. Travels(Struct("CompoundCondition_"), o, c0, c3)
  BY <1>1, <1>2, <1>3, <1>4, <1>5, <1>6, Struct3
<1> QED
  BY <1>6, <1>7 DEF o, c3

(* The last condition of a chain, which has nothing on its right.           *)
LEMMA LastConditionTravels ==
    ASSUME NEW a1, NEW a2, NEW a3, NEW b1, NEW b2, NEW isset,
           "right" \notin isset,
           Travels(Struct("Condition_"), a1, New("Condition_"), b1),
           Travels(I32, a2, 0, b2)
    PROVE  Travels(Struct("CompoundCondition_"), Obj("CompoundCondition_", [left |-> a1, op |-> a2, right |-> a3], isset), New("CompoundCondition_"),
                   Obj("CompoundCondition_", [left |-> b1, op |-> b2, right |-> <<>>], {"left", "op"}))
<1> DEFINE a == [left |-> a1, op |-> a2, right |-> a3]
           o == Obj("CompoundCondition_", a, isset)
           h0 == [left |-> New("Condition_"), op |-> 0, right |-> <<>>]
           c0 == Obj("CompoundCondition_", h0, {})
           h1 == [left |-> b1, op |-> 0, right |-> <<>>]
           c1 == Obj("CompoundCondition_", h1, {"left"})
           h2 == [left |-> b1, op |-> b2, right |-> <<>>]
           c2 == Obj("CompoundCondition_", h2, {"left", "op"})
           h3 == [left |-> b1, op |-> b2, right |-> <<>>]
           c3 == Obj("CompoundCondition_", h3, {"left", "op"})
           f1 == Always(1, "left", Struct("Condition_"))
           f2 == Always(2, "op", I32)
           f3 == IfSet(3, "right", List(Struct("CompoundCondition_")))
<1>1. o.type = "CompoundCondition_" /\ o.has = a /\ o.isset = isset
  BY DEF Obj
<1>2. "CompoundCondition_" # NoObject.type
  BY DEF NoObject, Object
<1>3. Carries(WriteField(f1, o), c0, c1)
  <2>1. Knows(c0, 1, "left", Struct("Condition_"))
    BY CompoundConditionKnows
  <2>2. a["left"] = a1 /\ c0.has["left"] = New("Condition_")
    BY DEF Obj
  <2>3. With(c0, "left", b1) = c1
    <3>1. [h0 EXCEPT !["left"] = b1] = h1
      OBVIOUS
    <3>2. {} \cup {"left"} = {"left"}
      OBVIOUS
    <3> HIDE DEF h0, h1
    <3> QED
      BY <3>1, <3>2, WithObj
  <2> HIDE DEF a, o, c0, c1
  <2> QED
    BY <1>1, <2>1, <2>2, <2>3, AlwaysCarries
<1>4. Carries(WriteField(f2, o), c1, c2)
  <2>1. Knows(c1, 2, "op", I32)
    BY CompoundConditionKnows
  <2>2. a["op"] = a2 /\ c1.has["op"] = 0
    BY DEF Obj
  <2>3. With(c1, "op", b2) = c2
    <3>1. [h1 EXCEPT !["op"] = b2] = h2
      OBVIOUS
    <3>2. {"left"} \cup {"op"} = {"left", "op"}
      OBVIOUS
    <3> HIDE DEF h1, h2
    <3> QED
      BY <3>1, <3>2, WithObj
  <2> HIDE DEF a, o, c1, c2
  <2> QED
    BY <1>1, <2>1, <2>2, <2>3, AlwaysCarries
<1>5. Carries(WriteField(f3, o), c2, c3)
  <2>1. c2 = c3
    OBVIOUS
  <2> HIDE DEF o, c2, c3
  <2> QED
    BY <1>1, <2>1, IfSetCarriesNot
<1>6. WriteTable["CompoundCondition_"] = <<f1, f2, f3>> /\ c0 = New("CompoundCondition_")
  BY CompoundConditionTables
<1> HIDE DEF o, c0, c1, c2, c3, f1, f2, f3
<1>7. Travels(Struct("CompoundCondition_"), o, c0, c3)
  BY <1>1, <1>2, <1>3, <1>4, <1>5, <1>6, Struct3
<1> QED
  BY <1>6, <1>7 DEF o, c3

(* The writer of DeleteStmt, and a new object.                              *)
LEMMA DeleteStmtTables ==
    /\ WriteTable["DeleteStmt_"] = <<Always(1, "tblName", Str), IfSet(2, "cond", Struct("CompoundCondition_"))>>
    /\ New("DeleteStmt_") = Obj("DeleteStmt_", [tblName |-> NULL, cond |-> New("CompoundCondition_")], {})
<1>1. WriteTable["DeleteStmt_"] = delete_stmt__write
  BY DEF WriteTable
<1>2. InstanceInit["DeleteStmt_"] = delete_stmt__instance_init
  BY DEF InstanceInit
<1> QED
  BY <1>1, <1>2 DEF delete_stmt__write, delete_stmt__instance_init, New, InstanceInit, Object, Obj

(* The reader of DeleteStmt knows its fields.                               *)
LEMMA DeleteStmtKnows ==
    ASSUME NEW has, NEW isset
    PROVE  /\ Knows(Obj("DeleteStmt_", has, isset), 1, "tblName", Str)
           /\ Knows(Obj("DeleteStmt_", has, isset), 2, "cond", Struct("CompoundCondition_"))
<1> DEFINE c == Obj("DeleteStmt_", has, isset)
<1>1. c.type = "DeleteStmt_" /\ "DeleteStmt_" # NoObject.type
  BY DEF Obj, NoObject, Object
<1>2. ReadTable["DeleteStmt_"] = delete_stmt__read
  BY DEF ReadTable
<1>3. DOMAIN delete_stmt__read = 1 .. 2
  BY DEF delete_stmt__read
<1>4. delete_stmt__read[1] = M("tblName", Str) /\ delete_stmt__read[2] = M("cond", Struct("CompoundCondition_"))
  BY DEF delete_stmt__read
<1>5. Str.wire # "T_STOP" /\ Struct("CompoundCondition_").wire # "T_STOP"
  BY DEF Str, I16, I32, I64, Double, Bool, Struct, List
<1> HIDE DEF c
<1> QED
  BY <1>1, <1>2, <1>3, <1>4, <1>5 DEF Knows, c

(* DeleteStmt: it travels if its fields do.                                 *)
LEMMA DeleteStmtTravels ==
    ASSUME NEW a1, NEW a2, NEW b1, NEW b2, NEW isset,
           "cond" \in isset,
           Travels(Str, a1, NULL, b1),
           Travels(Struct("CompoundCondition_"), a2, New("CompoundCondition_"), b2)
    PROVE  Travels(Struct("DeleteStmt_"), Obj("DeleteStmt_", [tblName |-> a1, cond |-> a2], isset), New("DeleteStmt_"),
                   Obj("DeleteStmt_", [tblName |-> b1, cond |-> b2], {"tblName", "cond"}))
<1> DEFINE a == [tblName |-> a1, cond |-> a2]
           o == Obj("DeleteStmt_", a, isset)
           h0 == [tblName |-> NULL, cond |-> New("CompoundCondition_")]
           c0 == Obj("DeleteStmt_", h0, {})
           h1 == [tblName |-> b1, cond |-> New("CompoundCondition_")]
           c1 == Obj("DeleteStmt_", h1, {"tblName"})
           h2 == [tblName |-> b1, cond |-> b2]
           c2 == Obj("DeleteStmt_", h2, {"tblName", "cond"})
           f1 == Always(1, "tblName", Str)
           f2 == IfSet(2, "cond", Struct("CompoundCondition_"))
<1>1. o.type = "DeleteStmt_" /\ o.has = a /\ o.isset = isset
  BY DEF Obj
<1>2. "DeleteStmt_" # NoObject.type
  BY DEF NoObject, Object
<1>3. Carries(WriteField(f1, o), c0, c1)
  <2>1. Knows(c0, 1, "tblName", Str)
    BY DeleteStmtKnows
  <2>2. a["tblName"] = a1 /\ c0.has["tblName"] = NULL
    BY DEF Obj
  <2>3. With(c0, "tblName", b1) = c1
    <3>1. [h0 EXCEPT !["tblName"] = b1] = h1
      OBVIOUS
    <3>2. {} \cup {"tblName"} = {"tblName"}
      OBVIOUS
    <3> HIDE DEF h0, h1
    <3> QED
      BY <3>1, <3>2, WithObj
  <2> HIDE DEF a, o, c0, c1
  <2> QED
    BY <1>1, <2>1, <2>2, <2>3, AlwaysCarries
<1>4. Carries(WriteField(f2, o), c1, c2)
  <2>1. Knows(c1, 2, "cond", Struct("CompoundCondition_"))
    BY DeleteStmtKnows
  <2>2. a["cond"] = a2 /\ c1.has["cond"] = New("CompoundCondition_")
    BY DEF Obj
  <2>3. With(c1, "cond", b2) = c2
    <3>1. [h1 EXCEPT !["cond"] = b2] = h2
      OBVIOUS
    <3>2. {"tblName"} \cup {"cond"} = {"tblName", "cond"}
      OBVIOUS
    <3> HIDE DEF h1, h2
    <3> QED
      BY <3>1, <3>2, WithObj
  <2> HIDE DEF a, o, c1, c2
  <2> QED
    BY <1>1, <2>1, <2>2, <2>3, IfSetCarries
<1>5. WriteTable["DeleteStmt_"] = <<f1, f2>> /\ c0 = New("DeleteStmt_")
  BY DeleteStmtTables
<1> HIDE DEF o, c0, c1, c2, f1, f2
<1>6. Travels(Struct("DeleteStmt_"), o, c0, c2)
  BY <1>1, <1>2, <1>3, <1>4, <1>5, Struct2
<1> QED
  BY <1>5, <1>6 DEF o, c2

(* A DeleteStmt_ without a condition.                                       *)
LEMMA DeleteAllTravels ==
    ASSUME NEW a1, NEW a2, NEW b1, NEW isset,
           "cond" \notin isset,
           Travels(Str, a1, NULL, b1)
    PROVE  Travels(Struct("DeleteStmt_"), Obj("DeleteStmt_", [tblName |-> a1, cond |-> a2], isset), New("DeleteStmt_"),
                   Obj("DeleteStmt_", [tblName |-> b1, cond |-> New("CompoundCondition_")], {"tblName"}))
<1> DEFINE a == [tblName |-> a1, cond |-> a2]
           o == Obj("DeleteStmt_", a, isset)
           h0 == [tblName |-> NULL, cond |-> New("CompoundCondition_")]
           c0 == Obj("DeleteStmt_", h0, {})
           h1 == [tblName |-> b1, cond |-> New("CompoundCondition_")]
           c1 == Obj("DeleteStmt_", h1, {"tblName"})
           h2 == [tblName |-> b1, cond |-> New("CompoundCondition_")]
           c2 == Obj("DeleteStmt_", h2, {"tblName"})
           f1 == Always(1, "tblName", Str)
           f2 == IfSet(2, "cond", Struct("CompoundCondition_"))
<1>1. o.type = "DeleteStmt_" /\ o.has = a /\ o.isset = isset
  BY DEF Obj
<1>2. "DeleteStmt_" # NoObject.type
  BY DEF NoObject, Object
<1>3. Carries(WriteField(f1, o), c0, c1)
  <2>1. Knows(c0, 1, "tblName", Str)
    BY DeleteStmtKnows
  <2>2. a["tblName"] = a1 /\ c0.has["tblName"] = NULL
    BY DEF Obj
  <2>3. With(c0, "tblName", b1) = c1
    <3>1. [h0 EXCEPT !["tblName"] = b1] = h1
      OBVIOUS
    <3>2. {} \cup {"tblName"} = {"tblName"}
      OBVIOUS
    <3> HIDE DEF h0, h1
    <3> QED
      BY <3>1, <3>2, WithObj
  <2> HIDE DEF a, o, c0, c1
  <2> QED
    BY <1>1, <2>1, <2>2, <2>3, AlwaysCarries
<1>4. Carries(WriteField(f2, o), c1, c2)
  <2>1. c1 = c2
    OBVIOUS
  <2> HIDE DEF o, c1, c2
  <2> QED
    BY <1>1, <2>1, IfSetCarriesNot
<1>5. WriteTable["DeleteStmt_"] = <<f1, f2>> /\ c0 = New("DeleteStmt_")
  BY DeleteStmtTables
<1> HIDE DEF o, c0, c1, c2, f1, f2
<1>6. Travels(Struct("DeleteStmt_"), o, c0, c2)
  BY <1>1, <1>2, <1>3, <1>4, <1>5, Struct2
<1> QED
  BY <1>5, <1>6 DEF o, c2

(* The writer of the arguments of the call, and a new object.               *)
LEMMA CallArgsTables ==
    /\ WriteTable["CallArgs"] = <<Always(1, "statement", Struct("Statement_"))>>
    /\ New("ExecuteStmtArgs") = Obj("ExecuteStmtArgs", [statement |-> New("Statement_")], {})
<1>1. WriteTable["CallArgs"] = send_execute_stmt
  BY DEF WriteTable
<1>2. InstanceInit["ExecuteStmtArgs"] = execute_stmt_args_instance_init
  BY DEF InstanceInit
<1> QED
  BY <1>1, <1>2 DEF send_execute_stmt, execute_stmt_args_instance_init, New, InstanceInit, Object, Obj

(* The reader of the arguments of the call knows its fields.                *)
LEMMA CallArgsKnows ==
    ASSUME NEW has, NEW isset
    PROVE  /\ Knows(Obj("ExecuteStmtArgs", has, isset), 1, "statement", Struct("Statement_"))
<1> DEFINE c == Obj("ExecuteStmtArgs", has, isset)
<1>1. c.type = "ExecuteStmtArgs" /\ "ExecuteStmtArgs" # NoObject.type
  BY DEF Obj, NoObject, Object
<1>2. ReadTable["ExecuteStmtArgs"] = execute_stmt_args_read
  BY DEF ReadTable
<1>3. DOMAIN execute_stmt_args_read = 1 .. 1
  BY DEF execute_stmt_args_read
<1>4. execute_stmt_args_read[1] = M("statement", Struct("Statement_"))
  BY DEF execute_stmt_args_read
<1>5. Struct("Statement_").wire # "T_STOP"
  BY DEF Str, I16, I32, I64, Double, Bool, Struct, List
<1> HIDE DEF c
<1> QED
  BY <1>1, <1>2, <1>3, <1>4, <1>5 DEF Knows, c

(* CallArgs: it travels if its fields do.                                   *)
LEMMA CallArgsTravels ==
    ASSUME NEW a1, NEW b1, NEW isset,
           Travels(Struct("Statement_"), a1, New("Statement_"), b1)
    PROVE  Travels(Struct("ExecuteStmtArgs"), Obj("CallArgs", [statement |-> a1], isset), New("ExecuteStmtArgs"),
                   Obj("ExecuteStmtArgs", [statement |-> b1], {"statement"}))
<1> DEFINE a == [statement |-> a1]
           o == Obj("CallArgs", a, isset)
           h0 == [statement |-> New("Statement_")]
           c0 == Obj("ExecuteStmtArgs", h0, {})
           h1 == [statement |-> b1]
           c1 == Obj("ExecuteStmtArgs", h1, {"statement"})
           f1 == Always(1, "statement", Struct("Statement_"))
<1>1. o.type = "CallArgs" /\ o.has = a /\ o.isset = isset
  BY DEF Obj
<1>2. "CallArgs" # NoObject.type
  BY DEF NoObject, Object
<1>3. Carries(WriteField(f1, o), c0, c1)
  <2>1. Knows(c0, 1, "statement", Struct("Statement_"))
    BY CallArgsKnows
  <2>2. a["statement"] = a1 /\ c0.has["statement"] = New("Statement_")
    BY DEF Obj
  <2>3. With(c0, "statement", b1) = c1
    <3>1. [h0 EXCEPT !["statement"] = b1] = h1
      OBVIOUS
    <3>2. {} \cup {"statement"} = {"statement"}
      OBVIOUS
    <3> HIDE DEF h0, h1
    <3> QED
      BY <3>1, <3>2, WithObj
  <2> HIDE DEF a, o, c0, c1
  <2> QED
    BY <1>1, <2>1, <2>2, <2>3, AlwaysCarries
<1>4. WriteTable["CallArgs"] = <<f1>> /\ c0 = New("ExecuteStmtArgs")
  BY CallArgsTables
<1> HIDE DEF o, c0, c1, f1
<1>5. Travels(Struct("ExecuteStmtArgs"), o, c0, c1)
  BY <1>1, <1>2, <1>3, <1>4, Struct1
<1> QED
  BY <1>4, <1>5 DEF o, c1

----------------------------------------------------------------------------
(* The setters: the objects that the client and the handler make.           *)

(* A setter that does not refuse puts the value in and marks it set.        *)
LEMMA SetObj ==
    ASSUME NEW type, NEW has, NEW isset, NEW name, NEW v, ~Refused(type, name, v)
    PROVE  Set(Obj(type, has, isset), name, v)
             = Obj(type, [has EXCEPT ![name] = v], isset \cup {name})
<1> DEFINE c == Obj(type, has, isset)
<1>1. c.type = type
  BY DEF Obj
<1>2. With(c, name, v) = Obj(type, [has EXCEPT ![name] = v], isset \cup {name})
  BY WithObj
<1> HIDE DEF c
<1>3. Set(c, name, v) = With(c, name, v)
  BY <1>1, Zenon DEF Set, With
<1> QED
  BY <1>2, <1>3 DEF c

(* The classes whose setters check no bounds.                               *)
LEMMA NeverRefused ==
    ASSUME NEW type, type \notin {"Column_", "Val_", "Condition_", "CompoundCondition_", "Statement_", "ServerResponse"}, NEW name, NEW v
    PROVE  ~Refused(type, name, v)
<1>1. DOMAIN ClassInit = {"Column_", "Val_", "Condition_", "CompoundCondition_", "Statement_", "ServerResponse"}
  BY DEF ClassInit
<1> QED
  BY <1>1 DEF Refused

(* The numbers of an int16_t.                                               *)
Sizes == -32768 .. 32767

(* The bounds of a Column_.                                                 *)
LEMMA ColumnRefuses ==
    ASSUME NEW name, NEW v, name = "data_type" => v \in 0 .. 3, name = "size" => v \in Sizes
    PROVE  ~Refused("Column_", name, v)
<1>1. ClassInit["Column_"] = column__class_init
  BY DEF ClassInit
<1>2. DOMAIN column__class_init = {"data_type", "size"}
  BY DEF column__class_init
<1>3. column__class_init["data_type"] = 0 .. 3
  BY DEF column__class_init
<1>4. column__class_init["size"] = Sizes
  BY DEF column__class_init, Sizes
<1> DEFINE c == column__class_init
           S == 0 .. 3
           Z == Sizes
<1>5. c["data_type"] = S /\ c["size"] = Z
  BY <1>3, <1>4
<1>6. (name = "data_type" => v \in S) /\ (name = "size" => v \in Z)
  OBVIOUS
<1>7. DOMAIN c = {"data_type", "size"} /\ ClassInit["Column_"] = c
  BY <1>1, <1>2
<1> HIDE DEF c, S, Z
<1>8. ASSUME Refused("Column_", name, v) PROVE FALSE
  <2>1. name \in DOMAIN c /\ v \notin c[name]
    BY ONLY <1>7, <1>8 DEF Refused
  <2>2. CASE name = "data_type"
    BY ONLY <1>5, <1>6, <2>1, <2>2
  <2>3. CASE name = "size"
    BY ONLY <1>5, <1>6, <2>1, <2>3
  <2> QED
    BY <1>7, <2>1, <2>2, <2>3
<1> QED
  BY <1>8

(* The bounds of a Val_.                                                    *)
LEMMA ValRefuses ==
    ASSUME NEW name, NEW v, name = "type" => v \in 0 .. 3
    PROVE  ~Refused("Val_", name, v)
<1>1. ClassInit["Val_"] = val__class_init
  BY DEF ClassInit
<1>2. DOMAIN val__class_init = {"type"} /\ val__class_init["type"] = 0 .. 3
  BY DEF val__class_init
<1> HIDE DEF val__class_init
<1> QED
  BY <1>1, <1>2 DEF Refused

(* The bounds of a Condition_.                                              *)
LEMMA ConditionRefuses ==
    ASSUME NEW name, NEW v, name = "comp_type" => v \in 0 .. 6
    PROVE  ~Refused("Condition_", name, v)
<1>1. ClassInit["Condition_"] = condition__class_init
  BY DEF ClassInit
<1>2. DOMAIN condition__class_init = {"comp_type"} /\ condition__class_init["comp_type"] = 0 .. 6
  BY DEF condition__class_init
<1> HIDE DEF condition__class_init
<1> QED
  BY <1>1, <1>2 DEF Refused

(* The bounds of a CompoundCondition_.                                      *)
LEMMA CompoundConditionRefuses ==
    ASSUME NEW name, NEW v, name = "op" => v \in 0 .. 1
    PROVE  ~Refused("CompoundCondition_", name, v)
<1>1. ClassInit["CompoundCondition_"] = compound_condition__class_init
  BY DEF ClassInit
<1>2. DOMAIN compound_condition__class_init = {"op"} /\ compound_condition__class_init["op"] = 0 .. 1
  BY DEF compound_condition__class_init
<1> HIDE DEF compound_condition__class_init
<1> QED
  BY <1>1, <1>2 DEF Refused

(* The bounds of a Statement_.                                              *)
LEMMA StatementRefuses ==
    ASSUME NEW name, NEW v, name = "st_type" => v \in 0 .. 5
    PROVE  ~Refused("Statement_", name, v)
<1>1. ClassInit["Statement_"] = statement__class_init
  BY DEF ClassInit
<1>2. DOMAIN statement__class_init = {"st_type"} /\ statement__class_init["st_type"] = 0 .. 5
  BY DEF statement__class_init
<1> HIDE DEF statement__class_init
<1> QED
  BY <1>1, <1>2 DEF Refused

(* The bounds of a ServerResponse.                                          *)
LEMMA ServerResponseRefuses ==
    ASSUME NEW name, NEW v, name = "status" => v \in 0 .. 3
    PROVE  ~Refused("ServerResponse", name, v)
<1>1. ClassInit["ServerResponse"] = server_response_class_init
  BY DEF ClassInit
<1>2. DOMAIN server_response_class_init = {"status"} /\ server_response_class_init["status"] = 0 .. 3
  BY DEF server_response_class_init
<1> HIDE DEF server_response_class_init
<1> QED
  BY <1>1, <1>2 DEF Refused

(* What the setters of an object make of a new one, here and below, for     *)
(* every class the client and the handler fill: Column_.                    *)
LEMMA ColumnMade ==
    ASSUME NEW v1, NEW v2, NEW v3, v2 \in 0 .. 3, v3 \in Sizes
    PROVE  Set(Set(Set(New("Column_"), "column_name", v1), "data_type", v2), "size", v3)
             = Obj("Column_", [column_name |-> v1, data_type |-> v2, size |-> v3], {"column_name", "data_type", "size"})
<1> DEFINE h0 == [column_name |-> NULL, data_type |-> 0, size |-> 0]
           h1 == [column_name |-> v1, data_type |-> 0, size |-> 0]
           h2 == [column_name |-> v1, data_type |-> v2, size |-> 0]
           h3 == [column_name |-> v1, data_type |-> v2, size |-> v3]
<1>1. New("Column_") = Obj("Column_", h0, {})
  BY ColumnTables
<1>2. Set(Obj("Column_", h0, {}), "column_name", v1) = Obj("Column_", h1, {"column_name"})
  <2>1. [h0 EXCEPT !["column_name"] = v1] = h1
    OBVIOUS
  <2>2. {} \cup {"column_name"} = {"column_name"}
    OBVIOUS
  <2>3. ~Refused("Column_", "column_name", v1)
    BY ColumnRefuses
  <2> HIDE DEF h0, h1
  <2> QED
    BY <2>1, <2>2, <2>3, SetObj
<1>3. Set(Obj("Column_", h1, {"column_name"}), "data_type", v2) = Obj("Column_", h2, {"column_name", "data_type"})
  <2>1. [h1 EXCEPT !["data_type"] = v2] = h2
    OBVIOUS
  <2>2. {"column_name"} \cup {"data_type"} = {"column_name", "data_type"}
    OBVIOUS
  <2>3. ~Refused("Column_", "data_type", v2)
    BY ColumnRefuses
  <2> HIDE DEF h1, h2
  <2> QED
    BY <2>1, <2>2, <2>3, SetObj
<1>4. Set(Obj("Column_", h2, {"column_name", "data_type"}), "size", v3) = Obj("Column_", h3, {"column_name", "data_type", "size"})
  <2>1. [h2 EXCEPT !["size"] = v3] = h3
    OBVIOUS
  <2>2. {"column_name", "data_type"} \cup {"size"} = {"column_name", "data_type", "size"}
    OBVIOUS
  <2>3. ~Refused("Column_", "size", v3)
    BY ColumnRefuses
  <2> HIDE DEF h2, h3
  <2> QED
    BY <2>1, <2>2, <2>3, SetObj
<1> HIDE DEF h0, h1, h2, h3
<1> DEFINE o0 == Obj("Column_", h0, {})
           o1 == Obj("Column_", h1, {"column_name"})
           o2 == Obj("Column_", h2, {"column_name", "data_type"})
           o3 == Obj("Column_", h3, {"column_name", "data_type", "size"})
<1>20. New("Column_") = o0 /\ Set(o0, "column_name", v1) = o1 /\ Set(o1, "data_type", v2) = o2 /\ Set(o2, "size", v3) = o3
  BY <1>1, <1>2, <1>3, <1>4
<1> HIDE DEF o0, o1, o2, o3
<1>21. Set(Set(Set(New("Column_"), "column_name", v1), "data_type", v2), "size", v3) = o3
  BY <1>20
<1> QED
  BY <1>21 DEF o3, h3

(* A Column_ whose size has been refused.                                   *)
LEMMA ColumnHalfMade ==
    ASSUME NEW v1, NEW v2, v2 \in 0 .. 3
    PROVE  Set(Set(New("Column_"), "column_name", v1), "data_type", v2)
             = Obj("Column_", [column_name |-> v1, data_type |-> v2, size |-> 0], {"column_name", "data_type"})
<1> DEFINE h0 == [column_name |-> NULL, data_type |-> 0, size |-> 0]
           h1 == [column_name |-> v1, data_type |-> 0, size |-> 0]
           h2 == [column_name |-> v1, data_type |-> v2, size |-> 0]
<1>1. New("Column_") = Obj("Column_", h0, {})
  BY ColumnTables
<1>2. Set(Obj("Column_", h0, {}), "column_name", v1) = Obj("Column_", h1, {"column_name"})
  <2>1. [h0 EXCEPT !["column_name"] = v1] = h1
    OBVIOUS
  <2>2. {} \cup {"column_name"} = {"column_name"}
    OBVIOUS
  <2>3. ~Refused("Column_", "column_name", v1)
    BY ColumnRefuses
  <2> HIDE DEF h0, h1
  <2> QED
    BY <2>1, <2>2, <2>3, SetObj
<1>3. Set(Obj("Column_", h1, {"column_name"}), "data_type", v2) = Obj("Column_", h2, {"column_name", "data_type"})
  <2>1. [h1 EXCEPT !["data_type"] = v2] = h2
    OBVIOUS
  <2>2. {"column_name"} \cup {"data_type"} = {"column_name", "data_type"}
    OBVIOUS
  <2>3. ~Refused("Column_", "data_type", v2)
    BY ColumnRefuses
  <2> HIDE DEF h1, h2
  <2> QED
    BY <2>1, <2>2, <2>3, SetObj
<1> HIDE DEF h0, h1, h2
<1> DEFINE o0 == Obj("Column_", h0, {})
           o1 == Obj("Column_", h1, {"column_name"})
           o2 == Obj("Column_", h2, {"column_name", "data_type"})
<1>20. New("Column_") = o0 /\ Set(o0, "column_name", v1) = o1 /\ Set(o1, "data_type", v2) = o2
  BY <1>1, <1>2, <1>3
<1> HIDE DEF o0, o1, o2
<1>21. Set(Set(New("Column_"), "column_name", v1), "data_type", v2) = o2
  BY <1>20
<1> QED
  BY <1>21 DEF o2, h2

(* A size that does not fit an int16_t is refused.                          *)
LEMMA ColumnSizeRefused ==
    ASSUME NEW v, v \notin Sizes
    PROVE  Refused("Column_", "size", v)
<1>1. ClassInit["Column_"] = column__class_init /\ "Column_" \in DOMAIN ClassInit
  BY DEF ClassInit
<1>2. "size" \in DOMAIN column__class_init
  BY DEF column__class_init
<1>3. column__class_init["size"] = Sizes
  BY DEF column__class_init, Sizes
<1> QED
  BY <1>1, <1>2, <1>3 DEF Refused

(* What the setters make of a new CreateStmt.                               *)
LEMMA CreateStmtMade ==
    ASSUME NEW v1, NEW v2
    PROVE  Set(Set(New("CreateStmt_"), "tblName", v1), "cols", v2)
             = Obj("CreateStmt_", [cols |-> v2, tblName |-> v1], {"tblName", "cols"})
<1> DEFINE h0 == [cols |-> <<>>, tblName |-> NULL]
           h1 == [cols |-> <<>>, tblName |-> v1]
           h2 == [cols |-> v2, tblName |-> v1]
<1>1. New("CreateStmt_") = Obj("CreateStmt_", h0, {})
  BY CreateStmtTables
<1>2. Set(Obj("CreateStmt_", h0, {}), "tblName", v1) = Obj("CreateStmt_", h1, {"tblName"})
  <2>1. [h0 EXCEPT !["tblName"] = v1] = h1
    OBVIOUS
  <2>2. {} \cup {"tblName"} = {"tblName"}
    OBVIOUS
  <2>3. ~Refused("CreateStmt_", "tblName", v1)
    BY NeverRefused
  <2> HIDE DEF h0, h1
  <2> QED
    BY <2>1, <2>2, <2>3, SetObj
<1>3. Set(Obj("CreateStmt_", h1, {"tblName"}), "cols", v2) = Obj("CreateStmt_", h2, {"tblName", "cols"})
  <2>1. [h1 EXCEPT !["cols"] = v2] = h2
    OBVIOUS
  <2>2. {"tblName"} \cup {"cols"} = {"tblName", "cols"}
    OBVIOUS
  <2>3. ~Refused("CreateStmt_", "cols", v2)
    BY NeverRefused
  <2> HIDE DEF h1, h2
  <2> QED
    BY <2>1, <2>2, <2>3, SetObj
<1> HIDE DEF h0, h1, h2
<1> DEFINE o0 == Obj("CreateStmt_", h0, {})
           o1 == Obj("CreateStmt_", h1, {"tblName"})
           o2 == Obj("CreateStmt_", h2, {"tblName", "cols"})
<1>20. New("CreateStmt_") = o0 /\ Set(o0, "tblName", v1) = o1 /\ Set(o1, "cols", v2) = o2
  BY <1>1, <1>2, <1>3
<1> HIDE DEF o0, o1, o2
<1>21. Set(Set(New("CreateStmt_"), "tblName", v1), "cols", v2) = o2
  BY <1>20
<1> QED
  BY <1>21 DEF o2, h2

(* What the setters make of a new DropStmt.                                 *)
LEMMA DropStmtMade ==
    ASSUME NEW v1
    PROVE  Set(New("DropStmt_"), "tblName", v1)
             = Obj("DropStmt_", [tblName |-> v1], {"tblName"})
<1> DEFINE h0 == [tblName |-> NULL]
           h1 == [tblName |-> v1]
<1>1. New("DropStmt_") = Obj("DropStmt_", h0, {})
  BY DropStmtTables
<1>2. Set(Obj("DropStmt_", h0, {}), "tblName", v1) = Obj("DropStmt_", h1, {"tblName"})
  <2>1. [h0 EXCEPT !["tblName"] = v1] = h1
    OBVIOUS
  <2>2. {} \cup {"tblName"} = {"tblName"}
    OBVIOUS
  <2>3. ~Refused("DropStmt_", "tblName", v1)
    BY NeverRefused
  <2> HIDE DEF h0, h1
  <2> QED
    BY <2>1, <2>2, <2>3, SetObj
<1> HIDE DEF h0, h1
<1> DEFINE o0 == Obj("DropStmt_", h0, {})
           o1 == Obj("DropStmt_", h1, {"tblName"})
<1>20. New("DropStmt_") = o0 /\ Set(o0, "tblName", v1) = o1
  BY <1>1, <1>2
<1> HIDE DEF o0, o1
<1>21. Set(New("DropStmt_"), "tblName", v1) = o1
  BY <1>20
<1> QED
  BY <1>21 DEF o1, h1

(* What the setters make of a new Val.                                      *)
LEMMA ValMade ==
    ASSUME NEW v1, NEW v2, v2 \in 0 .. 3
    PROVE  Set(Set(New("Val_"), "cell", v1), "type", v2)
             = Obj("Val_", [cell |-> v1, type |-> v2], {"cell", "type"})
<1> DEFINE h0 == [cell |-> New("Cell_"), type |-> 0]
           h1 == [cell |-> v1, type |-> 0]
           h2 == [cell |-> v1, type |-> v2]
<1>1. New("Val_") = Obj("Val_", h0, {})
  BY ValTables
<1>2. Set(Obj("Val_", h0, {}), "cell", v1) = Obj("Val_", h1, {"cell"})
  <2>1. [h0 EXCEPT !["cell"] = v1] = h1
    OBVIOUS
  <2>2. {} \cup {"cell"} = {"cell"}
    OBVIOUS
  <2>3. ~Refused("Val_", "cell", v1)
    BY ValRefuses
  <2> HIDE DEF h0, h1
  <2> QED
    BY <2>1, <2>2, <2>3, SetObj
<1>3. Set(Obj("Val_", h1, {"cell"}), "type", v2) = Obj("Val_", h2, {"cell", "type"})
  <2>1. [h1 EXCEPT !["type"] = v2] = h2
    OBVIOUS
  <2>2. {"cell"} \cup {"type"} = {"cell", "type"}
    OBVIOUS
  <2>3. ~Refused("Val_", "type", v2)
    BY ValRefuses
  <2> HIDE DEF h1, h2
  <2> QED
    BY <2>1, <2>2, <2>3, SetObj
<1> HIDE DEF h0, h1, h2
<1> DEFINE o0 == Obj("Val_", h0, {})
           o1 == Obj("Val_", h1, {"cell"})
           o2 == Obj("Val_", h2, {"cell", "type"})
<1>20. New("Val_") = o0 /\ Set(o0, "cell", v1) = o1 /\ Set(o1, "type", v2) = o2
  BY <1>1, <1>2, <1>3
<1> HIDE DEF o0, o1, o2
<1>21. Set(Set(New("Val_"), "cell", v1), "type", v2) = o2
  BY <1>20
<1> QED
  BY <1>21 DEF o2, h2

(* What the setters make of a new ColVal.                                   *)
LEMMA ColValMade ==
    ASSUME NEW v1, NEW v2
    PROVE  Set(Set(New("ColVal_"), "col", v1), "val", v2)
             = Obj("ColVal_", [col |-> v1, val |-> v2], {"col", "val"})
<1> DEFINE h0 == [col |-> NULL, val |-> New("Val_")]
           h1 == [col |-> v1, val |-> New("Val_")]
           h2 == [col |-> v1, val |-> v2]
<1>1. New("ColVal_") = Obj("ColVal_", h0, {})
  BY ColValTables
<1>2. Set(Obj("ColVal_", h0, {}), "col", v1) = Obj("ColVal_", h1, {"col"})
  <2>1. [h0 EXCEPT !["col"] = v1] = h1
    OBVIOUS
  <2>2. {} \cup {"col"} = {"col"}
    OBVIOUS
  <2>3. ~Refused("ColVal_", "col", v1)
    BY NeverRefused
  <2> HIDE DEF h0, h1
  <2> QED
    BY <2>1, <2>2, <2>3, SetObj
<1>3. Set(Obj("ColVal_", h1, {"col"}), "val", v2) = Obj("ColVal_", h2, {"col", "val"})
  <2>1. [h1 EXCEPT !["val"] = v2] = h2
    OBVIOUS
  <2>2. {"col"} \cup {"val"} = {"col", "val"}
    OBVIOUS
  <2>3. ~Refused("ColVal_", "val", v2)
    BY NeverRefused
  <2> HIDE DEF h1, h2
  <2> QED
    BY <2>1, <2>2, <2>3, SetObj
<1> HIDE DEF h0, h1, h2
<1> DEFINE o0 == Obj("ColVal_", h0, {})
           o1 == Obj("ColVal_", h1, {"col"})
           o2 == Obj("ColVal_", h2, {"col", "val"})
<1>20. New("ColVal_") = o0 /\ Set(o0, "col", v1) = o1 /\ Set(o1, "val", v2) = o2
  BY <1>1, <1>2, <1>3
<1> HIDE DEF o0, o1, o2
<1>21. Set(Set(New("ColVal_"), "col", v1), "val", v2) = o2
  BY <1>20
<1> QED
  BY <1>21 DEF o2, h2

(* What the setters make of a new InsertStmt.                               *)
LEMMA InsertStmtMade ==
    ASSUME NEW v1, NEW v2
    PROVE  Set(Set(New("InsertStmt_"), "tblName", v1), "rows", v2)
             = Obj("InsertStmt_", [tblName |-> v1, rows |-> v2], {"tblName", "rows"})
<1> DEFINE h0 == [tblName |-> NULL, rows |-> <<>>]
           h1 == [tblName |-> v1, rows |-> <<>>]
           h2 == [tblName |-> v1, rows |-> v2]
<1>1. New("InsertStmt_") = Obj("InsertStmt_", h0, {})
  BY InsertStmtTables
<1>2. Set(Obj("InsertStmt_", h0, {}), "tblName", v1) = Obj("InsertStmt_", h1, {"tblName"})
  <2>1. [h0 EXCEPT !["tblName"] = v1] = h1
    OBVIOUS
  <2>2. {} \cup {"tblName"} = {"tblName"}
    OBVIOUS
  <2>3. ~Refused("InsertStmt_", "tblName", v1)
    BY NeverRefused
  <2> HIDE DEF h0, h1
  <2> QED
    BY <2>1, <2>2, <2>3, SetObj
<1>3. Set(Obj("InsertStmt_", h1, {"tblName"}), "rows", v2) = Obj("InsertStmt_", h2, {"tblName", "rows"})
  <2>1. [h1 EXCEPT !["rows"] = v2] = h2
    OBVIOUS
  <2>2. {"tblName"} \cup {"rows"} = {"tblName", "rows"}
    OBVIOUS
  <2>3. ~Refused("InsertStmt_", "rows", v2)
    BY NeverRefused
  <2> HIDE DEF h1, h2
  <2> QED
    BY <2>1, <2>2, <2>3, SetObj
<1> HIDE DEF h0, h1, h2
<1> DEFINE o0 == Obj("InsertStmt_", h0, {})
           o1 == Obj("InsertStmt_", h1, {"tblName"})
           o2 == Obj("InsertStmt_", h2, {"tblName", "rows"})
<1>20. New("InsertStmt_") = o0 /\ Set(o0, "tblName", v1) = o1 /\ Set(o1, "rows", v2) = o2
  BY <1>1, <1>2, <1>3
<1> HIDE DEF o0, o1, o2
<1>21. Set(Set(New("InsertStmt_"), "tblName", v1), "rows", v2) = o2
  BY <1>20
<1> QED
  BY <1>21 DEF o2, h2

(* A FullColumnName_ without a row name.                                    *)
LEMMA ColumnNameMade ==
    ASSUME NEW v1
    PROVE  Set(New("FullColumnName_"), "col_name", v1)
             = Obj("FullColumnName_", [row_name |-> NULL, col_name |-> v1], {"col_name"})
<1> DEFINE h0 == [row_name |-> NULL, col_name |-> NULL]
           h1 == [row_name |-> NULL, col_name |-> v1]
<1>1. New("FullColumnName_") = Obj("FullColumnName_", h0, {})
  BY FullColumnNameTables
<1>2. Set(Obj("FullColumnName_", h0, {}), "col_name", v1) = Obj("FullColumnName_", h1, {"col_name"})
  <2>1. [h0 EXCEPT !["col_name"] = v1] = h1
    OBVIOUS
  <2>2. {} \cup {"col_name"} = {"col_name"}
    OBVIOUS
  <2>3. ~Refused("FullColumnName_", "col_name", v1)
    BY NeverRefused
  <2> HIDE DEF h0, h1
  <2> QED
    BY <2>1, <2>2, <2>3, SetObj
<1> HIDE DEF h0, h1
<1> DEFINE o0 == Obj("FullColumnName_", h0, {})
           o1 == Obj("FullColumnName_", h1, {"col_name"})
<1>20. New("FullColumnName_") = o0 /\ Set(o0, "col_name", v1) = o1
  BY <1>1, <1>2
<1> HIDE DEF o0, o1
<1>21. Set(New("FullColumnName_"), "col_name", v1) = o1
  BY <1>20
<1> QED
  BY <1>21 DEF o1, h1

(* What the setters make of a new FullColumnName.                           *)
LEMMA FullColumnNameMade ==
    ASSUME NEW v1, NEW v2
    PROVE  Set(Set(New("FullColumnName_"), "col_name", v1), "row_name", v2)
             = Obj("FullColumnName_", [row_name |-> v2, col_name |-> v1], {"col_name", "row_name"})
<1> DEFINE h0 == [row_name |-> NULL, col_name |-> NULL]
           h1 == [row_name |-> NULL, col_name |-> v1]
           h2 == [row_name |-> v2, col_name |-> v1]
<1>1. New("FullColumnName_") = Obj("FullColumnName_", h0, {})
  BY FullColumnNameTables
<1>2. Set(Obj("FullColumnName_", h0, {}), "col_name", v1) = Obj("FullColumnName_", h1, {"col_name"})
  <2>1. [h0 EXCEPT !["col_name"] = v1] = h1
    OBVIOUS
  <2>2. {} \cup {"col_name"} = {"col_name"}
    OBVIOUS
  <2>3. ~Refused("FullColumnName_", "col_name", v1)
    BY NeverRefused
  <2> HIDE DEF h0, h1
  <2> QED
    BY <2>1, <2>2, <2>3, SetObj
<1>3. Set(Obj("FullColumnName_", h1, {"col_name"}), "row_name", v2) = Obj("FullColumnName_", h2, {"col_name", "row_name"})
  <2>1. [h1 EXCEPT !["row_name"] = v2] = h2
    OBVIOUS
  <2>2. {"col_name"} \cup {"row_name"} = {"col_name", "row_name"}
    OBVIOUS
  <2>3. ~Refused("FullColumnName_", "row_name", v2)
    BY NeverRefused
  <2> HIDE DEF h1, h2
  <2> QED
    BY <2>1, <2>2, <2>3, SetObj
<1> HIDE DEF h0, h1, h2
<1> DEFINE o0 == Obj("FullColumnName_", h0, {})
           o1 == Obj("FullColumnName_", h1, {"col_name"})
           o2 == Obj("FullColumnName_", h2, {"col_name", "row_name"})
<1>20. New("FullColumnName_") = o0 /\ Set(o0, "col_name", v1) = o1 /\ Set(o1, "row_name", v2) = o2
  BY <1>1, <1>2, <1>3
<1> HIDE DEF o0, o1, o2
<1>21. Set(Set(New("FullColumnName_"), "col_name", v1), "row_name", v2) = o2
  BY <1>20
<1> QED
  BY <1>21 DEF o2, h2

(* What the setters make of a new Condition.                                *)
LEMMA ConditionMade ==
    ASSUME NEW v1, NEW v2, NEW v3, v2 \in 0 .. 6
    PROVE  Set(Set(Set(New("Condition_"), "column", v1), "comp_type", v2), "value", v3)
             = Obj("Condition_", [column |-> v1, comp_type |-> v2, value |-> v3], {"column", "comp_type", "value"})
<1> DEFINE h0 == [column |-> New("FullColumnName_"), comp_type |-> 0, value |-> New("Val_")]
           h1 == [column |-> v1, comp_type |-> 0, value |-> New("Val_")]
           h2 == [column |-> v1, comp_type |-> v2, value |-> New("Val_")]
           h3 == [column |-> v1, comp_type |-> v2, value |-> v3]
<1>1. New("Condition_") = Obj("Condition_", h0, {})
  BY ConditionTables
<1>2. Set(Obj("Condition_", h0, {}), "column", v1) = Obj("Condition_", h1, {"column"})
  <2>1. [h0 EXCEPT !["column"] = v1] = h1
    OBVIOUS
  <2>2. {} \cup {"column"} = {"column"}
    OBVIOUS
  <2>3. ~Refused("Condition_", "column", v1)
    BY ConditionRefuses
  <2> HIDE DEF h0, h1
  <2> QED
    BY <2>1, <2>2, <2>3, SetObj
<1>3. Set(Obj("Condition_", h1, {"column"}), "comp_type", v2) = Obj("Condition_", h2, {"column", "comp_type"})
  <2>1. [h1 EXCEPT !["comp_type"] = v2] = h2
    OBVIOUS
  <2>2. {"column"} \cup {"comp_type"} = {"column", "comp_type"}
    OBVIOUS
  <2>3. ~Refused("Condition_", "comp_type", v2)
    BY ConditionRefuses
  <2> HIDE DEF h1, h2
  <2> QED
    BY <2>1, <2>2, <2>3, SetObj
<1>4. Set(Obj("Condition_", h2, {"column", "comp_type"}), "value", v3) = Obj("Condition_", h3, {"column", "comp_type", "value"})
  <2>1. [h2 EXCEPT !["value"] = v3] = h3
    OBVIOUS
  <2>2. {"column", "comp_type"} \cup {"value"} = {"column", "comp_type", "value"}
    OBVIOUS
  <2>3. ~Refused("Condition_", "value", v3)
    BY ConditionRefuses
  <2> HIDE DEF h2, h3
  <2> QED
    BY <2>1, <2>2, <2>3, SetObj
<1> HIDE DEF h0, h1, h2, h3
<1> DEFINE o0 == Obj("Condition_", h0, {})
           o1 == Obj("Condition_", h1, {"column"})
           o2 == Obj("Condition_", h2, {"column", "comp_type"})
           o3 == Obj("Condition_", h3, {"column", "comp_type", "value"})
<1>20. New("Condition_") = o0 /\ Set(o0, "column", v1) = o1 /\ Set(o1, "comp_type", v2) = o2 /\ Set(o2, "value", v3) = o3
  BY <1>1, <1>2, <1>3, <1>4
<1> HIDE DEF o0, o1, o2, o3
<1>21. Set(Set(Set(New("Condition_"), "column", v1), "comp_type", v2), "value", v3) = o3
  BY <1>20
<1> QED
  BY <1>21 DEF o3, h3

(* What the setters make of a new CompoundCondition.                        *)
LEMMA CompoundConditionMade ==
    ASSUME NEW v1, NEW v2, v1 \in 0 .. 1
    PROVE  Set(Set(New("CompoundCondition_"), "op", v1), "left", v2)
             = Obj("CompoundCondition_", [left |-> v2, op |-> v1, right |-> <<>>], {"op", "left"})
<1> DEFINE h0 == [left |-> New("Condition_"), op |-> 0, right |-> <<>>]
           h1 == [left |-> New("Condition_"), op |-> v1, right |-> <<>>]
           h2 == [left |-> v2, op |-> v1, right |-> <<>>]
<1>1. New("CompoundCondition_") = Obj("CompoundCondition_", h0, {})
  BY CompoundConditionTables
<1>2. Set(Obj("CompoundCondition_", h0, {}), "op", v1) = Obj("CompoundCondition_", h1, {"op"})
  <2>1. [h0 EXCEPT !["op"] = v1] = h1
    OBVIOUS
  <2>2. {} \cup {"op"} = {"op"}
    OBVIOUS
  <2>3. ~Refused("CompoundCondition_", "op", v1)
    BY CompoundConditionRefuses
  <2> HIDE DEF h0, h1
  <2> QED
    BY <2>1, <2>2, <2>3, SetObj
<1>3. Set(Obj("CompoundCondition_", h1, {"op"}), "left", v2) = Obj("CompoundCondition_", h2, {"op", "left"})
  <2>1. [h1 EXCEPT !["left"] = v2] = h2
    OBVIOUS
  <2>2. {"op"} \cup {"left"} = {"op", "left"}
    OBVIOUS
  <2>3. ~Refused("CompoundCondition_", "left", v2)
    BY CompoundConditionRefuses
  <2> HIDE DEF h1, h2
  <2> QED
    BY <2>1, <2>2, <2>3, SetObj
<1> HIDE DEF h0, h1, h2
<1> DEFINE o0 == Obj("CompoundCondition_", h0, {})
           o1 == Obj("CompoundCondition_", h1, {"op"})
           o2 == Obj("CompoundCondition_", h2, {"op", "left"})
<1>20. New("CompoundCondition_") = o0 /\ Set(o0, "op", v1) = o1 /\ Set(o1, "left", v2) = o2
  BY <1>1, <1>2, <1>3
<1> HIDE DEF o0, o1, o2
<1>21. Set(Set(New("CompoundCondition_"), "op", v1), "left", v2) = o2
  BY <1>20
<1> QED
  BY <1>21 DEF o2, h2

(* A DeleteStmt_ without a condition.                                       *)
LEMMA DeleteAllMade ==
    ASSUME NEW v1
    PROVE  Set(New("DeleteStmt_"), "tblName", v1)
             = Obj("DeleteStmt_", [tblName |-> v1, cond |-> New("CompoundCondition_")], {"tblName"})
<1> DEFINE h0 == [tblName |-> NULL, cond |-> New("CompoundCondition_")]
           h1 == [tblName |-> v1, cond |-> New("CompoundCondition_")]
<1>1. New("DeleteStmt_") = Obj("DeleteStmt_", h0, {})
  BY DeleteStmtTables
<1>2. Set(Obj("DeleteStmt_", h0, {}), "tblName", v1) = Obj("DeleteStmt_", h1, {"tblName"})
  <2>1. [h0 EXCEPT !["tblName"] = v1] = h1
    OBVIOUS
  <2>2. {} \cup {"tblName"} = {"tblName"}
    OBVIOUS
  <2>3. ~Refused("DeleteStmt_", "tblName", v1)
    BY NeverRefused
  <2> HIDE DEF h0, h1
  <2> QED
    BY <2>1, <2>2, <2>3, SetObj
<1> HIDE DEF h0, h1
<1> DEFINE o0 == Obj("DeleteStmt_", h0, {})
           o1 == Obj("DeleteStmt_", h1, {"tblName"})
<1>20. New("DeleteStmt_") = o0 /\ Set(o0, "tblName", v1) = o1
  BY <1>1, <1>2
<1> HIDE DEF o0, o1
<1>21. Set(New("DeleteStmt_"), "tblName", v1) = o1
  BY <1>20
<1> QED
  BY <1>21 DEF o1, h1

(* What the setters make of a new DeleteStmt.                               *)
LEMMA DeleteStmtMade ==
    ASSUME NEW v1, NEW v2
    PROVE  Set(Set(New("DeleteStmt_"), "tblName", v1), "cond", v2)
             = Obj("DeleteStmt_", [tblName |-> v1, cond |-> v2], {"tblName", "cond"})
<1> DEFINE h0 == [tblName |-> NULL, cond |-> New("CompoundCondition_")]
           h1 == [tblName |-> v1, cond |-> New("CompoundCondition_")]
           h2 == [tblName |-> v1, cond |-> v2]
<1>1. New("DeleteStmt_") = Obj("DeleteStmt_", h0, {})
  BY DeleteStmtTables
<1>2. Set(Obj("DeleteStmt_", h0, {}), "tblName", v1) = Obj("DeleteStmt_", h1, {"tblName"})
  <2>1. [h0 EXCEPT !["tblName"] = v1] = h1
    OBVIOUS
  <2>2. {} \cup {"tblName"} = {"tblName"}
    OBVIOUS
  <2>3. ~Refused("DeleteStmt_", "tblName", v1)
    BY NeverRefused
  <2> HIDE DEF h0, h1
  <2> QED
    BY <2>1, <2>2, <2>3, SetObj
<1>3. Set(Obj("DeleteStmt_", h1, {"tblName"}), "cond", v2) = Obj("DeleteStmt_", h2, {"tblName", "cond"})
  <2>1. [h1 EXCEPT !["cond"] = v2] = h2
    OBVIOUS
  <2>2. {"tblName"} \cup {"cond"} = {"tblName", "cond"}
    OBVIOUS
  <2>3. ~Refused("DeleteStmt_", "cond", v2)
    BY NeverRefused
  <2> HIDE DEF h1, h2
  <2> QED
    BY <2>1, <2>2, <2>3, SetObj
<1> HIDE DEF h0, h1, h2
<1> DEFINE o0 == Obj("DeleteStmt_", h0, {})
           o1 == Obj("DeleteStmt_", h1, {"tblName"})
           o2 == Obj("DeleteStmt_", h2, {"tblName", "cond"})
<1>20. New("DeleteStmt_") = o0 /\ Set(o0, "tblName", v1) = o1 /\ Set(o1, "cond", v2) = o2
  BY <1>1, <1>2, <1>3
<1> HIDE DEF o0, o1, o2
<1>21. Set(Set(New("DeleteStmt_"), "tblName", v1), "cond", v2) = o2
  BY <1>20
<1> QED
  BY <1>21 DEF o2, h2

(* What the setters make of a new UpdateStmt.                               *)
LEMMA UpdateStmtMade ==
    ASSUME NEW v1, NEW v2
    PROVE  Set(Set(New("UpdateStmt_"), "tblName", v1), "cond", v2)
             = Obj("UpdateStmt_", [tblName |-> v1, new_row |-> <<>>, cond |-> v2], {"tblName", "cond"})
<1> DEFINE h0 == [tblName |-> NULL, new_row |-> <<>>, cond |-> New("CompoundCondition_")]
           h1 == [tblName |-> v1, new_row |-> <<>>, cond |-> New("CompoundCondition_")]
           h2 == [tblName |-> v1, new_row |-> <<>>, cond |-> v2]
<1>1. New("UpdateStmt_") = Obj("UpdateStmt_", h0, {})
  BY UpdateStmtTables
<1>2. Set(Obj("UpdateStmt_", h0, {}), "tblName", v1) = Obj("UpdateStmt_", h1, {"tblName"})
  <2>1. [h0 EXCEPT !["tblName"] = v1] = h1
    OBVIOUS
  <2>2. {} \cup {"tblName"} = {"tblName"}
    OBVIOUS
  <2>3. ~Refused("UpdateStmt_", "tblName", v1)
    BY NeverRefused
  <2> HIDE DEF h0, h1
  <2> QED
    BY <2>1, <2>2, <2>3, SetObj
<1>3. Set(Obj("UpdateStmt_", h1, {"tblName"}), "cond", v2) = Obj("UpdateStmt_", h2, {"tblName", "cond"})
  <2>1. [h1 EXCEPT !["cond"] = v2] = h2
    OBVIOUS
  <2>2. {"tblName"} \cup {"cond"} = {"tblName", "cond"}
    OBVIOUS
  <2>3. ~Refused("UpdateStmt_", "cond", v2)
    BY NeverRefused
  <2> HIDE DEF h1, h2
  <2> QED
    BY <2>1, <2>2, <2>3, SetObj
<1> HIDE DEF h0, h1, h2
<1> DEFINE o0 == Obj("UpdateStmt_", h0, {})
           o1 == Obj("UpdateStmt_", h1, {"tblName"})
           o2 == Obj("UpdateStmt_", h2, {"tblName", "cond"})
<1>20. New("UpdateStmt_") = o0 /\ Set(o0, "tblName", v1) = o1 /\ Set(o1, "cond", v2) = o2
  BY <1>1, <1>2, <1>3
<1> HIDE DEF o0, o1, o2
<1>21. Set(Set(New("UpdateStmt_"), "tblName", v1), "cond", v2) = o2
  BY <1>20
<1> QED
  BY <1>21 DEF o2, h2

(* What the setters make of a new Statement.                                *)
LEMMA StatementMade ==
    ASSUME NEW v1, NEW v2, v1 \in 0 .. 5
    PROVE  Set(Set(New("Statement_"), "st_type", v1), "stmt", v2)
             = Obj("Statement_", [st_type |-> v1, stmt |-> v2], {"st_type", "stmt"})
<1> DEFINE h0 == [st_type |-> 0, stmt |-> New("Stmt_")]
           h1 == [st_type |-> v1, stmt |-> New("Stmt_")]
           h2 == [st_type |-> v1, stmt |-> v2]
<1>1. New("Statement_") = Obj("Statement_", h0, {})
  BY StatementTables
<1>2. Set(Obj("Statement_", h0, {}), "st_type", v1) = Obj("Statement_", h1, {"st_type"})
  <2>1. [h0 EXCEPT !["st_type"] = v1] = h1
    OBVIOUS
  <2>2. {} \cup {"st_type"} = {"st_type"}
    OBVIOUS
  <2>3. ~Refused("Statement_", "st_type", v1)
    BY StatementRefuses
  <2> HIDE DEF h0, h1
  <2> QED
    BY <2>1, <2>2, <2>3, SetObj
<1>3. Set(Obj("Statement_", h1, {"st_type"}), "stmt", v2) = Obj("Statement_", h2, {"st_type", "stmt"})
  <2>1. [h1 EXCEPT !["stmt"] = v2] = h2
    OBVIOUS
  <2>2. {"st_type"} \cup {"stmt"} = {"st_type", "stmt"}
    OBVIOUS
  <2>3. ~Refused("Statement_", "stmt", v2)
    BY StatementRefuses
  <2> HIDE DEF h1, h2
  <2> QED
    BY <2>1, <2>2, <2>3, SetObj
<1> HIDE DEF h0, h1, h2
<1> DEFINE o0 == Obj("Statement_", h0, {})
           o1 == Obj("Statement_", h1, {"st_type"})
           o2 == Obj("Statement_", h2, {"st_type", "stmt"})
<1>20. New("Statement_") = o0 /\ Set(o0, "st_type", v1) = o1 /\ Set(o1, "stmt", v2) = o2
  BY <1>1, <1>2, <1>3
<1> HIDE DEF o0, o1, o2
<1>21. Set(Set(New("Statement_"), "st_type", v1), "stmt", v2) = o2
  BY <1>20
<1> QED
  BY <1>21 DEF o2, h2

(* What the setters make of a new ServerResponse.                           *)
LEMMA ServerResponseMade ==
    ASSUME NEW v1, NEW v2, v1 \in 0 .. 3
    PROVE  Set(Set(New("ServerResponse"), "status", v1), "info", v2)
             = Obj("ServerResponse", [info |-> v2, rows |-> <<>>, status |-> v1], {"status", "info"})
<1> DEFINE h0 == [info |-> NULL, rows |-> <<>>, status |-> 0]
           h1 == [info |-> NULL, rows |-> <<>>, status |-> v1]
           h2 == [info |-> v2, rows |-> <<>>, status |-> v1]
<1>1. New("ServerResponse") = Obj("ServerResponse", h0, {})
  BY ServerResponseTables
<1>2. Set(Obj("ServerResponse", h0, {}), "status", v1) = Obj("ServerResponse", h1, {"status"})
  <2>1. [h0 EXCEPT !["status"] = v1] = h1
    OBVIOUS
  <2>2. {} \cup {"status"} = {"status"}
    OBVIOUS
  <2>3. ~Refused("ServerResponse", "status", v1)
    BY ServerResponseRefuses
  <2> HIDE DEF h0, h1
  <2> QED
    BY <2>1, <2>2, <2>3, SetObj
<1>3. Set(Obj("ServerResponse", h1, {"status"}), "info", v2) = Obj("ServerResponse", h2, {"status", "info"})
  <2>1. [h1 EXCEPT !["info"] = v2] = h2
    OBVIOUS
  <2>2. {"status"} \cup {"info"} = {"status", "info"}
    OBVIOUS
  <2>3. ~Refused("ServerResponse", "info", v2)
    BY ServerResponseRefuses
  <2> HIDE DEF h1, h2
  <2> QED
    BY <2>1, <2>2, <2>3, SetObj
<1> HIDE DEF h0, h1, h2
<1> DEFINE o0 == Obj("ServerResponse", h0, {})
           o1 == Obj("ServerResponse", h1, {"status"})
           o2 == Obj("ServerResponse", h2, {"status", "info"})
<1>20. New("ServerResponse") = o0 /\ Set(o0, "status", v1) = o1 /\ Set(o1, "info", v2) = o2
  BY <1>1, <1>2, <1>3
<1> HIDE DEF o0, o1, o2
<1>21. Set(Set(New("ServerResponse"), "status", v1), "info", v2) = o2
  BY <1>20
<1> QED
  BY <1>21 DEF o2, h2
============================================================================
