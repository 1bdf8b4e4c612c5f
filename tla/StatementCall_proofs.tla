------------------------ MODULE StatementCall_proofs ------------------------
(***************************************************************************)
(* A call of StatementCall, for all lines of the grammar, names, strings    *)
(* and numbers, wherever either process is killed: the types, InSync,       *)
(* PrintedNested, and that StatementCall implements TypedCall.              *)
(*                                                                          *)
(* The first part is about write.c: what its functions print is a walk      *)
(* down and up a tree (Walks), and each ends as deep as it began (DROP      *)
(* alone does not). The second follows a statement through the serializer,  *)
(* the bindings and the request processor: what arrives of a line is the    *)
(* statement typed (StatementArrives), a message is read to its last token  *)
(* or not at all (CallsReadWhole, RepliesReadWhole), and whatever the       *)
(* handler then does is an outcome that TypedCall promises of that line     *)
(* (OutcomesForeseen).                                                      *)
(*                                                                          *)
(* InSync is not inductive: it says nothing of a call that is under way.    *)
(* Inv adds who holds the connection, that a request in it is the message   *)
(* of the line last typed, or, of a client that is gone, a part of one;     *)
(* that the handler works on the statement of that line; that a reply in    *)
(* it is that of the result, or, from a server that is gone, a part of      *)
(* one; and that the columns of the table are those of some CREATE, so      *)
(* that a condition can be looked up in them. Each part of TypedCall's      *)
(* next step is then one of the steps under Inv.                            *)
(***************************************************************************)
EXTENDS StatementCallProperties, Wire_proofs

----------------------------------------------------------------------------
(* write.c: the walk down and up a tree that its functions print.           *)

(* The brackets that open.                                                  *)
Opening == {"[", "{"}
(* The brackets that close.                                                 *)
Closing == {"]", "}"}

(* What the functions of write.c print, and In and Out between them.        *)
Steps == {In, Out, "[", "{", "]", "}", "Table", "Columns", "Rows", "Row", "Vals", "Column",
          "type", "val", "size", "condition", "row_name", "col_name", "comp_type",
          "operation", "compound_condition"}

(* An opening bracket is followed by In, a closing one follows Out.         *)
Paired(s) ==
    /\ \A i \in 1 .. Len(s) : s[i] = In <=> i # 1 /\ s[i - 1] \in Opening
    /\ \A i \in 1 .. Len(s) : s[i] \in Closing <=> i # 1 /\ s[i - 1] = Out
    /\ Len(s) # 0 => s[Len(s)] \notin Opening /\ s[Len(s)] # Out

(* How often x occurs in s.                                                 *)
Moves(s, x) == Cardinality({i \in 1 .. Len(s) : s[i] = x})

(* A walk that ends d deeper than it began.                                 *)
Walks(s, d) ==
    /\ s \in Seq(Steps) /\ Paired(s)
    /\ Moves(s, In) - Moves(s, Out) = d

(* In and Out are no brackets, and no bracket opens and closes.             *)
LEMMA StepsDiffer ==
    /\ In # Out /\ In \notin Opening /\ In \notin Closing /\ Out \notin Opening
    /\ Out \notin Closing /\ Opening \cap Closing = {} 
<1>1. In # Out /\ In \notin Opening /\ In \notin Closing /\ Out \notin Opening /\ Out \notin Closing
  BY Zenon DEF In, Out, Opening, Closing
<1>2. Opening \cap Closing = {}
  BY Zenon DEF Opening, Closing
<1> QED
  BY <1>1, <1>2

(* A set of positions moved by k has as many of them.                       *)
LEMMA ShiftCount ==
    ASSUME NEW T \in SUBSET Int, NEW U \in SUBSET Int, IsFiniteSet(T), NEW k \in Int,
           \A i \in T : i + k \in U, \A u \in U : u - k \in T
    PROVE  IsFiniteSet(U) /\ Cardinality(U) = Cardinality(T)
<1> DEFINE f == [i \in T |-> i + k]
<1>1. f \in Bijection(T, U)
  <2>1. f \in [T -> U]
    OBVIOUS
  <2>2. \A i, j \in T : f[i] = f[j] => i = j
    OBVIOUS
  <2>3. ASSUME NEW u \in U PROVE \E i \in T : f[i] = u
    <3>1. u - k \in T /\ f[u - k] = u
      OBVIOUS
    <3> QED
      BY <3>1
  <2> HIDE DEF f
  <2> QED
    BY <2>1, <2>2, <2>3 DEF Bijection, Injection, Surjection, IsInjective
<1> QED
  <2> HIDE DEF f
  <2> QED
    BY <1>1, FS_Bijection DEF ExistsBijection

(* A step occurs in two walks as often as in each.                          *)
LEMMA MovesConcat ==
    ASSUME NEW a \in Seq(Steps), NEW b \in Seq(Steps), NEW x
    PROVE  /\ Moves(a, x) \in Nat
           /\ Moves(a \o b, x) = Moves(a, x) + Moves(b, x)
<1> DEFINE n == Len(a)
           m == Len(b)
           A0 == {i \in 1 .. n : a[i] = x}
           B0 == {i \in 1 .. m : b[i] = x}
           B1 == {i + n : i \in B0}
           C0 == {i \in 1 .. Len(a \o b) : (a \o b)[i] = x}
<1>1. n \in Nat /\ m \in Nat /\ Len(a \o b) = n + m
  OBVIOUS
<1>2. /\ \A i \in 1 .. n : (a \o b)[i] = a[i]
      /\ \A i \in 1 .. m : (a \o b)[i + n] = b[i]
  OBVIOUS
<1> HIDE DEF n, m
<1>3. C0 = A0 \cup B1
  <2>1. ASSUME NEW i \in C0 PROVE i \in A0 \cup B1
    <3>1. i \in 1 .. n + m /\ (a \o b)[i] = x
      BY <1>1
    <3>2. CASE i <= n
      BY <1>1, <1>2, <3>1, <3>2
    <3>3. CASE i > n
      <4>1. i - n \in 1 .. m /\ (i - n) + n = i
        BY <1>1, <3>1, <3>3
      <4>2. i - n \in B0
        BY <1>2, <3>1, <4>1
      <4> HIDE DEF B0
      <4> QED
        BY <4>1, <4>2
    <3> QED
      BY <1>1, <3>1, <3>2, <3>3
  <2>2. ASSUME NEW i \in A0 PROVE i \in C0
    BY <1>1, <1>2
  <2>3. ASSUME NEW i \in B0 PROVE i + n \in C0
    <3>1. i \in 1 .. m /\ b[i] = x /\ i + n \in 1 .. n + m
      BY <1>1
    <3> QED
      BY <1>1, <1>2, <3>1
  <2> HIDE DEF C0, A0, B0
  <2> QED
    BY <2>1, <2>2, <2>3
<1>4. /\ IsFiniteSet(A0) /\ Cardinality(A0) \in Nat
      /\ IsFiniteSet(B0) /\ Cardinality(B0) \in Nat
  <2>1. IsFiniteSet(1 .. n)
    BY <1>1, FS_Interval
  <2>3. IsFiniteSet(1 .. m)
    BY <1>1, FS_Interval
  <2>2. A0 \subseteq 1 .. n /\ B0 \subseteq 1 .. m
    OBVIOUS
  <2> HIDE DEF A0, B0
  <2> QED
    BY <2>1, <2>2, <2>3, FS_Subset, FS_CardinalityType
<1>5. IsFiniteSet(B1) /\ Cardinality(B1) = Cardinality(B0)
  <2>1. B0 \in SUBSET Int /\ B1 \in SUBSET Int
    BY <1>1
  <2>2. (\A i \in B0 : i + n \in B1) /\ \A u \in B1 : u - n \in B0
    BY <1>1
  <2> HIDE DEF B0, B1
  <2> QED
    BY <1>1, n \in Int, <1>4, <2>1, <2>2, ShiftCount, Zenon
<1>6. A0 \cap B1 = {}
  BY <1>1
<1>7. Cardinality(A0 \cup B1) = Cardinality(A0) + Cardinality(B1)
  <2> HIDE DEF A0, B1, B0
  <2> QED
    BY <1>4, <1>5, <1>6, DisjointCount
<1>8. Moves(a, x) = Cardinality(A0) /\ Moves(b, x) = Cardinality(B0)
      /\ Moves(a \o b, x) = Cardinality(C0)
  BY DEF Moves, n, m
<1> HIDE DEF A0, B0, B1, C0
<1> QED
  BY <1>3, <1>4, <1>5, <1>7, <1>8

(* Brackets stay with their In and Out when walks are joined.               *)
LEMMA PairedConcat ==
    ASSUME NEW a \in Seq(Steps), NEW b \in Seq(Steps), Paired(a), Paired(b)
    PROVE  Paired(a \o b)
<1> DEFINE n == Len(a)
           m == Len(b)
           c == a \o b
<1>1. n \in Nat /\ m \in Nat /\ Len(c) = n + m
  OBVIOUS
<1>2. /\ \A i \in 1 .. n : c[i] = a[i]
      /\ \A i \in n + 1 .. n + m : c[i] = b[i - n]
  OBVIOUS
<1>3. ASSUME NEW i \in 1 .. Len(c)
      PROVE  /\ c[i] = In <=> i # 1 /\ c[i - 1] \in Opening
             /\ c[i] \in Closing <=> i # 1 /\ c[i - 1] = Out
  <2> HIDE DEF n, m, c
  <2>1. CASE i <= n
    <3>1. i \in 1 .. n /\ (i # 1 => i - 1 \in 1 .. n)
      BY <1>1, <2>1
    <3> QED
      BY <1>2, <3>1 DEF Paired, n
  <2>2. CASE i = n + 1
    <3>1. c[i] = b[1] /\ 1 \in 1 .. m
      BY <1>1, <1>2, <2>2
    <3>2. b[1] # In /\ b[1] \notin Closing
      BY <3>1 DEF Paired, m
    <3>3. i # 1 => c[i - 1] = a[n] /\ c[i - 1] \notin Opening /\ c[i - 1] # Out
      BY <1>1, <1>2, <2>2 DEF Paired, n
    <3> QED
      BY <3>1, <3>2, <3>3
  <2>3. CASE i > n + 1
    <3>1. /\ i - n \in 1 .. m /\ i - n # 1 /\ (i - n) - 1 = (i - 1) - n /\ i # 1
          /\ c[i] = b[i - n] /\ c[i - 1] = b[(i - n) - 1]
      BY <1>1, <1>2, <2>3
    <3> QED
      BY <3>1 DEF Paired, m
  <2> QED
    BY <1>1, <2>1, <2>2, <2>3
<1>4. ASSUME Len(c) # 0 PROVE c[Len(c)] \notin Opening /\ c[Len(c)] # Out
  <2> HIDE DEF n, m, c
  <2>1. CASE m = 0
    <3>1. c[Len(c)] = a[n] /\ n # 0
      BY <1>1, <1>2, <1>4, <2>1
    <3> QED
      BY <3>1 DEF Paired, n
  <2>2. CASE m # 0
    <3>1. c[Len(c)] = b[m]
      BY <1>1, <1>2, <1>4, <2>2
    <3> QED
      BY <2>2, <3>1 DEF Paired, m
  <2> QED
    BY <2>1, <2>2
<1> QED
  <2> HIDE DEF c
  <2> QED
    BY <1>3, <1>4 DEF Paired

(* Two walks one after the other end as deep as both together.              *)
LEMMA WalksConcat ==
    ASSUME NEW a, NEW b, NEW d \in Int, NEW e \in Int, Walks(a, d), Walks(b, e)
    PROVE  Walks(a \o b, d + e)
<1>1. a \in Seq(Steps) /\ b \in Seq(Steps) /\ a \o b \in Seq(Steps)
  BY DEF Walks
<1>2. Paired(a \o b)
  BY <1>1, PairedConcat DEF Walks
<1>3. /\ Moves(a \o b, In) = Moves(a, In) + Moves(b, In)
      /\ Moves(a \o b, Out) = Moves(a, Out) + Moves(b, Out)
      /\ Moves(a, In) \in Nat /\ Moves(a, Out) \in Nat
      /\ Moves(b, In) \in Nat /\ Moves(b, Out) \in Nat
  BY <1>1, MovesConcat
<1>4. Moves(a \o b, In) - Moves(a \o b, Out) = d + e
  <2>1. Moves(a, In) - Moves(a, Out) = d
    BY Zenon DEF Walks
  <2>2. Moves(b, In) - Moves(b, Out) = e
    BY Zenon DEF Walks
  <2> QED
    BY <1>3, <2>1, <2>2
<1> QED
  BY <1>1, <1>2, <1>4 DEF Walks

(* Walks of one depth, joined.                                              *)
LEMMA FlattenWalks ==
    ASSUME NEW ss, IsSeq(ss), NEW d \in {0, 1, -1}, \A i \in 1 .. Len(ss) : Walks(ss[i], d)
    PROVE  Walks(FlattenSeq(ss), Len(ss) * d)
<1>1. Len(ss) \in Nat
  BY SeqLen
<1>2. CASE Len(ss) = 0
  <2>1. ss = <<>>
    BY <1>2, SeqEmpty, SameSeq
  <2>2. <<>> \in Seq(Steps) /\ Paired(<<>>)
    BY DEF Paired
  <2>3. ASSUME NEW x PROVE Moves(<<>>, x) = 0
    <3>1. {i \in 1 .. Len(<<>>) : <<>>[i] = x} = {}
      OBVIOUS
    <3> QED
      BY <3>1, FS_EmptySet DEF Moves
  <2>4. Walks(<<>>, 0)
    BY <2>2, <2>3 DEF Walks
  <2>5. Len(ss) * d = 0
    BY <1>2
  <2> QED
    BY <2>1, <2>4, <2>5, FlattenEmpty
<1>3. CASE Len(ss) # 0
  <2> DEFINE W == [k \in Nat |-> {s \in Seq(Steps) : Walks(s, k * d)}]
  <2>1. ASSUME NEW k \in Nat, NEW s PROVE s \in W[k] <=> Walks(s, k * d)
    BY DEF Walks
  <2> HIDE DEF W
  <2>2. ss[1] \in W[1]
    <3>1. 1 * d = d /\ 1 \in 1 .. Len(ss)
      BY <1>1, <1>3
    <3> QED
      BY <2>1, <3>1
  <2>3. ASSUME NEW i \in 2 .. Len(ss), NEW a \in W[i - 1] PROVE a \o ss[i] \in W[i]
    <3>1. /\ i \in Nat /\ i - 1 \in Nat /\ i \in 1 .. Len(ss)
          /\ (i - 1) * d \in Int /\ d \in Int
      BY <1>1
    <3>2. (i - 1) * d + d = i * d
      BY <3>1
    <3>3. Walks(a, (i - 1) * d) /\ Walks(ss[i], d)
      BY <2>1, <2>3, <3>1
    <3>4. Walks(a \o ss[i], (i - 1) * d + d)
      BY <3>1, <3>3, WalksConcat
    <3> QED
      BY <2>1, <3>1, <3>2, <3>4
  <2>4. FlattenSeq(ss) \in W[Len(ss)]
    BY <1>3, <2>2, <2>3, FlattenFamily
  <2> QED
    BY <1>1, <2>1, <2>4
<1> QED
  BY <1>2, <1>3

(* A walk of two steps, index by index.                                     *)
LEMMA PairOf ==
    ASSUME NEW x \in Steps, NEW y \in Steps
    PROVE  /\ <<x, y>> \in Seq(Steps) /\ Len(<<x, y>>) = 2
           /\ <<x, y>>[1] = x /\ <<x, y>>[2] = y
           /\ 1 .. 2 = {1, 2}
OBVIOUS

(* An opening bracket and an In lead one deeper.                            *)
LEMMA OpenWalks ==
    ASSUME NEW x \in Opening
    PROVE  Walks(<<x, In>>, 1)
<1> DEFINE t == <<x, In>>
<1>0. x \in Steps /\ In \in Steps
  BY Zenon DEF Steps, Opening, Closing
<1>1. t \in Seq(Steps) /\ Len(t) = 2 /\ t[1] = x /\ t[2] = In /\ 1 .. 2 = {1, 2}
  BY <1>0, PairOf
<1>2. x \in Opening /\ x \notin Closing /\ x # In /\ x # Out
  BY StepsDiffer
<1> HIDE DEF t
<1>3. Paired(t)
  <2>1. ASSUME NEW i \in 1 .. Len(t)
        PROVE  /\ t[i] = In <=> i # 1 /\ t[i - 1] \in Opening
               /\ t[i] \in Closing <=> i # 1 /\ t[i - 1] = Out
    <3> HIDE DEF t
    <3>1. CASE i = 1
      BY <1>1, <1>2, <3>1, StepsDiffer
    <3>2. CASE i = 2
      <4>1. i # 1 /\ i - 1 = 1
        BY <3>2
      <4> QED
        BY <1>1, <1>2, <3>2, <4>1, StepsDiffer, Zenon
    <3> QED
      BY <1>1, <3>1, <3>2
  <2> QED
    BY <1>1, <1>2, <2>1, StepsDiffer DEF Paired
<1>4. {i \in 1 .. Len(t) : t[i] = In} = {2} /\ {i \in 1 .. Len(t) : t[i] = Out} = {}
  BY <1>1, <1>2, StepsDiffer
<1>5. Moves(t, In) = 1 /\ Moves(t, Out) = 0
  BY <1>4, FS_EmptySet, FS_Singleton DEF Moves
<1> QED
  <2>1. Moves(t, In) - Moves(t, Out) = 1
    BY <1>5, 1 - 0 = 1, Zenon
  <2> QED
    BY <1>1, <1>3, <2>1 DEF Walks, t

(* An Out and a closing bracket lead one back.                              *)
LEMMA CloseWalks ==
    ASSUME NEW x \in Closing
    PROVE  Walks(<<Out, x>>, -1)
<1> DEFINE t == <<Out, x>>
<1>0. x \in Steps /\ Out \in Steps
  BY Zenon DEF Steps, Opening, Closing
<1>1. t \in Seq(Steps) /\ Len(t) = 2 /\ t[1] = Out /\ t[2] = x /\ 1 .. 2 = {1, 2}
  BY <1>0, PairOf
<1>2. x \in Closing /\ x \notin Opening /\ x # In /\ x # Out
  BY StepsDiffer
<1> HIDE DEF t
<1>3. Paired(t)
  <2>1. ASSUME NEW i \in 1 .. Len(t)
        PROVE  /\ t[i] = In <=> i # 1 /\ t[i - 1] \in Opening
               /\ t[i] \in Closing <=> i # 1 /\ t[i - 1] = Out
    <3> HIDE DEF t
    <3>1. CASE i = 1
      BY <1>1, <1>2, <3>1, StepsDiffer
    <3>2. CASE i = 2
      <4>1. i # 1 /\ i - 1 = 1
        BY <3>2
      <4> QED
        BY <1>1, <1>2, <3>2, <4>1, StepsDiffer, Zenon
    <3> QED
      BY <1>1, <3>1, <3>2
  <2> QED
    BY <1>1, <1>2, <2>1, StepsDiffer DEF Paired
<1>4. {i \in 1 .. Len(t) : t[i] = Out} = {1} /\ {i \in 1 .. Len(t) : t[i] = In} = {}
  BY <1>1, <1>2, StepsDiffer
<1>5. Moves(t, In) = 0 /\ Moves(t, Out) = 1
  BY <1>4, FS_EmptySet, FS_Singleton DEF Moves
<1> QED
  <2>1. Moves(t, In) - Moves(t, Out) = -1
    BY <1>5, 0 - 1 = -1, Zenon
  <2> QED
    BY <1>1, <1>3, <2>1 DEF Walks, t

(* What is neither bracket nor In nor Out.                                  *)
Plain == Steps \ ({In, Out} \cup Opening \cup Closing)

(* Names and values lead nowhere.                                           *)
LEMMA PlainWalks ==
    ASSUME NEW s \in Seq(Plain)
    PROVE  Walks(s, 0)
<1>1. s \in Seq(Steps) /\ \A i \in 1 .. Len(s) : s[i] \in Plain
  BY DEF Plain
<1>2. \A i \in 1 .. Len(s) : s[i] \notin Opening /\ s[i] \notin Closing /\ s[i] # In /\ s[i] # Out
  BY <1>1 DEF Plain
<1>3. Paired(s)
  <2>1. Len(s) \in Nat
    OBVIOUS
  <2>2. \A i \in 1 .. Len(s) : i # 1 => i - 1 \in 1 .. Len(s)
    BY <2>1
  <2>3. Len(s) # 0 => Len(s) \in 1 .. Len(s)
    BY <2>1
  <2> QED
    BY <1>2, <2>2, <2>3 DEF Paired
<1>4. {i \in 1 .. Len(s) : s[i] = In} = {} /\ {i \in 1 .. Len(s) : s[i] = Out} = {}
  BY <1>2
<1>5. Moves(s, In) = 0 /\ Moves(s, Out) = 0
  BY <1>4, FS_EmptySet DEF Moves
<1> QED
  BY <1>1, <1>3, <1>5 DEF Walks

(* The words write.c prints are plain.                                      *)
LEMMA PlainSteps ==
    {"Table", "Columns", "Rows", "Row", "Vals", "Column", "type", "val", "size", "condition",
     "row_name", "col_name", "comp_type", "operation", "compound_condition"} \subseteq Plain
BY Zenon DEF Plain, Steps, Opening, Closing, In, Out

(* A walk of one word.                                                      *)
LEMMA PlainOne ==
    ASSUME NEW p \in Plain
    PROVE  Walks(<<p>>, 0)
<1>1. <<p>> \in Seq(Plain)
  OBVIOUS
<1> QED
  BY <1>1, PlainWalks

(* A walk of two words.                                                     *)
LEMMA PlainTwo ==
    ASSUME NEW p \in Plain, NEW q \in Plain
    PROVE  Walks(<<p, q>>, 0)
<1>1. <<p, q>> \in Seq(Plain)
  OBVIOUS
<1> QED
  BY <1>1, PlainWalks

(* A walk of three words.                                                   *)
LEMMA PlainThree ==
    ASSUME NEW p \in Plain, NEW q \in Plain, NEW r \in Plain
    PROVE  Walks(<<p, q, r>>, 0)
<1>1. <<p, q, r>> \in Seq(Plain)
  OBVIOUS
<1> QED
  BY <1>1, PlainWalks

(* A bracket opened behind a word.                                          *)
LEMMA OpenAfter ==
    ASSUME NEW p \in Plain, NEW x \in Opening
    PROVE  Walks(<<p, x, In>>, 1)
<1>1. <<p, x, In>> = <<p>> \o <<x, In>>
  OBVIOUS
<1>2. Walks(<<p>>, 0) /\ Walks(<<x, In>>, 1)
  BY PlainOne, OpenWalks, PlainOne, Zenon
<1>3. 0 \in Int /\ 1 \in Int /\ 0 + 1 = 1
  OBVIOUS
<1>4. Walks(<<p>> \o <<x, In>>, 0 + 1)
  BY <1>2, <1>3, WalksConcat
<1> QED
  BY <1>1, <1>3, <1>4

(* A bracket opened behind two words.                                       *)
LEMMA OpenAfterTwo ==
    ASSUME NEW p \in Plain, NEW q \in Plain, NEW x \in Opening
    PROVE  Walks(<<p, q, x, In>>, 1)
<1>1. <<p, q, x, In>> = <<p, q>> \o <<x, In>>
  OBVIOUS
<1>2. Walks(<<p, q>>, 0) /\ Walks(<<x, In>>, 1)
  BY PlainTwo, OpenWalks, PlainOne, Zenon
<1>3. 0 \in Int /\ 1 \in Int /\ 0 + 1 = 1
  OBVIOUS
<1>4. Walks(<<p, q>> \o <<x, In>>, 0 + 1)
  BY <1>2, <1>3, WalksConcat
<1> QED
  BY <1>1, <1>3, <1>4

(* A word behind an opened bracket.                                         *)
LEMMA OpenBefore ==
    ASSUME NEW x \in Opening, NEW p \in Plain
    PROVE  Walks(<<x, In, p>>, 1)
<1>1. <<x, In, p>> = <<x, In>> \o <<p>>
  OBVIOUS
<1>2. Walks(<<x, In>>, 1) /\ Walks(<<p>>, 0)
  BY OpenWalks, PlainOne, PlainOne, Zenon
<1>3. 1 \in Int /\ 0 \in Int /\ 1 + 0 = 1
  OBVIOUS
<1>4. Walks(<<x, In>> \o <<p>>, 1 + 0)
  BY <1>2, <1>3, WalksConcat
<1> QED
  BY <1>1, <1>3, <1>4

(* A bracket closed behind a word.                                          *)
LEMMA CloseAfter ==
    ASSUME NEW p \in Plain, NEW y \in Closing
    PROVE  Walks(<<p, Out, y>>, -1)
<1>1. <<p, Out, y>> = <<p>> \o <<Out, y>>
  OBVIOUS
<1>2. Walks(<<p>>, 0) /\ Walks(<<Out, y>>, -1)
  BY PlainOne, CloseWalks, PlainOne, Zenon
<1>3. 0 \in Int /\ -1 \in Int /\ 0 + -1 = -1
  OBVIOUS
<1>4. Walks(<<p>> \o <<Out, y>>, 0 + -1)
  BY <1>2, <1>3, WalksConcat
<1> QED
  BY <1>1, <1>3, <1>4

(* A bracket closed behind three words.                                     *)
LEMMA CloseAfterThree ==
    ASSUME NEW p \in Plain, NEW q \in Plain, NEW r \in Plain, NEW y \in Closing
    PROVE  Walks(<<p, q, r, Out, y>>, -1)
<1>1. <<p, q, r, Out, y>> = <<p, q, r>> \o <<Out, y>>
  OBVIOUS
<1>2. Walks(<<p, q, r>>, 0) /\ Walks(<<Out, y>>, -1)
  BY PlainThree, CloseWalks, PlainOne, Zenon
<1>3. 0 \in Int /\ -1 \in Int /\ 0 + -1 = -1
  OBVIOUS
<1>4. Walks(<<p, q, r>> \o <<Out, y>>, 0 + -1)
  BY <1>2, <1>3, WalksConcat
<1> QED
  BY <1>1, <1>3, <1>4

(* Two brackets closed.                                                     *)
LEMMA CloseTwice ==
    ASSUME NEW y \in Closing, NEW z \in Closing
    PROVE  Walks(<<Out, y, Out, z>>, -2)
<1>1. <<Out, y, Out, z>> = <<Out, y>> \o <<Out, z>>
  OBVIOUS
<1>2. Walks(<<Out, y>>, -1) /\ Walks(<<Out, z>>, -1)
  BY CloseWalks, CloseWalks, PlainOne, Zenon
<1>3. -1 \in Int /\ -1 \in Int /\ -1 + -1 = -2
  OBVIOUS
<1>4. Walks(<<Out, y>> \o <<Out, z>>, -1 + -1)
  BY <1>2, <1>3, WalksConcat
<1> QED
  BY <1>1, <1>3, <1>4

(* Two brackets opened, each behind a word.                                 *)
LEMMA OpenTwice ==
    ASSUME NEW p \in Plain, NEW x \in Opening, NEW q \in Plain, NEW y \in Opening
    PROVE  Walks(<<p, x, In, q, y, In>>, 2)
<1>1. <<p, x, In, q, y, In>> = <<p, x, In>> \o <<q, y, In>>
  OBVIOUS
<1>2. Walks(<<p, x, In>>, 1) /\ Walks(<<q, y, In>>, 1)
  BY OpenAfter, OpenAfter, PlainOne, Zenon
<1>3. 1 \in Int /\ 1 \in Int /\ 1 + 1 = 2
  OBVIOUS
<1>4. Walks(<<p, x, In>> \o <<q, y, In>>, 1 + 1)
  BY <1>2, <1>3, WalksConcat
<1> QED
  BY <1>1, <1>3, <1>4

(* Three words in brackets.                                                 *)
LEMMA BracketThree ==
    ASSUME NEW x \in Opening, NEW p \in Plain, NEW q \in Plain, NEW r \in Plain, NEW y \in Closing
    PROVE  Walks(<<x, In, p, q, r, Out, y>>, 0)
<1>1. <<x, In, p, q, r, Out, y>> = <<x, In>> \o <<p, q, r, Out, y>>
  OBVIOUS
<1>2. Walks(<<x, In>>, 1) /\ Walks(<<p, q, r, Out, y>>, -1)
  BY OpenWalks, CloseAfterThree, PlainOne, Zenon
<1>3. 1 \in Int /\ -1 \in Int /\ 1 + -1 = 0
  OBVIOUS
<1>4. Walks(<<x, In>> \o <<p, q, r, Out, y>>, 1 + -1)
  BY <1>2, <1>3, WalksConcat
<1> QED
  BY <1>1, <1>3, <1>4

(* Which brackets open and which close.                                     *)
LEMMA Brackets ==
    /\ "[" \in Opening /\ "{" \in Opening /\ "]" \in Closing /\ "}" \in Closing
BY Zenon DEF Opening, Closing

(* Three walks one after the other.                                         *)
LEMMA WalksThree ==
    ASSUME NEW a, NEW b, NEW c, NEW d \in Int, NEW e \in Int, NEW f \in Int,
           Walks(a, d), Walks(b, e), Walks(c, f)
    PROVE  Walks(a \o b \o c, d + e + f)
<1>1. Walks(a \o b, d + e)
  BY WalksConcat
<1> QED
  BY <1>1, d + e \in Int, WalksConcat

----------------------------------------------------------------------------
(* The functions of write.c.                                                *)

(* Each element of a list printed, one after the other.                     *)
LEMMA EachWalks ==
    ASSUME NEW list, IsSeq(list), NEW ss, DOMAIN ss = DOMAIN list,
           ss = [i \in DOMAIN ss |-> ss[i]], NEW d \in {0, 1, -1},
           \A i \in DOMAIN list : Walks(ss[i], d)
    PROVE  Walks(FlattenSeq(ss), Len(list) * d)
<1>1. Len(list) \in Nat /\ DOMAIN list = 1 .. Len(list)
  BY SeqLen
<1>2. IsSeq(ss) /\ Len(ss) = Len(list)
  BY <1>1, SeqMade
<1>3. \A i \in 1 .. Len(ss) : Walks(ss[i], d)
  BY <1>1, <1>2
<1>4. Walks(FlattenSeq(ss), Len(ss) * d)
  BY <1>2, <1>3, FlattenWalks
<1> QED
  BY <1>2, <1>4

(* Nothing printed leads nowhere.                                           *)
LEMMA EmptyWalks == Walks(<<>>, 0)
<1>1. <<>> \in Seq(Plain)
  OBVIOUS
<1> QED
  BY <1>1, PlainWalks

(* printVal ends as deep as it began.                                       *)
LEMMA ValWalks == ASSUME NEW v PROVE Walks(printVal(v), 0)
<1>1. Walks(<<"type", "val">>, 0)
  BY PlainSteps, PlainTwo, Zenon
<1> QED
  BY <1>1, Zenon DEF printVal

(* So does printColVal.                                                     *)
LEMMA ColValWalks == ASSUME NEW cv PROVE Walks(printColVal(cv), 0)
<1>1. Walks(<<"{", In, "Column">>, 1)
  BY PlainSteps, Brackets, OpenBefore, Zenon
<1>2. Walks(<<Out, "}">>, -1)
  BY Brackets, CloseWalks, Zenon
<1>3. Walks(printVal(cv.val), 0)
  BY ValWalks
<1>4. 1 \in Int /\ 0 \in Int /\ -1 \in Int /\ 1 + 0 + (-1) = 0
  OBVIOUS
<1>5. Walks(<<"{", In, "Column">> \o printVal(cv.val) \o <<Out, "}">>, 1 + 0 + (-1))
  BY <1>1, <1>2, <1>3, <1>4, WalksThree, Zenon
<1> QED
  BY <1>4, <1>5, Zenon DEF printColVal

(* So does the printing of a row.                                           *)
LEMMA RowWalks ==
    ASSUME NEW row, IsSeq(row)
    PROVE  Walks(Each(row, printColVal), 0)
<1> DEFINE ss == [i \in DOMAIN row |-> printColVal(row[i])]
<1>1. DOMAIN ss = DOMAIN row /\ ss = [i \in DOMAIN ss |-> ss[i]]
  OBVIOUS
<1>2. \A i \in DOMAIN row : Walks(ss[i], 0)
  BY ColValWalks
<1>3. Each(row, printColVal) = FlattenSeq(ss)
  BY DEF Each
<1>4. Len(row) \in Nat
  BY SeqLen
<1> HIDE DEF ss
<1>5. Walks(FlattenSeq(ss), Len(row) * 0)
  BY <1>1, <1>2, EachWalks
<1>6. Len(row) * 0 = 0
  BY <1>4
<1> QED
  BY <1>3, <1>5, <1>6

(* The first step of two walks is that of the first.                        *)
LEMMA FirstOf ==
    ASSUME NEW a \in Seq(Steps), NEW b \in Seq(Steps), Len(a) # 0
    PROVE  a \o b \in Seq(Steps) /\ (a \o b)[1] = a[1] /\ Len(a \o b) # 0
OBVIOUS

(* A walk in brackets behind a word or two.                                 *)
LEMMA BracketWalks ==
    ASSUME NEW p \in Plain, NEW q \in Plain, NEW b, Walks(b, 0), NEW x \in Opening, NEW y \in Closing
    PROVE  /\ Walks(<<p, q, x, In>> \o b \o <<Out, y>>, 0)
           /\ Walks(<<p, x, In>> \o b \o <<Out, y>>, 0)
           /\ (<<p, q, x, In>> \o b \o <<Out, y>>)[1] = p
           /\ Len(<<p, q, x, In>> \o b \o <<Out, y>>) # 0
<1>1. Walks(<<p, q, x, In>>, 1) /\ Walks(<<p, x, In>>, 1) /\ Walks(<<Out, y>>, -1)
  BY OpenAfter, OpenAfterTwo, CloseWalks
<1>2. 1 + 0 + (-1) = 0 /\ 1 \in Int /\ 0 \in Int /\ -1 \in Int
  OBVIOUS
<1>3. Walks(<<p, q, x, In>> \o b \o <<Out, y>>, 1 + 0 + (-1))
  BY <1>1, <1>2, WalksThree
<1>4. Walks(<<p, x, In>> \o b \o <<Out, y>>, 1 + 0 + (-1))
  BY <1>1, <1>2, WalksThree
<1>5. b \in Seq(Steps) /\ Out \in Steps /\ y \in Steps
  BY Zenon DEF Walks, Steps, Closing
<1>6. <<p, q, x, In>> \in Seq(Steps)
  BY <1>1, Zenon DEF Walks
<1> DEFINE t == <<p, q, x, In>>
           u == <<Out, y>>
<1>7. Len(t) = 4 /\ t[1] = p /\ t \in Seq(Steps) /\ u \in Seq(Steps)
  BY <1>5, <1>6
<1> HIDE DEF t, u
<1>8. (t \o b \o u)[1] = p /\ Len(t \o b \o u) # 0
  <2>1. t \o b \in Seq(Steps) /\ (t \o b)[1] = p /\ Len(t \o b) # 0
    BY <1>5, <1>7, Len(t) # 0, FirstOf
  <2> QED
    BY <1>7, <2>1, FirstOf
<1> QED
  BY <1>2, <1>3, <1>4, <1>8 DEF t, u

(* The rows of an INSERT end as deep as they begin.                         *)
LEMMA RowsWalk ==
    ASSUME NEW rows, IsSeq(rows), \A i \in DOMAIN rows : IsSeq(rows[i])
    PROVE  Walks(Each(rows, LAMBDA row :
                   <<"Vals", "[", In>> \o Each(row, printColVal) \o <<Out, "]">>), 0)
<1> DEFINE Row(row) == <<"Vals", "[", In>> \o Each(row, printColVal) \o <<Out, "]">>
           ss == [i \in DOMAIN rows |-> Row(rows[i])]
<1>1. ASSUME NEW row, IsSeq(row) PROVE Walks(Row(row), 0)
  <2>1. Walks(Each(row, printColVal), 0)
    BY <1>1, RowWalks
  <2>2. "Vals" \in Plain /\ "[" \in Opening /\ "]" \in Closing
    BY PlainSteps, Brackets, Zenon
  <2> QED
    BY <2>1, <2>2, BracketWalks, Zenon
<1>2. Each(rows, LAMBDA row :
                   <<"Vals", "[", In>> \o Each(row, printColVal) \o <<Out, "]">>) = FlattenSeq(ss)
  BY Zenon DEF Each
<1> HIDE DEF Row
<1>3. DOMAIN ss = DOMAIN rows /\ ss = [i \in DOMAIN ss |-> ss[i]]
  OBVIOUS
<1>4. \A i \in DOMAIN rows : Walks(ss[i], 0)
  BY <1>1
<1>5. Len(rows) \in Nat
  BY SeqLen
<1> HIDE DEF ss
<1>6. Walks(FlattenSeq(ss), Len(rows) * 0)
  BY <1>3, <1>4, EachWalks
<1>7. Len(rows) * 0 = 0
  BY <1>5
<1>8. Walks(FlattenSeq(ss), 0)
  BY <1>6, <1>7
<1> QED
  BY <1>2, <1>8, Zenon

(* So do the columns of a CREATE.                                           *)
LEMMA ColumnsWalk ==
    ASSUME NEW cols, IsSeq(cols)
    PROVE  Walks(Each(cols, LAMBDA col : <<"{", In, "Column", "type", "size", Out, "}">>), 0)
<1> DEFINE step == <<"{", In, "Column", "type", "size", Out, "}">>
           ss == [i \in DOMAIN cols |-> step]
<1>1. Walks(step, 0)
  BY PlainSteps, Brackets, BracketThree, Zenon
<1>2. Each(cols, LAMBDA col : <<"{", In, "Column", "type", "size", Out, "}">>) = FlattenSeq(ss)
  BY Zenon DEF Each
<1> HIDE DEF step
<1>3. DOMAIN ss = DOMAIN cols /\ ss = [i \in DOMAIN ss |-> ss[i]]
  OBVIOUS
<1>4. \A i \in DOMAIN cols : Walks(ss[i], 0)
  BY <1>1
<1>5. Len(cols) \in Nat
  BY SeqLen
<1> HIDE DEF ss
<1>6. Walks(FlattenSeq(ss), Len(cols) * 0)
  BY <1>3, <1>4, EachWalks
<1>7. Len(cols) * 0 = 0
  BY <1>5
<1>8. Walks(FlattenSeq(ss), 0)
  BY <1>6, <1>7
<1> QED
  BY <1>2, <1>8, Zenon

(* So does a condition.                                                     *)
LEMMA ConditionWalks == ASSUME NEW cond PROVE Walks(printCondition(cond), 0)
<1> DEFINE a == <<"condition", "{", In, "Column", "{", In>>
           b == IF cond.column.row_name # NULL THEN <<"row_name">> ELSE <<>>
           c == <<"col_name", Out, "}">>
           d == IF cond.comp_type = LIKE_COMP THEN <<>> ELSE <<"comp_type">>
           e == <<"val", "{", In>>
           f == printVal(cond.value)
           g == <<Out, "}", Out, "}">>
<1>1. /\ "condition" \in Plain /\ "Column" \in Plain /\ "row_name" \in Plain /\ "col_name" \in Plain
      /\ "comp_type" \in Plain /\ "val" \in Plain /\ "{" \in Opening /\ "}" \in Closing
  BY PlainSteps, Brackets, Zenon
<1>2. Walks(a, 2)
  BY <1>1, OpenTwice, Zenon
<1>3. Walks(b, 0)
  BY <1>1, PlainOne, EmptyWalks, Zenon
<1>4. Walks(c, -1)
  BY <1>1, CloseAfter, Zenon
<1>5. Walks(d, 0)
  BY <1>1, PlainOne, EmptyWalks, Zenon
<1>6. Walks(e, 1)
  BY <1>1, OpenAfter, Zenon
<1>7. Walks(f, 0)
  BY ValWalks
<1>8. Walks(g, -2)
  BY <1>1, CloseTwice, Zenon
<1>9. printCondition(cond) = a \o b \o c \o d \o e \o f \o g
  BY Zenon DEF printCondition
<1> HIDE DEF a, b, c, d, e, f, g
<1>10. /\ 2 \in Int /\ 0 \in Int /\ -1 \in Int /\ 1 \in Int /\ -2 \in Int
       /\ 2 + 0 + (-1) = 1 /\ 1 + 0 + 1 = 2 /\ 2 + 0 + (-2) = 0
  OBVIOUS
<1>11. Walks(a \o b \o c, 1)
  <2>1. Walks(a \o b \o c, 2 + 0 + (-1))
    BY <1>2, <1>3, <1>4, <1>10, WalksThree, Zenon
  <2> QED
    BY <1>10, <2>1, Zenon
<1>12. Walks(a \o b \o c \o d \o e, 2)
  <2>1. Walks(a \o b \o c \o d \o e, 1 + 0 + 1)
    BY <1>11, <1>5, <1>6, <1>10, WalksThree
  <2> QED
    BY <1>10, <2>1, Zenon
<1>13. Walks(a \o b \o c \o d \o e \o f \o g, 0)
  <2>1. Walks(a \o b \o c \o d \o e \o f \o g, 2 + 0 + (-2))
    BY <1>12, <1>7, <1>8, <1>10, WalksThree
  <2> QED
    BY <1>10, <2>1, Zenon
<1> QED
  BY <1>9, <1>13

(* So does a compound condition, of any number of parts.                    *)
LEMMA CompoundWalks ==
    ASSUME NEW c_cond, IsSeq(c_cond)
    PROVE  Walks(printCompoundCondition(c_cond), 0)
<1> DEFINE Part(i) == (IF i = 1 THEN <<>> ELSE <<"operation">>)
                        \o <<"compound_condition", "{", In>> \o printCondition(c_cond[i].left)
           end == <<Out, "}">>
           ss == [i \in DOMAIN c_cond |-> Part(i)]
           tt == [i \in DOMAIN c_cond |-> end]
<1>1. ASSUME NEW i PROVE Walks(Part(i), 1)
  <2>1. "compound_condition" \in Plain /\ "operation" \in Plain /\ "{" \in Opening
    BY PlainSteps, Brackets, Zenon
  <2>2. Walks(IF i = 1 THEN <<>> ELSE <<"operation">>, 0)
    BY <2>1, EmptyWalks, PlainOne, Zenon
  <2>3. Walks(<<"compound_condition", "{", In>>, 1)
    BY <2>1, OpenAfter, Zenon
  <2>4. Walks(printCondition(c_cond[i].left), 0)
    BY ConditionWalks
  <2>5. 0 \in Int /\ 1 \in Int /\ 0 + 1 + 0 = 1
    OBVIOUS
  <2>6. Walks(Part(i), 0 + 1 + 0)
    BY <2>2, <2>3, <2>4, <2>5, WalksThree, Zenon
  <2> QED
    BY <2>5, <2>6, Zenon
<1>2. Walks(end, -1)
  BY Brackets, CloseWalks, Zenon
<1>3. printCompoundCondition(c_cond) = FlattenSeq(ss) \o FlattenSeq(tt)
  BY Zenon DEF printCompoundCondition, Each
<1> HIDE DEF Part, end
<1>4. /\ DOMAIN ss = DOMAIN c_cond /\ ss = [i \in DOMAIN ss |-> ss[i]]
      /\ DOMAIN tt = DOMAIN c_cond /\ tt = [i \in DOMAIN tt |-> tt[i]]
  OBVIOUS
<1>5. (\A i \in DOMAIN c_cond : Walks(ss[i], 1)) /\ \A i \in DOMAIN c_cond : Walks(tt[i], -1)
  BY <1>1, <1>2
<1>6. Len(c_cond) \in Nat
  BY SeqLen
<1> HIDE DEF ss, tt
<1>7. Walks(FlattenSeq(ss), Len(c_cond) * 1)
  BY <1>4, <1>5, EachWalks
<1>8. Walks(FlattenSeq(tt), Len(c_cond) * (-1))
  BY <1>4, <1>5, -1 \in {0, 1, -1}, EachWalks
<1>9. /\ Len(c_cond) * 1 \in Int /\ Len(c_cond) * (-1) \in Int
      /\ Len(c_cond) * 1 + Len(c_cond) * (-1) = 0
  BY <1>6
<1>10. Walks(FlattenSeq(ss) \o FlattenSeq(tt), Len(c_cond) * 1 + Len(c_cond) * (-1))
  BY <1>7, <1>8, <1>9, WalksConcat, Zenon
<1>11. Walks(FlattenSeq(ss) \o FlattenSeq(tt), 0)
  BY <1>9, <1>10, Zenon
<1> QED
  BY <1>3, <1>11

(* The steps of a statement, by its type.                                   *)
StepsOf(stmt) ==
    CASE stmt.st_type = CREATE_STMT -> printCreate(stmt)
      [] stmt.st_type = DROP_STMT -> printDrop(stmt)
      [] stmt.st_type = INSERT_STMT -> printInsert(stmt)
      [] stmt.st_type = DELETE_STMT -> printDelete(stmt)
      [] stmt.st_type = SELECT_STMT -> printSelect(stmt)
      [] stmt.st_type = UPDATE_STMT -> printUpdate(stmt)

(* A walk that begins with a word and ends as deep as it began.             *)
Neat(steps) == Walks(steps, 0) /\ Len(steps) # 0 /\ steps[1] \in Plain

(* The word Table alone.                                                    *)
LEMMA TableNeat == Neat(<<"Table">>)
<1>1. "Table" \in Plain
  BY PlainSteps, Zenon
<1>2. ASSUME NEW p \in Plain PROVE Neat(<<p>>)
  <2>1. Len(<<p>>) # 0 /\ <<p>>[1] = p
    OBVIOUS
  <2> QED
    BY <2>1, PlainOne DEF Neat
<1> QED
  BY <1>1, <1>2, Zenon

(* Brackets behind two words, with a walk in them.                          *)
LEMMA BracketsNeat ==
    ASSUME NEW p \in Plain, NEW q \in Plain, NEW b, Walks(b, 0), NEW x \in Opening, NEW y \in Closing
    PROVE  Neat(<<p, q, x, In>> \o b \o <<Out, y>>)
<1>1. Walks(<<p, q, x, In>> \o b \o <<Out, y>>, 0)
  BY BracketWalks
<1>2. (<<p, q, x, In>> \o b \o <<Out, y>>)[1] = p /\ Len(<<p, q, x, In>> \o b \o <<Out, y>>) # 0
  BY BracketWalks
<1> QED
  BY <1>1, <1>2, Zenon DEF Neat

(* A walk behind a neat one.                                                *)
LEMMA NeatConcat ==
    ASSUME NEW a, NEW b, Neat(a), Walks(b, 0)
    PROVE  Neat(a \o b)
<1>1. Walks(a \o b, 0)
  <2>1. 0 + 0 = 0 /\ 0 \in Int
    OBVIOUS
  <2>2. Walks(a \o b, 0 + 0)
    BY <2>1, WalksConcat, Zenon DEF Neat
  <2> QED
    BY <2>1, <2>2, Zenon
<1>2. a \in Seq(Steps) /\ b \in Seq(Steps) /\ Len(a) # 0
  BY Zenon DEF Neat, Walks
<1>3. (a \o b)[1] = a[1] /\ Len(a \o b) # 0
  BY <1>2
<1> QED
  BY <1>1, <1>3, Zenon DEF Neat

----------------------------------------------------------------------------
(* What a walk prints.                                                      *)

(* PrintedNested of an output o.                                            *)
Nested(o) ==
    \A n \in DOMAIN o :
        o[n].tabs - o[1].tabs
          = Cardinality({i \in DOMAIN o : i < n /\ o[i].text \in Opening})
            - Cardinality({i \in DOMAIN o : i < n + 1 /\ o[i].text \in Closing})

(* Nested is what PrintedNested says of the output.                         *)
LEMMA NestedIsPrintedNested == PrintedNested <=> Nested(out)
<1>1. \A n : LinesBefore(n, {"[", "{"}) = Cardinality({i \in DOMAIN out : i < n /\ out[i].text \in Opening})
  BY Zenon DEF LinesBefore, Opening
<1>2. \A n : LinesBefore(n + 1, {"]", "}"}) = Cardinality({i \in DOMAIN out : i < n + 1 /\ out[i].text \in Closing})
  BY Zenon DEF LinesBefore, Closing
<1> QED
  BY <1>1, <1>2, Zenon DEF PrintedNested, Nested

(* Where Printed puts its lines, and how deep.                              *)
LEMMA PrintedLines ==
    ASSUME NEW s \in Seq(Steps), NEW t \in Int
    PROVE  LET p == Printed(s, t)
           IN  /\ DOMAIN p.out = {i \in 1 .. Len(s) : s[i] # In /\ s[i] # Out}
               /\ \A n \in DOMAIN p.out :
                     p.out[n].text = s[n] /\ p.out[n].tabs = t + Depth(s, n)
               /\ p.tabs = t + Depth(s, Len(s) + 1)
<1>1. \A x : x \in {In, Out} <=> x = In \/ x = Out
  OBVIOUS
<1>2. DOMAIN s = 1 .. Len(s)
  OBVIOUS
<1> DEFINE D == {i \in DOMAIN s : s[i] \notin {In, Out}}
<1>3. D = {i \in 1 .. Len(s) : s[i] # In /\ s[i] # Out}
  BY <1>1, <1>2
<1> DEFINE o == [n \in D |-> [text |-> s[n], tabs |-> t + Depth(s, n)]]
<1>4. Printed(s, t) = [out |-> o, tabs |-> t + Depth(s, Len(s) + 1)]
  BY Zenon DEF Printed
<1> HIDE DEF D
<1>5. DOMAIN o = D /\ \A n \in D : o[n].text = s[n] /\ o[n].tabs = t + Depth(s, n)
  OBVIOUS
<1> HIDE DEF o
<1>6. Printed(s, t).out = o /\ Printed(s, t).tabs = t + Depth(s, Len(s) + 1)
  BY <1>4
<1> QED
  BY <1>3, <1>5, <1>6

(* There are finitely many steps before one.                                *)
LEMMA BeforeFinite ==
    ASSUME NEW s \in Seq(Steps), NEW n \in Int, NEW x
    PROVE  LET T == {i \in 1 .. n - 1 : s[i] = x}
           IN  IsFiniteSet(T) /\ Cardinality(T) \in Nat
<1> DEFINE T == {i \in 1 .. n - 1 : s[i] = x}
<1>1. IsFiniteSet(1 .. n - 1)
  BY n - 1 \in Int, 1 \in Int, FS_Interval
<1>2. T \subseteq 1 .. n - 1
  OBVIOUS
<1> HIDE DEF T
<1>3. IsFiniteSet(T) /\ Cardinality(T) \in Nat
  BY <1>1, <1>2, FS_Subset, FS_CardinalityType
<1> QED
  BY <1>3 DEF T

(* The depth of a line is the number of brackets open around it.            *)
LEMMA DepthIsOpen ==
    ASSUME NEW s \in Seq(Steps), Paired(s), NEW n \in 1 .. Len(s), s[n] # In, s[n] # Out
    PROVE  Depth(s, n) = Cardinality({i \in 1 .. n - 1 : s[i] \in Opening})
                         - Cardinality({i \in 1 .. n : s[i] \in Closing})
<1> DEFINE I == {i \in 1 .. n - 1 : s[i] = In}
           O == {i \in 1 .. n - 1 : s[i] \in Opening}
           U == {i \in 1 .. n - 1 : s[i] = Out}
           C == {i \in 1 .. n : s[i] \in Closing}
<1>0. Len(s) \in Nat /\ n \in Nat /\ n <= Len(s) /\ n >= 1
  OBVIOUS
<1>1. IsFiniteSet(I) /\ IsFiniteSet(U)
  <2>1. n \in Int
    OBVIOUS
  <2> QED
    BY <2>1, BeforeFinite
<1>2. ASSUME NEW i \in I PROVE i + (-1) \in O
  <2>1. i \in 1 .. Len(s) /\ s[i] = In /\ i <= n - 1
    BY <1>0
  <2>2. i # 1 /\ s[i - 1] \in Opening
    BY <2>1 DEF Paired
  <2>3. i + (-1) = i - 1 /\ i - 1 \in 1 .. n - 1
    BY <1>0, <2>1, <2>2
  <2> QED
    BY <2>2, <2>3
<1>3. ASSUME NEW i \in O PROVE i - (-1) \in I
  <2>1. i \in 1 .. n - 1 /\ s[i] \in Opening
    OBVIOUS
  <2>2. i + 1 \in 1 .. Len(s) /\ i + 1 # 1 /\ (i + 1) - 1 = i /\ i - (-1) = i + 1
    BY <1>0, <2>1
  <2>3. s[i + 1] = In
    BY <2>1, <2>2 DEF Paired
  <2>4. i + 1 # n /\ i + 1 \in 1 .. n - 1
    BY <1>0, <2>1, <2>3
  <2> QED
    BY <2>2, <2>3, <2>4
<1>4. ASSUME NEW i \in U PROVE i + 1 \in C
  <2>1. i \in 1 .. n - 1 /\ s[i] = Out
    OBVIOUS
  <2>2. i + 1 \in 1 .. Len(s) /\ i + 1 # 1 /\ (i + 1) - 1 = i /\ i + 1 \in 1 .. n
    BY <1>0, <2>1
  <2>3. s[i + 1] \in Closing
    BY <2>1, <2>2 DEF Paired
  <2> QED
    BY <2>2, <2>3
<1>5. ASSUME NEW i \in C PROVE i - 1 \in U
  <2>1. i \in 1 .. Len(s) /\ s[i] \in Closing /\ i \in 1 .. n
    BY <1>0
  <2>2. i # 1 /\ s[i - 1] = Out
    BY <2>1 DEF Paired
  <2>3. i - 1 \in 1 .. n - 1
    BY <1>0, <2>1, <2>2
  <2> QED
    BY <2>2, <2>3
<1>6. I \in SUBSET Int /\ O \in SUBSET Int /\ U \in SUBSET Int /\ C \in SUBSET Int
  BY <1>0
<1>7. Depth(s, n) = Cardinality(I) - Cardinality(U)
  BY DEF Depth
<1> HIDE DEF I, O, U, C
<1>8. Cardinality(O) = Cardinality(I)
  BY <1>1, <1>2, <1>3, <1>6, -1 \in Int, ShiftCount, Zenon
<1>9. Cardinality(C) = Cardinality(U)
  BY <1>1, <1>4, <1>5, <1>6, 1 \in Int, ShiftCount, Zenon
<1> QED
  BY <1>7, <1>8, <1>9 DEF O, C

(* What is neat is printed nested, and leaves the tabs as they were.        *)
LEMMA NeatNested ==
    ASSUME NEW s, Neat(s), NEW t \in Int
    PROVE  Nested(Printed(s, t).out) /\ Printed(s, t).tabs = t
<1> DEFINE p == Printed(s, t)
           o == p.out
<1>1. s \in Seq(Steps) /\ Paired(s) /\ Moves(s, In) - Moves(s, Out) = 0
  BY Zenon DEF Neat, Walks
<1>2. /\ DOMAIN o = {i \in 1 .. Len(s) : s[i] # In /\ s[i] # Out}
      /\ \A n \in DOMAIN o : o[n].text = s[n] /\ o[n].tabs = t + Depth(s, n)
      /\ p.tabs = t + Depth(s, Len(s) + 1)
  BY <1>1, PrintedLines
<1>3. Depth(s, Len(s) + 1) = Moves(s, In) - Moves(s, Out)
  <2>1. 1 .. (Len(s) + 1) - 1 = 1 .. Len(s)
    BY <1>1
  <2> QED
    BY <2>1, Zenon DEF Depth, Moves
<1>4. p.tabs = t
  <2> HIDE DEF p
  <2> QED
    BY <1>1, <1>2, <1>3
<1> HIDE DEF o, p
<1>5. Len(s) \in Nat /\ 1 \in 1 .. Len(s)
  <2>1. Len(s) # 0
    BY Zenon DEF Neat
  <2> QED
    BY <1>1, <2>1
<1>6. 1 \in DOMAIN o /\ o[1].tabs = t
  <2>1. s[1] # In /\ s[1] # Out
    BY Zenon DEF Neat, Plain
  <2>2. Depth(s, 1) = 0
    <3>1. {i \in 1 .. 1 - 1 : s[i] = In} = {} /\ {i \in 1 .. 1 - 1 : s[i] = Out} = {}
      OBVIOUS
    <3>2. Cardinality({}) = 0 /\ 0 - 0 = 0
      BY FS_EmptySet
    <3> QED
      BY <3>1, <3>2, Zenon DEF Depth
  <2>3. 1 \in DOMAIN o
    BY <1>2, <1>5, <2>1
  <2> QED
    BY <1>2, <2>2, <2>3
<1>7. ASSUME NEW n \in DOMAIN o
      PROVE  o[n].tabs - o[1].tabs
               = Cardinality({i \in DOMAIN o : i < n /\ o[i].text \in Opening})
                 - Cardinality({i \in DOMAIN o : i < n + 1 /\ o[i].text \in Closing})
  <2>1. n \in 1 .. Len(s) /\ s[n] # In /\ s[n] # Out
    BY <1>2
  <2>2. Depth(s, n) = Cardinality({i \in 1 .. n - 1 : s[i] \in Opening})
                         - Cardinality({i \in 1 .. n : s[i] \in Closing})
    BY <1>1, <2>1, DepthIsOpen
  <2>3. {i \in DOMAIN o : i < n /\ o[i].text \in Opening} = {i \in 1 .. n - 1 : s[i] \in Opening}
    BY <1>2, <1>5, <2>1, StepsDiffer
  <2>4. {i \in DOMAIN o : i < n + 1 /\ o[i].text \in Closing} = {i \in 1 .. n : s[i] \in Closing}
    BY <1>2, <1>5, <2>1, StepsDiffer
  <2>5. Depth(s, n) \in Int
    <3>1. n \in Int
      BY <2>1
    <3>2. Cardinality({i \in 1 .. n - 1 : s[i] = In}) \in Nat
      BY <1>1, <3>1, BeforeFinite
    <3>3. Cardinality({i \in 1 .. n - 1 : s[i] = Out}) \in Nat
      BY <1>1, <3>1, BeforeFinite
    <3> QED
      BY <3>2, <3>3 DEF Depth
  <2>6. o[n].tabs - o[1].tabs = Depth(s, n)
    BY <1>2, <1>6, <2>5
  <2> QED
    BY <2>2, <2>3, <2>4, <2>6
<1>8. Nested(o)
  BY <1>7, Zenon DEF Nested
<1> QED
  BY <1>4, <1>8 DEF o, p

(* DROP prints one line and an Out; it is nested, although it leaves one    *)
(* tab less.                                                                *)
LEMMA DropNested ==
    ASSUME NEW p \in Plain, NEW t \in Int
    PROVE  Nested(Printed(<<p, Out>>, t).out) /\ Printed(<<p, Out>>, t).tabs = t - 1
<1> DEFINE s == <<p, Out>>
           o == Printed(s, t).out
<1>1. p \in Steps /\ Out \in Steps /\ p # In /\ p # Out /\ p \notin Opening /\ p \notin Closing
  BY Zenon DEF Plain, Steps
<1>2. s \in Seq(Steps) /\ Len(s) = 2 /\ s[1] = p /\ s[2] = Out /\ 1 .. 2 = {1, 2} /\ 1 .. 1 = {1}
  BY <1>1, PairOf
<1> HIDE DEF s
<1>3. /\ DOMAIN o = {i \in 1 .. Len(s) : s[i] # In /\ s[i] # Out}
      /\ \A n \in DOMAIN o : o[n].text = s[n] /\ o[n].tabs = t + Depth(s, n)
      /\ Printed(s, t).tabs = t + Depth(s, Len(s) + 1)
  BY <1>2, PrintedLines
<1> HIDE DEF o
<1>4. DOMAIN o = {1}
  BY <1>1, <1>2, <1>3
<1>5. Cardinality({}) = 0 /\ Cardinality({2}) = 1 /\ 0 - 0 = 0
  <2>1. Cardinality({}) = 0
    BY FS_EmptySet
  <2>2. Cardinality({2}) = 1
    BY FS_Singleton
  <2>3. 0 - 0 = 0
    OBVIOUS
  <2> QED
    BY <2>1, <2>2, <2>3
<1>6. Depth(s, 1) = 0
  <2>1. {i \in 1 .. 1 - 1 : s[i] = In} = {} /\ {i \in 1 .. 1 - 1 : s[i] = Out} = {}
    OBVIOUS
  <2> QED
    BY <1>5, <2>1, Zenon DEF Depth
<1>7. Depth(s, Len(s) + 1) = -1
  <2>1. {i \in 1 .. (Len(s) + 1) - 1 : s[i] = In} = {}
    BY <1>1, <1>2, StepsDiffer
  <2>2. {i \in 1 .. (Len(s) + 1) - 1 : s[i] = Out} = {2}
    BY <1>1, <1>2, StepsDiffer
  <2>3. 0 - 1 = -1
    OBVIOUS
  <2> QED
    BY <1>5, <2>1, <2>2, <2>3, Zenon DEF Depth
<1>8. Printed(s, t).tabs = t - 1
  BY <1>3, <1>7
<1>9. ASSUME NEW n \in DOMAIN o
      PROVE  o[n].tabs - o[1].tabs
               = Cardinality({i \in DOMAIN o : i < n /\ o[i].text \in Opening})
                 - Cardinality({i \in DOMAIN o : i < n + 1 /\ o[i].text \in Closing})
  <2>1. n = 1 /\ o[1].text = p /\ o[1].tabs = t + 0
    BY <1>2, <1>3, <1>4, <1>6
  <2>2. {i \in DOMAIN o : i < n /\ o[i].text \in Opening} = {}
    BY <1>4, <2>1
  <2>3. {i \in DOMAIN o : i < n + 1 /\ o[i].text \in Closing} = {}
    BY <1>1, <1>4, <2>1
  <2>4. o[n].tabs - o[1].tabs = 0
    BY <2>1
  <2> QED
    BY <1>5, <2>2, <2>3, <2>4, Zenon
<1>10. Nested(o)
  BY <1>9, Zenon DEF Nested
<1> QED
  BY <1>8, <1>10 DEF o, s

(* A list of the grammar is a sequence, and not empty.                      *)
LEMMA ListIsSeq ==
    ASSUME NEW S, NEW list \in ListOf(S)
    PROVE  IsSeq(list) /\ Len(list) # 0 /\ \A i \in 1 .. Len(list) : list[i] \in S
<1>1. list \in Seq(S) /\ list # <<>>
  BY DEF ListOf
<1> QED
  BY <1>1, SeqIs

(* A line of the grammar is one of these.                                   *)
LEMMA GrammarCases ==
    ASSUME NEW l \in Grammar
    PROVE  \/ l.op = "CREATE" /\ l.table \in Names /\ l.columns \in ListOf(ColumnDefinitions)
           \/ l.op = "DROP" /\ l.table \in Names
           \/ l.op = "ADD" /\ l.table \in Names /\ l.rows \in ListOf(ListOf(ColumnValues))
           \/ l.op = "REMOVE" /\ l.table \in Names /\ l.where \in Wheres({NULL})
           \/ l.op = "UPDATE" /\ l.table \in Names /\ l.row \in ListOf(ColumnValues)
                /\ l.where \in Wheres({NULL})
           \/ l.op = "SELECT"
BY DEF Grammar

(* parse_statement by the kind of line.                                     *)
LEMMA ParseCases ==
    ASSUME NEW l
    PROVE  /\ l.op = "CREATE" => parse_statement(l) = createCreateStatement(l.table,
               [i \in DOMAIN l.columns |-> columnDefinition(l.columns[i])])
           /\ l.op = "DROP" => parse_statement(l) = createDropStatement(l.table)
           /\ l.op = "ADD" =>
                parse_statement(l) = createInsertStatement(l.table, insertList(l.rows))
           /\ l.op = "REMOVE" =>
                parse_statement(l) = createDeleteStatement(l.table, compound_condition(l.where))
           /\ l.op = "UPDATE" =>
                parse_statement(l) = createUpdateStatement(l.table, columnValueList(l.row),
                                                         compound_condition(l.where))
           /\ l.op = "SELECT" =>
                parse_statement(l) = createSelectStatement(l.table, l.row, joinStatement(l.join),
                                 compound_condition(l.where),
                                 selectList(l.select))
BY Zenon DEF parse_statement

----------------------------------------------------------------------------
(* Every statement of the parser is printed nested.                         *)

(* The statement types that printStatement tells apart.                     *)
StTypes == <<CREATE_STMT, DROP_STMT, SELECT_STMT, UPDATE_STMT, INSERT_STMT, DELETE_STMT>>

(* The steps by the type of the statement.                                  *)
LEMMA StepsOfCases ==
    ASSUME NEW stmt
    PROVE  /\ stmt.st_type = CREATE_STMT => StepsOf(stmt) = printCreate(stmt)
           /\ stmt.st_type = DROP_STMT => StepsOf(stmt) = printDrop(stmt)
           /\ stmt.st_type = INSERT_STMT => StepsOf(stmt) = printInsert(stmt)
           /\ stmt.st_type = DELETE_STMT => StepsOf(stmt) = printDelete(stmt)
           /\ stmt.st_type = SELECT_STMT => StepsOf(stmt) = printSelect(stmt)
           /\ stmt.st_type = UPDATE_STMT => StepsOf(stmt) = printUpdate(stmt)
<1>1. stmt.st_type = CREATE_STMT => StepsOf(stmt) = printCreate(stmt)
  BY DEF StepsOf, CREATE_STMT, DROP_STMT, SELECT_STMT, UPDATE_STMT, INSERT_STMT, DELETE_STMT
<1>2. stmt.st_type = DROP_STMT => StepsOf(stmt) = printDrop(stmt)
  BY DEF StepsOf, CREATE_STMT, DROP_STMT, SELECT_STMT, UPDATE_STMT, INSERT_STMT, DELETE_STMT
<1>3. stmt.st_type = INSERT_STMT => StepsOf(stmt) = printInsert(stmt)
  BY DEF StepsOf, CREATE_STMT, DROP_STMT, SELECT_STMT, UPDATE_STMT, INSERT_STMT, DELETE_STMT
<1>4. stmt.st_type = DELETE_STMT => StepsOf(stmt) = printDelete(stmt)
  BY DEF StepsOf, CREATE_STMT, DROP_STMT, SELECT_STMT, UPDATE_STMT, INSERT_STMT, DELETE_STMT
<1>5. stmt.st_type = SELECT_STMT => StepsOf(stmt) = printSelect(stmt)
  BY DEF StepsOf, CREATE_STMT, DROP_STMT, SELECT_STMT, UPDATE_STMT, INSERT_STMT, DELETE_STMT
<1>6. stmt.st_type = UPDATE_STMT => StepsOf(stmt) = printUpdate(stmt)
  BY DEF StepsOf, CREATE_STMT, DROP_STMT, SELECT_STMT, UPDATE_STMT, INSERT_STMT, DELETE_STMT
<1> QED
  BY <1>1, <1>2, <1>3, <1>4, <1>5, <1>6

(* Every line of the grammar is printed neatly, but DROP.                   *)
LEMMA PrintsNeatly ==
    ASSUME NEW l \in Grammar
    PROVE  \/ Neat(StepsOf(parse_statement(l)))
           \/ l.op = "DROP" /\ StepsOf(parse_statement(l)) = <<"Table", Out>>
<1> DEFINE stmt == parse_statement(l)
<1>0. "Table" \in Plain /\ "Columns" \in Plain /\ "Rows" \in Plain /\ "Row" \in Plain
      /\ "[" \in Opening /\ "]" \in Closing
  BY PlainSteps, Brackets, Zenon
<1>1. CASE l.op = "CREATE" /\ l.columns \in ListOf(ColumnDefinitions)
  <2> DEFINE cols == [i \in DOMAIN l.columns |-> columnDefinition(l.columns[i])]
  <2>1. stmt = createCreateStatement(l.table, cols)
    BY <1>1, ParseCases
  <2>2. IsSeq(cols)
    <3>1. IsSeq(l.columns)
      BY <1>1, ListIsSeq
    <3>2. Len(l.columns) \in Nat /\ DOMAIN cols = 1 .. Len(l.columns)
      BY <3>1, SeqLen
    <3>3. cols = [i \in DOMAIN cols |-> cols[i]]
      OBVIOUS
    <3> HIDE DEF cols
    <3> QED
      BY <3>2, <3>3, SeqMade
  <2> HIDE DEF cols
  <2>3. stmt.st_type = CREATE_STMT /\ stmt.cols = cols
    BY <2>1 DEF createCreateStatement
  <2> HIDE DEF stmt
  <2>4. StepsOf(stmt) = printCreate(stmt)
    BY <2>3, StepsOfCases
  <2>5. Neat(printCreate(stmt))
    BY <1>0, <2>2, <2>3, ColumnsWalk, BracketsNeat, Zenon DEF printCreate
  <2> QED
    BY <2>4, <2>5 DEF stmt
<1>2. CASE l.op = "DROP"
  <2>1. stmt = createDropStatement(l.table)
    BY <1>2, ParseCases
  <2>2. stmt.st_type = DROP_STMT
    BY <2>1 DEF createDropStatement
  <2> HIDE DEF stmt
  <2>3. StepsOf(stmt) = <<"Table", Out>>
    BY <2>2, StepsOfCases DEF printDrop
  <2> QED
    BY <1>2, <2>3 DEF stmt
<1>3. CASE l.op = "ADD" /\ l.rows \in ListOf(ListOf(ColumnValues))
  <2> DEFINE rows == insertList(l.rows)
  <2>1. stmt = createInsertStatement(l.table, rows)
    BY <1>3, ParseCases
  <2>2. IsSeq(l.rows) /\ \A i \in DOMAIN l.rows : IsSeq(l.rows[i])
    <3>1. IsSeq(l.rows) /\ \A i \in 1 .. Len(l.rows) : l.rows[i] \in ListOf(ColumnValues)
      BY <1>3, ListIsSeq
    <3>2. DOMAIN l.rows = 1 .. Len(l.rows)
      BY <3>1, SeqLen
    <3> QED
      BY <3>1, <3>2, ListIsSeq
  <2>3. IsSeq(rows) /\ DOMAIN rows = DOMAIN l.rows
    <3>1. rows = [i \in DOMAIN l.rows |-> columnValueList(l.rows[i])]
      BY DEF insertList
    <3>2. DOMAIN rows = 1 .. Len(l.rows) /\ Len(l.rows) \in Nat /\ rows = [i \in DOMAIN rows |-> rows[i]]
      BY <2>2, <3>1, SeqLen
    <3> HIDE DEF rows
    <3> QED
      BY <3>2, SeqMade, SeqLen, <2>2
  <2>4. ASSUME NEW i \in DOMAIN rows PROVE IsSeq(rows[i])
    <3> DEFINE row == l.rows[i]
               made == [k \in DOMAIN row |-> createColumnValue(row[k].column, value(row[k].value))]
    <3>1. rows[i] = made /\ IsSeq(row)
      BY <2>2, <2>3, <2>4 DEF insertList, columnValueList
    <3>2. DOMAIN made = 1 .. Len(row) /\ Len(row) \in Nat /\ made = [k \in DOMAIN made |-> made[k]]
      BY <3>1, SeqLen
    <3> HIDE DEF made, row
    <3>3. IsSeq(made)
      BY <3>2, SeqMade
    <3> QED
      BY <3>1, <3>3
  <2> HIDE DEF rows
  <2>5. stmt.st_type = INSERT_STMT /\ stmt.rows = rows
    BY <2>1 DEF createInsertStatement
  <2> HIDE DEF stmt
  <2>6. StepsOf(stmt) = printInsert(stmt)
    BY <2>5, StepsOfCases
  <2>7. Neat(printInsert(stmt))
    BY <1>0, <2>3, <2>4, <2>5, RowsWalk, BracketsNeat, Zenon DEF printInsert
  <2> QED
    BY <2>6, <2>7 DEF stmt
<1>4. CASE l.op = "REMOVE"
  <2>1. stmt = createDeleteStatement(l.table, compound_condition(l.where))
    BY <1>4, ParseCases
  <2>2. stmt.st_type = DELETE_STMT
    BY <2>1 DEF createDeleteStatement
  <2> HIDE DEF stmt
  <2>3. StepsOf(stmt) = <<"Table">>
    BY <2>2, StepsOfCases DEF printDelete
  <2> QED
    BY <2>3, TableNeat DEF stmt
<1>5. CASE l.op = "UPDATE" /\ l.row \in ListOf(ColumnValues) /\ l.where \in Wheres({NULL})
  <2> DEFINE row == columnValueList(l.row)
             cond == compound_condition(l.where)
  <2>1. stmt = createUpdateStatement(l.table, row, cond)
    BY <1>5, ParseCases
  <2>2. IsSeq(row)
    <3>1. row = [i \in DOMAIN l.row |-> createColumnValue(l.row[i].column, value(l.row[i].value))]
      BY DEF columnValueList
    <3>2. IsSeq(l.row)
      BY <1>5, ListIsSeq
    <3>3. DOMAIN row = 1 .. Len(l.row) /\ Len(l.row) \in Nat /\ row = [i \in DOMAIN row |-> row[i]]
      BY <3>1, <3>2, SeqLen
    <3> HIDE DEF row
    <3> QED
      BY <3>3, SeqMade
  <2>3. IsSeq(cond)
    <3>1. l.where \in Seq(WhereParts({NULL}))
      BY <1>5 DEF Wheres
    <3>2. IsSeq(l.where)
      BY <3>1, SeqIs
    <3>3. DOMAIN cond = 1 .. Len(l.where) /\ Len(l.where) \in Nat /\ cond = [i \in DOMAIN cond |-> cond[i]]
      BY <3>2, SeqLen DEF compound_condition
    <3> HIDE DEF cond
    <3> QED
      BY <3>3, SeqMade
  <2> HIDE DEF row, cond
  <2>4. stmt.st_type = UPDATE_STMT /\ stmt.colVals = row /\ stmt.cond = cond
    BY <2>1 DEF createUpdateStatement
  <2> HIDE DEF stmt
  <2>5. StepsOf(stmt) = printUpdate(stmt)
    BY <2>4, StepsOfCases
  <2>6. Neat(<<"Table", "Row", "[", In>> \o Each(row, printColVal) \o <<Out, "]">>)
    BY <1>0, <2>2, RowWalks, BracketsNeat, Zenon
  <2>7. Walks(printCompoundCondition(cond), 0)
    BY <2>3, CompoundWalks
  <2>8. Neat(printUpdate(stmt))
    BY <2>4, <2>6, <2>7, NeatConcat, Zenon DEF printUpdate
  <2> QED
    BY <2>5, <2>8 DEF stmt
<1>6. CASE l.op = "SELECT"
  <2>0. stmt = createSelectStatement(l.table, l.row, joinStatement(l.join),
                                     compound_condition(l.where), selectList(l.select))
    BY <1>6, ParseCases, Zenon
  <2> HIDE DEF stmt
  <2>1. stmt.st_type = SELECT_STMT
    BY <2>0 DEF createSelectStatement
  <2>3. StepsOf(stmt) = <<"Table">>
    BY <2>1, StepsOfCases DEF printSelect
  <2> QED
    BY <2>3, TableNeat DEF stmt
<1> QED
  BY <1>1, <1>2, <1>3, <1>4, <1>5, <1>6, GrammarCases

(* printStatement nests the brackets of every line.                         *)
LEMMA StatementPrinted ==
    ASSUME NEW l \in Lines, NEW t \in Int
    PROVE  LET p == printStatement(parse_statement(l), t)
           IN  Nested(p.out) /\ p.tabs \in {t, t + 1}
<1> DEFINE stmt == parse_statement(l)
           p == printStatement(stmt, t)
           s == StepsOf(stmt)
<1>1. l \in Grammar
  BY LinesAssumption
<1>2. p = Printed(s, t + 1)
  BY Zenon DEF printStatement, StepsOf
<1>3. Neat(s) \/ s = <<"Table", Out>>
  BY <1>1, PrintsNeatly
<1> HIDE DEF s, p
<1>4. t + 1 \in Int /\ (t + 1) - 1 = t
  OBVIOUS
<1>5. ASSUME Neat(s) PROVE Nested(p.out) /\ p.tabs \in {t, t + 1}
  <2>1. Nested(Printed(s, t + 1).out) /\ Printed(s, t + 1).tabs = t + 1
    BY <1>4, <1>5, NeatNested
  <2> QED
    BY <1>2, <2>1
<1>6. ASSUME s = <<"Table", Out>> PROVE Nested(p.out) /\ p.tabs \in {t, t + 1}
  <2>1. "Table" \in Plain
    BY PlainSteps, Zenon
  <2>2. Nested(Printed(s, t + 1).out) /\ Printed(s, t + 1).tabs = (t + 1) - 1
    BY <1>4, <1>6, <2>1, DropNested, Zenon
  <2> QED
    BY <1>2, <1>4, <2>2
<1>7. Nested(p.out) /\ p.tabs \in {t, t + 1}
  BY <1>3, <1>5, <1>6
<1> QED
  BY <1>7 DEF p

(* For all lines of the grammar, conditions and lists of any length: the    *)
(* tree that write.c prints has its brackets nested, whatever was printed   *)
(* before.                                                                  *)
THEOREM PrintedAlwaysNested == Spec => []PrintedNested
<1> DEFINE Inv == Nested(out) /\ tabs \in Int
<1>1. Init => Inv
  <2> SUFFICES ASSUME Init PROVE Inv
    OBVIOUS
  <2>1. out = <<>> /\ tabs = 0
    BY DEF Init
  <2>2. DOMAIN <<>> = {}
    OBVIOUS
  <2> QED
    BY <2>1, <2>2 DEF Nested
<1>2. Inv /\ [Next]_vars => Inv'
  <2> SUFFICES ASSUME Inv, [Next]_vars PROVE Inv'
    OBVIOUS
  <2>1. ASSUME NEW l \in Lines, Types(l) PROVE Inv'
    <3>1. /\ out' = printStatement(parse_statement(l), tabs).out
          /\ tabs' = printStatement(parse_statement(l), tabs).tabs
      BY <2>1 DEF Types
    <3>2. tabs \in Int
      OBVIOUS
    <3>3. /\ Nested(printStatement(parse_statement(l), tabs).out)
          /\ printStatement(parse_statement(l), tabs).tabs \in {tabs, tabs + 1}
      BY <3>2, StatementPrinted
    <3>4. tabs' \in Int
      BY <3>1, <3>2, <3>3
    <3> QED
      BY <3>1, <3>3, <3>4
  <2>2. ASSUME Gone PROVE Inv'
    <3>1. out' = <<>> /\ tabs' = 0
      BY <2>2 DEF Gone
    <3>2. DOMAIN <<>> = {}
      OBVIOUS
    <3> QED
      BY <3>1, <3>2 DEF Nested
  <2>3. ASSUME UNCHANGED <<tabs, out>> PROVE Inv'
    BY <2>3 DEF Nested
  <2>4. ASSUME NEW l \in Lines,
               TypeFatal(l) \/ Call(l) \/ KilledSending(l) \/ CallBrokenLink(l)
        PROVE  Inv'
    BY <2>1, <2>2, <2>4 DEF TypeFatal, Call, KilledSending, CallBrokenLink
  <2>5. CASE ClientEnds
    BY <2>2, <2>5 DEF ClientEnds
  <2> QED
    BY <2>3, <2>4, <2>5
       DEF Next, vars, console, ServerStep, ReadArgs, DropConnection, RefuseRequest,
           ExecuteAnswers, ExecuteLoops, ProcessorCrash, Respond, Receive, ReceiveFails,
           ClientStarts, RespondKilled, ServerEnds, ServerStarts, Ended, Answering
<1>3. Inv => PrintedNested
  BY NestedIsPrintedNested
<1> QED
  BY <1>1, <1>2, <1>3, PTL DEF Spec

----------------------------------------------------------------------------
(* serializer.c: values arrive.                                             *)

(* The numbers travel as they are.                                          *)
LEMMA Scalars ==
    ASSUME NEW v, NEW old
    PROVE  /\ Travels(I16, v, old, v) /\ Travels(I32, v, old, v) /\ Travels(I64, v, old, v)
           /\ Travels(Double, v, old, v) /\ Travels(Bool, v, old, v)
<1>1. /\ I16.wire = "T_I16" /\ I32.wire = "T_I32" /\ I64.wire = "T_I64"
      /\ Double.wire = "T_DOUBLE" /\ Bool.wire = "T_BOOL"
  BY DEF I16, I32, I64, Double, Bool
<1>2. /\ I16.wire \notin {"T_STRUCT", "T_LIST", "T_STRING"}
      /\ I32.wire \notin {"T_STRUCT", "T_LIST", "T_STRING"}
      /\ I64.wire \notin {"T_STRUCT", "T_LIST", "T_STRING"}
      /\ Double.wire \notin {"T_STRUCT", "T_LIST", "T_STRING"}
      /\ Bool.wire \notin {"T_STRUCT", "T_LIST", "T_STRING"}
  BY <1>1
<1>3. Travels(I16, v, old, v)
  BY <1>2, ScalarTravels
<1>4. Travels(I32, v, old, v)
  BY <1>2, ScalarTravels
<1>5. Travels(I64, v, old, v)
  BY <1>2, ScalarTravels
<1>6. Travels(Double, v, old, v)
  BY <1>2, ScalarTravels
<1>7. Travels(Bool, v, old, v)
  BY <1>2, ScalarTravels
<1> QED
  BY <1>3, <1>4, <1>5, <1>6, <1>7

\* What arrives as a string.
Heard(s) == ReadString(WriteString(s))

(* A string that is not empty is heard as it was sent, and so is NULL.      *)
LEMMA NamesAreHeard ==
    ASSUME NEW s, s = NULL \/ s # EmptyString
    PROVE  Heard(s) = s
BY EmptyStringAssumption DEF Heard, ReadString, WriteString

Cell_(type, v) == With(New("Cell_"), Member[type + 1], v)
Val_(type, v) == Obj("Val_", [cell |-> Cell_(type, v), type |-> type], {"cell", "type"})
(* A value as the server gets it.                                           *)
Given_(type, v) == IF type = STRING_TYPE THEN Heard(v) ELSE v

(* A setter of a new Cell_ sets one member.                                 *)
LEMMA CellSet ==
    ASSUME NEW m \in {"integer", "dbl", "bl", "str"}, NEW v
    PROVE  \E has : /\ Set(New("Cell_"), m, v) = Obj("Cell_", has, {m})
                    /\ has[m] = v
<1> DEFINE h == [integer |-> 0, dbl |-> 0, bl |-> FALSE, str |-> NULL]
           has == [h EXCEPT ![m] = v]
<1>1. New("Cell_") = Obj("Cell_", h, {})
  BY CellTables
<1>2. ~Refused("Cell_", m, v)
  BY NeverRefused
<1>3. has[m] = v
  OBVIOUS
<1> HIDE DEF h
<1>4. Set(Obj("Cell_", h, {}), m, v) = Obj("Cell_", has, {} \cup {m})
  BY <1>2, SetObj
<1>5. {} \cup {m} = {m}
  OBVIOUS
<1> HIDE DEF has
<1> QED
  BY <1>1, <1>3, <1>4, <1>5

(* A serialized cell arrives with the member of its type set.               *)
LEMMA CellTravels ==
    ASSUME NEW type \in 0 .. 3, NEW v
    PROVE  Travels(Struct("Cell_"), serialize_cell(Val(type, v)), New("Cell_"),
                   Cell_(type, Given_(type, v)))
<1> DEFINE val == Val(type, v)
           m == Member[type + 1]
<1>1. val.type = type /\ val.cell = v
  BY DEF Val
<1> HIDE DEF val
<1>2. type \in {0, 1, 2, 3}
  OBVIOUS
<1>3. CASE type = 0
  <2>1. m = "integer" /\ Given_(type, v) = v
    BY <1>3 DEF Member, Given_, STRING_TYPE
  <2>2. serialize_cell(val) = Set(New("Cell_"), "integer", v)
    BY <1>1, <1>3 DEF serialize_cell, INT_TYPE, BOOL_TYPE, FLOAT_TYPE, STRING_TYPE
  <2>3. PICK has : Set(New("Cell_"), "integer", v) = Obj("Cell_", has, {"integer"}) /\ has["integer"] = v
    BY CellSet
  <2>4. Travels(I64, has["integer"], 0, v)
    BY <2>3, Scalars
  <2> QED
    BY <2>1, <2>2, <2>3, <2>4, CellOneSet DEF Cell_, val
<1>4. CASE type = 1
  <2>1. m = "dbl" /\ Given_(type, v) = v
    BY <1>4 DEF Member, Given_, STRING_TYPE
  <2>2. serialize_cell(val) = Set(New("Cell_"), "dbl", v)
    BY <1>1, <1>4 DEF serialize_cell, INT_TYPE, BOOL_TYPE, FLOAT_TYPE, STRING_TYPE
  <2>3. PICK has : Set(New("Cell_"), "dbl", v) = Obj("Cell_", has, {"dbl"}) /\ has["dbl"] = v
    BY CellSet
  <2>4. Travels(Double, has["dbl"], 0, v)
    BY <2>3, Scalars
  <2> QED
    BY <2>1, <2>2, <2>3, <2>4, CellOneSet DEF Cell_, val
<1>5. CASE type = 2
  <2>1. m = "str" /\ Given_(type, v) = Heard(v)
    BY <1>5 DEF Member, Given_, STRING_TYPE
  <2>2. serialize_cell(val) = Set(New("Cell_"), "str", v)
    BY <1>1, <1>5 DEF serialize_cell, INT_TYPE, BOOL_TYPE, FLOAT_TYPE, STRING_TYPE
  <2>3. PICK has : Set(New("Cell_"), "str", v) = Obj("Cell_", has, {"str"}) /\ has["str"] = v
    BY CellSet
  <2>4. Travels(Str, has["str"], NULL, Heard(v))
    BY <2>3, StringTravels DEF Heard
  <2> QED
    BY <2>1, <2>2, <2>3, <2>4, CellOneSet DEF Cell_, val
<1>6. CASE type = 3
  <2>1. m = "bl" /\ Given_(type, v) = v
    BY <1>6 DEF Member, Given_, STRING_TYPE
  <2>2. serialize_cell(val) = Set(New("Cell_"), "bl", v)
    BY <1>1, <1>6 DEF serialize_cell, INT_TYPE, BOOL_TYPE, FLOAT_TYPE, STRING_TYPE
  <2>3. PICK has : Set(New("Cell_"), "bl", v) = Obj("Cell_", has, {"bl"}) /\ has["bl"] = v
    BY CellSet
  <2>4. Travels(Bool, has["bl"], FALSE, v)
    BY <2>3, Scalars
  <2> QED
    BY <2>1, <2>2, <2>3, <2>4, CellOneSet DEF Cell_, val
<1> QED
  BY <1>2, <1>3, <1>4, <1>5, <1>6 DEF val

(* A serialized value arrives.                                              *)
LEMMA ValArrives ==
    ASSUME NEW type \in 0 .. 3, NEW v
    PROVE  Travels(Struct("Val_"), serialize_val(Val(type, v)), New("Val_"),
                   Val_(type, Given_(type, v)))
<1> DEFINE val == Val(type, v)
           cell_ == serialize_cell(val)
<1>1. val.type = type
  BY DEF Val
<1>2. Travels(Struct("Cell_"), cell_, New("Cell_"), Cell_(type, Given_(type, v)))
  BY CellTravels
<1>3. Travels(I32, type, 0, type)
  BY Scalars
<1> HIDE DEF val, cell_
<1>4. serialize_val(val) = Set(Set(New("Val_"), "cell", cell_), "type", type)
  BY <1>1 DEF serialize_val, Set2, cell_
<1>5. serialize_val(val) = Obj("Val_", [cell |-> cell_, type |-> type], {"cell", "type"})
  BY <1>4, ValMade
<1> QED
  BY <1>2, <1>3, <1>5, ValTravels DEF Val_, val

(* The column value that arrives.                                           *)
ColVal_(name, type, v) ==
    Obj("ColVal_", [col |-> name, val |-> Val_(type, v)], {"col", "val"})

(* A serialized column value arrives.                                       *)
LEMMA ColValArrives ==
    ASSUME NEW name, name # EmptyString, NEW type \in 0 .. 3, NEW v
    PROVE  Travels(Struct("ColVal_"),
                   Set2(New("ColVal_"), "col", name, "val", serialize_val(Val(type, v))),
                   New("ColVal_"), ColVal_(name, type, Given_(type, v)))
<1> DEFINE val == serialize_val(Val(type, v))
<1>1. Travels(Str, name, NULL, name)
  BY StringTravels, NamesAreHeard DEF Heard
<1>2. Travels(Struct("Val_"), val, New("Val_"), Val_(type, Given_(type, v)))
  BY ValArrives
<1> HIDE DEF val
<1>3. Set2(New("ColVal_"), "col", name, "val", val)
        = Obj("ColVal_", [col |-> name, val |-> val], {"col", "val"})
  BY ColValMade DEF Set2
<1> QED
  BY <1>1, <1>2, <1>3, ColValTravels DEF ColVal_, val

----------------------------------------------------------------------------
(* Rows and columns arrive.                                                 *)

(* What a reader begins an element of a list with.                          *)
LEMMA ElementIs ==
    ASSUME NEW n, NEW type
    PROVE  Element(Struct(n)) = New(n) /\ Element(List(type)) = <<>>
<1>1. Struct(n).wire = "T_STRUCT" /\ Struct(n).of = n /\ "of" \in DOMAIN Struct(n)
  BY DEF Struct
<1>2. List(type).wire = "T_LIST" /\ "T_LIST" # "T_STRUCT"
  BY DEF List
<1>3. Element(Struct(n)) = New(n)
  BY <1>1, Zenon DEF Element
<1>4. Element(List(type)) = <<>>
  BY <1>2, Zenon DEF Element
<1> QED
  BY <1>3, <1>4

(* A literal becomes a value of one of the four types.                      *)
LEMMA LitValue ==
    ASSUME NEW lit \in Literals
    PROVE  value(lit) = Val(value(lit).type, value(lit).cell) /\ value(lit).type \in 0 .. 3
<1> SUFFICES ASSUME NEW type \in 0 .. 3, NEW v, value(lit) = Val(type, v)
             PROVE  value(lit) = Val(value(lit).type, value(lit).cell) /\ value(lit).type \in 0 .. 3
  <2>1. \/ lit \in [int : Int] \/ lit \in [float : Floats] \/ lit \in [bool : BOOLEAN]
        \/ lit \in [str : Strings]
    BY DEF Literals
  <2>2. "int" \notin {"float", "bool", "str"} /\ "float" \notin {"bool", "str"} /\ "bool" # "str"
    OBVIOUS
  <2>3. ASSUME lit \in [int : Int] PROVE \E type \in 0 .. 3 : \E v : value(lit) = Val(type, v)
    <3>1. "int" \in DOMAIN lit /\ "float" \notin DOMAIN lit /\ "bool" \notin DOMAIN lit /\ "str" \notin DOMAIN lit
      BY <2>3
    <3>2. value(lit) = Val(INT_TYPE, lit.int % UINT32)
      BY <3>1 DEF value, createIntValue
    <3> QED
      BY <3>2 DEF INT_TYPE
  <2>4. ASSUME lit \in [float : Floats] PROVE \E type \in 0 .. 3 : \E v : value(lit) = Val(type, v)
    <3>1. "int" \notin DOMAIN lit /\ "float" \in DOMAIN lit /\ "bool" \notin DOMAIN lit /\ "str" \notin DOMAIN lit
      BY <2>4
    <3>2. value(lit) = Val(FLOAT_TYPE, lit.float)
      BY <3>1 DEF value, createFloatValue
    <3> QED
      BY <3>2 DEF FLOAT_TYPE
  <2>5. ASSUME lit \in [bool : BOOLEAN] PROVE \E type \in 0 .. 3 : \E v : value(lit) = Val(type, v)
    <3>1. "int" \notin DOMAIN lit /\ "float" \notin DOMAIN lit /\ "bool" \in DOMAIN lit /\ "str" \notin DOMAIN lit
      BY <2>5
    <3>2. value(lit) = Val(BOOL_TYPE, lit.bool)
      BY <3>1 DEF value, createBoolValue
    <3> QED
      BY <3>2 DEF BOOL_TYPE
  <2>6. ASSUME lit \in [str : Strings] PROVE \E type \in 0 .. 3 : \E v : value(lit) = Val(type, v)
    <3>1. "int" \notin DOMAIN lit /\ "float" \notin DOMAIN lit /\ "bool" \notin DOMAIN lit /\ "str" \in DOMAIN lit
      BY <2>6
    <3>2. value(lit) = Val(STRING_TYPE, lit.str)
      BY <3>1 DEF value, createString
    <3> QED
      BY <3>2 DEF STRING_TYPE
  <2> QED
    BY <2>1, <2>3, <2>4, <2>5, <2>6
<1>1. Val(type, v).type = type /\ Val(type, v).cell = v
  BY DEF Val
<1> QED
  BY <1>1

\* What arrives of a literal, and of a row.
Arrives(lit) == Given_(value(lit).type, value(lit).cell)
Row_(row) == [i \in DOMAIN row |-> ColVal_(row[i].column, value(row[i].value).type, Arrives(row[i].value))]

(* A name arrives as it is.                                                 *)
LEMMA NamesFull ==
    ASSUME NEW name \in Names
    PROVE  name # EmptyString /\ Heard(name) = name /\ Travels(Str, name, NULL, name)
<1>1. name # EmptyString
  BY EmptyStringAssumption
<1> QED
  BY <1>1, NamesAreHeard, StringTravels DEF Heard

(* A serialized row arrives.                                                *)
LEMMA RowArrives ==
    ASSUME NEW row \in ListOf(ColumnValues)
    PROVE  Travels(List(Struct("ColVal_")), serialize_row(columnValueList(row)), <<>>, Row_(row))
<1> DEFINE list == columnValueList(row)
           v == serialize_row(list)
           w == Row_(row)
<1>1. IsSeq(row) /\ Len(row) \in Nat /\ DOMAIN row = 1 .. Len(row)
      /\ \A i \in 1 .. Len(row) : row[i] \in ColumnValues
  BY ListIsSeq, SeqLen
<1>2. DOMAIN list = DOMAIN row
      /\ \A i \in DOMAIN row : list[i] = createColumnValue(row[i].column, value(row[i].value))
  BY DEF columnValueList
<1> HIDE DEF list
<1>3. IsSeq(v) /\ Len(v) = Len(row)
  <2>1. DOMAIN v = 1 .. Len(row) /\ v = [i \in DOMAIN v |-> v[i]]
    BY <1>1, <1>2 DEF serialize_row
  <2> HIDE DEF v
  <2> QED
    BY <1>1, <2>1, SeqMade
<1>4. IsSeq(w) /\ Len(w) = Len(row)
  <2>1. DOMAIN w = 1 .. Len(row) /\ w = [i \in DOMAIN w |-> w[i]]
    BY <1>1 DEF Row_
  <2> HIDE DEF w
  <2> QED
    BY <1>1, <2>1, SeqMade
<1>5. ASSUME NEW i \in 1 .. Len(row)
      PROVE  Travels(Struct("ColVal_"), v[i], New("ColVal_"), w[i])
  <2> DEFINE name == row[i].column
             type == value(row[i].value).type
             cell_ == value(row[i].value).cell
  <2>1. row[i].column \in Names /\ row[i].value \in Literals
    BY <1>1 DEF ColumnValues
  <2>2. value(row[i].value) = Val(type, cell_) /\ type \in 0 .. 3
    BY <2>1, LitValue
  <2>3. v[i] = Set2(New("ColVal_"), "col", list[i].col, "val", serialize_val(list[i].val))
    BY <1>1, <1>2 DEF serialize_row
  <2>4. list[i].col = name /\ list[i].val = Val(type, cell_)
    BY <1>1, <1>2, <2>2 DEF createColumnValue
  <2>5. w[i] = ColVal_(name, type, Given_(type, cell_))
    BY <1>1 DEF Row_, Arrives
  <2>6. name # EmptyString
    BY <2>1, NamesFull
  <2> HIDE DEF name, type, cell_, v, w
  <2> QED
    BY <2>2, <2>3, <2>4, <2>5, <2>6, ColValArrives
<1> HIDE DEF v, w
<1>6. \A i \in 1 .. Len(v) : Travels(Struct("ColVal_"), v[i], Element(Struct("ColVal_")), w[i])
  BY <1>3, <1>5, ElementIs
<1>7. Len(v) = Len(w)
  BY <1>3, <1>4
<1> QED
  BY <1>3, <1>4, <1>6, <1>7, ListTravels DEF v, w, list

(* The serialized rows of an INSERT arrive.                                 *)
LEMMA RowsArrive ==
    ASSUME NEW rows \in ListOf(ListOf(ColumnValues))
    PROVE  Travels(List(List(Struct("ColVal_"))),
                   [i \in DOMAIN insertList(rows) |-> serialize_row(insertList(rows)[i])],
                   <<>>, [i \in DOMAIN rows |-> Row_(rows[i])])
<1> DEFINE list == insertList(rows)
           v == [i \in DOMAIN list |-> serialize_row(list[i])]
           w == [i \in DOMAIN rows |-> Row_(rows[i])]
<1>1. IsSeq(rows) /\ Len(rows) \in Nat /\ DOMAIN rows = 1 .. Len(rows)
      /\ \A i \in 1 .. Len(rows) : rows[i] \in ListOf(ColumnValues)
  BY ListIsSeq, SeqLen
<1>2. DOMAIN list = DOMAIN rows /\ \A i \in DOMAIN rows : list[i] = columnValueList(rows[i])
  BY DEF insertList
<1> HIDE DEF list
<1>3. IsSeq(v) /\ Len(v) = Len(rows)
  <2>1. DOMAIN v = 1 .. Len(rows) /\ v = [i \in DOMAIN v |-> v[i]]
    BY <1>1, <1>2
  <2> HIDE DEF v
  <2> QED
    BY <1>1, <2>1, SeqMade
<1>4. IsSeq(w) /\ Len(w) = Len(rows)
  <2>1. DOMAIN w = 1 .. Len(rows) /\ w = [i \in DOMAIN w |-> w[i]]
    BY <1>1
  <2> HIDE DEF w
  <2> QED
    BY <1>1, <2>1, SeqMade
<1>5. ASSUME NEW i \in 1 .. Len(rows)
      PROVE  Travels(List(Struct("ColVal_")), v[i], <<>>, w[i])
  <2>1. v[i] = serialize_row(columnValueList(rows[i])) /\ w[i] = Row_(rows[i])
    BY <1>1, <1>2
  <2> HIDE DEF v, w
  <2> QED
    BY <1>1, <2>1, RowArrives
<1> HIDE DEF v, w
<1>6. \A i \in 1 .. Len(v) : Travels(List(Struct("ColVal_")), v[i], Element(List(Struct("ColVal_"))), w[i])
  BY <1>3, <1>5, ElementIs
<1>7. Len(v) = Len(w)
  BY <1>3, <1>4
<1> QED
  BY <1>3, <1>4, <1>6, <1>7, ListTravels DEF v, w, list

(* The column definition that arrives.                                      *)
Column_(d) ==
    Obj("Column_", [column_name |-> d.name, data_type |-> columnDefinition(d).data_type,
                    size |-> IF columnDefinition(d).size \in Sizes THEN columnDefinition(d).size ELSE 0],
        {"column_name", "data_type", "size"})

(* A serialized column definition arrives, its size included or refused.    *)
LEMMA ColumnArrives ==
    ASSUME NEW d \in ColumnDefinitions
    PROVE  Travels(Struct("Column_"), serialize_column(columnDefinition(d)), New("Column_"), Column_(d))
<1> DEFINE col == columnDefinition(d)
<1>1. /\ d.name \in Names /\ col.column_name = d.name /\ col.data_type \in 0 .. 3
  <2>1. d \in [name : Names, type : DOMAIN ValType] \/ d \in [name : Names, type : {"VARCHAR"}, size : Nat \ {0}]
    BY DEF ColumnDefinitions
  <2>2. ASSUME d \in [name : Names, type : {"VARCHAR"}, size : Nat \ {0}]
        PROVE  /\ d.name \in Names /\ col.column_name = d.name /\ col.data_type \in 0 .. 3
    <3>1. d.type = "VARCHAR" /\ d.name \in Names
      BY <2>2
    <3>2. col = createStringColumn(d.name, d.size)
      BY <3>1 DEF columnDefinition
    <3> QED
      BY <3>1, <3>2 DEF createStringColumn, STRING_TYPE
  <2>3. ASSUME d \in [name : Names, type : DOMAIN ValType]
        PROVE  /\ d.name \in Names /\ col.column_name = d.name /\ col.data_type \in 0 .. 3
    <3>1. d.type \in {"INT", "FLOAT", "BOOL"} /\ d.name \in Names
      BY <2>3 DEF ValType
    <3>2. col = createColumn(d.name, ValType[d.type])
      BY <3>1 DEF columnDefinition
    <3>3. ValType[d.type] \in 0 .. 3
      BY <3>1 DEF ValType, INT_TYPE, FLOAT_TYPE, BOOL_TYPE
    <3> QED
      BY <3>1, <3>2, <3>3 DEF createColumn
  <2> QED
    BY <2>1, <2>2, <2>3
<1> DEFINE name == d.name
           type == col.data_type
           size == col.size
           o == Obj("Column_", [column_name |-> name, data_type |-> type, size |-> 0], {"column_name", "data_type"})
<1>2. serialize_column(col) = Set(Set(Set(New("Column_"), "column_name", name), "data_type", type), "size", size)
  BY <1>1 DEF serialize_column, Set2
<1>3. Column_(d) = Obj("Column_", [column_name |-> name, data_type |-> type,
                       size |-> IF size \in Sizes THEN size ELSE 0], {"column_name", "data_type", "size"})
  BY DEF Column_
<1>4. type \in 0 .. 3 /\ name \in Names
  BY <1>1
<1> HIDE DEF name, type, size, col
<1>5. Travels(Str, name, NULL, name) /\ Travels(I32, type, 0, type)
  BY <1>4, NamesFull, Scalars
<1>6. CASE size \in Sizes
  <2>1. serialize_column(col) = Obj("Column_", [column_name |-> name, data_type |-> type, size |-> size],
                                    {"column_name", "data_type", "size"})
    BY <1>2, <1>4, <1>6, ColumnMade
  <2>2. Travels(I16, size, 0, size)
    BY Scalars
  <2>3. Column_(d) = Obj("Column_", [column_name |-> name, data_type |-> type, size |-> size],
                                    {"column_name", "data_type", "size"})
    BY <1>3, <1>6
  <2> QED
    BY <1>5, <2>1, <2>2, <2>3, ColumnTravels DEF col
<1>7. CASE size \notin Sizes
  <2>1. Set(Set(New("Column_"), "column_name", name), "data_type", type) = o
    BY <1>4, ColumnHalfMade
  <2>2. Refused("Column_", "size", size)
    BY <1>7, ColumnSizeRefused
  <2>3. o.type = "Column_"
    BY DEF Obj
  <2> HIDE DEF o
  <2>4. Set(o, "size", size) = o
    BY <2>2, <2>3, Zenon DEF Set
  <2>5. serialize_column(col) = o
    BY <1>2, <2>1, <2>4
  <2>6. Travels(I16, 0, 0, 0)
    BY Scalars
  <2>7. Column_(d) = Obj("Column_", [column_name |-> name, data_type |-> type, size |-> 0],
                                    {"column_name", "data_type", "size"})
    BY <1>3, <1>7
  <2> QED
    BY <1>5, <2>5, <2>6, <2>7, ColumnTravels DEF col, o
<1> QED
  BY <1>6, <1>7

(* The serialized columns of a CREATE arrive.                               *)
LEMMA ColumnsArrive ==
    ASSUME NEW defs \in ListOf(ColumnDefinitions)
    PROVE  LET cols == [i \in DOMAIN defs |-> columnDefinition(defs[i])]
           IN  Travels(List(Struct("Column_")), [i \in DOMAIN cols |-> serialize_column(cols[i])],
                       <<>>, [i \in DOMAIN defs |-> Column_(defs[i])])
<1> DEFINE list == [i \in DOMAIN defs |-> columnDefinition(defs[i])]
           v == [i \in DOMAIN list |-> serialize_column(list[i])]
           w == [i \in DOMAIN defs |-> Column_(defs[i])]
<1>1. IsSeq(defs) /\ Len(defs) \in Nat /\ DOMAIN defs = 1 .. Len(defs)
      /\ \A i \in 1 .. Len(defs) : defs[i] \in ColumnDefinitions
  BY ListIsSeq, SeqLen
<1>2. DOMAIN list = DOMAIN defs /\ \A i \in DOMAIN defs : list[i] = columnDefinition(defs[i])
  OBVIOUS
<1> HIDE DEF list
<1>3. IsSeq(v) /\ Len(v) = Len(defs)
  <2>1. DOMAIN v = 1 .. Len(defs) /\ v = [i \in DOMAIN v |-> v[i]]
    BY <1>1, <1>2
  <2> HIDE DEF v
  <2> QED
    BY <1>1, <2>1, SeqMade
<1>4. IsSeq(w) /\ Len(w) = Len(defs)
  <2>1. DOMAIN w = 1 .. Len(defs) /\ w = [i \in DOMAIN w |-> w[i]]
    BY <1>1
  <2> HIDE DEF w
  <2> QED
    BY <1>1, <2>1, SeqMade
<1>5. ASSUME NEW i \in 1 .. Len(defs)
      PROVE  Travels(Struct("Column_"), v[i], New("Column_"), w[i])
  <2>1. v[i] = serialize_column(columnDefinition(defs[i])) /\ w[i] = Column_(defs[i])
    BY <1>1, <1>2
  <2> HIDE DEF v, w
  <2> QED
    BY <1>1, <2>1, ColumnArrives
<1> HIDE DEF v, w
<1>6. \A i \in 1 .. Len(v) : Travels(Struct("Column_"), v[i], Element(Struct("Column_")), w[i])
  BY <1>3, <1>5, ElementIs
<1>7. Len(v) = Len(w)
  BY <1>3, <1>4
<1> QED
  BY <1>3, <1>4, <1>6, <1>7, ListTravels DEF v, w, list

----------------------------------------------------------------------------
(* Conditions arrive.                                                       *)

(* The numbers of the comparisons.                                          *)
LEMMA CompTypes ==
    /\ DOMAIN CompType = {"=", "!=", ">", "<", ">=", "<=", "LIKE"}
    /\ CompType["="] = EQUALS_COMP /\ CompType["!="] = NOT_EQUALS_COMP
    /\ CompType[">"] = GREATER_COMP /\ CompType["<"] = LESS_COMP
    /\ CompType[">="] = GREATER_EQUALS_COMP /\ CompType["<="] = LESS_EQUALS_COMP
    /\ CompType["LIKE"] = LIKE_COMP
BY DEF CompType

(* They are within the bounds of a Condition_.                              *)
LEMMA CompTypeNumbers == \A x \in DOMAIN CompType : CompType[x] \in 0 .. 6
BY CompTypes
   DEF EQUALS_COMP, NOT_EQUALS_COMP, GREATER_COMP, LESS_COMP, GREATER_EQUALS_COMP,
         LESS_EQUALS_COMP, LIKE_COMP

(* The column of a condition that arrives.                                  *)
FullName_(column) ==
    Obj("FullColumnName_", [row_name |-> NULL, col_name |-> column], {"row_name", "col_name"})
(* The condition that arrives.                                              *)
Cond_(c) ==
    Obj("Condition_", [column |-> FullName_(c.column), comp_type |-> CompType[c.comp],
                       value |-> Val_(value(c.value).type, Arrives(c.value))],
        {"column", "comp_type", "value"})

(* What the parts of a condition are, where the grammar takes no row name.  *)
LEMMA WherePartIs ==
    ASSUME NEW c \in WhereParts({NULL})
    PROVE  /\ c.row = NULL /\ c.column \in Names /\ c.comp \in DOMAIN CompType
           /\ c.value \in Literals /\ c.then \in {"AND", "OR", "none"}
<1>1. \/ c \in [row : {NULL}, column : Names, comp : DOMAIN CompType \ {"LIKE"}, value : Literals,
                                then : {"AND", "OR", "none"}]
      \/ c \in [row : {NULL}, column : Names, comp : {"LIKE"}, value : [str : Strings],
                                then : {"AND", "OR", "none"}]
  BY DEF WhereParts
<1>2. "LIKE" \in DOMAIN CompType
  BY CompTypes
<1>3. [str : Strings] \subseteq Literals
  BY DEF Literals
<1> QED
  BY <1>1, <1>2, <1>3

(* A serialized condition arrives.                                          *)
LEMMA CondArrives ==
    ASSUME NEW c \in WhereParts({NULL})
    PROVE  Travels(Struct("Condition_"), serialize_cond(condition(c)), New("Condition_"), Cond_(c))
<1> DEFINE column == c.column
           comp == CompType[c.comp]
           type == value(c.value).type
           cell_ == value(c.value).cell
           val == serialize_val(Val(type, cell_))
           fcn == Set(New("FullColumnName_"), "col_name", column)
<1>1. c.row = NULL /\ column \in Names /\ c.value \in Literals /\ comp \in 0 .. 6
  BY WherePartIs, CompTypeNumbers
<1>2. value(c.value) = Val(type, cell_) /\ type \in 0 .. 3
  BY <1>1, LitValue
<1>3. condition(c) = [column |-> createTableColumn(NULL, column), comp_type |-> comp, value |-> Val(type, cell_)]
  BY <1>1, <1>2 DEF condition, createCondition
<1>4. Cond_(c) = Obj("Condition_", [column |-> FullName_(column), comp_type |-> comp,
                       value |-> Val_(type, Given_(type, cell_))],
        {"column", "comp_type", "value"})
  BY DEF Cond_, Arrives
<1> HIDE DEF column, comp, type, cell_
<1>5. serialize_cond(condition(c))
        = Set(Set(Set(New("Condition_"), "column", fcn), "comp_type", comp), "value", val)
  <2>1. condition(c).column = createTableColumn(NULL, column) /\ condition(c).comp_type = comp
        /\ condition(c).value = Val(type, cell_)
    BY <1>3
  <2>2. createTableColumn(NULL, column).row_name = NULL /\ createTableColumn(NULL, column).col_name = column
    BY DEF createTableColumn
  <2> QED
    BY <2>1, <2>2 DEF serialize_cond, Set2
<1>6. fcn = Obj("FullColumnName_", [row_name |-> NULL, col_name |-> column], {"col_name"})
  BY ColumnNameMade
<1>7. Travels(Struct("FullColumnName_"), fcn, New("FullColumnName_"), FullName_(column))
  <2>1. Travels(Str, column, NULL, column)
    BY <1>1, NamesFull
  <2>2. Travels(Str, NULL, NULL, NULL)
    BY StringTravels, NamesAreHeard DEF Heard
  <2> HIDE DEF fcn
  <2> QED
    BY <1>6, <2>1, <2>2, FullColumnNameTravels DEF FullName_
<1>8. Travels(Struct("Val_"), val, New("Val_"), Val_(type, Given_(type, cell_)))
  BY <1>2, ValArrives
<1>9. Travels(I32, comp, 0, comp)
  BY Scalars
<1> HIDE DEF fcn, val
<1>10. serialize_cond(condition(c))
        = Obj("Condition_", [column |-> fcn, comp_type |-> comp, value |-> val], {"column", "comp_type", "value"})
  BY <1>1, <1>5, ConditionMade
<1> QED
  BY <1>4, <1>7, <1>8, <1>9, <1>10, ConditionTravels

(* A condition is a chain of parts, and its last part has no AND or OR.     *)
LEMMA WhereIs ==
    ASSUME NEW where \in Wheres({NULL})
    PROVE  /\ IsSeq(where) /\ Len(where) \in Nat /\ DOMAIN where = 1 .. Len(where)
           /\ \A i \in 1 .. Len(where) : /\ where[i] \in WhereParts({NULL})
                                         /\ where[i].then = "none" <=> i = Len(where)
<1>1. where \in Seq(WhereParts({NULL})) /\ \A i \in DOMAIN where : where[i].then = "none" <=> i = Len(where)
  BY DEF Wheres
<1> QED
  BY <1>1, SeqIs, SeqLen

More(x, y) == [x EXCEPT !.has.right = Append(@, y), !.isset = @ \cup {"right"}]

(* A chain of objects can be built from its last link.                      *)
LEMMA PartsExist ==
    ASSUME NEW n \in Nat, n # 0, NEW c
    PROVE  \E f : f = [i \in 1 .. n |-> IF i = n THEN c[i] ELSE More(c[i], f[i + 1])]
<1> DEFINE Down(m, f) == /\ f[n] = c[n]
                         /\ \A i \in n - m .. n - 1 : f[i] = More(c[i], f[i + 1])
           S == {m \in Nat : m < n => \E f : Down(m, f)}
<1>1. 0 \in S
  <2> DEFINE f == [i \in {n} |-> c[n]]
  <2>1. f[n] = c[n] /\ n - 0 .. n - 1 = {}
    OBVIOUS
  <2> HIDE DEF f
  <2>2. Down(0, f)
    BY <2>1
  <2> QED
    BY <2>2
<1>2. ASSUME NEW m \in Nat, m \in S PROVE m + 1 \in S
  <2> SUFFICES ASSUME m + 1 < n PROVE \E f : Down(m + 1, f)
    OBVIOUS
  <2>1. PICK f : Down(m, f)
    BY <1>2
  <2> DEFINE k == n - (m + 1)
             g == [i \in k .. n |-> IF i = k THEN More(c[k], f[k + 1]) ELSE f[i]]
  <2>2. k \in 1 .. n - 1 /\ k + 1 = n - m /\ k \in k .. n
    OBVIOUS
  <2>3. g[k] = More(c[k], f[k + 1])
    BY <2>2
  <2>4. \A i \in k + 1 .. n : g[i] = f[i]
    BY <2>2
  <2> HIDE DEF g, k
  <2>5. g[n] = c[n]
    BY <2>1, <2>2, <2>4
  <2>6. ASSUME NEW i \in k .. n - 1 PROVE g[i] = More(c[i], g[i + 1])
    <3>1. i + 1 \in k + 1 .. n
      BY <2>2
    <3>2. g[i + 1] = f[i + 1]
      BY <2>4, <3>1
    <3>3. CASE i = k
      BY <2>3, <3>2, <3>3
    <3>4. CASE i # k
      <4>1. i \in n - m .. n - 1 /\ i \in k + 1 .. n
        BY <2>2, <3>4
      <4> QED
        BY <2>1, <2>4, <3>2, <4>1
    <3> QED
      BY <3>3, <3>4
  <2>7. Down(m + 1, g)
    BY <2>5, <2>6 DEF k
  <2> QED
    BY <2>7
<1>3. Nat \subseteq S
  <2> HIDE DEF S
  <2> QED
    BY <1>1, <1>2, NatSetInduction
<1>4. PICK f : Down(n - 1, f)
  BY <1>3
<1> DEFINE g == [i \in 1 .. n |-> f[i]]
<1>5. \A i \in 1 .. n : g[i] = f[i]
  OBVIOUS
<1>6. \A i \in 1 .. n : g[i] = IF i = n THEN c[i] ELSE More(c[i], g[i + 1])
  <2> SUFFICES ASSUME NEW i \in 1 .. n PROVE g[i] = IF i = n THEN c[i] ELSE More(c[i], g[i + 1])
    OBVIOUS
  <2> HIDE DEF g
  <2>1. CASE i = n
    BY <1>4, <1>5, <2>1
  <2>2. CASE i # n
    <3>1. i \in n - (n - 1) .. n - 1 /\ i + 1 \in 1 .. n
      BY <2>2
    <3>2. f[i] = More(c[i], f[i + 1])
      BY <1>4, <3>1
    <3> QED
      BY <1>5, <2>2, <3>1, <3>2
  <2> QED
    BY <2>1, <2>2
<1>7. g = [i \in 1 .. n |-> IF i = n THEN c[i] ELSE More(c[i], g[i + 1])]
  <2>1. DOMAIN g = 1 .. n /\ g = [i \in DOMAIN g |-> g[i]]
    OBVIOUS
  <2> HIDE DEF g
  <2> QED
    BY <1>6, <2>1
<1> QED
  BY <1>7

----------------------------------------------------------------------------
(* Chains of conditions arrive.                                             *)

(* The operator of part i of a condition.                                   *)
Op_(where, i) == IF i = Len(where) THEN OR_OP ELSE LogicOp[where[i].then]

(* The operator of a part is within the bounds of a CompoundCondition_.     *)
LEMMA OpIs ==
    ASSUME NEW where \in Wheres({NULL}), NEW i \in 1 .. Len(where)
    PROVE  Op_(where, i) \in 0 .. 1
<1>1. where[i] \in WhereParts({NULL}) /\ (where[i].then = "none" <=> i = Len(where))
  BY WhereIs
<1>2. where[i].then \in {"AND", "OR", "none"}
  BY <1>1, WherePartIs
<1>3. LogicOp["AND"] \in 0 .. 1 /\ LogicOp["OR"] \in 0 .. 1 /\ OR_OP \in 0 .. 1
  BY DEF LogicOp, AND_OP, OR_OP
<1> QED
  BY <1>1, <1>2, <1>3 DEF Op_

(* A link of the chain that arrives, and what hangs on its right.           *)
Link(left, op, rest) ==
    Obj("CompoundCondition_", [left |-> left, op |-> op, right |-> rest],
        IF rest = <<>> THEN {"left", "op"} ELSE {"left", "op", "right"})

(* p is a chain of the parts of a condition: what arrives of it.            *)
Chained(where, p) ==
    \A i \in 1 .. Len(where) :
        p[i] = Link(Cond_(where[i]), Op_(where, i), IF i = Len(where) THEN <<>> ELSE <<p[i + 1]>>)

(* f has built p from its last m links.                                     *)
Linked(where, f, m, p) ==
    \A i \in Len(where) - m .. Len(where) :
        /\ p[i] = Link(Cond_(where[i]), Op_(where, i), IF i = Len(where) THEN <<>> ELSE <<p[i + 1]>>)
        /\ Travels(Struct("CompoundCondition_"), f[i], New("CompoundCondition_"), p[i])

(* The part of a condition that the client makes, with nothing on its       *)
(* right.                                                                   *)
Sent_(c) == Set2(New("CompoundCondition_"), "op", c.op, "left", serialize_cond(c.left))

(* serialize_c_cond hangs each part into the one on its left.               *)
LEMMA SerializeParts ==
    ASSUME NEW c_cond, NEW n \in Nat, n # 0, IsSeq(c_cond), Len(c_cond) = n
    PROVE  \E f : /\ f = [i \in 1 .. n |-> IF i = n THEN Sent_(c_cond[i]) ELSE More(Sent_(c_cond[i]), f[i + 1])]
                  /\ serialize_c_cond(c_cond) = f[1]
<1> DEFINE Is(f) == f = [i \in DOMAIN c_cond |->
               LET c == Set2(New("CompoundCondition_"), "op", c_cond[i].op,
                          "left", serialize_cond(c_cond[i].left))
               IN  IF i = Len(c_cond) THEN c
                   ELSE [c EXCEPT !.has.right = Append(@, f[i + 1]),
                               !.isset = @ \cup {"right"}]]
           part == CHOOSE f : Is(f)
           c_ == [i \in 1 .. n |-> Sent_(c_cond[i])]
<1>1. serialize_c_cond(c_cond) = part[1]
  BY Zenon DEF serialize_c_cond
<1>2. DOMAIN c_cond = 1 .. n
  BY SeqLen
<1>3. ASSUME NEW f
      PROVE  Is(f) <=> f = [i \in 1 .. n |-> IF i = n THEN Sent_(c_cond[i]) ELSE More(Sent_(c_cond[i]), f[i + 1])]
  BY <1>2 DEF Sent_, More
<1>4. PICK f : f = [i \in 1 .. n |-> IF i = n THEN c_[i] ELSE More(c_[i], f[i + 1])]
  <2> HIDE DEF c_
  <2> QED
    BY PartsExist
<1>5. f = [i \in 1 .. n |-> IF i = n THEN Sent_(c_cond[i]) ELSE More(Sent_(c_cond[i]), f[i + 1])]
  BY <1>4
<1>6. Is(f)
  BY <1>3, <1>5
<1> HIDE DEF Is
<1>7. Is(part)
  BY <1>6
<1> HIDE DEF part
<1>8. part = [i \in 1 .. n |-> IF i = n THEN Sent_(c_cond[i]) ELSE More(Sent_(c_cond[i]), part[i + 1])]
  BY <1>3, <1>7
<1> QED
  BY <1>1, <1>8

(* A part that has been given one on its right.                             *)
LEMMA MoreIs ==
    ASSUME NEW left, NEW op, NEW y
    PROVE  More(Obj("CompoundCondition_", [left |-> left, op |-> op, right |-> <<>>], {"op", "left"}), y)
             = Obj("CompoundCondition_", [left |-> left, op |-> op, right |-> <<y>>], {"op", "left", "right"})
<1> DEFINE h == [left |-> left, op |-> op, right |-> <<>>]
           x == Obj("CompoundCondition_", h, {"op", "left"})
           h2 == [h EXCEPT !.right = <<y>>]
           x2 == [x EXCEPT !.has = h2]
<1>1. x.has = h /\ h.right = <<>> /\ x.isset = {"op", "left"}
  BY DEF Obj
<1>2. Append(<<>>, y) = <<y>>
  OBVIOUS
<1>3. h2 = [left |-> left, op |-> op, right |-> <<y>>]
  OBVIOUS
<1>4. x2 = Obj("CompoundCondition_", h2, {"op", "left"})
  <2> HIDE DEF h2
  <2> QED
    BY DEF Obj
<1>5. [x2 EXCEPT !.isset = @ \cup {"right"}] = Obj("CompoundCondition_", h2, {"op", "left"} \cup {"right"})
  <2> HIDE DEF h2, x2
  <2> QED
    BY <1>4 DEF Obj
<1>6. {"op", "left"} \cup {"right"} = {"op", "left", "right"}
  OBVIOUS
<1>7. More(x, y) = [x2 EXCEPT !.isset = @ \cup {"right"}]
  <2>1. More(x, y) = [[x EXCEPT !.has = [x.has EXCEPT !.right = Append(x.has.right, y)]] EXCEPT !.isset = @ \cup {"right"}]
    BY Zenon DEF More
  <2> HIDE DEF x
  <2>2. [x.has EXCEPT !.right = Append(x.has.right, y)] = h2
    BY <1>1, <1>2
  <2> QED
    BY <2>1, <2>2
<1> HIDE DEF x, x2, h2
<1> QED
  BY <1>3, <1>5, <1>6, <1>7 DEF x, h

(* A condition of any length arrives as a chain of its parts.               *)
LEMMA ChainArrives ==
    ASSUME NEW where \in Wheres({NULL}), where # <<>>
    PROVE  \E p : /\ Chained(where, p)
                  /\ Travels(Struct("CompoundCondition_"), serialize_c_cond(compound_condition(where)),
                             New("CompoundCondition_"), p[1])
<1> DEFINE n == Len(where)
           c_cond == compound_condition(where)
           X == Struct("CompoundCondition_")
           x0 == New("CompoundCondition_")
<1>1. /\ n \in Nat /\ n # 0 /\ DOMAIN where = 1 .. n
      /\ \A i \in 1 .. n : where[i] \in WhereParts({NULL})
  <2>1. /\ IsSeq(where) /\ n \in Nat /\ DOMAIN where = 1 .. n
        /\ \A i \in 1 .. n : where[i] \in WhereParts({NULL})
    BY WhereIs
  <2> HIDE DEF n
  <2>2. n # 0
    <3> SUFFICES ASSUME n = 0 PROVE FALSE
      BY <2>1
    <3>1. IsSeq(<<>>) /\ Len(<<>>) = 0 /\ Len(where) = 0
      BY SeqEmpty DEF n
    <3> QED
      BY <2>1, <3>1, SameSeq
  <2> QED
    BY <2>1, <2>2
<1>2. /\ DOMAIN c_cond = 1 .. n
      /\ \A i \in 1 .. n : c_cond[i] = createCompoundCondition(condition(where[i]), Op_(where, i))
  BY <1>1 DEF compound_condition, Op_
<1>3. IsSeq(c_cond) /\ Len(c_cond) = n
  <2>1. c_cond = [i \in DOMAIN c_cond |-> c_cond[i]]
    BY DEF compound_condition
  <2> HIDE DEF c_cond
  <2> QED
    BY <1>1, <1>2, <2>1, SeqMade
<1> HIDE DEF c_cond
<1>4. PICK f : /\ f = [i \in 1 .. n |-> IF i = n THEN Sent_(c_cond[i]) ELSE More(Sent_(c_cond[i]), f[i + 1])]
               /\ serialize_c_cond(c_cond) = f[1]
  <2> HIDE DEF n
  <2> QED
    BY <1>1, <1>3, SerializeParts
<1>5. ASSUME NEW i \in 1 .. n
      PROVE  /\ Sent_(c_cond[i]) = Obj("CompoundCondition_",
                     [left |-> serialize_cond(condition(where[i])), op |-> Op_(where, i), right |-> <<>>],
                     {"op", "left"})
             /\ Travels(Struct("Condition_"), serialize_cond(condition(where[i])), New("Condition_"), Cond_(where[i]))
             /\ Travels(I32, Op_(where, i), 0, Op_(where, i))
  <2> DEFINE op == Op_(where, i)
             left == serialize_cond(condition(where[i]))
  <2>1. op \in 0 .. 1
    BY OpIs
  <2>2. c_cond[i].left = condition(where[i]) /\ c_cond[i].op = op
    BY <1>2 DEF createCompoundCondition
  <2>3. Travels(Struct("Condition_"), left, New("Condition_"), Cond_(where[i]))
    BY <1>1, CondArrives
  <2>4. Sent_(c_cond[i]) = Set(Set(New("CompoundCondition_"), "op", op), "left", left)
    BY <2>2 DEF Sent_, Set2
  <2> HIDE DEF op, left
  <2>5. Sent_(c_cond[i]) = Obj("CompoundCondition_", [left |-> left, op |-> op, right |-> <<>>], {"op", "left"})
    BY <2>1, <2>4, CompoundConditionMade
  <2>6. Travels(I32, op, 0, op)
    BY Scalars
  <2> QED
    BY <2>3, <2>5, <2>6 DEF op, left
<1> DEFINE S == {m \in Nat : m < n => \E p : Linked(where, f, m, p)}
<1>a. ASSUME NEW m, NEW p
      PROVE  Linked(where, f, m, p) <=>
               \A i \in n - m .. n :
                   /\ p[i] = Link(Cond_(where[i]), Op_(where, i), IF i = n THEN <<>> ELSE <<p[i + 1]>>)
                   /\ Travels(X, f[i], x0, p[i])
  BY DEF Linked
<1>b. ASSUME NEW p
      PROVE  Chained(where, p) <=>
               \A i \in 1 .. n :
                   p[i] = Link(Cond_(where[i]), Op_(where, i), IF i = n THEN <<>> ELSE <<p[i + 1]>>)
  BY DEF Chained
<1> HIDE DEF n, X, x0
<1>6. 0 \in S
  <2> DEFINE last == Link(Cond_(where[n]), Op_(where, n), <<>>)
             p == [i \in {n} |-> last]
  <2>1. n \in 1 .. n /\ n - 0 .. n = {n}
    BY <1>1
  <2>2. f[n] = Sent_(c_cond[n])
    BY <1>4, <2>1
  <2>3. Travels(X, f[n], x0, last)
    <3> DEFINE left == serialize_cond(condition(where[n]))
               op == Op_(where, n)
               b == Cond_(where[n])
    <3>1. /\ f[n] = Obj("CompoundCondition_", [left |-> left, op |-> op, right |-> <<>>], {"op", "left"})
          /\ Travels(Struct("Condition_"), left, New("Condition_"), b) /\ Travels(I32, op, 0, op)
      BY <1>5, <2>1, <2>2
    <3>2. "right" \notin {"op", "left"}
      OBVIOUS
    <3>3. last = Obj("CompoundCondition_", [left |-> b, op |-> op, right |-> <<>>], {"left", "op"})
      BY DEF Link
    <3> HIDE DEF left, op, b, last
    <3> QED
      BY <3>1, <3>2, <3>3, LastConditionTravels DEF X, x0
  <2>4. p[n] = last
    OBVIOUS
  <2> HIDE DEF p, n
  <2>5. \A i \in n - 0 .. n : i = n
    BY <2>1
  <2>6. Linked(where, f, 0, p)
    BY <1>a, <2>3, <2>4, <2>5
  <2> QED
    BY <2>6
<1>7. ASSUME NEW m \in Nat, m \in S PROVE m + 1 \in S
  <2> SUFFICES ASSUME m + 1 < n PROVE \E p : Linked(where, f, m + 1, p)
    OBVIOUS
  <2>1. PICK p : Linked(where, f, m, p)
    BY <1>1, <1>7
  <2> DEFINE k == n - (m + 1)
             this == Link(Cond_(where[k]), Op_(where, k), <<p[k + 1]>>)
             q == [i \in k .. n |-> IF i = k THEN this ELSE p[i]]
  <2>2. k \in 1 .. n - 1 /\ k + 1 = n - m /\ k \in k .. n /\ k # n /\ k \in 1 .. n /\ k + 1 \in n - m .. n
    BY <1>1
  <2>3. q[k] = this
    BY <2>2
  <2>4. \A i \in k + 1 .. n : q[i] = p[i]
    BY <2>2
  <2> HIDE DEF q, k
  <2>5. f[k] = More(Sent_(c_cond[k]), f[k + 1])
    BY <1>4, <2>2
  <2>6. Travels(X, f[k], x0, this)
    <3> DEFINE left == serialize_cond(condition(where[k]))
               op == Op_(where, k)
               b == Cond_(where[k])
               y == f[k + 1]
               z == p[k + 1]
    <3>1. /\ Sent_(c_cond[k]) = Obj("CompoundCondition_", [left |-> left, op |-> op, right |-> <<>>], {"op", "left"})
          /\ Travels(Struct("Condition_"), left, New("Condition_"), b) /\ Travels(I32, op, 0, op)
      BY <1>5, <2>2
    <3>2. Travels(X, y, x0, z)
      BY <1>a, <2>1, <2>2
    <3>3. this = Obj("CompoundCondition_", [left |-> b, op |-> op, right |-> <<z>>], {"left", "op", "right"})
      <4>1. <<z>> # <<>>
        OBVIOUS
      <4> HIDE DEF z
      <4> QED
        BY <4>1 DEF Link, z
    <3>4. f[k] = More(Obj("CompoundCondition_", [left |-> left, op |-> op, right |-> <<>>], {"op", "left"}), y)
      BY <2>5, <3>1
    <3> HIDE DEF left, op, b, y, z, this
    <3>5. f[k] = Obj("CompoundCondition_", [left |-> left, op |-> op, right |-> <<y>>], {"op", "left", "right"})
      BY <3>4, MoreIs
    <3>6. Travels(List(X), <<y>>, <<>>, <<z>>)
      <4> DEFINE s == <<y>>
                 t == <<z>>
      <4>1. IsSeq(s) /\ Len(s) = 1 /\ s[1] = y /\ IsSeq(t) /\ Len(t) = 1 /\ t[1] = z
        BY SeqOne
      <4>2. Element(X) = x0
        BY ElementIs DEF X, x0
      <4> HIDE DEF s, t
      <4>3. \A i \in 1 .. Len(s) : i = 1
        BY <4>1
      <4>4. Len(s) = Len(t) /\ \A i \in 1 .. Len(s) : Travels(X, s[i], Element(X), t[i])
        BY <3>2, <4>1, <4>2, <4>3
      <4>5. Travels(List(X), s, <<>>, t)
        BY <4>1, <4>4, ListTravels
      <4> QED
        BY <4>5 DEF s, t
    <3>7. "right" \in {"op", "left", "right"}
      OBVIOUS
    <3> QED
      BY <3>1, <3>3, <3>5, <3>6, <3>7, CompoundConditionTravels DEF X, x0
  <2>7. q[k + 1] = p[k + 1]
    BY <2>2, <2>4
  <2>8. ASSUME NEW i \in k .. n
        PROVE  /\ q[i] = Link(Cond_(where[i]), Op_(where, i), IF i = n THEN <<>> ELSE <<q[i + 1]>>)
               /\ Travels(X, f[i], x0, q[i])
    <3>1. CASE i = k
      BY <2>2, <2>3, <2>6, <2>7, <3>1
    <3>2. CASE i # k
      <4>1. i \in n - m .. n /\ i \in k + 1 .. n /\ (i # n => i + 1 \in k + 1 .. n)
        BY <1>1, <2>2, <3>2
      <4>2. q[i] = p[i] /\ (i # n => q[i + 1] = p[i + 1])
        BY <2>4, <4>1
      <4>3. /\ p[i] = Link(Cond_(where[i]), Op_(where, i), IF i = n THEN <<>> ELSE <<p[i + 1]>>)
            /\ Travels(X, f[i], x0, p[i])
        BY <1>a, <2>1, <4>1
      <4> QED
        BY <4>2, <4>3
    <3> QED
      BY <3>1, <3>2
  <2>9. Linked(where, f, m + 1, q)
    <3>1. n - (m + 1) = k
      BY DEF k
    <3> QED
      BY <1>a, <2>8, <3>1
  <2> QED
    BY <2>9
<1>8. Nat \subseteq S
  <2> HIDE DEF S
  <2> QED
    BY <1>6, <1>7, NatSetInduction
<1>9. PICK p : Linked(where, f, n - 1, p)
  BY <1>1, <1>8
<1>10. n - (n - 1) = 1 /\ 1 \in 1 .. n
  BY <1>1
<1>11. Chained(where, p)
  BY <1>a, <1>b, <1>9, <1>10
<1>12. Travels(X, f[1], x0, p[1])
  BY <1>1, <1>a, <1>9, <1>10
<1> QED
  BY <1>4, <1>11, <1>12 DEF c_cond, X, x0

----------------------------------------------------------------------------
(* Statements arrive.                                                       *)

\* The statement object with one member of the union Stmt_ set.
Statement_(type, member, v) ==
    Obj("Statement_", [st_type |-> type, stmt |-> With(New("Stmt_"), member, v)], {"st_type", "stmt"})

(* The statements that arrive, by the kind of line.                         *)
Create_(l) ==
    Statement_(CREATE_STMT, "create_tbl",
        Obj("CreateStmt_", [cols |-> [i \in DOMAIN l.columns |-> Column_(l.columns[i])],
                            tblName |-> l.table], {"cols", "tblName"}))
Drop_(l) == Statement_(DROP_STMT, "drop_tbl", Obj("DropStmt_", [tblName |-> l.table], {"tblName"}))
Insert_(l) ==
    Statement_(INSERT_STMT, "insert",
        Obj("InsertStmt_", [tblName |-> l.table, rows |-> [i \in DOMAIN l.rows |-> Row_(l.rows[i])]],
            {"tblName", "rows"}))
DeleteAll_(l) ==
    Statement_(DELETE_STMT, "dl",
        Obj("DeleteStmt_", [tblName |-> l.table, cond |-> New("CompoundCondition_")], {"tblName"}))
Delete_(l, c) ==
    Statement_(DELETE_STMT, "dl",
        Obj("DeleteStmt_", [tblName |-> l.table, cond |-> c], {"tblName", "cond"}))
Update_(l, c) ==
    Statement_(UPDATE_STMT, "update",
        Obj("UpdateStmt_", [tblName |-> l.table, new_row |-> <<>>, cond |-> c],
            {"tblName", "new_row", "cond"}))

\* s is what arrives of a line.
Brings(l, s) ==
    \/ l.op = "CREATE" /\ s = Create_(l)
    \/ l.op = "DROP" /\ s = Drop_(l)
    \/ l.op = "ADD" /\ s = Insert_(l)
    \/ l.op = "REMOVE" /\ l.where = <<>> /\ s = DeleteAll_(l)
    \/ l.op = "REMOVE" /\ l.where # <<>> /\ \E p : Chained(l.where, p) /\ s = Delete_(l, p[1])
    \/ l.op = "UPDATE" /\ l.where # <<>> /\ \E p : Chained(l.where, p) /\ s = Update_(l, p[1])

(* The client makes a statement of the line, which arrives as s.            *)
StatementComes(l, s) ==
    Travels(Struct("Statement_"), serialize(parse_statement(l)), New("Statement_"), s)

(* The numbers of the statements differ.                                    *)
LEMMA TypeNumbers ==
    /\ {CREATE_STMT, DROP_STMT, SELECT_STMT, UPDATE_STMT, INSERT_STMT, DELETE_STMT} \subseteq 0 .. 5
    /\ CREATE_STMT # DROP_STMT /\ CREATE_STMT # SELECT_STMT /\ CREATE_STMT # UPDATE_STMT
    /\ CREATE_STMT # INSERT_STMT /\ CREATE_STMT # DELETE_STMT
    /\ DROP_STMT # SELECT_STMT /\ DROP_STMT # UPDATE_STMT /\ DROP_STMT # INSERT_STMT
    /\ DROP_STMT # DELETE_STMT
    /\ SELECT_STMT # UPDATE_STMT /\ SELECT_STMT # INSERT_STMT /\ SELECT_STMT # DELETE_STMT
    /\ UPDATE_STMT # INSERT_STMT /\ UPDATE_STMT # DELETE_STMT
    /\ INSERT_STMT # DELETE_STMT
BY DEF CREATE_STMT, DROP_STMT, SELECT_STMT, UPDATE_STMT, INSERT_STMT, DELETE_STMT

Body(stmt, member, v) ==
    Set2(New("Statement_"), "st_type", stmt.st_type, "stmt", Set(New("Stmt_"), member, v))

(* serialize by the type of the statement.                                  *)
LEMMA SerializeCases ==
    ASSUME NEW stmt
    PROVE  /\ stmt.st_type = CREATE_STMT => serialize(stmt) = Body(stmt, "create_tbl", serialize_cr(stmt))
           /\ stmt.st_type = DROP_STMT => serialize(stmt) = Body(stmt, "drop_tbl", serialize_dr(stmt))
           /\ stmt.st_type = INSERT_STMT => serialize(stmt) = Body(stmt, "insert", serialize_ins(stmt))
           /\ stmt.st_type = DELETE_STMT => serialize(stmt) = Body(stmt, "dl", serialize_del(stmt))
           /\ stmt.st_type = SELECT_STMT => serialize(stmt) = Body(stmt, "select", serialize_sel(stmt))
           /\ stmt.st_type = UPDATE_STMT => serialize(stmt) = Body(stmt, "update", serialize_upd(stmt))
<1> DEFINE Part(member, v) == Set(New("Stmt_"), member, v)
<1>1. stmt.st_type = CREATE_STMT => serialize_stmt(stmt) = Part("create_tbl", serialize_cr(stmt))
  BY TypeNumbers, Zenon DEF serialize_stmt
<1>2. stmt.st_type = DROP_STMT => serialize_stmt(stmt) = Part("drop_tbl", serialize_dr(stmt))
  BY TypeNumbers, Zenon DEF serialize_stmt
<1>3. stmt.st_type = INSERT_STMT => serialize_stmt(stmt) = Part("insert", serialize_ins(stmt))
  BY TypeNumbers, Zenon DEF serialize_stmt
<1>4. stmt.st_type = DELETE_STMT => serialize_stmt(stmt) = Part("dl", serialize_del(stmt))
  BY TypeNumbers, Zenon DEF serialize_stmt
<1>5. stmt.st_type = SELECT_STMT => serialize_stmt(stmt) = Part("select", serialize_sel(stmt))
  BY TypeNumbers, Zenon DEF serialize_stmt
<1>6. stmt.st_type = UPDATE_STMT => serialize_stmt(stmt) = Part("update", serialize_upd(stmt))
  BY TypeNumbers, Zenon DEF serialize_stmt
<1> QED
  BY <1>1, <1>2, <1>3, <1>4, <1>5, <1>6, Zenon DEF serialize, Body

\* The members of the union Stmt_.
LEMMA StmtSet ==
    ASSUME NEW m \in {"create_tbl", "drop_tbl", "insert", "select", "update", "dl"}, NEW v
    PROVE  \E has : Set(New("Stmt_"), m, v) = Obj("Stmt_", has, {m}) /\ has[m] = v
<1> DEFINE h == [create_tbl |-> New("CreateStmt_"), drop_tbl |-> New("DropStmt_"), insert |-> New("InsertStmt_"),
                 select |-> New("SelectStmt_"), update |-> New("UpdateStmt_"), dl |-> New("DeleteStmt_")]
           has == [h EXCEPT ![m] = v]
<1>1. New("Stmt_") = Obj("Stmt_", h, {})
  BY StmtTables
<1>2. ~Refused("Stmt_", m, v)
  BY NeverRefused
<1>3. has[m] = v
  OBVIOUS
<1> HIDE DEF h
<1>4. Set(Obj("Stmt_", h, {}), m, v) = Obj("Stmt_", has, {} \cup {m})
  BY <1>2, SetObj
<1>5. {} \cup {m} = {m}
  OBVIOUS
<1> HIDE DEF has
<1> QED
  BY <1>1, <1>3, <1>4, <1>5

(* What serialize makes of a statement and its body.                        *)
LEMMA BodyMade ==
    ASSUME NEW stmt, stmt.st_type \in 0 .. 5, NEW m, NEW v
    PROVE  Body(stmt, m, v)
             = Obj("Statement_", [st_type |-> stmt.st_type, stmt |-> Set(New("Stmt_"), m, v)], {"st_type", "stmt"})
BY StatementMade DEF Body, Set2

(* A statement travels if its body does.                                    *)
LEMMA BodyTravels ==
    ASSUME NEW stmt, stmt.st_type \in 0 .. 5, NEW v, NEW w
    PROVE  /\ Travels(Struct("CreateStmt_"), v, New("CreateStmt_"), w) =>
                Travels(Struct("Statement_"), Body(stmt, "create_tbl", v), New("Statement_"),
                        Statement_(stmt.st_type, "create_tbl", w))
           /\ Travels(Struct("DropStmt_"), v, New("DropStmt_"), w) =>
                Travels(Struct("Statement_"), Body(stmt, "drop_tbl", v), New("Statement_"),
                        Statement_(stmt.st_type, "drop_tbl", w))
           /\ Travels(Struct("InsertStmt_"), v, New("InsertStmt_"), w) =>
                Travels(Struct("Statement_"), Body(stmt, "insert", v), New("Statement_"),
                        Statement_(stmt.st_type, "insert", w))
           /\ Travels(Struct("UpdateStmt_"), v, New("UpdateStmt_"), w) =>
                Travels(Struct("Statement_"), Body(stmt, "update", v), New("Statement_"),
                        Statement_(stmt.st_type, "update", w))
           /\ Travels(Struct("DeleteStmt_"), v, New("DeleteStmt_"), w) =>
                Travels(Struct("Statement_"), Body(stmt, "dl", v), New("Statement_"),
                        Statement_(stmt.st_type, "dl", w))
<1>1. ASSUME NEW m, Travels(Struct("Stmt_"), Set(New("Stmt_"), m, v), New("Stmt_"), With(New("Stmt_"), m, w))
      PROVE  Travels(Struct("Statement_"), Body(stmt, m, v), New("Statement_"), Statement_(stmt.st_type, m, w))
  <2>1. Travels(I32, stmt.st_type, 0, stmt.st_type)
    BY Scalars
  <2> DEFINE a == Set(New("Stmt_"), m, v)
             b == With(New("Stmt_"), m, w)
  <2>2. Body(stmt, m, v) = Obj("Statement_", [st_type |-> stmt.st_type, stmt |-> a], {"st_type", "stmt"})
    BY BodyMade
  <2>3. Statement_(stmt.st_type, m, w) = Obj("Statement_", [st_type |-> stmt.st_type, stmt |-> b], {"st_type", "stmt"})
    BY DEF Statement_
  <2>4. Travels(Struct("Stmt_"), a, New("Stmt_"), b)
    BY <1>1
  <2> HIDE DEF a, b
  <2> QED
    BY <2>1, <2>2, <2>3, <2>4, StatementTravels
<1>2. ASSUME Travels(Struct("CreateStmt_"), v, New("CreateStmt_"), w)
      PROVE  Travels(Struct("Stmt_"), Set(New("Stmt_"), "create_tbl", v), New("Stmt_"), With(New("Stmt_"), "create_tbl", w))
  <2>1. PICK has : Set(New("Stmt_"), "create_tbl", v) = Obj("Stmt_", has, {"create_tbl"}) /\ has["create_tbl"] = v
    BY StmtSet
  <2> QED
    BY <1>2, <2>1, StmtOneSet
<1>3. ASSUME Travels(Struct("DropStmt_"), v, New("DropStmt_"), w)
      PROVE  Travels(Struct("Stmt_"), Set(New("Stmt_"), "drop_tbl", v), New("Stmt_"), With(New("Stmt_"), "drop_tbl", w))
  <2>1. PICK has : Set(New("Stmt_"), "drop_tbl", v) = Obj("Stmt_", has, {"drop_tbl"}) /\ has["drop_tbl"] = v
    BY StmtSet
  <2> QED
    BY <1>3, <2>1, StmtOneSet
<1>4. ASSUME Travels(Struct("InsertStmt_"), v, New("InsertStmt_"), w)
      PROVE  Travels(Struct("Stmt_"), Set(New("Stmt_"), "insert", v), New("Stmt_"), With(New("Stmt_"), "insert", w))
  <2>1. PICK has : Set(New("Stmt_"), "insert", v) = Obj("Stmt_", has, {"insert"}) /\ has["insert"] = v
    BY StmtSet
  <2> QED
    BY <1>4, <2>1, StmtOneSet
<1>5. ASSUME Travels(Struct("UpdateStmt_"), v, New("UpdateStmt_"), w)
      PROVE  Travels(Struct("Stmt_"), Set(New("Stmt_"), "update", v), New("Stmt_"), With(New("Stmt_"), "update", w))
  <2>1. PICK has : Set(New("Stmt_"), "update", v) = Obj("Stmt_", has, {"update"}) /\ has["update"] = v
    BY StmtSet
  <2> QED
    BY <1>5, <2>1, StmtOneSet
<1>6. ASSUME Travels(Struct("DeleteStmt_"), v, New("DeleteStmt_"), w)
      PROVE  Travels(Struct("Stmt_"), Set(New("Stmt_"), "dl", v), New("Stmt_"), With(New("Stmt_"), "dl", w))
  <2>1. PICK has : Set(New("Stmt_"), "dl", v) = Obj("Stmt_", has, {"dl"}) /\ has["dl"] = v
    BY StmtSet
  <2> QED
    BY <1>6, <2>1, StmtOneSet
<1> QED
  BY <1>1, <1>2, <1>3, <1>4, <1>5, <1>6

(* A CREATE arrives.                                                        *)
LEMMA CreateComes ==
    ASSUME NEW l, l.op = "CREATE", l.table \in Names, l.columns \in ListOf(ColumnDefinitions)
    PROVE  StatementComes(l, Create_(l))
<1> DEFINE cols == [i \in DOMAIN l.columns |-> columnDefinition(l.columns[i])]
           sent == [i \in DOMAIN cols |-> serialize_column(cols[i])]
           come == [i \in DOMAIN l.columns |-> Column_(l.columns[i])]
           stmt == parse_statement(l)
           body == Obj("CreateStmt_", [cols |-> sent, tblName |-> l.table], {"tblName", "cols"})
           got == Obj("CreateStmt_", [cols |-> come, tblName |-> l.table], {"cols", "tblName"})
<1>1. Travels(List(Struct("Column_")), sent, <<>>, come)
  BY ColumnsArrive
<1>2. Travels(Str, l.table, NULL, l.table)
  BY NamesFull
<1>3. stmt = createCreateStatement(l.table, cols)
  BY ParseCases
<1>4. stmt.st_type = CREATE_STMT /\ stmt.tblName = l.table /\ stmt.cols = cols
  <2> HIDE DEF stmt, cols
  <2> QED
    BY <1>3 DEF createCreateStatement
<1>5. serialize_cr(stmt) = body
  <2>1. serialize_cr(stmt) = Set(Set(New("CreateStmt_"), "tblName", l.table), "cols", sent)
    <3> HIDE DEF stmt, cols
    <3> QED
      BY <1>4, Zenon DEF serialize_cr, Set2
  <2> HIDE DEF sent, stmt
  <2> QED
    BY <2>1, CreateStmtMade
<1>6. Create_(l) = Statement_(CREATE_STMT, "create_tbl", got)
  BY DEF Create_
<1>7. Travels(Struct("CreateStmt_"), body, New("CreateStmt_"), got)
  <2> HIDE DEF sent, come
  <2> QED
    BY <1>1, <1>2, CreateStmtTravels
<1>8. serialize(stmt) = Body(stmt, "create_tbl", body)
  <2> HIDE DEF stmt, body
  <2> QED
    BY <1>4, <1>5, SerializeCases
<1> HIDE DEF body, got, stmt
<1>9. CREATE_STMT \in 0 .. 5
  BY TypeNumbers
<1> QED
  BY <1>4, <1>6, <1>7, <1>8, <1>9, BodyTravels DEF StatementComes, stmt

(* A DROP arrives.                                                          *)
LEMMA DropComes ==
    ASSUME NEW l, l.op = "DROP", l.table \in Names
    PROVE  StatementComes(l, Drop_(l))
<1> DEFINE stmt == parse_statement(l)
           body == Obj("DropStmt_", [tblName |-> l.table], {"tblName"})
<1>1. Travels(Str, l.table, NULL, l.table)
  BY NamesFull
<1>2. stmt = createDropStatement(l.table)
  BY ParseCases
<1> HIDE DEF stmt
<1>3. stmt.st_type = DROP_STMT /\ stmt.tblName = l.table
  BY <1>2 DEF createDropStatement
<1>4. serialize_dr(stmt) = body
  BY <1>3, DropStmtMade DEF serialize_dr
<1>5. Travels(Struct("DropStmt_"), body, New("DropStmt_"), body)
  BY <1>1, DropStmtTravels
<1>6. Drop_(l) = Statement_(DROP_STMT, "drop_tbl", body)
  BY DEF Drop_
<1> HIDE DEF body
<1>7. serialize(stmt) = Body(stmt, "drop_tbl", body)
  BY <1>3, <1>4, SerializeCases
<1>8. DROP_STMT \in 0 .. 5
  BY TypeNumbers
<1> QED
  BY <1>3, <1>5, <1>6, <1>7, <1>8, BodyTravels DEF StatementComes, stmt

(* An ADD arrives.                                                          *)
LEMMA InsertComes ==
    ASSUME NEW l, l.op = "ADD", l.table \in Names, l.rows \in ListOf(ListOf(ColumnValues))
    PROVE  StatementComes(l, Insert_(l))
<1> DEFINE rows == insertList(l.rows)
           sent == [i \in DOMAIN rows |-> serialize_row(rows[i])]
           come == [i \in DOMAIN l.rows |-> Row_(l.rows[i])]
           stmt == parse_statement(l)
           body == Obj("InsertStmt_", [tblName |-> l.table, rows |-> sent], {"tblName", "rows"})
           got == Obj("InsertStmt_", [tblName |-> l.table, rows |-> come], {"tblName", "rows"})
<1>1. Travels(List(List(Struct("ColVal_"))), sent, <<>>, come)
  BY RowsArrive
<1>2. Travels(Str, l.table, NULL, l.table)
  BY NamesFull
<1>3. stmt = createInsertStatement(l.table, rows)
  BY ParseCases
<1>4. stmt.st_type = INSERT_STMT /\ stmt.tblName = l.table /\ stmt.rows = rows
  <2> HIDE DEF stmt, rows
  <2> QED
    BY <1>3 DEF createInsertStatement
<1>5. serialize_ins(stmt) = body
  <2>1. serialize_ins(stmt) = Set(Set(New("InsertStmt_"), "tblName", l.table), "rows", sent)
    <3> HIDE DEF stmt, rows
    <3> QED
      BY <1>4, Zenon DEF serialize_ins, Set2
  <2> HIDE DEF sent, stmt
  <2> QED
    BY <2>1, InsertStmtMade
<1>6. Insert_(l) = Statement_(INSERT_STMT, "insert", got)
  BY DEF Insert_
<1>7. Travels(Struct("InsertStmt_"), body, New("InsertStmt_"), got)
  <2> HIDE DEF sent, come
  <2> QED
    BY <1>1, <1>2, InsertStmtTravels
<1>8. serialize(stmt) = Body(stmt, "insert", body)
  <2> HIDE DEF stmt, body
  <2> QED
    BY <1>4, <1>5, SerializeCases
<1> HIDE DEF body, got, stmt
<1>9. INSERT_STMT \in 0 .. 5
  BY TypeNumbers
<1> QED
  BY <1>4, <1>6, <1>7, <1>8, <1>9, BodyTravels DEF StatementComes, stmt

(* The empty condition is NULL, and no other is.                            *)
LEMMA NoWhere ==
    ASSUME NEW where \in Wheres({NULL})
    PROVE  compound_condition(where) = <<>> <=> where = <<>>
<1> DEFINE c == compound_condition(where)
<1>1. IsSeq(where) /\ Len(where) \in Nat /\ DOMAIN where = 1 .. Len(where)
  BY WhereIs
<1>2. DOMAIN c = DOMAIN where /\ c = [i \in DOMAIN c |-> c[i]]
  BY DEF compound_condition
<1> HIDE DEF c
<1>3. IsSeq(c) /\ Len(c) = Len(where)
  BY <1>1, <1>2, SeqMade
<1>4. \A s : IsSeq(s) => (s = <<>> <=> Len(s) = 0)
  <2> SUFFICES ASSUME NEW s, IsSeq(s) PROVE s = <<>> <=> Len(s) = 0
    OBVIOUS
  <2> DEFINE e == <<>>
  <2>1. IsSeq(e) /\ Len(e) = 0
    BY SeqEmpty
  <2> HIDE DEF e
  <2>2. Len(s) = 0 => s = e
    BY <2>1, SameSeq, 1 .. 0 = {}
  <2> QED
    BY <2>1, <2>2 DEF e
<1> QED
  BY <1>1, <1>3, <1>4 DEF c

(* A REMOVE arrives, with its condition if it has one.                      *)
LEMMA DeleteComes ==
    ASSUME NEW l, l.op = "REMOVE", l.table \in Names, l.where \in Wheres({NULL})
    PROVE  /\ l.where = <<>> => StatementComes(l, DeleteAll_(l))
           /\ l.where # <<>> => \E p : Chained(l.where, p) /\ StatementComes(l, Delete_(l, p[1]))
<1> DEFINE stmt == parse_statement(l)
           c_cond == compound_condition(l.where)
<1>1. Travels(Str, l.table, NULL, l.table)
  BY NamesFull
<1>2. stmt = createDeleteStatement(l.table, c_cond)
  BY ParseCases
<1>3. c_cond = <<>> <=> l.where = <<>>
  BY NoWhere
<1>4. l.where # <<>> => \E p : /\ Chained(l.where, p)
                               /\ Travels(Struct("CompoundCondition_"), serialize_c_cond(c_cond), New("CompoundCondition_"), p[1])
  BY ChainArrives
<1> HIDE DEF stmt, c_cond
<1>5. stmt.st_type = DELETE_STMT /\ stmt.tblName = l.table /\ stmt.cond = c_cond
  BY <1>2 DEF createDeleteStatement
<1>6. DELETE_STMT \in 0 .. 5
  BY TypeNumbers
<1>7. ASSUME l.where = <<>> PROVE StatementComes(l, DeleteAll_(l))
  <2> DEFINE got == Obj("DeleteStmt_", [tblName |-> l.table, cond |-> New("CompoundCondition_")], {"tblName"})
  <2>1. serialize_del(stmt) = got
    BY <1>3, <1>5, <1>7, DeleteAllMade DEF serialize_del
  <2>2. Travels(Struct("DeleteStmt_"), got, New("DeleteStmt_"), got)
    <3>1. "cond" \notin {"tblName"}
      OBVIOUS
    <3> QED
      BY <1>1, <3>1, DeleteAllTravels
  <2>3. DeleteAll_(l) = Statement_(DELETE_STMT, "dl", got)
    BY DEF DeleteAll_
  <2> HIDE DEF got
  <2>4. serialize(stmt) = Body(stmt, "dl", got)
    BY <1>5, <2>1, SerializeCases
  <2> QED
    BY <1>5, <1>6, <2>2, <2>3, <2>4, BodyTravels DEF StatementComes, stmt
<1>8. ASSUME l.where # <<>>
      PROVE  \E p : Chained(l.where, p) /\ StatementComes(l, Delete_(l, p[1]))
  <2>1. PICK p : /\ Chained(l.where, p)
                 /\ Travels(Struct("CompoundCondition_"), serialize_c_cond(c_cond), New("CompoundCondition_"), p[1])
    BY <1>4, <1>8
  <2> DEFINE c == p[1]
             sent == serialize_c_cond(c_cond)
             body == Obj("DeleteStmt_", [tblName |-> l.table, cond |-> sent], {"tblName", "cond"})
             got == Obj("DeleteStmt_", [tblName |-> l.table, cond |-> c], {"tblName", "cond"})
  <2>2. serialize_del(stmt) = body
    <3>1. serialize_del(stmt) = Set(Set(New("DeleteStmt_"), "tblName", l.table), "cond", sent)
      BY <1>3, <1>5, <1>8 DEF serialize_del
    <3> HIDE DEF sent
    <3> QED
      BY <3>1, DeleteStmtMade
  <2>3. Travels(Struct("DeleteStmt_"), body, New("DeleteStmt_"), got)
    <3>1. "cond" \in {"tblName", "cond"}
      OBVIOUS
    <3>2. Travels(Struct("CompoundCondition_"), sent, New("CompoundCondition_"), c)
      BY <2>1
    <3> HIDE DEF sent, c
    <3> QED
      BY <1>1, <3>1, <3>2, DeleteStmtTravels
  <2>4. Delete_(l, c) = Statement_(DELETE_STMT, "dl", got)
    BY DEF Delete_
  <2> HIDE DEF got, body
  <2>5. serialize(stmt) = Body(stmt, "dl", body)
    BY <1>5, <2>2, SerializeCases
  <2>6. StatementComes(l, Delete_(l, c))
    BY <1>5, <1>6, <2>3, <2>4, <2>5, BodyTravels DEF StatementComes, stmt
  <2> QED
    BY <2>1, <2>6
<1> QED
  BY <1>7, <1>8

(* An UPDATE arrives without the new row, which serialize_upd never sets.   *)
LEMMA UpdateComes ==
    ASSUME NEW l, l.op = "UPDATE", l.table \in Names, l.where \in Wheres({NULL}), l.where # <<>>
    PROVE  \E p : Chained(l.where, p) /\ StatementComes(l, Update_(l, p[1]))
<1> DEFINE stmt == parse_statement(l)
           c_cond == compound_condition(l.where)
           vals == columnValueList(l.row)
<1>1. Travels(Str, l.table, NULL, l.table)
  BY NamesFull
<1>2. stmt = createUpdateStatement(l.table, vals, c_cond)
  BY ParseCases
<1>3. PICK p : /\ Chained(l.where, p)
               /\ Travels(Struct("CompoundCondition_"), serialize_c_cond(c_cond), New("CompoundCondition_"), p[1])
  BY ChainArrives
<1> DEFINE c == p[1]
           sent == serialize_c_cond(c_cond)
           none == <<>>
           body == Obj("UpdateStmt_", [tblName |-> l.table, new_row |-> none, cond |-> sent], {"tblName", "cond"})
           got == Obj("UpdateStmt_", [tblName |-> l.table, new_row |-> none, cond |-> c], {"tblName", "new_row", "cond"})
<1>4. Travels(List(Struct("ColVal_")), none, none, none)
  <2>1. IsSeq(none) /\ Len(none) = 0
    BY SeqEmpty
  <2>2. Travels(List(Struct("ColVal_")), none, <<>>, none)
    <3> HIDE DEF none
    <3> QED
      BY <2>1, ListTravels, 1 .. 0 = {}
  <2> QED
    BY <2>2
<1> HIDE DEF stmt, c_cond, vals
<1>5. stmt.st_type = UPDATE_STMT /\ stmt.tblName = l.table /\ stmt.cond = c_cond
  BY <1>2 DEF createUpdateStatement
<1>6. UPDATE_STMT \in 0 .. 5
  BY TypeNumbers
<1>7. serialize_upd(stmt) = body
  <2>1. serialize_upd(stmt) = Set(Set(New("UpdateStmt_"), "tblName", l.table), "cond", sent)
    BY <1>5 DEF serialize_upd, Set2
  <2> HIDE DEF sent
  <2> QED
    BY <2>1, UpdateStmtMade
<1>8. Travels(Struct("UpdateStmt_"), body, New("UpdateStmt_"), got)
  <2>1. Travels(Struct("CompoundCondition_"), sent, New("CompoundCondition_"), c)
    BY <1>3
  <2>2. Travels(List(Struct("ColVal_")), none, <<>>, none)
    BY <1>4
  <2> HIDE DEF sent, c, none
  <2> QED
    BY <1>1, <2>1, <2>2, UpdateStmtTravels
<1>9. Update_(l, c) = Statement_(UPDATE_STMT, "update", got)
  BY DEF Update_
<1> HIDE DEF got, body
<1>10. serialize(stmt) = Body(stmt, "update", body)
  BY <1>5, <1>7, SerializeCases
<1>11. StatementComes(l, Update_(l, c))
  BY <1>5, <1>6, <1>8, <1>9, <1>10, BodyTravels DEF StatementComes, stmt
<1> QED
  BY <1>3, <1>11

(* The statement of every line the client can send arrives.                 *)
LEMMA StatementArrives ==
    ASSUME NEW l \in Grammar, l.op # "SELECT", l.op = "UPDATE" => l.where # <<>>
    PROVE  \E s : Brings(l, s) /\ StatementComes(l, s)
<1>1. CASE l.op = "CREATE" /\ l.table \in Names /\ l.columns \in ListOf(ColumnDefinitions)
  BY <1>1, CreateComes DEF Brings
<1>2. CASE l.op = "DROP" /\ l.table \in Names
  BY <1>2, DropComes DEF Brings
<1>3. CASE l.op = "ADD" /\ l.table \in Names /\ l.rows \in ListOf(ListOf(ColumnValues))
  BY <1>3, InsertComes DEF Brings
<1>4. CASE l.op = "REMOVE" /\ l.table \in Names /\ l.where \in Wheres({NULL})
  BY <1>4, DeleteComes DEF Brings
<1>5. CASE l.op = "UPDATE" /\ l.table \in Names /\ l.where \in Wheres({NULL})
  BY <1>5, UpdateComes DEF Brings
<1> QED
  BY <1>1, <1>2, <1>3, <1>4, <1>5, GrammarCases

----------------------------------------------------------------------------
(* A SELECT has no statement to write: its writer comes to a NULL and ends. *)

\* What is still to be written ends, and if hit, in a NULL that ends the writer.
Ends_(w, hit) == \E t : WritesTo(w, t) /\ (hit => \E i \in 1 .. Len(t) : ~IsToken(t[i]))

(* Nothing written does not end the writer.                                 *)
LEMMA EndsNone == Ends_(<<>>, FALSE)
<1>1. Settled(<<>>)
  BY SeqEmpty DEF Settled
<1> QED
  BY <1>1, WritesTokens DEF Ends_

(* Two stretches end in a NULL if one of them does.                         *)
LEMMA EndsConcat ==
    ASSUME NEW a, NEW b, NEW x \in BOOLEAN, NEW y \in BOOLEAN, Ends_(a, x), Ends_(b, y)
    PROVE  Ends_(a \o b, x \/ y)
<1>1. PICK s : WritesTo(a, s) /\ (x => \E i \in 1 .. Len(s) : ~IsToken(s[i]))
  BY DEF Ends_
<1>2. PICK t : WritesTo(b, t) /\ (y => \E i \in 1 .. Len(t) : ~IsToken(t[i]))
  BY DEF Ends_
<1> DEFINE u == s \o t
<1>3. WritesTo(a \o b, u)
  BY <1>1, <1>2, WritesConcat
<1>4. IsSeq(s) /\ IsSeq(t) /\ Len(s) \in Nat /\ Len(t) \in Nat
  BY <1>1, <1>2, SeqLen DEF WritesTo, Settled
<1>5. /\ Len(u) = Len(s) + Len(t)
      /\ \A i \in 1 .. Len(s) : u[i] = s[i]
      /\ \A i \in 1 .. Len(t) : u[Len(s) + i] = t[i]
  BY <1>4, SeqConcat
<1> HIDE DEF u
<1>6. x => \E i \in 1 .. Len(u) : ~IsToken(u[i])
  <2> SUFFICES ASSUME x PROVE \E i \in 1 .. Len(u) : ~IsToken(u[i])
    OBVIOUS
  <2>1. PICK i \in 1 .. Len(s) : ~IsToken(s[i])
    BY <1>1
  <2>2. i \in 1 .. Len(u) /\ u[i] = s[i]
    BY <1>4, <1>5
  <2> QED
    BY <2>1, <2>2
<1>7. y => \E i \in 1 .. Len(u) : ~IsToken(u[i])
  <2> SUFFICES ASSUME y PROVE \E i \in 1 .. Len(u) : ~IsToken(u[i])
    OBVIOUS
  <2>1. PICK i \in 1 .. Len(t) : ~IsToken(t[i])
    BY <1>2
  <2>2. Len(s) + i \in 1 .. Len(u) /\ u[Len(s) + i] = t[i]
    BY <1>4, <1>5
  <2> QED
    BY <2>1, <2>2
<1> HIDE DEF Ends_
<1> QED
  BY <1>3, <1>6, <1>7 DEF Ends_, u

(* A pass writes what the items are written as.                             *)
LEMMA EndsPass ==
    ASSUME NEW w, NEW x, Clear(w), Ends_(Pass(w), x)
    PROVE  Ends_(w, x)
BY WritesPass DEF Ends_

(* What travels is written to its end.                                      *)
LEMMA EndsTravels ==
    ASSUME NEW type, NEW v, NEW old, NEW v2, Travels(type, v, old, v2)
    PROVE  Ends_(<<Value(type, v)>>, FALSE)
BY DEF Travels, Ends_

(* A struct that is NULL ends the writer.                                   *)
LEMMA EndsNull ==
    ASSUME NEW n
    PROVE  Ends_(<<Value(Struct(n), NoObject)>>, TRUE)
<1> DEFINE x == Value(Struct(n), NoObject)
           t == <<x>>
<1>1. ~IsToken(x) /\ x.type.wire = "T_STRUCT" /\ x.value.type = NoObject.type
  BY DEF Value, Struct, IsToken
<1> HIDE DEF x
<1>2. IsFatal(x)
  BY <1>1 DEF IsFatal
<1>3. IsSeq(t) /\ Len(t) = 1 /\ t[1] = x
  BY SeqOne
<1> HIDE DEF t
<1>4. Settled(t)
  BY <1>2, <1>3 DEF Settled
<1>5. 1 \in 1 .. Len(t) /\ ~IsToken(t[1])
  BY <1>1, <1>3
<1>6. WritesTo(t, t)
  BY <1>4, WritesTokens
<1>7. Ends_(t, TRUE)
  BY <1>5, <1>6 DEF Ends_
<1> QED
  BY <1>7 DEF t, x

(* A field ends the writer if its value does.                               *)
LEMMA EndsField ==
    ASSUME NEW f, NEW o, NEW hit \in BOOLEAN,
           f.ifset /\ f.name \notin o.isset => ~hit,
           ~(f.ifset /\ f.name \notin o.isset) => Ends_(<<Value(f.type, o.has[f.name])>>, hit)
    PROVE  Ends_(WriteField(f, o), hit)
<1>1. CASE f.ifset /\ f.name \notin o.isset
  <2>1. WriteField(f, o) = <<>>
    BY <1>1 DEF WriteField
  <2>2. hit = FALSE
    BY <1>1
  <2> QED
    BY <2>1, <2>2, EndsNone
<1>2. CASE ~(f.ifset /\ f.name \notin o.isset)
  <2> DEFINE k == Token(Field(f.fid, f.type.wire))
             x == Value(f.type, o.has[f.name])
             one == <<k>>
             two == <<x>>
  <2>1. WriteField(f, o) = <<k, x>>
    BY <1>2, Zenon DEF WriteField
  <2>2. <<k, x>> = one \o two
    BY ONLY PairIs
  <2>3. WritesTo(one, one)
    BY TokenWritesTo
  <2>4. Ends_(two, hit)
    BY <1>2
  <2> HIDE DEF one, two
  <2>5. Ends_(one, FALSE)
    BY <2>3 DEF Ends_
  <2>6. Ends_(one \o two, FALSE \/ hit)
    BY <2>4, <2>5, EndsConcat
  <2>7. (FALSE \/ hit) = hit
    OBVIOUS
  <2>8. Ends_(one \o two, hit)
    BY <2>6, <2>7
  <2> QED
    BY <2>1, <2>2, <2>8
<1> QED
  BY <1>1, <1>2

(* Fields end the writer if one of them does.                               *)
LEMMA EndsFields ==
    ASSUME NEW fields, IsSeq(fields), NEW o, NEW j \in 1 .. Len(fields),
           \A i \in 1 .. Len(fields) : Ends_(WriteField(fields[i], o), i = j)
    PROVE  LET items == FlattenSeq([i \in DOMAIN fields |-> WriteField(fields[i], o)])
           IN  IsSeq(items) /\ Ends_(items, TRUE)
<1> DEFINE ss == [i \in DOMAIN fields |-> WriteField(fields[i], o)]
<1>1. Len(fields) \in Nat /\ DOMAIN fields = 1 .. Len(fields) /\ Len(fields) # 0
  BY SeqLen
<1>2. DOMAIN ss = 1 .. Len(fields) /\ ss = [i \in DOMAIN ss |-> ss[i]]
  BY <1>1
<1>3. \A i \in 1 .. Len(fields) : ss[i] = WriteField(fields[i], o)
  BY <1>1
<1> HIDE DEF ss
<1>4. IsSeq(ss) /\ Len(ss) = Len(fields)
  BY <1>1, <1>2, SeqMade
<1>5. \A i \in 1 .. Len(fields) : IsSeq(ss[i]) /\ Ends_(ss[i], i = j)
  BY <1>3, WriteFieldIsSeq
<1>6. PICK f : PartsJoined(ss, f) /\ FlattenSeq(ss) = f[Len(ss)]
  BY <1>1, <1>4, <1>5, FlattenPrefixes
<1> DEFINE Right(m) == IsSeq(f[m]) /\ Ends_(f[m], j <= m)
           S == {m \in Nat : m \in 1 .. Len(fields) => Right(m)}
<1>7. 0 \in S
  OBVIOUS
<1>8. ASSUME NEW m \in Nat, m \in S PROVE m + 1 \in S
  <2> SUFFICES ASSUME m + 1 <= Len(fields) PROVE Right(m + 1)
    <3> HIDE DEF Right
    <3> QED
      OBVIOUS
  <2>1. m + 1 \in 1 .. Len(fields)
    BY <1>1
  <2>2. CASE m = 0
    <3>1. f[1] = ss[1] /\ m + 1 = 1
      BY <1>6, <2>2 DEF PartsJoined
    <3>2. (1 = j) = (j <= 1)
      OBVIOUS
    <3>3. IsSeq(ss[1]) /\ Ends_(ss[1], 1 = j)
      BY <1>5, <2>1, <3>1
    <3>4. IsSeq(ss[1]) /\ Ends_(ss[1], j <= 1)
      BY <3>2, <3>3
    <3> QED
      BY <3>1, <3>4
  <2>3. CASE m # 0
    <3>1. m \in 1 .. Len(fields) /\ m + 1 \in 2 .. Len(ss) /\ (m + 1) - 1 = m
      BY <1>4, <2>1, <2>3
    <3> DEFINE a == f[m]
               b == ss[m + 1]
    <3>2. f[m + 1] = a \o b
      BY <1>6, <3>1 DEF PartsJoined
    <3>3. IsSeq(a) /\ Ends_(a, j <= m)
      BY <1>8, <3>1
    <3>4. IsSeq(b) /\ Ends_(b, m + 1 = j)
      BY <1>5, <2>1
    <3> HIDE DEF a, b
    <3>5. IsSeq(a \o b)
      BY ONLY <3>3, <3>4, SeqConcat
    <3>6. Ends_(a \o b, (j <= m) \/ (m + 1 = j))
      <4> DEFINE x == j <= m
                 y == m + 1 = j
      <4>1. Ends_(a, x) /\ Ends_(b, y) /\ x \in BOOLEAN /\ y \in BOOLEAN
        BY <3>3, <3>4
      <4> HIDE DEF x, y
      <4>2. Ends_(a \o b, x \/ y)
        BY ONLY <4>1, EndsConcat
      <4> QED
        BY <4>2 DEF x, y
    <3>7. ((j <= m) \/ (m + 1 = j)) = (j <= m + 1)
      BY <1>1
    <3>8. Ends_(a \o b, j <= m + 1)
      BY <3>6, <3>7
    <3> QED
      BY <3>2, <3>5, <3>8
  <2> QED
    BY <2>2, <2>3
<1>9. Len(fields) \in S
  <2> HIDE DEF S
  <2> QED
    BY <1>1, <1>7, <1>8, NatSetInduction
<1>10. Right(Len(fields))
  <2> HIDE DEF Right
  <2> QED
    BY <1>1, <1>9
<1>11. (j <= Len(fields)) = TRUE
  BY <1>1
<1>12. IsSeq(f[Len(fields)]) /\ Ends_(f[Len(fields)], TRUE)
  BY <1>10, <1>11
<1> QED
  BY <1>4, <1>6, <1>12 DEF ss

(* The writer of a struct ends if one of its fields does.                   *)
LEMMA EndsWrite ==
    ASSUME NEW o, NEW fields, WriteTable[o.type] = fields, IsSeq(fields),
           NEW j \in 1 .. Len(fields),
           \A i \in 1 .. Len(fields) : Ends_(WriteField(fields[i], o), i = j)
    PROVE  IsSeq(WriteStruct(o)) /\ Ends_(WriteStruct(o), TRUE)
<1> DEFINE items == FlattenSeq([i \in DOMAIN fields |-> WriteField(fields[i], o)])
           stop == <<Token(Stop)>>
<1>1. WriteStruct(o) = items \o stop
  BY Zenon DEF WriteStruct
<1>2. IsSeq(items) /\ Ends_(items, TRUE)
  BY EndsFields
<1>3. WritesTo(stop, stop) /\ IsSeq(stop)
  BY TokenWritesTo, SeqOne
<1> HIDE DEF items, stop
<1>4. Ends_(stop, FALSE)
  BY <1>3 DEF Ends_
<1>5. Ends_(items \o stop, TRUE \/ FALSE)
  BY <1>2, <1>4, EndsConcat
<1>6. IsSeq(items \o stop)
  BY ONLY <1>2, <1>3, SeqConcat
<1>7. (TRUE \/ FALSE) = TRUE
  OBVIOUS
<1> QED
  BY <1>1, <1>5, <1>6, <1>7

(* A struct ends the writer if its own writer does.                         *)
LEMMA EndsStruct ==
    ASSUME NEW n, NEW o, o.type # NoObject.type, IsSeq(WriteStruct(o)), Ends_(WriteStruct(o), TRUE)
    PROVE  Ends_(<<Value(Struct(n), o)>>, TRUE)
<1> DEFINE x == Value(Struct(n), o)
<1>1. x.type.wire = "T_STRUCT" /\ x.value = o /\ ~IsToken(x)
  BY DEF Value, Struct, IsToken
<1> HIDE DEF x
<1>2. Write(x) = WriteStruct(o)
  <2>1. ~IsFatal(x)
    BY <1>1, Zenon DEF IsFatal
  <2>2. "T_STRUCT" # "T_STRING" /\ "T_STRUCT" # "T_LIST"
    OBVIOUS
  <2> QED
    BY <1>1, <2>1, <2>2, Zenon DEF Write
<1>3. Clear(<<x>>) /\ Pass(<<x>>) = WriteStruct(o)
  BY <1>2, PassOne
<1>4. Ends_(<<x>>, TRUE)
  BY <1>3, EndsPass
<1> QED
  BY <1>4 DEF x

----------------------------------------------------------------------------
(* Every line either ends the client or arrives.                            *)

(* A SELECT has a NULL statement, which ends its writer.                    *)
LEMMA EndsStmt ==
    ASSUME NEW has, has["select"] = NoObject
    PROVE  Ends_(<<Value(Struct("Stmt_"), Obj("Stmt_", has, {"select"}))>>, TRUE)
<1> DEFINE fields == <<IfSet(1, "create_tbl", Struct("CreateStmt_")), IfSet(2, "drop_tbl", Struct("DropStmt_")), IfSet(3, "insert", Struct("InsertStmt_")), IfSet(4, "select", Struct("SelectStmt_")), IfSet(5, "update", Struct("UpdateStmt_")), IfSet(6, "dl", Struct("DeleteStmt_"))>>
           names == <<"create_tbl", "drop_tbl", "insert", "select", "update", "dl">>
           o == Obj("Stmt_", has, {"select"})
<1>1. WriteTable["Stmt_"] = fields
  BY StmtTables
<1>2. DOMAIN fields = 1 .. 6 /\ fields = [i \in DOMAIN fields |-> fields[i]]
  BY DEF IfSet
<1>3. fields[4].type = Struct("SelectStmt_") /\ \A i \in 1 .. 6 : fields[i].ifset /\ fields[i].name = names[i]
  BY DEF IfSet
<1>4. \A i \in 1 .. 6 : names[i] = "select" <=> i = 4
  OBVIOUS
<1>5. o.type = "Stmt_" /\ o.has = has /\ o.isset = {"select"} /\ "Stmt_" # NoObject.type
  BY DEF Obj, NoObject, Object
<1> HIDE DEF fields, names, o
<1>6. IsSeq(fields) /\ Len(fields) = 6
  BY <1>2, SeqMade
<1>7. ASSUME NEW i \in 1 .. 6 PROVE Ends_(WriteField(fields[i], o), i = 4)
  <2> DEFINE f == fields[i]
             hit == i = 4
  <2>1. f.ifset /\ (f.name \in o.isset <=> hit)
    BY <1>3, <1>4, <1>5
  <2>2. hit => Ends_(<<Value(f.type, o.has[f.name])>>, hit)
    <3> SUFFICES ASSUME hit PROVE Ends_(<<Value(f.type, o.has[f.name])>>, TRUE)
      BY Zenon
    <3>1. f.type = Struct("SelectStmt_") /\ f.name = "select"
      BY <1>3, <1>4
    <3>2. o.has[f.name] = NoObject
      BY <1>5, <3>1
    <3> QED
      BY <3>1, <3>2, EndsNull
  <2>3. hit \in BOOLEAN
    OBVIOUS
  <2> HIDE DEF f, hit
  <2>4. Ends_(WriteField(f, o), hit)
    BY <2>1, <2>2, <2>3, EndsField
  <2> QED
    BY <2>4 DEF f, hit
<1>8. 4 \in 1 .. Len(fields) /\ WriteTable[o.type] = fields
  BY <1>1, <1>5, <1>6
<1>9. IsSeq(WriteStruct(o)) /\ Ends_(WriteStruct(o), TRUE)
  <2>1. \A i \in 1 .. Len(fields) : Ends_(WriteField(fields[i], o), i = 4)
    BY <1>6, <1>7
  <2> QED
    BY <1>6, <1>8, <2>1, EndsWrite
<1> QED
  BY <1>5, <1>9, EndsStruct DEF o

(* And that of the statement around it.                                     *)
LEMMA EndsStatement ==
    ASSUME NEW type, NEW stmt, Ends_(<<Value(Struct("Stmt_"), stmt)>>, TRUE)
    PROVE  Ends_(<<Value(Struct("Statement_"), Obj("Statement_", [st_type |-> type, stmt |-> stmt], {"st_type", "stmt"}))>>, TRUE)
<1> DEFINE h == [st_type |-> type, stmt |-> stmt]
           o == Obj("Statement_", h, {"st_type", "stmt"})
           f1 == Always(1, "st_type", I32)
           f2 == Always(2, "stmt", Struct("Stmt_"))
           fields == <<f1, f2>>
<1>1. WriteTable["Statement_"] = fields
  BY StatementTables
<1>2. o.type = "Statement_" /\ o.has = h /\ "Statement_" # NoObject.type
  BY DEF Obj, NoObject, Object
<1>3. ~f1.ifset /\ ~f2.ifset /\ f1.name = "st_type" /\ f2.name = "stmt" /\ f1.type = I32 /\ f2.type = Struct("Stmt_")
  BY DEF Always
<1>4. fields \in Seq({f1, f2}) /\ Len(fields) = 2 /\ fields[1] = f1 /\ fields[2] = f2
  OBVIOUS
<1>5. h["st_type"] = type /\ h["stmt"] = stmt
  OBVIOUS
<1> HIDE DEF fields, f1, f2, o, h
<1>6. Ends_(WriteField(f1, o), FALSE)
  <2>1. Ends_(<<Value(f1.type, o.has[f1.name])>>, FALSE)
    BY <1>2, <1>3, <1>5, Scalars, EndsTravels
  <2> QED
    BY <1>3, <2>1, EndsField
<1>7. Ends_(WriteField(f2, o), TRUE)
  <2>1. Ends_(<<Value(f2.type, o.has[f2.name])>>, TRUE)
    BY <1>2, <1>3, <1>5
  <2> QED
    BY <1>3, <2>1, EndsField
<1>8. IsSeq(fields) /\ WriteTable[o.type] = fields /\ 2 \in 1 .. Len(fields)
  BY <1>1, <1>2, <1>4, SeqIs
<1>9. ASSUME NEW i \in 1 .. Len(fields) PROVE Ends_(WriteField(fields[i], o), i = 2)
  <2>1. CASE i = 1
    <3>1. (i = 2) = FALSE
      BY <2>1
    <3> QED
      BY <1>4, <1>6, <2>1, <3>1
  <2>2. CASE i = 2
    <3>1. (i = 2) = TRUE
      BY <2>2
    <3> QED
      BY <1>4, <1>7, <2>2, <3>1
  <2> QED
    BY <1>4, <2>1, <2>2
<1>10. IsSeq(WriteStruct(o)) /\ Ends_(WriteStruct(o), TRUE)
  BY <1>8, <1>9, EndsWrite
<1> QED
  BY <1>2, <1>10, EndsStruct DEF o, h

(* And that of the call.                                                    *)
LEMMA EndsCallArgs ==
    ASSUME NEW s, Ends_(<<Value(Struct("Statement_"), s)>>, TRUE)
    PROVE  Ends_(WriteStruct(Obj("CallArgs", [statement |-> s], {})), TRUE)
<1> DEFINE h == [statement |-> s]
           o == Obj("CallArgs", h, {})
           f1 == Always(1, "statement", Struct("Statement_"))
           fields == <<f1>>
<1>1. WriteTable["CallArgs"] = fields
  BY CallArgsTables
<1>2. o.type = "CallArgs" /\ o.has = h
  BY DEF Obj
<1>3. ~f1.ifset /\ f1.name = "statement" /\ f1.type = Struct("Statement_")
  BY DEF Always
<1>4. IsSeq(fields) /\ Len(fields) = 1 /\ fields[1] = f1
  BY SeqOne
<1>5. h["statement"] = s
  OBVIOUS
<1> HIDE DEF fields, f1, o, h
<1>6. Ends_(WriteField(f1, o), TRUE)
  <2>1. Ends_(<<Value(f1.type, o.has[f1.name])>>, TRUE)
    BY <1>2, <1>3, <1>5
  <2> QED
    BY <1>3, <2>1, EndsField
<1>7. ASSUME NEW i \in 1 .. Len(fields) PROVE Ends_(WriteField(fields[i], o), i = 1)
  <2>1. i = 1 /\ (i = 1) = TRUE
    BY <1>4
  <2> QED
    BY <1>4, <1>6, <2>1
<1>8. 1 \in 1 .. Len(fields) /\ WriteTable[o.type] = fields
  BY <1>1, <1>2, <1>4
<1>9. Ends_(WriteStruct(o), TRUE)
  BY <1>4, <1>7, <1>8, EndsWrite
<1> QED
  BY <1>9 DEF o, h

(* A writer that comes to a NULL crashes.                                   *)
LEMMA EndsCrashes ==
    ASSUME NEW w, Ends_(w, TRUE), NEW k
    PROVE  WriterCrashes(<<Token(k)>> \o Output(w))
<1>1. PICK t : WritesTo(w, t) /\ \E i \in 1 .. Len(t) : ~IsToken(t[i])
  BY DEF Ends_
<1>2. Output(w) = t /\ IsSeq(t) /\ Len(t) \in Nat
  BY <1>1, OutputIs, SeqLen DEF WritesTo, Settled
<1> DEFINE one == <<Token(k)>>
           u == one \o t
<1>3. IsSeq(one) /\ Len(one) = 1
  BY SeqOne
<1> HIDE DEF one
<1>a. IsSeq(one) /\ IsSeq(t)
  BY <1>2, <1>3
<1>b. IsSeq(u) /\ Len(u) = Len(one) + Len(t) /\ \A i \in 1 .. Len(t) : u[Len(one) + i] = t[i]
  BY ONLY <1>a, SeqConcat
<1> HIDE DEF u
<1>4. IsSeq(u) /\ Len(u) = 1 + Len(t) /\ \A i \in 1 .. Len(t) : u[1 + i] = t[i]
  BY <1>3, <1>b
<1>5. DOMAIN u = 1 .. Len(u)
  BY <1>4, SeqLen
<1>6. PICK i \in 1 .. Len(t) : ~IsToken(t[i])
  BY <1>1
<1>7. 1 + i \in DOMAIN u /\ u[1 + i] = t[i]
  BY <1>2, <1>4, <1>5
<1>8. WriterCrashes(u)
  BY <1>6, <1>7 DEF WriterCrashes
<1> QED
  BY <1>2, <1>8 DEF u, one

\* A SELECT ends its client.
LEMMA SelectCrashes ==
    ASSUME NEW l, l.op = "SELECT"
    PROVE  WriterCrashes(CallMessage(serialize(parse_statement(l))))
<1> DEFINE stmt == parse_statement(l)
           s == serialize(stmt)
           u == Set(New("Stmt_"), "select", NoObject)
<1>a. stmt = createSelectStatement(l.table, l.row, joinStatement(l.join), compound_condition(l.where), selectList(l.select))
  BY ParseCases
<1> HIDE DEF stmt
<1>1. stmt.st_type = SELECT_STMT
  BY <1>a DEF createSelectStatement
<1>2. s = Body(stmt, "select", NoObject)
  BY <1>1, SerializeCases DEF serialize_sel
<1>3. SELECT_STMT \in 0 .. 5
  BY TypeNumbers
<1>4. PICK has : u = Obj("Stmt_", has, {"select"}) /\ has["select"] = NoObject
  BY StmtSet
<1>5. s = Obj("Statement_", [st_type |-> stmt.st_type, stmt |-> u], {"st_type", "stmt"})
  BY <1>1, <1>2, <1>3, BodyMade
<1> HIDE DEF u, s
<1>6. Ends_(<<Value(Struct("Stmt_"), u)>>, TRUE)
  BY <1>4, EndsStmt
<1>7. Ends_(<<Value(Struct("Statement_"), s)>>, TRUE)
  BY <1>5, <1>6, EndsStatement
<1> DEFINE o == [type |-> "CallArgs", has |-> [statement |-> s], isset |-> {}]
<1>8. Ends_(WriteStruct(o), TRUE)
  <2>1. o = Obj("CallArgs", [statement |-> s], {})
    BY DEF Obj
  <2> HIDE DEF o
  <2> QED
    BY <1>7, <2>1, EndsCallArgs
<1>9. CallMessage(s) = <<Token(MessageBegin("T_CALL"))>> \o Output(WriteStruct(o))
  BY DEF CallMessage
<1> HIDE DEF o
<1> QED
  BY <1>8, <1>9, EndsCrashes DEF s, stmt

----------------------------------------------------------------------------
(* The two messages of a call.                                              *)

(* One pass on.                                                             *)
LEMMA PassWrites ==
    ASSUME NEW w, NEW t, WritesTo(w, t), ~Settled(w)
    PROVE  WritesTo(Pass(w), t) /\ Clear(w)
<1>1. PICK n \in Nat : \E f : Writing(w, t, f, n)
  BY DEF WritesTo
<1>2. PICK f : Writing(w, t, f, n)
  BY <1>1
<1>3. Settled(t)
  BY DEF WritesTo
<1>4. n # 0
  <2> SUFFICES ASSUME n = 0 PROVE FALSE
    OBVIOUS
  <2>1. f[0] = w /\ f[0] = t
    BY <1>2 DEF Writing
  <2> QED
    BY <1>3, <2>1
<1> DEFINE m == n - 1
           g == [k \in 0 .. m |-> f[k + 1]]
<1>5. m \in Nat /\ m + 1 = n /\ 0 \in 0 .. m /\ m \in 0 .. m
  BY <1>4
<1>6. \A k \in 0 .. m : g[k] = f[k + 1]
  OBVIOUS
<1> HIDE DEF m, g
<1>7. f[0] = w /\ f[n] = t /\ (\A k \in 0 .. n - 1 : f[k + 1] = Go(<<>>, f[k])) /\ \A k \in 0 .. n : Clear(f[k])
  BY <1>2 DEF Writing, Run
<1>8. f[1] = Pass(w)
  <2>1. 0 \in 0 .. n - 1 /\ 0 + 1 = 1
    BY <1>5
  <2> QED
    BY <1>7, <2>1, GoPass
<1>9. g[0] = Pass(w) /\ g[m] = t
  BY <1>5, <1>6, <1>7, <1>8
<1>10. ASSUME NEW k \in 0 .. m - 1 PROVE g[k + 1] = Go(<<>>, g[k])
  <2>1. k \in 0 .. m /\ k + 1 \in 0 .. m /\ k + 1 \in 0 .. n - 1
    BY <1>5
  <2> QED
    BY <1>6, <1>7, <2>1
<1>11. ASSUME NEW k \in 0 .. m PROVE Clear(g[k])
  <2>1. k + 1 \in 0 .. n
    BY <1>5
  <2> QED
    BY <1>6, <1>7, <2>1
<1>12. Writing(Pass(w), t, g, m)
  BY <1>9, <1>10, <1>11 DEF Writing, Run
<1>13. Clear(w)
  BY <1>7, 0 \in 0 .. n
<1> QED
  BY <1>3, <1>5, <1>12, <1>13 DEF WritesTo

(* A struct that travels is written as tokens that read as it.              *)
LEMMA StructWritten ==
    ASSUME NEW n, NEW o, NEW c1, NEW c2, o.type # NoObject.type, Travels(Struct(n), o, c1, c2)
    PROVE  \E toks : IsSeq(toks) /\ Output(WriteStruct(o)) = toks /\ ReadsAs(Struct(n), c1, toks, c2)
<1> DEFINE x == Value(Struct(n), o)
           w == <<x>>
<1>1. x.type.wire = "T_STRUCT" /\ x.value = o /\ ~IsToken(x)
  BY DEF Value, Struct, IsToken
<1>2. PICK toks : WritesTo(w, toks) /\ ReadsAs(Struct(n), c1, toks, c2)
  BY DEF Travels
<1> HIDE DEF x
<1>3. ~IsFatal(x)
  BY <1>1, Zenon DEF IsFatal
<1>4. Write(x) = WriteStruct(o)
  <2>2. "T_STRUCT" # "T_STRING" /\ "T_STRUCT" # "T_LIST"
    OBVIOUS
  <2> QED
    BY <1>1, <1>3, <2>2, Zenon DEF Write
<1>5. IsSeq(w) /\ Len(w) = 1 /\ w[1] = x
  BY SeqOne
<1> HIDE DEF w
<1>6. ~Settled(w)
  BY <1>1, <1>3, <1>5, 1 \in 1 .. 1 DEF Settled
<1>7. Clear(w) /\ WritesTo(Pass(w), toks)
  BY <1>2, <1>6, PassWrites
<1>8. IsSeq(Write(x))
  BY <1>5, <1>7, 1 \in 1 .. 1 DEF Clear
<1>9. Pass(w) = Write(x)
  BY <1>8, PassOne DEF w
<1>10. Output(WriteStruct(o)) = toks
  BY <1>4, <1>7, <1>9, OutputIs
<1>11. IsSeq(toks)
  BY <1>2 DEF WritesTo, Settled
<1> QED
  BY <1>2, <1>10, <1>11

\* A message is its first token and a struct; it is read from its beginning to
\* its end, and not at all when the end is missing.
\* A message and what a read makes of it.
Framed(k, o, tokens) == o.type # NoObject.type /\ tokens = <<Token(k)>> \o Output(WriteStruct(o))

(* The message is read to its last token as c2, and no beginning of it is   *)
(* read.                                                                    *)
WholeOnly(c1, tokens, c2) ==
    /\ IsSeq(tokens) /\ tokens # <<>>
    /\ ReadStruct(c1, tokens) = Got(c2, <<>>)
    /\ \A i \in Nat : i < Len(tokens) => ReadStruct(c1, SubSeq(tokens, 1, i)) = Failed

(* A message with a struct that travels is read to its last token, and no   *)
(* cut of it is.                                                            *)
LEMMA MessageRead ==
    ASSUME NEW n, NEW o, NEW c1, NEW c2, Travels(Struct(n), o, c1, c2),
           NEW k, NEW tokens, Framed(k, o, tokens)
    PROVE  WholeOnly(c1, tokens, c2)
<1>0. o.type # NoObject.type /\ tokens = <<Token(k)>> \o Output(WriteStruct(o))
  BY DEF Framed
<1>1. PICK toks : IsSeq(toks) /\ Output(WriteStruct(o)) = toks /\ ReadsAs(Struct(n), c1, toks, c2)
  BY <1>0, StructWritten
<1> DEFINE first == <<Token(k)>>
<1>2. IsSeq(first) /\ Len(first) = 1
  BY SeqOne
<1>3. Joined(tokens, first, toks)
  BY <1>0, <1>1 DEF Joined
<1> HIDE DEF first
<1>4. IsSeq(tokens) /\ Len(tokens) = Len(first) + Len(toks)
  <2>1. IsSeq(first) /\ IsSeq(toks) /\ tokens = first \o toks
    BY <1>1, <1>2, <1>3 DEF Joined
  <2> QED
    BY ONLY <2>1, SeqConcat
<1>5. tokens # <<>>
  <2>1. Len(toks) \in Nat
    BY <1>1, SeqLen
  <2>2. Len(tokens) # 0
    BY <1>2, <1>4, <2>1
  <2> QED
    BY <2>2, SeqEmpty
<1>6. ReadStruct(c1, tokens) = Got(c2, <<>>)
  BY <1>1, <1>2, <1>3, WholeRead
<1>7. ASSUME NEW i \in Nat, i < Len(tokens) PROVE ReadStruct(c1, SubSeq(tokens, 1, i)) = Failed
  <2> DEFINE s == SubSeq(tokens, 1, i)
             S == {tokens[j] : j \in DOMAIN tokens}
  <2>1. tokens \in Seq(S)
    BY <1>4 DEF IsSeq
  <2> HIDE DEF S
  <2>2. s \in Seq(S) /\ Len(s) = i /\ \A j \in 1 .. i : s[j] = tokens[j]
    BY <1>7, <2>1
  <2> HIDE DEF s
  <2>3. Short(tokens, i, s)
    BY <1>4, <1>7, <2>2, SeqIs DEF Short
  <2>4. ReadStruct(c1, s) = Failed
    BY <1>1, <1>2, <1>3, <2>3, CutUnread
  <2> QED
    BY <2>4 DEF s
<1> QED
  BY <1>4, <1>5, <1>6, <1>7 DEF WholeOnly

\* What send_execute_stmt writes, and process_execute_stmt reads.
LEMMA CallRead ==
    ASSUME NEW s, NEW v, Travels(Struct("Statement_"), s, New("Statement_"), v),
           NEW tokens, tokens = CallMessage(s)
    PROVE  /\ IsSeq(tokens) /\ tokens # <<>>
           /\ ReadCall(tokens) = Got(Obj("ExecuteStmtArgs", [statement |-> v], {"statement"}), <<>>)
           /\ \A i \in Nat : i < Len(tokens) => ReadCall(SubSeq(tokens, 1, i)) = Failed
<1> DEFINE h == [statement |-> s]
           o == Obj("CallArgs", h, {})
           c == Obj("ExecuteStmtArgs", [statement |-> v], {"statement"})
           k == MessageBegin("T_CALL")
<1>1. o.type = "CallArgs" /\ "CallArgs" # NoObject.type
  BY DEF Obj, NoObject, Object
<1>2. Travels(Struct("ExecuteStmtArgs"), o, New("ExecuteStmtArgs"), c)
  BY CallArgsTravels
<1>3. CallMessage(s) = <<Token(k)>> \o Output(WriteStruct(o))
  BY DEF CallMessage, Obj
<1> DEFINE start == New("ExecuteStmtArgs")
<1>4. Travels(Struct("ExecuteStmtArgs"), o, start, c) /\ o.type # NoObject.type /\ tokens = <<Token(k)>> \o Output(WriteStruct(o))
  BY <1>1, <1>2, <1>3
<1>5. \A u : ReadCall(u) = ReadStruct(start, u)
  BY DEF ReadCall
<1> HIDE DEF o, c, k, start
<1>8. Framed(k, o, tokens)
  BY ONLY <1>4 DEF Framed
<1>9. WholeOnly(start, tokens, c)
  BY ONLY <1>4, <1>8, MessageRead
<1>6. /\ IsSeq(tokens) /\ tokens # <<>>
      /\ ReadStruct(start, tokens) = Got(c, <<>>)
      /\ \A i \in Nat : i < Len(tokens) => ReadStruct(start, SubSeq(tokens, 1, i)) = Failed
  BY ONLY <1>9 DEF WholeOnly
<1>7. /\ ReadCall(tokens) = Got(c, <<>>)
      /\ \A i \in Nat : i < Len(tokens) => ReadCall(SubSeq(tokens, 1, i)) = Failed
  BY ONLY <1>5, <1>6
<1> QED
  BY <1>6, <1>7 DEF c

(* The writer and the reader of an ExecuteStmtResult.                       *)
LEMMA ResultTables ==
    /\ WriteTable["ExecuteStmtResult"] = <<IfSet(0, "success", Struct("ServerResponse"))>>
    /\ New("ExecuteStmtResult") = Obj("ExecuteStmtResult", [success |-> New("ServerResponse")], {})
<1>1. WriteTable["ExecuteStmtResult"] = execute_stmt_result_write
  BY DEF WriteTable
<1>2. InstanceInit["ExecuteStmtResult"] = execute_stmt_result_instance_init
  BY DEF InstanceInit
<1> QED
  BY <1>1, <1>2 DEF execute_stmt_result_write, execute_stmt_result_instance_init, New, InstanceInit, Object, Obj

(* What the reader of a reply begins with.                                  *)
Return_ == Obj("CallResult", [success |-> New("ServerResponse")], {})

(* The reader of the reply knows the field.                                 *)
LEMMA ReturnKnows ==
    Knows(Return_, 0, "success", Struct("ServerResponse"))
<1>1. Return_.type = "CallResult" /\ "CallResult" # NoObject.type
  BY DEF Return_, Obj, NoObject, Object
<1>2. ReadTable["CallResult"] = recv_execute_stmt
  BY DEF ReadTable
<1>3. DOMAIN recv_execute_stmt = {0} /\ recv_execute_stmt[0] = M("success", Struct("ServerResponse"))
  BY DEF recv_execute_stmt
<1>4. Struct("ServerResponse").wire # "T_STOP"
  BY DEF Struct
<1> QED
  BY <1>1, <1>2, <1>3, <1>4 DEF Knows

(* A reply travels if its response does.                                    *)
LEMMA ResultTravels ==
    ASSUME NEW r, NEW v, Travels(Struct("ServerResponse"), r, New("ServerResponse"), v)
    PROVE  Travels(Struct("CallResult"), Obj("ExecuteStmtResult", [success |-> r], {"success"}),
                   Return_, With(Return_, "success", v))
<1> DEFINE h == [success |-> r]
           o == Obj("ExecuteStmtResult", h, {"success"})
           f == IfSet(0, "success", Struct("ServerResponse"))
           fields == <<f>>
           c == Return_
<1>1. WriteTable["ExecuteStmtResult"] = fields
  BY ResultTables
<1>2. o.type = "ExecuteStmtResult" /\ o.has = h /\ o.isset = {"success"} /\ "ExecuteStmtResult" # NoObject.type
  BY DEF Obj, NoObject, Object
<1>3. f.ifset /\ f.fid = 0 /\ f.name = "success" /\ f.type = Struct("ServerResponse")
  BY DEF IfSet
<1>4. IsSeq(fields) /\ Len(fields) = 1 /\ fields[1] = f
  BY SeqOne
<1>5. h["success"] = r
  OBVIOUS
<1>6. c.has["success"] = New("ServerResponse")
  BY DEF Return_, Obj
<1>7. Knows(c, 0, "success", Struct("ServerResponse"))
  BY ReturnKnows
<1> HIDE DEF o, h, f, fields, c
<1>8. 1 \in 1 .. Len(fields) /\ \A i \in 1 .. Len(fields) : i = 1
  BY <1>4
<1>9. /\ \A i \in 1 .. Len(fields) : fields[i].ifset
      /\ \A i \in 1 .. Len(fields) : fields[i].name \in o.isset <=> i = 1
  BY <1>2, <1>3, <1>4, <1>8
<1>10. Knows(c, fields[1].fid, fields[1].name, fields[1].type)
  BY <1>3, <1>4, <1>7
<1>11. Travels(fields[1].type, o.has[fields[1].name], c.has[fields[1].name], v)
  BY <1>2, <1>3, <1>4, <1>5, <1>6
<1>12. Travels(Struct("CallResult"), o, c, With(c, fields[1].name, v))
  <2>1. o.type # NoObject.type /\ WriteTable[o.type] = fields
    BY <1>1, <1>2
  <2> QED
    BY ONLY <2>1, <1>4, <1>8, <1>9, <1>10, <1>11, OneSetTravels, Zenon
<1> QED
  BY <1>3, <1>4, <1>12 DEF o, h, c

(* The texts of the three statuses are not empty.                           *)
LEMMA InfoFull ==
    ASSUME NEW status \in 0 .. 2
    PROVE  Info[status + 1] # EmptyString /\ Info[status + 1] \in {"INTERNAL_ERROR", "BAD_REQUEST", "OK"}
<1>1. status = 0 \/ status = 1 \/ status = 2
  OBVIOUS
<1>2. Info[0 + 1] = "INTERNAL_ERROR" /\ Info[1 + 1] = "BAD_REQUEST" /\ Info[2 + 1] = "OK"
  BY DEF Info
<1> QED
  BY <1>1, <1>2, EmptyStringAssumption

(* The response that arrives.                                               *)
Response_(status) ==
    Obj("ServerResponse", [info |-> Info[status + 1], rows |-> <<>>, status |-> status], {"info", "rows", "status"})

(* The response of each status arrives.                                     *)
LEMMA ResponseTravels ==
    ASSUME NEW status \in 0 .. 2
    PROVE  Travels(Struct("ServerResponse"), ReturnValue(Result(status)), New("ServerResponse"), Response_(status))
<1> DEFINE info == Info[status + 1]
           none == <<>>
           r == Obj("ServerResponse", [info |-> info, rows |-> none, status |-> status], {"status", "info"})
<1>1. ReturnValue(Result(status)) = r
  <2>1. Result(status).status = status /\ Result(status).info = info
    BY DEF Result
  <2>2. ReturnValue(Result(status)) = Set(Set(New("ServerResponse"), "status", status), "info", info)
    BY <2>1, Zenon DEF ReturnValue, Set2
  <2>3. status \in 0 .. 3
    OBVIOUS
  <2> HIDE DEF info
  <2> QED
    BY <2>2, <2>3, ServerResponseMade
<1>2. info # EmptyString
  BY InfoFull
<1>3. Travels(List(List(Struct("ColVal_"))), none, <<>>, none)
  <2>1. IsSeq(none) /\ Len(none) = 0
    BY SeqEmpty
  <2> HIDE DEF none
  <2> QED
    BY <2>1, ListTravels, 1 .. 0 = {}
<1>4. Response_(status) = Obj("ServerResponse", [info |-> info, rows |-> none, status |-> status], {"info", "rows", "status"})
  BY DEF Response_
<1> HIDE DEF info, none
<1>5. Travels(Str, info, NULL, info)
  <2>1. Heard(info) = info
    BY <1>2, NamesAreHeard
  <2>2. Travels(Str, info, NULL, Heard(info))
    BY StringTravels DEF Heard
  <2> QED
    BY <2>1, <2>2
<1>6. Travels(I32, status, 0, status)
  BY Scalars
<1> QED
  BY <1>1, <1>3, <1>4, <1>5, <1>6, ServerResponseTravels

\* What process_execute_stmt writes, and recv_execute_stmt reads.
LEMMA ReplyRead ==
    ASSUME NEW status \in 0 .. 2, NEW tokens, tokens = ReplyMessage(ReturnValue(Result(status)))
    PROVE  /\ IsSeq(tokens) /\ tokens # <<>>
           /\ ReadReply(tokens, New("ServerResponse")) = Got(With(Return_, "success", Response_(status)), <<>>)
           /\ \A i \in Nat : i < Len(tokens) => ReadReply(SubSeq(tokens, 1, i), New("ServerResponse")) = Failed
<1> DEFINE r == ReturnValue(Result(status))
           h == [success |-> New("ServerResponse")]
           h2 == [success |-> r]
           o == Obj("ExecuteStmtResult", h2, {"success"})
           c == With(Return_, "success", Response_(status))
           k == MessageBegin("T_REPLY")
<1>1. o.type = "ExecuteStmtResult" /\ "ExecuteStmtResult" # NoObject.type
  BY DEF Obj, NoObject, Object
<1>2. Travels(Struct("CallResult"), o, Return_, c)
  BY ResponseTravels, ResultTravels
<1>3. Set(New("ExecuteStmtResult"), "success", r) = o
  <2>1. ~Refused("ExecuteStmtResult", "success", r)
    BY NeverRefused
  <2>2. New("ExecuteStmtResult") = Obj("ExecuteStmtResult", h, {})
    BY ResultTables
  <2>3. [h EXCEPT !["success"] = r] = h2
    OBVIOUS
  <2>4. {} \cup {"success"} = {"success"}
    OBVIOUS
  <2> HIDE DEF h, h2, r
  <2>5. Set(Obj("ExecuteStmtResult", h, {}), "success", r) = Obj("ExecuteStmtResult", [h EXCEPT !["success"] = r], {} \cup {"success"})
    BY <2>1, SetObj
  <2> QED
    BY <2>2, <2>3, <2>4, <2>5
<1>4. ReplyMessage(r) = <<Token(k)>> \o Output(WriteStruct(o))
  <2> HIDE DEF o, r
  <2> QED
    BY <1>3, Zenon DEF ReplyMessage
<1>5. \A s : ReadReply(s, New("ServerResponse")) = ReadStruct(Return_, s)
  BY DEF ReadReply, Return_, Obj
<1>6. tokens = <<Token(k)>> \o Output(WriteStruct(o))
  BY <1>4
<1>7. Travels(Struct("CallResult"), o, Return_, c) /\ o.type # NoObject.type /\ tokens = <<Token(k)>> \o Output(WriteStruct(o))
  BY <1>1, <1>2, <1>6
<1> DEFINE blank == New("ServerResponse")
<1> HIDE DEF o, c, k, r, blank
<1>11. Framed(k, o, tokens)
  BY ONLY <1>7 DEF Framed
<1>12. WholeOnly(Return_, tokens, c)
  BY ONLY <1>7, <1>11, MessageRead
<1>8. /\ IsSeq(tokens) /\ tokens # <<>>
      /\ ReadStruct(Return_, tokens) = Got(c, <<>>)
      /\ \A i \in Nat : i < Len(tokens) => ReadStruct(Return_, SubSeq(tokens, 1, i)) = Failed
  BY ONLY <1>12 DEF WholeOnly
<1>9. \A s : ReadReply(s, blank) = ReadStruct(Return_, s)
  BY <1>5 DEF blank
<1>10. /\ ReadReply(tokens, blank) = Got(c, <<>>)
      /\ \A i \in Nat : i < Len(tokens) => ReadReply(SubSeq(tokens, 1, i), blank) = Failed
  BY ONLY <1>8, <1>9
<1> QED
  BY <1>8, <1>10 DEF c, blank

----------------------------------------------------------------------------
(* The messages of the lines, and the replies of the statuses.              *)

\* The statement the server reads from the message of a line.
Understood(l) == ReadCall(Messages[l]).value.has.statement

\* A line that ends the client sends nothing; a message of any other is read to
\* its last token, and not before it.
Sendable(l) == l \in Lines /\ ~CrashesClient(l)

(* What is known of a line that does not end the client.                    *)
LEMMA StatementOf ==
    ASSUME NEW l, Sendable(l)
    PROVE  /\ l \in Grammar /\ l.op # "SELECT" /\ (l.op = "UPDATE" => l.where # <<>>)
           /\ Messages[l] = CallMessage(serialize(parse_statement(l)))
<1> DEFINE stmt == parse_statement(l)
<1>1. l \in Lines /\ l \in Grammar
  BY LinesAssumption DEF Sendable
<1>2. ~PrintCrashes(stmt) /\ ~WriterCrashes(Messages[l])
  BY DEF Sendable, CrashesClient
<1>3. Messages[l] = CallMessage(serialize(stmt))
  BY <1>1, <1>2 DEF Messages
<1>4. l.op # "SELECT"
  BY <1>2, <1>3, SelectCrashes
<1>5. ASSUME l.op = "UPDATE" PROVE l.where # <<>>
  <2>1. stmt = createUpdateStatement(l.table, columnValueList(l.row), compound_condition(l.where))
    BY <1>5, ParseCases
  <2>2. stmt.st_type = UPDATE_STMT /\ stmt.cond = compound_condition(l.where)
    BY <2>1 DEF createUpdateStatement
  <2>3. compound_condition(l.where) # <<>>
    BY <1>2, <2>2 DEF PrintCrashes
  <2>4. l.where \in Wheres({NULL})
    BY <1>1, <1>5, GrammarCases
  <2> QED
    BY <2>3, <2>4, NoWhere
<1> QED
  BY <1>1, <1>3, <1>4, <1>5

(* A cut of a message is a beginning of it.                                 *)
LEMMA CutOf ==
    ASSUME NEW m, IsSeq(m), NEW cut \in Cut(m)
    PROVE  \E i \in Nat : i < Len(m) /\ cut = SubSeq(m, 1, i)
<1>1. Len(m) \in Nat
  BY SeqLen
<1>2. PICK i \in Cuts \cap 1 .. Len(m) - 1 : cut = SubSeq(m, 1, i)
  BY DEF Cut
<1>3. i \in Nat /\ i < Len(m)
  BY <1>1, <1>2
<1> QED
  BY <1>2, <1>3

(* The message of every line the client can send is read to its last token  *)
(* and brings the statement of that line; no cut of it is read at all.      *)
THEOREM CallsReadWhole ==
    ASSUME NEW l, Sendable(l)
    PROVE  /\ Messages[l] # <<>>
           /\ ReadCall(Messages[l]).ok /\ ReadCall(Messages[l]).rest = <<>>
           /\ Brings(l, Understood(l))
           /\ \A cut \in Cut(Messages[l]) : ~ReadCall(cut).ok
<1> DEFINE m == Messages[l]
           s == serialize(parse_statement(l))
<1>1. l \in Grammar /\ m = CallMessage(s) /\ \E v : Brings(l, v) /\ StatementComes(l, v)
  BY StatementOf, StatementArrives
<1>2. PICK v : Brings(l, v) /\ StatementComes(l, v)
  BY <1>1
<1>3. Travels(Struct("Statement_"), s, New("Statement_"), v)
  BY <1>2 DEF StatementComes
<1> DEFINE args == Obj("ExecuteStmtArgs", [statement |-> v], {"statement"})
<1> HIDE DEF s, m
<1>4. /\ IsSeq(m) /\ m # <<>>
      /\ ReadCall(m) = Got(args, <<>>)
      /\ \A i \in Nat : i < Len(m) => ReadCall(SubSeq(m, 1, i)) = Failed
  BY <1>1, <1>3, CallRead
<1>5. args.has.statement = v
  BY DEF Obj
<1> HIDE DEF args
<1>6. ReadCall(m).ok /\ ReadCall(m).rest = <<>> /\ ReadCall(m).value = args
  BY <1>4 DEF Got
<1>7. Brings(l, Understood(l))
  BY <1>2, <1>5, <1>6 DEF Understood, m
<1>8. ASSUME NEW cut \in Cut(m) PROVE ~ReadCall(cut).ok
  <2>1. PICK i \in Nat : i < Len(m) /\ cut = SubSeq(m, 1, i)
    BY <1>4, CutOf
  <2>2. ReadCall(cut) = Failed
    BY <1>4, <2>1
  <2> QED
    BY <2>2 DEF Failed
<1> QED
  BY <1>4, <1>6, <1>7, <1>8 DEF m

Told(tokens) == ReadReply(tokens, New("ServerResponse"))

(* The reply of each status is read to its last token and brings the text   *)
(* of that status; no cut of it is read at all.                             *)
THEOREM RepliesReadWhole ==
    ASSUME NEW status \in 0 .. 2
    PROVE  /\ Replies[status] # <<>>
           /\ Told(Replies[status]).ok /\ Told(Replies[status]).rest = <<>>
           /\ Told(Replies[status]).value.has.success.has.info = Info[status + 1]
           /\ \A cut \in Cut(Replies[status]) : ~Told(cut).ok
<1> DEFINE m == Replies[status]
           r == Response_(status)
           v == With(Return_, "success", r)
           blank == New("ServerResponse")
<1>1. m = ReplyMessage(ReturnValue(Result(status)))
  BY DEF Replies, INTERNAL_ERROR, OK
<1>2. r.has.info = Info[status + 1]
  BY DEF Response_, Obj
<1>3. v.has.success = r
  BY DEF With, Return_, Obj
<1> HIDE DEF m, v, r, blank
<1>4. /\ IsSeq(m) /\ m # <<>>
      /\ ReadReply(m, blank) = Got(v, <<>>)
      /\ \A i \in Nat : i < Len(m) => ReadReply(SubSeq(m, 1, i), blank) = Failed
  BY <1>1, ReplyRead DEF v, r, blank
<1>5. Told(m).ok /\ Told(m).rest = <<>> /\ Told(m).value = v
  BY <1>4 DEF Got, Told, blank
<1>8. ASSUME NEW cut \in Cut(m) PROVE ~Told(cut).ok
  <2>1. PICK i \in Nat : i < Len(m) /\ cut = SubSeq(m, 1, i)
    BY <1>4, CutOf
  <2>2. Told(cut) = Failed
    BY <1>4, <2>1 DEF Told, blank
  <2> QED
    BY <2>2 DEF Failed
<1> QED
  BY <1>2, <1>3, <1>4, <1>5, <1>8 DEF m

(* From an empty buffer nothing is read.                                    *)
LEMMA NothingRead == ~ReadCall(<<>>).ok /\ ~Told(<<>>).ok
<1>1. \A o : ReadStruct(o, <<>>) = Failed
  BY DEF ReadStruct
<1> QED
  BY <1>1 DEF ReadCall, Told, ReadReply, Failed

----------------------------------------------------------------------------
(* What arrives of a literal is what it denotes.                            *)

\* The kinds of a literal.
LEMMA LitKinds ==
    ASSUME NEW lit \in Literals
    PROVE  \/ /\ "int" \in DOMAIN lit /\ "float" \notin DOMAIN lit /\ "bool" \notin DOMAIN lit /\ "str" \notin DOMAIN lit
              /\ lit.int \in Int
           \/ /\ "int" \notin DOMAIN lit /\ "float" \in DOMAIN lit /\ "bool" \notin DOMAIN lit /\ "str" \notin DOMAIN lit
              /\ lit.float \in Floats
           \/ /\ "int" \notin DOMAIN lit /\ "float" \notin DOMAIN lit /\ "bool" \in DOMAIN lit /\ "str" \notin DOMAIN lit
              /\ lit.bool \in BOOLEAN
           \/ /\ "int" \notin DOMAIN lit /\ "float" \notin DOMAIN lit /\ "bool" \notin DOMAIN lit /\ "str" \in DOMAIN lit
              /\ lit.str \in Strings
<1>1. \/ lit \in [int : Int] \/ lit \in [float : Floats] \/ lit \in [bool : BOOLEAN]
      \/ lit \in [str : Strings]
  BY DEF Literals
<1>2. "int" \notin {"float", "bool", "str"} /\ "float" \notin {"bool", "str"} /\ "bool" # "str"
  OBVIOUS
<1> QED
  BY <1>1, <1>2

\* What arrives of a literal is what it denotes.
LEMMA LitMeans ==
    ASSUME NEW lit \in Literals
    PROVE  /\ value(lit).type = User!TypeOf(lit) /\ value(lit).type \in 0 .. 3
           /\ User!Unusable(lit) => Arrives(lit) = NULL
           /\ ~User!Unusable(lit) => Arrives(lit) = User!Denotes(lit) /\ Arrives(lit) # NULL
<1> DEFINE type == value(lit).type
           v == value(lit).cell
<1>1. type \in 0 .. 3
  BY LitValue
<1>2. ASSUME "int" \in DOMAIN lit, "float" \notin DOMAIN lit, "bool" \notin DOMAIN lit, "str" \notin DOMAIN lit,
             lit.int \in Int
      PROVE  /\ type = User!TypeOf(lit)
             /\ ~User!Unusable(lit) /\ Arrives(lit) = User!Denotes(lit) /\ Arrives(lit) # NULL
  <2>1. value(lit) = Val(INT_TYPE, lit.int % UINT32)
    BY <1>2 DEF value, createIntValue
  <2>2. type = INT_TYPE /\ v = lit.int % UINT32
    BY <2>1 DEF Val
  <2>3. Arrives(lit) = v
    BY <2>2 DEF Arrives, Given_, INT_TYPE, STRING_TYPE
  <2>4. User!TypeOf(lit) = INT_TYPE /\ User!Denotes(lit) = lit.int % UINT32
    BY <1>2 DEF User!TypeOf, User!Denotes, User!INT_TYPE, User!FLOAT_TYPE, User!BOOL_TYPE,
         User!STRING_TYPE, INT_TYPE, FLOAT_TYPE, BOOL_TYPE, STRING_TYPE
  <2>5. lit.int % UINT32 \in Int
    BY <1>2, UINT32Assumption
  <2>6. lit.int % UINT32 # NULL
    BY <2>5, NullAssumption
  <2> QED
    BY <1>2, <2>2, <2>3, <2>4, <2>6 DEF User!Unusable
<1>3. ASSUME "int" \notin DOMAIN lit, "float" \in DOMAIN lit, "bool" \notin DOMAIN lit, "str" \notin DOMAIN lit,
             lit.float \in Floats
      PROVE  /\ type = User!TypeOf(lit)
             /\ ~User!Unusable(lit) /\ Arrives(lit) = User!Denotes(lit) /\ Arrives(lit) # NULL
  <2>1. value(lit) = Val(FLOAT_TYPE, lit.float)
    BY <1>3 DEF value, createFloatValue
  <2>2. type = FLOAT_TYPE /\ v = lit.float
    BY <2>1 DEF Val
  <2>3. Arrives(lit) = v
    BY <2>2 DEF Arrives, Given_, FLOAT_TYPE, STRING_TYPE
  <2>4. User!TypeOf(lit) = FLOAT_TYPE /\ User!Denotes(lit) = lit.float
    BY <1>3 DEF User!TypeOf, User!Denotes, User!INT_TYPE, User!FLOAT_TYPE, User!BOOL_TYPE,
         User!STRING_TYPE, INT_TYPE, FLOAT_TYPE, BOOL_TYPE, STRING_TYPE
  <2>6. lit.float # NULL
    BY <1>3, NullAssumption
  <2> QED
    BY <1>3, <2>2, <2>3, <2>4, <2>6 DEF User!Unusable
<1>4. ASSUME "int" \notin DOMAIN lit, "float" \notin DOMAIN lit, "bool" \in DOMAIN lit, "str" \notin DOMAIN lit,
             lit.bool \in BOOLEAN
      PROVE  /\ type = User!TypeOf(lit)
             /\ ~User!Unusable(lit) /\ Arrives(lit) = User!Denotes(lit) /\ Arrives(lit) # NULL
  <2>1. value(lit) = Val(BOOL_TYPE, lit.bool)
    BY <1>4 DEF value, createBoolValue
  <2>2. type = BOOL_TYPE /\ v = lit.bool
    BY <2>1 DEF Val
  <2>3. Arrives(lit) = v
    BY <2>2 DEF Arrives, Given_, BOOL_TYPE, STRING_TYPE
  <2>4. User!TypeOf(lit) = BOOL_TYPE /\ User!Denotes(lit) = lit.bool
    BY <1>4 DEF User!TypeOf, User!Denotes, User!INT_TYPE, User!FLOAT_TYPE, User!BOOL_TYPE,
         User!STRING_TYPE, INT_TYPE, FLOAT_TYPE, BOOL_TYPE, STRING_TYPE
  <2>6. lit.bool # NULL
    BY <1>4, NullAssumption
  <2> QED
    BY <1>4, <2>2, <2>3, <2>4, <2>6 DEF User!Unusable
<1>5. ASSUME "int" \notin DOMAIN lit, "float" \notin DOMAIN lit, "bool" \notin DOMAIN lit, "str" \in DOMAIN lit,
             lit.str \in Strings
      PROVE  /\ type = User!TypeOf(lit)
             /\ User!Unusable(lit) => Arrives(lit) = NULL
             /\ ~User!Unusable(lit) => Arrives(lit) = User!Denotes(lit) /\ Arrives(lit) # NULL
  <2>1. value(lit) = Val(STRING_TYPE, lit.str)
    BY <1>5 DEF value, createString
  <2>2. type = STRING_TYPE /\ v = lit.str
    BY <2>1 DEF Val
  <2>3. Arrives(lit) = Heard(lit.str)
    BY <2>2 DEF Arrives, Given_
  <2>4. User!TypeOf(lit) = STRING_TYPE /\ User!Denotes(lit) = lit.str
    BY <1>5 DEF User!TypeOf, User!Denotes, User!INT_TYPE, User!FLOAT_TYPE, User!BOOL_TYPE,
         User!STRING_TYPE, INT_TYPE, FLOAT_TYPE, BOOL_TYPE, STRING_TYPE
  <2>5. lit.str # NULL
    BY <1>5, NullAssumption
  <2>6. User!Unusable(lit) <=> lit.str = EmptyString
    BY <1>5 DEF User!Unusable
  <2>7. lit.str = EmptyString => Heard(lit.str) = NULL
    BY <2>5 DEF Heard, ReadString, WriteString
  <2>8. lit.str # EmptyString => Heard(lit.str) = lit.str
    BY NamesAreHeard
  <2> QED
    BY <2>2, <2>3, <2>4, <2>5, <2>6, <2>7, <2>8
<1> QED
  BY <1>1, <1>2, <1>3, <1>4, <1>5, LitKinds

\* The value a statement carries is the one that was put in.
LEMMA CellOf ==
    ASSUME NEW type \in 0 .. 3, NEW v
    PROVE  cell(Val_(type, v)) = v /\ Val_(type, v).has.type = type
<1> DEFINE h == [integer |-> 0, dbl |-> 0, bl |-> FALSE, str |-> NULL]
           m == Member[type + 1]
           c == Cell_(type, v)
<1>1. m \in {"integer", "dbl", "str", "bl"}
  <2>1. type = 0 \/ type = 1 \/ type = 2 \/ type = 3
    OBVIOUS
  <2> QED
    BY <2>1 DEF Member
<1>2. New("Cell_") = Obj("Cell_", h, {})
  BY CellTables
<1>3. c.has = [h EXCEPT ![m] = v]
  <2>1. New("Cell_").has = h
    <3> HIDE DEF h
    <3> QED
      BY <1>2 DEF Obj
  <2> HIDE DEF m, h
  <2>2. c = [New("Cell_") EXCEPT !.has[m] = v, !.isset = @ \cup {m}]
    BY DEF m, Cell_, With
  <2>3. DOMAIN New("Cell_") = {"type", "has", "isset"}
    BY <1>2 DEF Obj
  <2> QED
    BY <2>1, <2>2, <2>3
<1>4. c.has[m] = v
  <2>1. m \in DOMAIN h
    BY <1>1
  <2> HIDE DEF c, h, m
  <2> QED
    BY <1>3, <2>1
<1>5. Val_(type, v).has.cell = c /\ Val_(type, v).has.type = type
  BY DEF Val_, Obj
<1> HIDE DEF c
<1>6. cell(Val_(type, v)) = c.has[m]
  BY <1>5 DEF cell
<1> QED
  BY <1>4, <1>5, <1>6

\* The statement of a request, as process_client_request looks at it.
LEMMA StatementIs ==
    ASSUME NEW type, NEW v,
           NEW member \in {"create_tbl", "drop_tbl", "insert", "select", "update", "dl"}
    PROVE  /\ Statement_(type, member, v).has.st_type = type
           /\ Statement_(type, member, v).has.stmt.has[member] = v
<1> DEFINE h == New("Stmt_").has
           s == With(New("Stmt_"), member, v)
<1>1. DOMAIN New("Stmt_") = {"type", "has", "isset"} /\ member \in DOMAIN h
  BY StmtTables DEF Obj
<1>2. s.has[member] = v
  <2>1. s = [New("Stmt_") EXCEPT !.has[member] = v, !.isset = @ \cup {member}]
    BY DEF With
  <2> HIDE DEF s
  <2> QED
    BY <1>1, <2>1
<1>3. Statement_(type, member, v).has.st_type = type /\ Statement_(type, member, v).has.stmt = s
  BY DEF Statement_, Obj
<1> HIDE DEF s
<1> QED
  BY <1>2, <1>3

----------------------------------------------------------------------------
(* request_processor.c: what becomes of each statement is one of the        *)
(* outcomes that TypedCall promises of the line.  CREATE, DROP and UPDATE.  *)

\* What is to be shown: an outcome of the statement is one that the line may have.
May(l, status, st) == User!Outcome(status, st) \in User!Outcomes(l)

(* What executeQuery does is one of the promised outcomes.                  *)
Judged(l, o) ==
    \/ o.ends = "answer" /\ o.status \in Statuses /\ May(l, Info[o.status + 1], o.store)
    \/ o.ends = "loop" /\ May(l, "looping", store)
    \/ o.ends = "crash" /\ May(l, "ended", store)

(* So is what comes of a request.                                           *)
Foreseen(l, p) ==
    \/ p = Refuse /\ May(l, "BAD_REQUEST", store)
    \/ p = Crash /\ May(l, "ended", store)
    \/ \E q : p = Query(q) /\ \A o \in executeQuery(q, store) : Judged(l, o)

(* The three statuses and their texts.                                      *)
LEMMA Texts ==
    /\ INTERNAL_ERROR \in Statuses /\ BAD_REQUEST \in Statuses /\ OK \in Statuses
    /\ Info[INTERNAL_ERROR + 1] = "INTERNAL_ERROR"
    /\ Info[BAD_REQUEST + 1] = "BAD_REQUEST"
    /\ Info[OK + 1] = "OK"
BY DEF Statuses, Info, INTERNAL_ERROR, BAD_REQUEST, OK

(* What a user is promised, by the kind of line.                            *)
LEMMA OutcomesAre ==
    ASSUME NEW l
    PROVE  /\ l.op = "CREATE" => User!Outcomes(l) = User!CreateOutcomes(l)
           /\ l.op = "DROP" => User!Outcomes(l) = User!DropOutcomes
           /\ l.op = "ADD" => User!Outcomes(l) = User!AddOutcomes(l)
           /\ l.op = "REMOVE" => User!Outcomes(l) = User!RemoveOutcomes(l)
           /\ l.op = "UPDATE" => User!Outcomes(l) = User!UpdateOutcomes
BY Zenon DEF User!Outcomes

(* The parts of an answer.                                                  *)
LEMMA AnswersAre ==
    ASSUME NEW status \in Statuses, NEW st
    PROVE  /\ Answers(status, st).ends = "answer" /\ Answers(status, st).status = status
           /\ Answers(status, st).store = st
BY DEF Answers

(* An answer that is one of the promised outcomes.                          *)
LEMMA AnswerJudged ==
    ASSUME NEW l, NEW status \in Statuses, NEW st, May(l, Info[status + 1], st)
    PROVE  Judged(l, Answers(status, st))
<1> DEFINE o == Answers(status, st)
<1>1. o.ends = "answer" /\ o.status = status /\ o.store = st
  BY AnswersAre
<1> HIDE DEF o
<1>2. Judged(l, o)
  BY <1>1 DEF Judged
<1> QED
  BY <1>2 DEF o

(* process_client_request by the type of the statement.                     *)
LEMMA ProcessCases ==
    ASSUME NEW s, NEW columns
    PROVE  LET body == s.has.stmt.has
               p == process_client_request(s, columns)
           IN  /\ s.has.st_type = CREATE_STMT => p = createQuery(body.create_tbl)
               /\ s.has.st_type = DROP_STMT => p = Query([type |-> "DROP"])
               /\ s.has.st_type = INSERT_STMT => p = insertQuery(body.insert, columns)
               /\ s.has.st_type = DELETE_STMT => p = deleteQuery(body.dl, columns)
               /\ s.has.st_type = UPDATE_STMT => p = IF columns = <<>> THEN Refuse ELSE Crash
BY TypeNumbers, Zenon DEF process_client_request

\* The type of a column, and its size.
ColumnType(type) ==
    CASE type = "INT" -> INT_TYPE
      [] type = "FLOAT" -> FLOAT_TYPE
      [] type = "BOOL" -> BOOL_TYPE
      [] type = "VARCHAR" -> STRING_TYPE

ColumnSize(d) ==
    IF d.type # "VARCHAR" THEN 8
    ELSE IF d.size % 65536 <= 32767 THEN d.size % 65536 ELSE 0

(* A lower bound below zero says nothing of a natural number.               *)
LEMMA UpTo == ASSUME NEW m \in Int, m <= 0 PROVE \A n \in Nat : n \in m .. 32767 <=> n <= 32767
OBVIOUS

(* The sizes that fit an int16_t.                                           *)
LEMMA SizesOfNaturals == 8 \in Sizes /\ \A n \in Nat : n \in Sizes <=> n <= 32767
<1> DEFINE m == -32768
<1>1. m \in Int /\ m <= 0
  OBVIOUS
<1>2. Sizes = m .. 32767
  BY DEF Sizes
<1> HIDE DEF m
<1>3. \A n \in Nat : n \in m .. 32767 <=> n <= 32767
  BY ONLY <1>1, UpTo
<1> QED
  BY ONLY <1>2, <1>3

(* The column definition that arrives is the one typed.                     *)
LEMMA ColumnMeans ==
    ASSUME NEW d \in ColumnDefinitions
    PROVE  Column_(d).has = [column_name |-> d.name, data_type |-> ColumnType(d.type), size |-> ColumnSize(d)]
<1> DEFINE type == ColumnType(d.type)
           size == ColumnSize(d)
           col == columnDefinition(d)
<1>1. \/ d.type \in {"INT", "FLOAT", "BOOL"}
      \/ d.type = "VARCHAR" /\ d.size \in Nat \ {0}
  BY DEF ColumnDefinitions, ValType
<1>2. ASSUME d.type \in {"INT", "FLOAT", "BOOL"} PROVE col.data_type = type /\ col.size = 8 /\ size = 8
  <2>1. col = createColumn(d.name, ValType[d.type])
    BY <1>2 DEF columnDefinition
  <2>2. col.data_type = ValType[d.type] /\ col.size = 8
    BY <2>1 DEF createColumn, CellSize
  <2>3. ValType[d.type] = type
    BY <1>2 DEF ValType, ColumnType
  <2>4. size = 8
    BY <1>2 DEF ColumnSize
  <2> QED
    BY <2>2, <2>3, <2>4
<1>3. ASSUME d.type = "VARCHAR"
      PROVE  col.data_type = type /\ col.size = d.size % 65536
  <2>1. col = createStringColumn(d.name, d.size)
    BY <1>3 DEF columnDefinition
  <2>2. type = STRING_TYPE
    BY <1>3 DEF ColumnType
  <2> HIDE DEF col, type
  <2> QED
    BY <2>1, <2>2 DEF createStringColumn, UINT16
<1>4. 8 \in Sizes /\ \A n \in Nat : n \in Sizes <=> n <= 32767
  BY SizesOfNaturals
<1>5. Column_(d).has = [column_name |-> d.name, data_type |-> col.data_type,
                        size |-> IF col.size \in Sizes THEN col.size ELSE 0]
  BY DEF Column_, Obj
<1>6. (IF col.size \in Sizes THEN col.size ELSE 0) = size
  <2>1. CASE d.type # "VARCHAR"
    BY <1>1, <1>2, <1>4, <2>1
  <2>2. CASE d.type = "VARCHAR"
    <3>1. d.size \in Nat
      BY <1>1, <2>2
    <3> DEFINE n == d.size % 65536
    <3>2. n \in Nat
      BY <3>1
    <3>3. size = IF n <= 32767 THEN n ELSE 0
      BY <2>2 DEF ColumnSize
    <3>4. col.size = n
      BY <1>3, <2>2
    <3> HIDE DEF n, size, col
    <3> QED
      BY <1>4, <3>2, <3>3, <3>4
  <2> QED
    BY <2>1, <2>2
<1>7. col.data_type = type
  BY <1>1, <1>2, <1>3
<1> HIDE DEF col, size, type
<1>8. Column_(d).has = [column_name |-> d.name, data_type |-> type, size |-> size]
  BY <1>5, <1>6, <1>7
<1> QED
  BY <1>8 DEF type, size

(* So are all of them.                                                      *)
LEMMA ColumnsMean ==
    ASSUME NEW defs, \A i \in DOMAIN defs : defs[i] \in ColumnDefinitions
    PROVE  User!Columns(defs) = [i \in DOMAIN defs |-> Column_(defs[i]).has]
<1>1. User!Columns(defs) =
        [i \in DOMAIN defs |-> [column_name |-> defs[i].name, data_type |-> ColumnType(defs[i].type),
                                size |-> ColumnSize(defs[i])]]
  BY DEF User!Columns, ColumnType, ColumnSize, User!INT_TYPE, User!FLOAT_TYPE, User!BOOL_TYPE, User!STRING_TYPE,
         INT_TYPE, FLOAT_TYPE, BOOL_TYPE, STRING_TYPE
<1>2. ASSUME NEW i \in DOMAIN defs
      PROVE  Column_(defs[i]).has = [column_name |-> defs[i].name, data_type |-> ColumnType(defs[i].type),
                                     size |-> ColumnSize(defs[i])]
  BY ColumnMeans
<1> QED
  BY <1>1, <1>2

(* What the handler does with a CREATE is one of the promised outcomes.     *)
LEMMA CreateForeseen ==
    ASSUME NEW l \in Grammar, l.op = "CREATE"
    PROVE  Foreseen(l, process_client_request(Create_(l), store.columns))
<1> DEFINE cols == [i \in DOMAIN l.columns |-> Column_(l.columns[i])]
           body == Obj("CreateStmt_", [cols |-> cols, tblName |-> l.table], {"cols", "tblName"})
           columns == User!Columns(l.columns)
           q == [type |-> "CREATE", columns |-> columns]
           created == [store EXCEPT !.columns = columns]
<1>1. l.columns \in ListOf(ColumnDefinitions)
  BY GrammarCases
<1>2. \A i \in DOMAIN l.columns : l.columns[i] \in ColumnDefinitions
  BY <1>1 DEF ListOf
<1>3. [i \in DOMAIN cols |-> cols[i].has] = columns
  <2>1. DOMAIN cols = DOMAIN l.columns /\ \A i \in DOMAIN l.columns : cols[i] = Column_(l.columns[i])
    OBVIOUS
  <2> HIDE DEF cols
  <2>2. columns = [i \in DOMAIN l.columns |-> Column_(l.columns[i]).has]
    BY <1>2, ColumnsMean
  <2> HIDE DEF columns
  <2> QED
    BY <2>1, <2>2
<1>4. body.has.cols = cols
  BY DEF Obj
<1> HIDE DEF cols, columns
<1>5. createQuery(body) = Query(q)
  <2> HIDE DEF body
  <2> QED
    BY <1>3, <1>4 DEF createQuery
<1>6. process_client_request(Create_(l), store.columns) = Query(q)
  <2>1. Create_(l) = Statement_(CREATE_STMT, "create_tbl", body)
    BY DEF Create_, cols
  <2> HIDE DEF body, q
  <2>2. Create_(l).has.st_type = CREATE_STMT /\ Create_(l).has.stmt.has.create_tbl = body
    BY <2>1, StatementIs
  <2> QED
    BY <1>5, <2>2, ProcessCases
<1>7. q.type = "CREATE" /\ q.columns = columns
  OBVIOUS
<1> HIDE DEF body, q
<1>8. User!Outcomes(l) = User!CreateOutcomes(l)
  BY OutcomesAre
<1>9. ASSUME store.columns = <<>> PROVE \A o \in executeQuery(q, store) : Judged(l, o)
  <2>1. executeQuery(q, store) = {Answers(OK, created)}
    <3> HIDE DEF created
    <3>1. created = [store EXCEPT !.columns = q.columns]
      BY <1>7 DEF created
    <3> QED
      BY <1>7, <1>9, <3>1, Zenon DEF executeQuery
  <2>2. May(l, "OK", created)
    BY <1>8, <1>9 DEF May, User!CreateOutcomes, columns
  <2> HIDE DEF created
  <2>3. Judged(l, Answers(OK, created))
    BY <2>2, Texts, AnswerJudged
  <2> QED
    BY <2>1, <2>3
<1>10. ASSUME store.columns # <<>> PROVE \A o \in executeQuery(q, store) : Judged(l, o)
  <2>1. executeQuery(q, store) = {Answers(BAD_REQUEST, store)}
    BY <1>7, <1>10 DEF executeQuery
  <2>2. May(l, "BAD_REQUEST", store)
    BY <1>8, <1>10 DEF May, User!CreateOutcomes
  <2>3. Judged(l, Answers(BAD_REQUEST, store))
    BY <2>2, Texts, AnswerJudged
  <2> QED
    BY <2>1, <2>3
<1> QED
  BY <1>6, <1>9, <1>10 DEF Foreseen

(* So is what it does with a DROP.                                          *)
LEMMA DropForeseen ==
    ASSUME NEW l \in Grammar, l.op = "DROP"
    PROVE  Foreseen(l, process_client_request(Drop_(l), store.columns))
<1> DEFINE body == Obj("DropStmt_", [tblName |-> l.table], {"tblName"})
           q == [type |-> "DROP"]
           dropped == [columns |-> <<>>, rows |-> {}, lossy |-> TRUE]
<1>1. process_client_request(Drop_(l), store.columns) = Query(q)
  <2>1. Drop_(l) = Statement_(DROP_STMT, "drop_tbl", body)
    BY DEF Drop_
  <2> HIDE DEF body, q
  <2>2. Drop_(l).has.st_type = DROP_STMT
    BY <2>1, StatementIs
  <2> QED
    BY <2>2, ProcessCases DEF q
<1>2. q.type = "DROP" /\ "DROP" # "CREATE"
  OBVIOUS
<1> HIDE DEF q
<1>3. User!Outcomes(l) = User!DropOutcomes
  BY OutcomesAre
<1>4. ASSUME store.columns # <<>> PROVE \A o \in executeQuery(q, store) : Judged(l, o)
  <2>1. executeQuery(q, store) = {Answers(OK, dropped)}
    BY <1>2, <1>4 DEF executeQuery
  <2>2. May(l, "OK", dropped)
    BY <1>3, <1>4 DEF May, User!DropOutcomes
  <2> HIDE DEF dropped
  <2>3. Judged(l, Answers(OK, dropped))
    BY <2>2, Texts, AnswerJudged
  <2> QED
    BY <2>1, <2>3
<1>5. ASSUME store.columns = <<>> PROVE \A o \in executeQuery(q, store) : Judged(l, o)
  <2>1. executeQuery(q, store) = {Answers(BAD_REQUEST, store)}
    BY <1>2, <1>5 DEF executeQuery
  <2>2. May(l, "BAD_REQUEST", store)
    BY <1>3, <1>5 DEF May, User!DropOutcomes
  <2>3. Judged(l, Answers(BAD_REQUEST, store))
    BY <2>2, Texts, AnswerJudged
  <2> QED
    BY <2>1, <2>3
<1> QED
  BY <1>1, <1>4, <1>5 DEF Foreseen

(* So is what it does with an UPDATE: it is refused.                        *)
LEMMA UpdateForeseen ==
    ASSUME NEW l \in Grammar, l.op = "UPDATE", NEW c
    PROVE  Foreseen(l, process_client_request(Update_(l, c), store.columns))
<1> DEFINE body == Obj("UpdateStmt_", [tblName |-> l.table, new_row |-> <<>>, cond |-> c], {"tblName", "new_row", "cond"})
<1>1. process_client_request(Update_(l, c), store.columns) = IF store.columns = <<>> THEN Refuse ELSE Crash
  <2>1. Update_(l, c) = Statement_(UPDATE_STMT, "update", body)
    BY DEF Update_
  <2> HIDE DEF body
  <2>2. Update_(l, c).has.st_type = UPDATE_STMT
    BY <2>1, StatementIs
  <2> QED
    BY <2>2, ProcessCases
<1>2. User!Outcomes(l) = User!UpdateOutcomes
  BY OutcomesAre
<1>3. /\ store.columns = <<>> => May(l, "BAD_REQUEST", store)
      /\ store.columns # <<>> => May(l, "ended", store)
  BY <1>2 DEF May, User!UpdateOutcomes
<1> QED
  BY <1>1, <1>3 DEF Foreseen

----------------------------------------------------------------------------
(* ADD.                                                                     *)

(* The domain of a sequence that is not empty.                              *)
LEMMA NotEmpty ==
    ASSUME NEW s, IsSeq(s), s # <<>>
    PROVE  Len(s) \in Nat /\ Len(s) # 0 /\ DOMAIN s = 1 .. Len(s) /\ 1 \in DOMAIN s
<1>1. Len(s) \in Nat /\ DOMAIN s = 1 .. Len(s)
  BY SeqLen
<1>2. ASSUME Len(s) = 0 PROVE FALSE
  <2>1. IsSeq(<<>>) /\ Len(<<>>) = 0
    BY SeqEmpty
  <2> QED
    BY <1>2, <2>1, SameSeq
<1> QED
  BY <1>1, <1>2

\* The cells that insertQuery makes of a row.
CellsOf(colVals) == [y \in DOMAIN colVals |-> cell(colVals[y].has.val)]

(* The column value that arrives is the one typed.                          *)
LEMMA ColValMeans ==
    ASSUME NEW name, NEW lit \in Literals
    PROVE  LET cv == ColVal_(name, value(lit).type, Arrives(lit))
           IN  /\ cv.has.col = name /\ cv.has.val.has.type = User!TypeOf(lit)
               /\ cell(cv.has.val) = Arrives(lit)
<1> DEFINE type == value(lit).type
           cv == ColVal_(name, type, Arrives(lit))
<1>1. type \in 0 .. 3 /\ type = User!TypeOf(lit)
  BY LitMeans
<1>2. cv.has.col = name /\ cv.has.val = Val_(type, Arrives(lit))
  BY DEF ColVal_, Obj
<1> HIDE DEF cv, type
<1>3. cv.has.col = name /\ cv.has.val.has.type = User!TypeOf(lit) /\ cell(cv.has.val) = Arrives(lit)
  BY <1>1, <1>2, CellOf
<1> QED
  BY <1>3 DEF cv, type

(* checkScheme and the cells say of a row that arrives what is promised of  *)
(* the row typed.                                                           *)
LEMMA RowMeans ==
    ASSUME NEW row \in ListOf(ColumnValues), NEW columns
    PROVE  /\ checkScheme(columns, Row_(row)) <=> columns # <<>> /\ User!Fits(row, columns)
           /\ RowCrashes(CellsOf(Row_(row))) <=> \E i \in DOMAIN row : User!Unusable(row[i].value)
           /\ ~RowCrashes(CellsOf(Row_(row))) => CellsOf(Row_(row)) = User!Cells(row)
<1> DEFINE w == Row_(row)
           c == CellsOf(w)
<1>1. IsSeq(row) /\ Len(row) \in Nat /\ DOMAIN row = 1 .. Len(row)
      /\ \A i \in 1 .. Len(row) : row[i] \in ColumnValues
  BY ListIsSeq, SeqLen
<1>2. \A i \in DOMAIN row : row[i].value \in Literals
  BY <1>1 DEF ColumnValues
<1>3. /\ DOMAIN w = DOMAIN row
      /\ \A i \in DOMAIN row : w[i] = ColVal_(row[i].column, value(row[i].value).type, Arrives(row[i].value))
  BY DEF Row_
<1>4. IsSeq(w) /\ Len(w) = Len(row)
  <2>1. w = [i \in 1 .. Len(row) |-> w[i]]
    BY <1>1 DEF Row_
  <2> HIDE DEF w
  <2> QED
    BY <1>1, <2>1, SeqMade
<1> HIDE DEF w
<1>5. \A i \in DOMAIN row : /\ w[i].has.col = row[i].column
                            /\ w[i].has.val.has.type = User!TypeOf(row[i].value)
                            /\ cell(w[i].has.val) = Arrives(row[i].value)
  BY <1>2, <1>3, ColValMeans
<1>6. checkScheme(columns, w) <=> columns # <<>> /\ User!Fits(row, columns)
  BY <1>3, <1>4, <1>5 DEF checkScheme, User!Fits
<1>7. DOMAIN c = DOMAIN row /\ \A i \in DOMAIN row : c[i] = Arrives(row[i].value)
  BY <1>3, <1>5 DEF CellsOf
<1>8. c = [i \in DOMAIN c |-> c[i]]
  BY DEF CellsOf
<1> HIDE DEF c
<1>9. \A i \in DOMAIN row : /\ c[i] = NULL <=> User!Unusable(row[i].value)
                            /\ c[i] # NULL => c[i] = User!Denotes(row[i].value)
  BY <1>2, <1>7, LitMeans
<1>10. RowCrashes(c) <=> \E i \in DOMAIN row : User!Unusable(row[i].value)
  BY <1>7, <1>9 DEF RowCrashes
<1>11. ASSUME ~RowCrashes(c) PROVE c = User!Cells(row)
  <2>1. \A i \in DOMAIN row : c[i] = User!Denotes(row[i].value)
    BY <1>7, <1>9, <1>11 DEF RowCrashes
  <2> QED
    BY <1>7, <1>8, <2>1 DEF User!Cells
<1> QED
  BY <1>6, <1>10, <1>11 DEF c, w

(* insertQuery by whether the rows fit and can be copied.                   *)
LEMMA InsertCases ==
    ASSUME NEW ins, NEW columns
    PROVE  LET given == ins.has.rows
               q == [type |-> "INSERT", new_rows |-> {CellsOf(given[i]) : i \in DOMAIN given}]
           IN  /\ (\E i \in DOMAIN given : ~checkScheme(columns, given[i])) => insertQuery(ins, columns) = Refuse
               /\ (\A i \in DOMAIN given : checkScheme(columns, given[i]))
                    /\ (\E i \in DOMAIN given : RowCrashes(CellsOf(given[i]))) => insertQuery(ins, columns) = Crash
               /\ (\A i \in DOMAIN given : checkScheme(columns, given[i]))
                    /\ (\A i \in DOMAIN given : ~RowCrashes(CellsOf(given[i]))) => insertQuery(ins, columns) = Query(q)
<1> DEFINE given == ins.has.rows
           rows == [i \in DOMAIN given |-> CellsOf(given[i])]
           q == [type |-> "INSERT", new_rows |-> {rows[i] : i \in DOMAIN rows}]
<1>1. insertQuery(ins, columns) =
        IF \E i \in DOMAIN given : ~checkScheme(columns, given[i]) THEN Refuse
        ELSE IF \E i \in DOMAIN rows : RowCrashes(rows[i]) THEN Crash ELSE Query(q)
  BY Zenon DEF insertQuery, CellsOf
<1>2. DOMAIN rows = DOMAIN given /\ \A i \in DOMAIN given : rows[i] = CellsOf(given[i])
  OBVIOUS
<1>3. q = [type |-> "INSERT", new_rows |-> {CellsOf(given[i]) : i \in DOMAIN given}]
  <2> HIDE DEF given
  <2> QED
    BY <1>2
<1> HIDE DEF rows, q, given
<1> QED
  BY <1>1, <1>2, <1>3 DEF given

(* What the handler does with an ADD is one of the promised outcomes.       *)
LEMMA InsertForeseen ==
    ASSUME NEW l \in Grammar, l.op = "ADD"
    PROVE  Foreseen(l, process_client_request(Insert_(l), store.columns))
<1> DEFINE rows == [i \in DOMAIN l.rows |-> Row_(l.rows[i])]
           body == Obj("InsertStmt_", [tblName |-> l.table, rows |-> rows], {"tblName", "rows"})
           p == process_client_request(Insert_(l), store.columns)
           columns == store.columns
           new == {User!Cells(r) : r \in User!Rows(l)}
           added == IF store.lossy THEN store ELSE [store EXCEPT !.rows = @ \cup new]
           q == [type |-> "INSERT", new_rows |-> new]
<1>1. /\ DOMAIN l.rows # {}
      /\ \A i \in DOMAIN l.rows : l.rows[i] \in ListOf(ColumnValues)
  <2>1. l.rows \in ListOf(ListOf(ColumnValues))
    BY GrammarCases
  <2>2. l.rows # <<>>
    BY <2>1, Zenon DEF ListOf
  <2>3. IsSeq(l.rows) /\ DOMAIN l.rows = 1 .. Len(l.rows)
        /\ \A i \in 1 .. Len(l.rows) : l.rows[i] \in ListOf(ColumnValues)
    BY <2>1, ListIsSeq, SeqLen
  <2> QED
    BY <2>2, <2>3, NotEmpty
<1>2. DOMAIN rows = DOMAIN l.rows /\ \A i \in DOMAIN l.rows : rows[i] = Row_(l.rows[i])
  OBVIOUS
<1>3. body.has.rows = rows
  BY DEF Obj
<1>4. p = insertQuery(body, columns)
  <2>1. Insert_(l) = Statement_(INSERT_STMT, "insert", body)
    BY DEF Insert_
  <2> HIDE DEF body
  <2>2. Insert_(l).has.st_type = INSERT_STMT /\ Insert_(l).has.stmt.has.insert = body
    BY <2>1, StatementIs
  <2> QED
    BY <2>2, ProcessCases
<1> HIDE DEF rows, body, p
<1>5. User!Outcomes(l) = User!AddOutcomes(l)
  BY OutcomesAre
<1>6. User!Rows(l) = {l.rows[i] : i \in DOMAIN l.rows}
  BY DEF User!Rows
<1>7. \A i \in DOMAIN rows : checkScheme(columns, rows[i]) <=> columns # <<>> /\ User!Fits(l.rows[i], columns)
  BY <1>1, <1>2, RowMeans
<1>8. \A i \in DOMAIN rows :
        /\ RowCrashes(CellsOf(rows[i])) <=> \E k \in DOMAIN l.rows[i] : User!Unusable(l.rows[i][k].value)
        /\ ~RowCrashes(CellsOf(rows[i])) => CellsOf(rows[i]) = User!Cells(l.rows[i])
  <2>1. ASSUME NEW i \in DOMAIN rows
        PROVE  /\ RowCrashes(CellsOf(rows[i])) <=> \E k \in DOMAIN l.rows[i] : User!Unusable(l.rows[i][k].value)
               /\ ~RowCrashes(CellsOf(rows[i])) => CellsOf(rows[i]) = User!Cells(l.rows[i])
    BY <1>1, <1>2, RowMeans
  <2> QED
    BY <2>1
<1>9. CASE columns = <<>> \/ \E row \in User!Rows(l) : ~User!Fits(row, columns)
  <2>1. \E i \in DOMAIN rows : ~checkScheme(columns, rows[i])
    BY <1>1, <1>2, <1>6, <1>7, <1>9
  <2>2. p = Refuse
    BY <1>3, <1>4, <2>1, InsertCases
  <2>3. May(l, "BAD_REQUEST", store)
    BY <1>5, <1>9 DEF May, User!AddOutcomes
  <2> QED
    BY <2>2, <2>3 DEF Foreseen, p
<1>10. ASSUME ~(columns = <<>> \/ \E row \in User!Rows(l) : ~User!Fits(row, columns))
       PROVE  \A i \in DOMAIN rows : checkScheme(columns, rows[i])
  BY <1>2, <1>6, <1>7, <1>10
<1>11. CASE /\ ~(columns = <<>> \/ \E row \in User!Rows(l) : ~User!Fits(row, columns))
            /\ \E row \in User!Rows(l) : \E i \in DOMAIN row : User!Unusable(row[i].value)
  <2>1. \E i \in DOMAIN rows : RowCrashes(CellsOf(rows[i]))
    BY <1>2, <1>6, <1>8, <1>11
  <2>2. p = Crash
    BY <1>3, <1>4, <1>10, <1>11, <2>1, InsertCases
  <2>3. May(l, "ended", store)
    BY <1>5, <1>11 DEF May, User!AddOutcomes
  <2> QED
    BY <2>2, <2>3 DEF Foreseen, p
<1>12. CASE /\ ~(columns = <<>> \/ \E row \in User!Rows(l) : ~User!Fits(row, columns))
            /\ ~\E row \in User!Rows(l) : \E i \in DOMAIN row : User!Unusable(row[i].value)
  <2>1. \A i \in DOMAIN rows : ~RowCrashes(CellsOf(rows[i])) /\ CellsOf(rows[i]) = User!Cells(l.rows[i])
    BY <1>2, <1>6, <1>8, <1>12
  <2>2. {CellsOf(rows[i]) : i \in DOMAIN rows} = new
    BY <1>2, <1>6, <2>1
  <2>3. p = Query(q)
    <3>1. insertQuery(body, columns) = Query([type |-> "INSERT", new_rows |-> {CellsOf(rows[i]) : i \in DOMAIN rows}])
      BY <1>3, <1>10, <1>12, <2>1, InsertCases
    <3> QED
      BY <1>4, <2>2, <3>1
  <2>4. q.type = "INSERT" /\ q.new_rows = new /\ "INSERT" # "CREATE" /\ "INSERT" # "DROP"
    OBVIOUS
  <2>5. May(l, "OK", added)
    <3>1. User!AddOutcomes(l) = {User!Outcome("OK", added)}
      BY <1>12, Zenon DEF User!AddOutcomes
    <3> HIDE DEF added
    <3> QED
      BY <1>5, <3>1 DEF May
  <2>6. executeQuery(q, store) = {Answers(OK, added)}
    <3>1. added = IF store.lossy THEN store ELSE [store EXCEPT !.rows = @ \cup q.new_rows]
      BY <2>4 DEF added
    <3> HIDE DEF added, q
    <3> QED
      BY <1>12, <2>4, <3>1, Zenon DEF executeQuery
  <2> HIDE DEF added, q
  <2>7. Judged(l, Answers(OK, added))
    BY <2>5, Texts, AnswerJudged
  <2> QED
    BY <2>3, <2>6, <2>7 DEF Foreseen, p
<1> QED
  BY <1>9, <1>11, <1>12

----------------------------------------------------------------------------
(* REMOVE: the parts of its condition are all found.                        *)

(* A step along a condition goes to the one on its right.                   *)
LEMMA GoRight == ASSUME NEW x PROVE Go(<<1, 1>>, x) = x.has.right[1]
<1>1. <<1, 1>> # <<>>
  OBVIOUS
<1> QED
  BY <1>1, Zenon DEF Go

\* A recursive function that looks for the next number that is not in R.
LEMMA NextOut ==
    ASSUME NEW R
    PROVE  \E g : g = [k \in Nat |-> IF k \in R THEN g[k + 1] ELSE k]
<1> DEFINE T(k) == {j \in Nat : k <= j /\ j \notin R}
           least(k) == CHOOSE x \in T(k) : \A y \in T(k) : x <= y
           g == [k \in Nat |-> least(k)]
<1>1. ASSUME NEW k \in Nat, k \in R PROVE g[k] = g[k + 1]
  <2>1. T(k) = T(k + 1)
    BY <1>1
  <2>2. least(k) = least(k + 1)
    <3> HIDE DEF T
    <3> QED
      BY <2>1
  <2>3. k + 1 \in Nat
    OBVIOUS
  <2> HIDE DEF least
  <2> QED
    BY <2>2, <2>3
<1>2. ASSUME NEW k \in Nat, k \notin R PROVE g[k] = k
  <2>1. k \in T(k) /\ \A y \in T(k) : y \in Nat /\ k <= y
    BY <1>2
  <2>2. least(k) \in T(k) /\ \A y \in T(k) : least(k) <= y
    <3> HIDE DEF T
    <3> QED
      BY <2>1
  <2>3. g[k] = least(k)
    OBVIOUS
  <2> HIDE DEF T, least, g
  <2> QED
    BY <2>1, <2>2, <2>3
<1>3. g = [k \in Nat |-> g[k]]
  OBVIOUS
<1> HIDE DEF g
<1>4. g = [k \in Nat |-> IF k \in R THEN g[k + 1] ELSE k]
  BY <1>1, <1>2, <1>3
<1> QED
  BY <1>4

\* What getCompCond finds in the condition that arrives: its parts, in order.
PartsOf(n, p, columns) ==
    [k \in 1 .. n |-> [cond |-> getCond(columns, p[k].has.left), op |-> p[k].has.op]]

(* getCompCond finds all parts of a chain of any length, in their order.    *)
LEMMA ChainRead ==
    ASSUME NEW where, IsSeq(where), where # <<>>, NEW p, Chained(where, p), NEW columns
    PROVE  getCompCond(columns, p[1]) = PartsOf(Len(where), p, columns)
<1> DEFINE n == Len(where)
           c == p[1]
           Part(f) == f = [k \in Nat |-> IF k = 0 THEN c ELSE f[k - 1].has.right[1]]
           part == CHOOSE f : Part(f)
           ToLast(g) == g = [k \in Nat |-> IF "right" \in part[k].isset THEN g[k + 1] ELSE k]
           last == CHOOSE g : ToLast(g)
<1>1. n \in Nat /\ n # 0
  BY NotEmpty
<1>2. getCompCond(columns, c) = [k \in 1 .. last[0] + 1 |->
        [cond |-> getCond(columns, part[k - 1].has.left), op |-> part[k - 1].has.op]]
  BY Zenon DEF getCompCond
<1>3. ASSUME NEW f PROVE Part(f) <=> Iterate(<<1, 1>>, c, f)
  BY GoRight, Zenon DEF Iterate
<1> HIDE DEF Part
<1>4. \E f : Part(f)
  <2>1. PICK f : Iterate(<<1, 1>>, c, f)
    BY Iterates
  <2> QED
    BY <1>3, <2>1
<1>5. Part(part)
  BY <1>4
<1>6. Iterate(<<1, 1>>, c, part)
  BY <1>3, <1>5
<1> HIDE DEF part, n, c
<1>7. part[0] = c /\ \A k \in Nat : part[k + 1] = part[k].has.right[1]
  BY <1>6, IterateStep, GoRight
<1>8. ASSUME NEW i \in 1 .. n
      PROVE  /\ "right" \in p[i].isset <=> i # n
             /\ i # n => p[i].has.right[1] = p[i + 1]
  <2>1. CASE i = n
    <3>1. p[i] = Link(Cond_(where[i]), Op_(where, i), <<>>)
      BY <2>1 DEF Chained, n
    <3>2. p[i].isset = {"left", "op"}
      BY <3>1 DEF Link, Obj
    <3> QED
      BY <2>1, <3>2
  <2>2. CASE i # n
    <3> DEFINE next == p[i + 1]
    <3>1. p[i] = Link(Cond_(where[i]), Op_(where, i), <<next>>)
      BY <2>2 DEF Chained, n
    <3>2. <<next>> # <<>> /\ <<next>>[1] = next
      OBVIOUS
    <3> HIDE DEF next
    <3>3. p[i].isset = {"left", "op", "right"} /\ p[i].has.right = <<next>>
      BY <3>1, <3>2 DEF Link, Obj
    <3> QED
      BY <2>2, <3>2, <3>3 DEF next
  <2> QED
    BY <2>1, <2>2
<1> DEFINE S == {k \in Nat : k < n => part[k] = p[k + 1]}
<1>9. 0 \in S
  BY <1>7 DEF c
<1>10. ASSUME NEW k \in Nat, k \in S PROVE k + 1 \in S
  <2> SUFFICES ASSUME k + 1 < n PROVE part[k + 1] = p[(k + 1) + 1]
    OBVIOUS
  <2>1. k + 1 \in 1 .. n /\ k + 1 # n /\ k < n
    BY <1>1
  <2>2. part[k] = p[k + 1]
    BY <1>10, <2>1
  <2> QED
    BY <1>7, <1>8, <2>1, <2>2
<1>11. Nat \subseteq S
  <2> HIDE DEF S
  <2> QED
    BY <1>9, <1>10, NatSetInduction
<1>12. ASSUME NEW k \in Nat, k < n PROVE part[k] = p[k + 1]
  BY <1>11, <1>12
<1> HIDE DEF S
<1>13. ASSUME NEW k \in Nat, k < n PROVE "right" \in part[k].isset <=> k # n - 1
  BY <1>1, <1>8, <1>12, <1>13
<1>14. \E g : ToLast(g)
  <2> DEFINE R == {k \in Nat : "right" \in part[k].isset}
  <2>1. PICK g : g = [k \in Nat |-> IF k \in R THEN g[k + 1] ELSE k]
    BY NextOut
  <2>2. \A k \in Nat : k \in R <=> "right" \in part[k].isset
    OBVIOUS
  <2> HIDE DEF R
  <2>3. ToLast(g)
    BY <2>1, <2>2
  <2> QED
    BY <2>3
<1>15. ToLast(last)
  <2> HIDE DEF ToLast
  <2> QED
    BY <1>14
<1> HIDE DEF last
<1>16. ASSUME NEW k \in Nat PROVE last[k] = IF "right" \in part[k].isset THEN last[k + 1] ELSE k
  BY <1>15
<1> HIDE DEF ToLast
<1> DEFINE U == {k \in Nat : k < n => last[0] = last[k]}
<1>17. 0 \in U
  OBVIOUS
<1>18. ASSUME NEW k \in Nat, k \in U PROVE k + 1 \in U
  <2> SUFFICES ASSUME k + 1 < n PROVE last[0] = last[k + 1]
    OBVIOUS
  <2>1. k < n /\ k # n - 1
    BY <1>1
  <2> QED
    BY <1>13, <1>16, <1>18, <2>1
<1>19. n - 1 \in U
  <2> HIDE DEF U
  <2>1. Nat \subseteq U
    BY <1>17, <1>18, NatSetInduction
  <2> QED
    BY <1>1, <2>1
<1>20. last[0] = n - 1
  BY <1>1, <1>13, <1>16, <1>19
<1>21. last[0] + 1 = n
  BY <1>1, <1>20
<1>22. ASSUME NEW k \in 1 .. n PROVE part[k - 1] = p[k]
  <2>1. k - 1 \in Nat /\ k - 1 < n /\ (k - 1) + 1 = k
    BY <1>1
  <2> QED
    BY <1>12, <2>1
<1>23. getCompCond(columns, c) = [k \in 1 .. n |-> [cond |-> getCond(columns, p[k].has.left), op |-> p[k].has.op]]
  BY <1>2, <1>21, <1>22
<1>24. getCompCond(columns, c) = PartsOf(n, p, columns)
  BY <1>23 DEF PartsOf
<1> QED
  BY <1>24 DEF c, n

----------------------------------------------------------------------------
(* REMOVE: the columns they are about.                                      *)

\* The columns of a table are numbered from 1 on.
Numbered(columns) == \E m \in Nat : DOMAIN columns = 1 .. m

(* getColumnNumber finds the first column of a name, or none.               *)
LEMMA NumberOf ==
    ASSUME NEW columns, Numbered(columns), NEW name
    PROVE  LET g == getColumnNumber(columns, name)
           IN  \/ g = 0 /\ \A i \in DOMAIN columns : columns[i].column_name # name
               \/ /\ g \in DOMAIN columns /\ g # 0 /\ columns[g].column_name = name
                  /\ \A i \in DOMAIN columns : columns[i].column_name = name => g <= i
<1> DEFINE at == {i \in DOMAIN columns : columns[i].column_name = name}
<1>1. DOMAIN columns \subseteq Nat /\ 0 \notin DOMAIN columns
  BY DEF Numbered
<1>2. CASE at = {}
  BY <1>2 DEF getColumnNumber
<1>3. CASE at # {}
  <2>1. getColumnNumber(columns, name) = Min(at)
    BY <1>3 DEF getColumnNumber
  <2>2. at \subseteq Nat
    BY <1>1
  <2> HIDE DEF at
  <2>3. \E x \in at : \A y \in at : x <= y
    BY <1>3, <2>2, LeastNat
  <2>4. Min(at) \in at /\ \A y \in at : Min(at) <= y
    BY <2>3 DEF Min
  <2> QED
    BY <1>1, <2>1, <2>4 DEF at
<1> QED
  BY <1>2, <1>3

(* It finds the column that a part of a condition is about, if its type is  *)
(* that of the literal.                                                     *)
LEMMA AboutIs ==
    ASSUME NEW columns, Numbered(columns), NEW part
    PROVE  LET g == getColumnNumber(columns, part.column)
               fits == g # 0 /\ columns[g].data_type = User!TypeOf(part.value)
           IN  /\ fits => User!About(part, columns) = {g}
               /\ ~fits => User!About(part, columns) = {}
<1> DEFINE g == getColumnNumber(columns, part.column)
           A == User!About(part, columns)
<1>1. \/ g = 0 /\ \A i \in DOMAIN columns : columns[i].column_name # part.column
      \/ /\ g \in DOMAIN columns /\ g # 0 /\ columns[g].column_name = part.column
         /\ \A i \in DOMAIN columns : columns[i].column_name = part.column => g <= i
  BY NumberOf
<1>2. PICK m \in Nat : DOMAIN columns = 1 .. m
  BY DEF Numbered
<1> HIDE DEF g
<1>3. ASSUME NEW i
      PROVE  i \in A <=> /\ i \in DOMAIN columns /\ columns[i].column_name = part.column
                         /\ \A j \in 1 .. i - 1 : columns[j].column_name # part.column
                         /\ columns[i].data_type = User!TypeOf(part.value)
  BY DEF User!About
<1> HIDE DEF A
<1>4. CASE g = 0
  BY <1>1, <1>2, <1>3, <1>4 DEF g, A
<1>5. CASE g # 0
  <2>1. ASSUME NEW i \in A PROVE i = g
    <3>1. i \in 1 .. m /\ g \in 1 .. m /\ g <= i
      BY <1>1, <1>2, <1>3, <1>5, <2>1
    <3>2. ASSUME g < i PROVE FALSE
      <4>1. g \in 1 .. i - 1
        BY <3>1, <3>2
      <4> QED
        BY <1>1, <1>3, <1>5, <2>1, <4>1
    <3> QED
      BY <3>1, <3>2
  <2>2. \A j \in 1 .. g - 1 : columns[j].column_name # part.column
    <3>1. ASSUME NEW j \in 1 .. g - 1, columns[j].column_name = part.column PROVE FALSE
      <4>1. g \in 1 .. m /\ j \in 1 .. m /\ ~(g <= j)
        BY <1>1, <1>2, <1>5, <3>1
      <4> QED
        BY <1>1, <1>2, <1>5, <3>1, <4>1
    <3> QED
      BY <3>1
  <2>3. g \in A <=> columns[g].data_type = User!TypeOf(part.value)
    BY <1>1, <1>3, <1>5, <2>2
  <2>4. columns[g].data_type = User!TypeOf(part.value) => A = {g}
    BY <2>1, <2>3
  <2>5. columns[g].data_type # User!TypeOf(part.value) => A = {}
    BY <2>1, <2>3
  <2> QED
    BY <1>5, <2>4, <2>5 DEF g, A
<1> QED
  BY <1>4, <1>5

\* What getCond makes of a part of a condition.
LEMMA CondMeans ==
    ASSUME NEW columns, Numbered(columns), NEW part \in WhereParts({NULL})
    PROVE  LET cond == getCond(columns, Cond_(part))
           IN  /\ cond.there <=> User!About(part, columns) # {}
               /\ cond.there => User!About(part, columns) = {getColumnNumber(columns, part.column)}
               /\ cond.column_name = part.column /\ cond.comp_type = CompType[part.comp]
               /\ cond.value = Arrives(part.value)
<1> DEFINE type == value(part.value).type
           val == Val_(type, Arrives(part.value))
           cond_ == Cond_(part)
           cond == getCond(columns, cond_)
           g == getColumnNumber(columns, part.column)
<1>1. part.value \in Literals
  BY WherePartIs
<1>2. type \in 0 .. 3 /\ type = User!TypeOf(part.value)
  BY <1>1, LitMeans
<1>3. /\ cond_.has.value = val /\ cond_.has.column.has.col_name = part.column
      /\ cond_.has.comp_type = CompType[part.comp]
  BY DEF Cond_, Obj, FullName_
<1>4. cell(val) = Arrives(part.value) /\ val.has.type = type
  BY <1>2, CellOf
<1> HIDE DEF val, cond_, type, g
<1>5. /\ cond.there <=> (g # 0 /\ columns[g].data_type = type)
      /\ cond.column_name = part.column /\ cond.comp_type = CompType[part.comp]
      /\ cond.value = Arrives(part.value)
  BY <1>3, <1>4 DEF getCond, g
<1> HIDE DEF cond
<1>6. /\ g # 0 /\ columns[g].data_type = User!TypeOf(part.value) => User!About(part, columns) = {g}
      /\ ~(g # 0 /\ columns[g].data_type = User!TypeOf(part.value)) => User!About(part, columns) = {}
  BY AboutIs DEF g
<1> QED
  BY <1>2, <1>5, <1>6 DEF cond, cond_, g

----------------------------------------------------------------------------
(* REMOVE: the comparisons.                                                 *)

(* The comparisons of numbers.                                              *)
Compared == {EQUALS_COMP, NOT_EQUALS_COMP, GREATER_COMP, LESS_COMP, GREATER_EQUALS_COMP, LESS_EQUALS_COMP}

(* The numbers of the comparisons differ.                                   *)
LEMMA CompNumbersDiffer ==
    /\ EQUALS_COMP # NOT_EQUALS_COMP /\ EQUALS_COMP # GREATER_COMP /\ EQUALS_COMP # LESS_COMP
    /\ EQUALS_COMP # GREATER_EQUALS_COMP /\ EQUALS_COMP # LESS_EQUALS_COMP /\ EQUALS_COMP # LIKE_COMP
    /\ NOT_EQUALS_COMP # GREATER_COMP /\ NOT_EQUALS_COMP # LESS_COMP
    /\ NOT_EQUALS_COMP # GREATER_EQUALS_COMP /\ NOT_EQUALS_COMP # LESS_EQUALS_COMP /\ NOT_EQUALS_COMP # LIKE_COMP
    /\ GREATER_COMP # LESS_COMP /\ GREATER_COMP # GREATER_EQUALS_COMP /\ GREATER_COMP # LESS_EQUALS_COMP
    /\ GREATER_COMP # LIKE_COMP /\ LESS_COMP # GREATER_EQUALS_COMP /\ LESS_COMP # LESS_EQUALS_COMP
    /\ LESS_COMP # LIKE_COMP /\ GREATER_EQUALS_COMP # LESS_EQUALS_COMP /\ GREATER_EQUALS_COMP # LIKE_COMP
    /\ LESS_EQUALS_COMP # LIKE_COMP
BY DEF EQUALS_COMP, NOT_EQUALS_COMP, GREATER_COMP, LESS_COMP, GREATER_EQUALS_COMP,
       LESS_EQUALS_COMP, LIKE_COMP

(* compareInt by the comparison.                                            *)
LEMMA CompareCases ==
    ASSUME NEW x, NEW y
    PROVE  /\ compareInt(EQUALS_COMP, x, y) <=> x = y
           /\ compareInt(NOT_EQUALS_COMP, x, y) <=> x # y
           /\ compareInt(GREATER_COMP, x, y) <=> x > y
           /\ compareInt(LESS_COMP, x, y) <=> x < y
           /\ compareInt(GREATER_EQUALS_COMP, x, y) <=> x >= y
           /\ compareInt(LESS_EQUALS_COMP, x, y) <=> x <= y
BY CompNumbersDiffer, Zenon DEF compareInt

(* What is promised of each comparison.                                     *)
LEMMA RelatedCases ==
    ASSUME NEW x, NEW y
    PROVE  /\ User!Related("=", x, y) <=> x = y
           /\ User!Related("!=", x, y) <=> x # y
           /\ User!Related(">", x, y) <=> x > y
           /\ User!Related("<", x, y) <=> x < y
           /\ User!Related(">=", x, y) <=> x >= y
           /\ User!Related("<=", x, y) <=> x <= y
BY Zenon DEF User!Related

(* compareInt does what is promised; compareBool only for = and !=.         *)
LEMMA CompareIs ==
    ASSUME NEW comp \in DOMAIN CompType \ {"LIKE"}, NEW x, NEW y
    PROVE  /\ compareInt(CompType[comp], x, y) <=> User!Related(comp, x, y)
           /\ compareBool(CompType[comp], x, y) <=> comp \in {"=", "!="} /\ User!Related(comp, x, y)
           /\ CompType[comp] # LIKE_COMP
<1>1. \/ comp = "=" \/ comp = "!=" \/ comp = ">" \/ comp = "<" \/ comp = ">=" \/ comp = "<="
  BY CompTypes, Zenon
<1>2. CASE comp = "="
  <2>1. CompType[comp] = EQUALS_COMP
    BY <1>2, CompTypes, Zenon
  <2>2. compareBool(EQUALS_COMP, x, y) <=> x = y
    BY CompNumbersDiffer, Zenon DEF compareBool
  <2> QED
    BY <1>2, <2>1, <2>2, CompareCases, RelatedCases, CompNumbersDiffer, Zenon
<1>3. CASE comp = "!="
  <2>1. CompType[comp] = NOT_EQUALS_COMP
    BY <1>3, CompTypes, Zenon
  <2>2. compareBool(NOT_EQUALS_COMP, x, y) <=> x # y
    BY CompNumbersDiffer, Zenon DEF compareBool
  <2> QED
    BY <1>3, <2>1, <2>2, CompareCases, RelatedCases, CompNumbersDiffer, Zenon
<1>4. CASE comp = ">"
  <2>1. CompType[comp] = GREATER_COMP
    BY <1>4, CompTypes, Zenon
  <2>2. ~compareBool(GREATER_COMP, x, y)
    BY CompNumbersDiffer, Zenon DEF compareBool
  <2> QED
    BY <1>4, <2>1, <2>2, CompareCases, RelatedCases, CompNumbersDiffer, Zenon
<1>5. CASE comp = "<"
  <2>1. CompType[comp] = LESS_COMP
    BY <1>5, CompTypes, Zenon
  <2>2. ~compareBool(LESS_COMP, x, y)
    BY CompNumbersDiffer, Zenon DEF compareBool
  <2> QED
    BY <1>5, <2>1, <2>2, CompareCases, RelatedCases, CompNumbersDiffer, Zenon
<1>6. CASE comp = ">="
  <2>1. CompType[comp] = GREATER_EQUALS_COMP
    BY <1>6, CompTypes, Zenon
  <2>2. ~compareBool(GREATER_EQUALS_COMP, x, y)
    BY CompNumbersDiffer, Zenon DEF compareBool
  <2> QED
    BY <1>6, <2>1, <2>2, CompareCases, RelatedCases, CompNumbersDiffer, Zenon
<1>7. CASE comp = "<="
  <2>1. CompType[comp] = LESS_EQUALS_COMP
    BY <1>7, CompTypes, Zenon
  <2>2. ~compareBool(LESS_EQUALS_COMP, x, y)
    BY CompNumbersDiffer, Zenon DEF compareBool
  <2> QED
    BY <1>7, <2>1, <2>2, CompareCases, RelatedCases, CompNumbersDiffer, Zenon
<1> QED
  BY <1>1, <1>2, <1>3, <1>4, <1>5, <1>6, <1>7, Zenon

(* The numbers of the types differ.                                         *)
LEMMA TypesDiffer ==
    /\ INT_TYPE # STRING_TYPE /\ INT_TYPE # BOOL_TYPE /\ FLOAT_TYPE # STRING_TYPE
    /\ FLOAT_TYPE # BOOL_TYPE /\ STRING_TYPE # BOOL_TYPE
    /\ \A n \in 0 .. 3 : n \in {INT_TYPE, FLOAT_TYPE, STRING_TYPE, BOOL_TYPE}
    /\ User!STRING_TYPE = STRING_TYPE /\ User!BOOL_TYPE = BOOL_TYPE
BY DEF INT_TYPE, FLOAT_TYPE, STRING_TYPE, BOOL_TYPE, User!STRING_TYPE, User!BOOL_TYPE

\* A comparison of a cell with a literal of the type of its column.
Compares(comp_type, type, x, v) ==
    CASE type \in {INT_TYPE, FLOAT_TYPE} -> compareInt(comp_type, x, v)
      [] type = BOOL_TYPE -> compareBool(comp_type, x, v)
      [] type = STRING_TYPE -> compareStr(comp_type, x, v)

(* What is promised of it.                                                  *)
Says(comp, type, x, v) ==
    IF comp = "LIKE" THEN User!strstr(x, v)
    ELSE CASE type = User!STRING_TYPE -> User!Related(comp, User!strcmp(x, v), 0)
           [] type = User!BOOL_TYPE -> comp \in {"=", "!="} /\ User!Related(comp, x, v)
           [] OTHER -> User!Related(comp, x, v)

(* Every comparison of the handler is the promised one.                     *)
LEMMA ComparesAsSaid ==
    ASSUME NEW comp \in DOMAIN CompType, NEW type \in 0 .. 3, comp = "LIKE" => type = STRING_TYPE,
           NEW x, NEW v
    PROVE  Compares(CompType[comp], type, x, v) <=> Says(comp, type, x, v)
<1>1. type \in {INT_TYPE, FLOAT_TYPE, STRING_TYPE, BOOL_TYPE}
  BY TypesDiffer
<1>2. CASE comp = "LIKE"
  <2>1. type = STRING_TYPE /\ CompType[comp] = LIKE_COMP
    BY <1>2, CompTypes, Zenon
  <2>2. Compares(CompType[comp], type, x, v) = compareStr(LIKE_COMP, x, v)
    BY <2>1, TypesDiffer, Zenon DEF Compares
  <2>3. compareStr(LIKE_COMP, x, v) = strstr(x, v)
    BY Zenon DEF compareStr
  <2>4. Says(comp, type, x, v) = User!strstr(x, v)
    BY <1>2, Zenon DEF Says
  <2>5. User!strstr(x, v) <=> strstr(x, v)
    BY Zenon DEF User!strstr, strstr
  <2> QED
    BY <2>2, <2>3, <2>4, <2>5, Zenon
<1>3. CASE comp # "LIKE"
  <2>0. comp \in DOMAIN CompType \ {"LIKE"}
    BY <1>3, Zenon
  <2>1. CASE type \in {INT_TYPE, FLOAT_TYPE}
    <3>1. Compares(CompType[comp], type, x, v) = compareInt(CompType[comp], x, v)
      BY <2>1, TypesDiffer, Zenon DEF Compares
    <3>2. Says(comp, type, x, v) = User!Related(comp, x, v)
      BY <1>3, <2>1, TypesDiffer, Zenon DEF Says
    <3> QED
      BY <2>0, <3>1, <3>2, CompareIs, Zenon
  <2>2. CASE type = BOOL_TYPE
    <3>1. Compares(CompType[comp], type, x, v) = compareBool(CompType[comp], x, v)
      BY <2>2, TypesDiffer, Zenon DEF Compares
    <3>2. Says(comp, type, x, v) = (comp \in {"=", "!="} /\ User!Related(comp, x, v))
      BY <1>3, <2>2, TypesDiffer, Zenon DEF Says
    <3> QED
      BY <2>0, <3>1, <3>2, CompareIs, Zenon
  <2>3. CASE type = STRING_TYPE
    <3>1. Compares(CompType[comp], type, x, v) = compareStr(CompType[comp], x, v)
      BY <2>3, TypesDiffer, Zenon DEF Compares
    <3>2. compareStr(CompType[comp], x, v) = compareInt(CompType[comp], strcmp(x, v), 0)
      BY <2>0, CompareIs, Zenon DEF compareStr
    <3>3. Says(comp, type, x, v) = User!Related(comp, User!strcmp(x, v), 0)
      BY <1>3, <2>3, TypesDiffer, Zenon DEF Says
    <3>4. User!strcmp(x, v) = strcmp(x, v)
      BY Zenon DEF User!strcmp, strcmp
    <3> QED
      BY <2>0, <3>1, <3>2, <3>3, <3>4, CompareIs, Zenon
  <2> QED
    BY <1>1, <2>1, <2>2, <2>3, Zenon
<1> QED
  BY <1>2, <1>3

----------------------------------------------------------------------------
(* REMOVE: one part for one row.                                            *)

(* The three outcomes of a check differ.                                    *)
LEMMA AnswersDiffer == Yes # No /\ Yes # Crashes /\ No # Crashes
BY DEF Yes, No, Crashes

(* checkCondition compares, or reads a column that is not there.            *)
LEMMA CheckIs ==
    ASSUME NEW columns, NEW cond, NEW rw
    PROVE  LET n == getColumnNumber(columns, cond.column_name)
           IN  /\ ~cond.there => checkCondition(columns, cond, rw) = Crashes
               /\ cond.there =>
                    checkCondition(columns, cond, rw)
                      = IF Compares(cond.comp_type, columns[n].data_type, rw[n], cond.value) THEN Yes ELSE No
BY Zenon DEF checkCondition, Compares

(* What is promised of a part that is about one column.                     *)
LEMMA HoldsIs ==
    ASSUME NEW part, NEW row, NEW columns, NEW g, User!About(part, columns) = {g}
    PROVE  User!Holds(part, row, columns)
             <=> Says(part.comp, columns[g].data_type, row[g], User!Denotes(part.value))
<1>1. User!Holds(part, row, columns) <=>
        \E i \in User!About(part, columns) :
            Says(part.comp, columns[i].data_type, row[i], User!Denotes(part.value))
  BY Zenon DEF User!Holds, Says
<1> QED
  BY <1>1, Zenon

(* A part that is about no column does not hold.                            *)
LEMMA NotAbout ==
    ASSUME NEW part, NEW row, NEW columns, User!About(part, columns) = {}
    PROVE  ~User!Holds(part, row, columns)
BY Zenon DEF User!Holds

(* LIKE takes a string alone.                                               *)
LEMMA LikeIsText ==
    ASSUME NEW part \in WhereParts({NULL}), part.comp = "LIKE"
    PROVE  User!TypeOf(part.value) = STRING_TYPE
<1>1. part.value \in [str : Strings]
  BY DEF WhereParts
<1>2. "str" \in DOMAIN part.value /\ "int" \notin DOMAIN part.value /\ "float" \notin DOMAIN part.value
      /\ "bool" \notin DOMAIN part.value
  BY <1>1
<1> QED
  BY <1>2 DEF User!TypeOf, User!STRING_TYPE, STRING_TYPE

(* checkCondition of a part that arrives is what is promised of the part    *)
(* typed.                                                                   *)
LEMMA CheckMeans ==
    ASSUME NEW columns, Numbered(columns), NEW part \in WhereParts({NULL}), NEW rw,
           ~(User!Unusable(part.value) /\ User!About(part, columns) # {})
    PROVE  LET c == checkCondition(columns, getCond(columns, Cond_(part)), rw)
           IN  /\ User!About(part, columns) = {} => c = Crashes
               /\ User!About(part, columns) # {} => c = IF User!Holds(part, rw, columns) THEN Yes ELSE No
<1> DEFINE cond == getCond(columns, Cond_(part))
           c == checkCondition(columns, cond, rw)
           A == User!About(part, columns)
           g == getColumnNumber(columns, part.column)
           v == User!Denotes(part.value)
<1>1. /\ cond.there <=> A # {}
      /\ cond.there => A = {g}
      /\ cond.column_name = part.column /\ cond.comp_type = CompType[part.comp]
      /\ cond.value = Arrives(part.value)
  BY CondMeans
<1> HIDE DEF cond, g
<1>2. CASE A = {}
  <2>1. c = Crashes
    BY <1>1, <1>2, CheckIs
  <2> QED
    BY <1>2, <2>1 DEF cond
<1>3. CASE A # {}
  <2>1. A = {g} /\ cond.there /\ ~User!Unusable(part.value)
    BY <1>1, <1>3
  <2>2. part.value \in Literals /\ part.comp \in DOMAIN CompType
    BY WherePartIs
  <2>3. cond.value = v
    BY <1>1, <2>1, <2>2, LitMeans
  <2> DEFINE type == columns[g].data_type
             x == rw[g]
  <2>4. type = User!TypeOf(part.value) /\ type \in 0 .. 3
    <3>1. type = User!TypeOf(part.value)
      BY <2>1, AboutIs DEF g
    <3> QED
      BY <2>2, <3>1, LitMeans
  <2>5. part.comp = "LIKE" => type = STRING_TYPE
    BY <2>4, LikeIsText
  <2>6. c = IF Compares(CompType[part.comp], type, x, v) THEN Yes ELSE No
    BY <1>1, <2>1, <2>3, CheckIs DEF g
  <2>7. User!Holds(part, rw, columns) <=> Says(part.comp, type, x, v)
    BY <2>1, HoldsIs
  <2> HIDE DEF type, x, v, c, A
  <2>8. Compares(CompType[part.comp], type, x, v) <=> Says(part.comp, type, x, v)
    BY <2>2, <2>4, <2>5, ComparesAsSaid
  <2>9. c = IF User!Holds(part, rw, columns) THEN Yes ELSE No
    BY <2>6, <2>7, <2>8, Zenon
  <2> QED
    BY <1>3, <2>9 DEF c, A, cond
<1> QED
  BY <1>2, <1>3 DEF cond

\* The compound condition as getCompCond gives it, and its evaluation.
LEMMA CompCondIs ==
    ASSUME NEW where \in Wheres({NULL}), where # <<>>, NEW p, Chained(where, p), NEW columns
    PROVE  LET cc == getCompCond(columns, p[1])
           IN  /\ IsSeq(cc) /\ Len(cc) = Len(where) /\ DOMAIN cc = DOMAIN where /\ cc # <<>>
               /\ \A k \in DOMAIN where : /\ cc[k].cond = getCond(columns, Cond_(where[k]))
                                         /\ cc[k].op = Op_(where, k)
<1> DEFINE cc == getCompCond(columns, p[1])
           n == Len(where)
<1>1. IsSeq(where) /\ n \in Nat /\ DOMAIN where = 1 .. n /\ n # 0
  BY WhereIs, NotEmpty
<1>2. cc = PartsOf(n, p, columns)
  BY <1>1, ChainRead
<1> HIDE DEF cc, n
<1>3. ASSUME NEW k \in 1 .. n PROVE p[k].has.left = Cond_(where[k]) /\ p[k].has.op = Op_(where, k)
  <2> DEFINE rest == IF k = Len(where) THEN <<>> ELSE <<p[k + 1]>>
  <2>1. p[k] = Link(Cond_(where[k]), Op_(where, k), rest)
    BY DEF Chained, n
  <2> HIDE DEF rest
  <2> QED
    BY <2>1 DEF Link, Obj
<1>4. DOMAIN cc = 1 .. n /\ \A k \in 1 .. n : cc[k] = [cond |-> getCond(columns, p[k].has.left), op |-> p[k].has.op]
  BY <1>2 DEF PartsOf
<1>5. \A k \in 1 .. n : cc[k].cond = getCond(columns, Cond_(where[k])) /\ cc[k].op = Op_(where, k)
  BY <1>3, <1>4
<1>6. cc = [k \in 1 .. n |-> cc[k]]
  BY <1>2, <1>4 DEF PartsOf
<1>7. IsSeq(cc) /\ Len(cc) = n
  BY <1>1, <1>6, SeqMade
<1>8. cc # <<>>
  BY <1>1, <1>7, SeqEmpty
<1> QED
  BY <1>1, <1>4, <1>5, <1>7, <1>8 DEF cc, n

\* strdup of a string that has been read as NULL.
LEMMA CrashMeans ==
    ASSUME NEW where \in Wheres({NULL}), where # <<>>, NEW p, Chained(where, p),
           NEW columns, Numbered(columns)
    PROVE  CondCrashes(getCompCond(columns, p[1]))
             <=> \E i \in DOMAIN where :
                    User!Unusable(where[i].value) /\ User!About(where[i], columns) # {}
<1> DEFINE cc == getCompCond(columns, p[1])
<1>1. /\ DOMAIN cc = DOMAIN where
      /\ \A k \in DOMAIN where : cc[k].cond = getCond(columns, Cond_(where[k]))
  BY CompCondIs
<1> HIDE DEF cc
<1>2. \A k \in DOMAIN where : where[k] \in WhereParts({NULL})
  BY WhereIs
<1>3. ASSUME NEW k \in DOMAIN where
      PROVE  (cc[k].cond.there /\ cc[k].cond.value = NULL)
               <=> User!Unusable(where[k].value) /\ User!About(where[k], columns) # {}
  <2> DEFINE cond == getCond(columns, Cond_(where[k]))
  <2>1. /\ cond.there <=> User!About(where[k], columns) # {}
        /\ cond.value = Arrives(where[k].value)
    BY <1>2, CondMeans
  <2>2. cc[k].cond = cond
    BY <1>1
  <2>3. where[k].value \in Literals
    BY <1>2, WherePartIs
  <2> HIDE DEF cond
  <2> QED
    BY <2>1, <2>2, <2>3, LitMeans
<1> QED
  BY <1>1, <1>3 DEF CondCrashes, cc

----------------------------------------------------------------------------
(* REMOVE: AND and OR.                                                      *)

\* No part of the condition is one that ends the server before the search.
Usable(where, columns) ==
    ~\E i \in DOMAIN where : User!Unusable(where[i].value) /\ User!About(where[i], columns) # {}

(* Part k settles the condition for a row: it is the last, it cannot be     *)
(* checked, or AND and OR need no more.                                     *)
CodeSettles(columns, cc, rw, k) ==
    \/ k = Len(cc)
    \/ checkCondition(columns, cc[k].cond, rw) \in {Crashes, IF cc[k].op = OR_OP THEN Yes ELSE No}

(* checkCompoundCondition gives the answer of the first part that settles   *)
(* it.                                                                      *)
LEMMA CheckCompIs ==
    ASSUME NEW columns, NEW cc, NEW rw
    PROVE  checkCompoundCondition(columns, cc, rw)
             = checkCondition(columns, cc[Min({k \in DOMAIN cc : CodeSettles(columns, cc, rw, k)})].cond, rw)
BY Zenon DEF checkCompoundCondition, CodeSettles

(* AND and OR differ.                                                       *)
LEMMA LogicIs ==
    /\ LogicOp["AND"] # OR_OP /\ LogicOp["OR"] = OR_OP
BY DEF LogicOp, AND_OP, OR_OP

(* The operator that arrives is the one typed.                              *)
LEMMA OpMeans ==
    ASSUME NEW where \in Wheres({NULL}), NEW k \in DOMAIN where, k # Len(where)
    PROVE  Op_(where, k) = OR_OP <=> where[k].then = "OR"
<1>1. where[k] \in WhereParts({NULL}) /\ where[k].then # "none"
  BY WhereIs
<1>2. where[k].then = "AND" \/ where[k].then = "OR"
  BY <1>1, WherePartIs
<1>3. Op_(where, k) = LogicOp[where[k].then]
  BY DEF Op_
<1> QED
  BY <1>2, <1>3, LogicIs

(* The handler and the promise agree on which parts settle a condition.     *)
LEMMA SettlesMeans ==
    ASSUME NEW where \in Wheres({NULL}), where # <<>>, NEW p, Chained(where, p),
           NEW columns, Numbered(columns), Usable(where, columns), NEW rw, NEW k \in DOMAIN where
    PROVE  LET cc == getCompCond(columns, p[1])
               check == checkCondition(columns, cc[k].cond, rw)
           IN  /\ User!About(where[k], columns) = {} => check = Crashes
               /\ User!About(where[k], columns) # {} =>
                    check = IF User!Holds(where[k], rw, columns) THEN Yes ELSE No
               /\ CodeSettles(columns, cc, rw, k) <=> User!Settles(where, k, rw, columns)
<1> DEFINE cc == getCompCond(columns, p[1])
           check == checkCondition(columns, cc[k].cond, rw)
           A == User!About(where[k], columns)
           H == User!Holds(where[k], rw, columns)
           or == where[k].then = "OR"
<1>1. /\ Len(cc) = Len(where)
      /\ cc[k].cond = getCond(columns, Cond_(where[k])) /\ cc[k].op = Op_(where, k)
  BY CompCondIs
<1> HIDE DEF cc
<1>2. where[k] \in WhereParts({NULL})
  BY WhereIs
<1>3. ~(User!Unusable(where[k].value) /\ A # {})
  BY DEF Usable
<1>4. /\ A = {} => check = Crashes
      /\ A # {} => check = IF H THEN Yes ELSE No
  BY <1>1, <1>2, <1>3, CheckMeans
<1>5. A = {} => ~H
  BY NotAbout
<1>6. User!Settles(where, k, rw, columns) <=> k = Len(where) \/ A = {} \/ H = or
  BY DEF User!Settles
<1>7. CodeSettles(columns, cc, rw, k)
        <=> k = Len(where) \/ check \in {Crashes, IF cc[k].op = OR_OP THEN Yes ELSE No}
  BY <1>1 DEF CodeSettles
<1>8. H \in BOOLEAN /\ or \in BOOLEAN
  BY DEF User!Holds
<1>9. k # Len(where) => (cc[k].op = OR_OP <=> or)
  BY <1>1, OpMeans
<1> DEFINE isOr == cc[k].op = OR_OP
<1>10. isOr \in BOOLEAN
  OBVIOUS
<1>11. k # Len(where) => isOr = or
  BY <1>8, <1>9, <1>10
<1> HIDE DEF check, A, H, or
<1>12. ASSUME k # Len(where), A # {}
       PROVE  check \in {Crashes, IF cc[k].op = OR_OP THEN Yes ELSE No} <=> H = or
  <2>1. CASE or
    <3>1. cc[k].op = OR_OP
      BY <1>9, <1>12, <2>1
    <3>2. (H = or) <=> H
      BY <1>8, <2>1
    <3>3. check \in {Crashes, IF cc[k].op = OR_OP THEN Yes ELSE No} <=> check \in {Crashes, Yes}
      BY <3>1
    <3> QED
      BY <1>4, <1>12, <3>2, <3>3, AnswersDiffer, Zenon
  <2>2. CASE ~or
    <3>1. cc[k].op # OR_OP
      BY <1>9, <1>12, <2>2
    <3>2. (H = or) <=> ~H
      BY <1>8, <2>2
    <3>3. check \in {Crashes, IF cc[k].op = OR_OP THEN Yes ELSE No} <=> check \in {Crashes, No}
      BY <3>1
    <3> QED
      BY <1>4, <1>12, <3>2, <3>3, AnswersDiffer, Zenon
  <2> QED
    BY <2>1, <2>2
<1>13. CodeSettles(columns, cc, rw, k) <=> User!Settles(where, k, rw, columns)
  <2>1. CASE k = Len(where)
    BY <1>6, <1>7, <2>1
  <2>2. CASE k # Len(where) /\ A = {}
    BY <1>4, <1>6, <1>7, <2>2
  <2>3. CASE k # Len(where) /\ A # {}
    BY <1>6, <1>7, <1>12, <2>3, Zenon
  <2> QED
    BY <2>1, <2>2, <2>3
<1> QED
  BY <1>4, <1>13 DEF cc, check, A, H

\* How the condition turns out for a row.
LEMMA Evaluated ==
    ASSUME NEW where \in Wheres({NULL}), where # <<>>, NEW p, Chained(where, p),
           NEW columns, Numbered(columns), Usable(where, columns), NEW rw
    PROVE  LET c == checkCompoundCondition(columns, getCompCond(columns, p[1]), rw)
               m == User!Settling(where, rw, columns)
           IN  /\ m \in DOMAIN where
               /\ User!About(where[m], columns) = {} => c = Crashes
               /\ User!About(where[m], columns) # {} =>
                    c = IF User!Holds(where[m], rw, columns) THEN Yes ELSE No
<1> DEFINE cc == getCompCond(columns, p[1])
           S == {k \in DOMAIN cc : CodeSettles(columns, cc, rw, k)}
           T == {i \in DOMAIN where : User!Settles(where, i, rw, columns)}
           m == User!Settling(where, rw, columns)
<1>1. DOMAIN cc = DOMAIN where
  BY CompCondIs
<1>2. \A k \in DOMAIN where :
        CodeSettles(columns, cc, rw, k) <=> User!Settles(where, k, rw, columns)
  BY SettlesMeans
<1>3. S = T
  <2> HIDE DEF cc
  <2> QED
    BY <1>1, <1>2
<1>4. checkCompoundCondition(columns, cc, rw) = checkCondition(columns, cc[Min(S)].cond, rw)
  BY CheckCompIs
<1>5. m = Min(T)
  BY Zenon DEF User!Settling, User!Min, Min
<1>6. Len(where) \in T /\ T \subseteq Nat
  <2>1. Len(where) \in Nat /\ Len(where) # 0 /\ DOMAIN where = 1 .. Len(where)
    BY WhereIs, NotEmpty
  <2>2. User!Settles(where, Len(where), rw, columns)
    BY DEF User!Settles
  <2> QED
    BY <2>1, <2>2
<1>7. Min(T) \in T
  <2> HIDE DEF T
  <2>1. \E x \in T : \A y \in T : x <= y
    BY <1>6, LeastNat
  <2> QED
    BY <2>1 DEF Min
<1>8. m \in DOMAIN where
  BY <1>5, <1>7
<1>9. checkCompoundCondition(columns, cc, rw) = checkCondition(columns, cc[m].cond, rw)
  <2> HIDE DEF S, T, cc, m
  <2> QED
    BY <1>3, <1>4, <1>5
<1>10. /\ User!About(where[m], columns) = {} => checkCondition(columns, cc[m].cond, rw) = Crashes
       /\ User!About(where[m], columns) # {} =>
            checkCondition(columns, cc[m].cond, rw) = IF User!Holds(where[m], rw, columns) THEN Yes ELSE No
  <2> HIDE DEF m
  <2> QED
    BY <1>8, SettlesMeans
<1> HIDE DEF m, cc, S, T
<1>11. /\ m \in DOMAIN where
       /\ User!About(where[m], columns) = {} => checkCompoundCondition(columns, cc, rw) = Crashes
       /\ User!About(where[m], columns) # {} =>
            checkCompoundCondition(columns, cc, rw) = IF User!Holds(where[m], rw, columns) THEN Yes ELSE No
  BY <1>8, <1>9, <1>10
<1> QED
  BY <1>11 DEF m, cc

----------------------------------------------------------------------------
(* REMOVE: the outcome.                                                     *)

\* The ways a search ends.
LEMMA EndsJudged ==
    ASSUME NEW l
    PROVE  /\ May(l, "looping", store) => Judged(l, Ends("loop", store))
           /\ May(l, "ended", store) => Judged(l, Ends("crash", store))
<1> DEFINE a == Ends("loop", store)
           b == Ends("crash", store)
<1>1. a.ends = "loop" /\ b.ends = "crash"
  BY DEF Ends
<1> HIDE DEF a, b
<1>2. /\ May(l, "looping", store) => Judged(l, a)
      /\ May(l, "ended", store) => Judged(l, b)
  BY <1>1 DEF Judged
<1> QED
  BY <1>2 DEF a, b

(* What a DELETE does, by the answer its search ends with.                  *)
LEMMA FindsAre ==
    /\ Finds(Yes, store) = {Answers(INTERNAL_ERROR, store), Answers(BAD_REQUEST, store)}
    /\ Finds(No, store) = {Ends("loop", store)}
    /\ Finds(Crashes, store) = {Ends("crash", store)}
BY AnswersDiffer, Zenon DEF Finds

DeleteOf(where_conditions) == [type |-> "DELETE", where_conditions |-> where_conditions]

(* A DELETE by the state of the table.                                      *)
LEMMA DeleteExecuted ==
    ASSUME NEW conds
    PROVE  LET q == DeleteOf(conds)
           IN  /\ store.columns = <<>> => executeQuery(q, store) = {Answers(BAD_REQUEST, store)}
               /\ store.columns # <<>> /\ store.rows = {} => executeQuery(q, store) = {Answers(OK, store)}
               /\ store.columns # <<>> /\ store.rows # {} /\ conds = <<>> =>
                    executeQuery(q, store) = {Answers(INTERNAL_ERROR, store)}
               /\ store.columns # <<>> /\ store.rows # {} /\ conds # <<>> =>
                    \A o \in executeQuery(q, store) : \E rw \in store.rows :
                        o \in Finds(checkCompoundCondition(store.columns, conds, rw), store)
<1> DEFINE q == DeleteOf(conds)
<1>1. q.type = "DELETE" /\ q.where_conditions = conds
  BY DEF DeleteOf
<1>2. "DELETE" # "CREATE" /\ "DELETE" # "DROP" /\ "DELETE" # "INSERT"
  OBVIOUS
<1> HIDE DEF q
<1>3. store.columns = <<>> => executeQuery(q, store) = {Answers(BAD_REQUEST, store)}
  BY <1>1, <1>2, Zenon DEF executeQuery
<1>4. store.columns # <<>> => executeQuery(q, store) = executeDelete(q, store)
  BY <1>1, <1>2, Zenon DEF executeQuery
<1>5. store.rows = {} => executeDelete(q, store) = {Answers(OK, store)}
  BY Zenon DEF executeDelete
<1>6. store.rows # {} /\ conds = <<>> => executeDelete(q, store) = {Answers(INTERNAL_ERROR, store)}
  BY <1>1, Zenon DEF executeDelete
<1>7. ASSUME store.rows # {}, conds # <<>>, NEW o \in executeDelete(q, store)
      PROVE  \E rw \in store.rows :
                 o \in Finds(checkCompoundCondition(store.columns, conds, rw), store)
  <2>1. executeDelete(q, store) =
          UNION {Finds(c, store) :
                    c \in {checkCompoundCondition(store.columns, conds, rw) : rw \in store.rows}}
    BY <1>1, <1>7, Zenon DEF executeDelete
  <2> QED
    BY <1>7, <2>1, Zenon
<1> QED
  BY <1>3, <1>4, <1>5, <1>6, <1>7 DEF q

\* What a user is told of the row a REMOVE looks at.
Remark(l, row) ==
    LET part == l.where[User!Settling(l.where, row, store.columns)]
    IN  IF User!About(part, store.columns) = {} THEN {User!Outcome("ended", store)}
        ELSE IF User!Holds(part, row, store.columns)
        THEN {User!Outcome("INTERNAL_ERROR", store), User!Outcome("BAD_REQUEST", store)}
        ELSE {User!Outcome("looping", store)}

(* What a user is promised of a REMOVE.                                     *)
LEMMA RemovesAre ==
    ASSUME NEW l, l.op = "REMOVE"
    PROVE  /\ store.columns = <<>> => May(l, "BAD_REQUEST", store)
           /\ store.columns # <<>> /\ ~Usable(l.where, store.columns) => May(l, "ended", store)
           /\ store.columns # <<>> /\ Usable(l.where, store.columns) =>
                /\ store.rows = {} => May(l, "OK", store)
                /\ store.rows # {} /\ l.where = <<>> => May(l, "INTERNAL_ERROR", store)
                /\ l.where # <<>> => \A row \in store.rows : Remark(l, row) \subseteq User!Outcomes(l)
<1>1. User!Outcomes(l) = User!RemoveOutcomes(l)
  BY OutcomesAre
<1>2. store.columns = <<>> => May(l, "BAD_REQUEST", store)
  BY <1>1, Zenon DEF May, User!RemoveOutcomes
<1>3. store.columns # <<>> /\ ~Usable(l.where, store.columns) => May(l, "ended", store)
  BY <1>1, Zenon DEF May, User!RemoveOutcomes, Usable
<1>4. ASSUME store.columns # <<>>, Usable(l.where, store.columns)
      PROVE  /\ store.rows = {} => May(l, "OK", store)
             /\ store.rows # {} /\ l.where = <<>> => May(l, "INTERNAL_ERROR", store)
             /\ l.where # <<>> => \A row \in store.rows : Remark(l, row) \subseteq User!Outcomes(l)
  <2>1. store.rows = {} => May(l, "OK", store)
    BY <1>1, <1>4, Zenon DEF May, User!RemoveOutcomes, Usable
  <2>2. store.rows # {} /\ l.where = <<>> => May(l, "INTERNAL_ERROR", store)
    BY <1>1, <1>4, Zenon DEF May, User!RemoveOutcomes, Usable
  <2>3. ASSUME store.rows # {}, l.where # <<>>
        PROVE  User!RemoveOutcomes(l) = UNION {Remark(l, row) : row \in store.rows}
    BY <1>4, <2>3, Zenon DEF User!RemoveOutcomes, Usable, Remark
  <2>4. ASSUME l.where # <<>>, NEW row \in store.rows PROVE Remark(l, row) \subseteq User!Outcomes(l)
    <3>1. User!Outcomes(l) = UNION {Remark(l, r) : r \in store.rows}
      BY <1>1, <2>3, <2>4
    <3> QED
      BY <3>1, Zenon
  <2> QED
    BY <2>1, <2>2, <2>4
<1> QED
  BY <1>2, <1>3, <1>4

(* What the handler does with a REMOVE without a condition is one of the    *)
(* promised outcomes.                                                       *)
LEMMA DeleteAllForeseen ==
    ASSUME NEW l \in Grammar, l.op = "REMOVE", l.where = <<>>
    PROVE  Foreseen(l, process_client_request(DeleteAll_(l), store.columns))
<1> DEFINE body == Obj("DeleteStmt_", [tblName |-> l.table, cond |-> New("CompoundCondition_")], {"tblName"})
           q == DeleteOf(<<>>)
<1>1. process_client_request(DeleteAll_(l), store.columns) = Query(q)
  <2>1. DeleteAll_(l) = Statement_(DELETE_STMT, "dl", body)
    BY DEF DeleteAll_
  <2>2. "cond" \notin body.isset
    BY DEF Obj
  <2> HIDE DEF body
  <2>3. DeleteAll_(l).has.st_type = DELETE_STMT /\ DeleteAll_(l).has.stmt.has.dl = body
    BY <2>1, StatementIs
  <2>4. deleteQuery(body, store.columns) = Query(q)
    BY <2>2, Zenon DEF deleteQuery, DeleteOf
  <2> QED
    BY <2>3, <2>4, ProcessCases
<1> HIDE DEF q
<1>2. Usable(l.where, store.columns)
  BY DEF Usable
<1>3. ASSUME NEW o \in executeQuery(q, store) PROVE Judged(l, o)
  <2>1. CASE store.columns = <<>>
    <3>1. o = Answers(BAD_REQUEST, store)
      BY <1>3, <2>1, DeleteExecuted DEF q
    <3>2. May(l, "BAD_REQUEST", store)
      BY <2>1, RemovesAre
    <3> QED
      BY <3>1, <3>2, Texts, AnswerJudged
  <2>2. CASE store.columns # <<>> /\ store.rows = {}
    <3>1. o = Answers(OK, store)
      BY <1>3, <2>2, DeleteExecuted DEF q
    <3>2. May(l, "OK", store)
      BY <1>2, <2>2, RemovesAre
    <3> QED
      BY <3>1, <3>2, Texts, AnswerJudged
  <2>3. CASE store.columns # <<>> /\ store.rows # {}
    <3>1. o = Answers(INTERNAL_ERROR, store)
      BY <1>3, <2>3, DeleteExecuted DEF q
    <3>2. May(l, "INTERNAL_ERROR", store)
      BY <1>2, <2>3, RemovesAre
    <3> QED
      BY <3>1, <3>2, Texts, AnswerJudged
  <2> QED
    BY <2>1, <2>2, <2>3
<1> QED
  BY <1>1, <1>3 DEF Foreseen

(* So is what it does with one whose condition is a chain of any length.    *)
LEMMA DeleteForeseen ==
    ASSUME NEW l \in Grammar, l.op = "REMOVE", l.where # <<>>, NEW p, Chained(l.where, p),
           Numbered(store.columns)
    PROVE  Foreseen(l, process_client_request(Delete_(l, p[1]), store.columns))
<1> DEFINE columns == store.columns
           c == p[1]
           cc == getCompCond(columns, c)
           body == Obj("DeleteStmt_", [tblName |-> l.table, cond |-> c], {"tblName", "cond"})
           q == DeleteOf(cc)
           r == process_client_request(Delete_(l, c), columns)
<1>0. l.where \in Wheres({NULL})
  BY GrammarCases
<1>1. r = deleteQuery(body, columns)
  <2>1. Delete_(l, c) = Statement_(DELETE_STMT, "dl", body)
    BY DEF Delete_
  <2> HIDE DEF body, c
  <2>3. Delete_(l, c).has.st_type = DELETE_STMT /\ Delete_(l, c).has.stmt.has.dl = body
    BY <2>1, StatementIs
  <2> QED
    BY <2>3, ProcessCases
<1>2. "cond" \in body.isset /\ body.has.cond = c
  BY DEF Obj
<1> HIDE DEF body, r
<1>3. /\ columns = <<>> => r = Refuse
      /\ columns # <<>> /\ CondCrashes(cc) => r = Crash
      /\ columns # <<>> /\ ~CondCrashes(cc) => r = Query(q)
  BY <1>1, <1>2, Zenon DEF deleteQuery, DeleteOf
<1>4. CondCrashes(cc) <=> ~Usable(l.where, columns)
  BY <1>0, CrashMeans DEF Usable
<1>5. cc # <<>>
  BY <1>0, CompCondIs
<1>6. CASE columns = <<>>
  BY <1>3, <1>6, RemovesAre DEF Foreseen, r
<1>7. CASE columns # <<>> /\ CondCrashes(cc)
  BY <1>3, <1>4, <1>7, RemovesAre DEF Foreseen, r
<1>8. CASE columns # <<>> /\ ~CondCrashes(cc)
  <2>1. Usable(l.where, columns)
    BY <1>4, <1>8
  <2> HIDE DEF q
  <2>2. ASSUME NEW o \in executeQuery(q, store) PROVE Judged(l, o)
    <3>1. CASE store.rows = {}
      <4>1. o = Answers(OK, store)
        BY <1>8, <2>2, <3>1, DeleteExecuted DEF q
      <4>2. May(l, "OK", store)
        BY <1>8, <2>1, <3>1, RemovesAre
      <4> QED
        BY <4>1, <4>2, Texts, AnswerJudged
    <3>2. CASE store.rows # {}
      <4>1. PICK rw \in store.rows : o \in Finds(checkCompoundCondition(columns, cc, rw), store)
        <5>1. columns # <<>> /\ store.rows # {} /\ cc # <<>>
          BY <1>5, <1>8, <3>2
        <5> HIDE DEF cc
        <5> QED
          BY <2>2, <5>1, DeleteExecuted DEF q
      <4> DEFINE m == User!Settling(l.where, rw, columns)
                 part == l.where[m]
                 answer == checkCompoundCondition(columns, cc, rw)
      <4>2. /\ User!About(part, columns) = {} => answer = Crashes
            /\ User!About(part, columns) # {} =>
                 answer = IF User!Holds(part, rw, columns) THEN Yes ELSE No
        BY <1>0, <2>1, Evaluated
      <4>3. Remark(l, rw) \subseteq User!Outcomes(l)
        BY <1>8, <2>1, RemovesAre
      <4>4. Remark(l, rw) =
              IF User!About(part, columns) = {} THEN {User!Outcome("ended", store)}
              ELSE IF User!Holds(part, rw, columns)
              THEN {User!Outcome("INTERNAL_ERROR", store), User!Outcome("BAD_REQUEST", store)}
              ELSE {User!Outcome("looping", store)}
        BY Zenon DEF Remark
      <4> HIDE DEF m, part, answer
      <4>5. CASE User!About(part, columns) = {}
        <5>1. o = Ends("crash", store)
          BY <4>1, <4>2, <4>5, FindsAre DEF answer
        <5>2. May(l, "ended", store)
          BY <4>3, <4>4, <4>5, Zenon DEF May
        <5> QED
          BY <5>1, <5>2, EndsJudged
      <4>6. CASE User!About(part, columns) # {} /\ User!Holds(part, rw, columns)
        <5>1. o \in {Answers(INTERNAL_ERROR, store), Answers(BAD_REQUEST, store)}
          <6>1. answer = Yes
            BY <4>2, <4>6
          <6> QED
            BY <4>1, <6>1, FindsAre, Zenon DEF answer
        <5>2. May(l, "INTERNAL_ERROR", store) /\ May(l, "BAD_REQUEST", store)
          BY <4>3, <4>4, <4>6, Zenon DEF May
        <5> QED
          BY <5>1, <5>2, Texts, AnswerJudged
      <4>7. CASE User!About(part, columns) # {} /\ ~User!Holds(part, rw, columns)
        <5>1. o = Ends("loop", store)
          <6>1. answer = No
            BY <4>2, <4>7
          <6> QED
            BY <4>1, <6>1, FindsAre, Zenon DEF answer
        <5>2. May(l, "looping", store)
          BY <4>3, <4>4, <4>7, Zenon DEF May
        <5> QED
          BY <5>1, <5>2, EndsJudged
      <4> QED
        BY <4>5, <4>6, <4>7, Zenon
    <3> QED
      BY <3>1, <3>2
  <2> QED
    BY <1>3, <1>8, <2>2 DEF Foreseen, r
<1> QED
  BY <1>6, <1>7, <1>8, Zenon

\* Whatever line has arrived, the processor does with it what the line says.
THEOREM OutcomesForeseen ==
    ASSUME NEW l \in Grammar, NEW s, Brings(l, s), Numbered(store.columns)
    PROVE  Foreseen(l, process_client_request(s, store.columns))
<1>1. CASE l.op = "CREATE" /\ s = Create_(l)
  BY <1>1, CreateForeseen
<1>2. CASE l.op = "DROP" /\ s = Drop_(l)
  BY <1>2, DropForeseen
<1>3. CASE l.op = "ADD" /\ s = Insert_(l)
  BY <1>3, InsertForeseen
<1>4. CASE l.op = "REMOVE" /\ l.where = <<>> /\ s = DeleteAll_(l)
  BY <1>4, DeleteAllForeseen
<1>5. CASE l.op = "REMOVE" /\ l.where # <<>> /\ \E p : Chained(l.where, p) /\ s = Delete_(l, p[1])
  BY <1>5, DeleteForeseen
<1>6. CASE l.op = "UPDATE" /\ l.where # <<>> /\ \E p : Chained(l.where, p) /\ s = Update_(l, p[1])
  BY <1>6, UpdateForeseen
<1> QED
  BY <1>1, <1>2, <1>3, <1>4, <1>5, <1>6, Zenon DEF Brings

----------------------------------------------------------------------------
(* The inductive invariant.                                                 *)

\* Who holds the connection.
ConnectionInv ==
    /\ client = "gone" <=> link = "none"
    /\ link = "up" => server \notin {"down", "accepting"}
    /\ link = "down" => server \in {"down", "accepting"}

\* What is on the way to the server.
RequestInv ==
    request # <<>> =>
        /\ server = "reading" /\ response = <<>>
        /\ \/ client # "prompt" /\ Sendable(line) /\ request = Messages[line]
           \/ client = "gone" /\ \E l \in Lines : Sendable(l) /\ request \in Cut(Messages[l])

\* What the server does is what the line last typed asks for.
ServingInv ==
    server \in {"executing", "answering", "looping"} =>
        /\ client # "prompt" /\ Sendable(line) /\ response = <<>>
        /\ server = "executing" => statement = Understood(line) /\ result = Without("none")
        /\ server = "answering" => \E s \in Statuses : result = Result(s)

\* What is on the way to the client.
ResponseInv ==
    response # <<>> =>
        /\ client = "waiting"
        /\ \/ \E s \in Statuses : response = Replies[s] /\ result = Result(s)
           \/ link = "down" /\ \E s \in Statuses : response \in Cut(Replies[s])

(* What the client waits for, and what it has been told.                    *)
ClientInv ==
    /\ client = "prompt" /\ link = "up" => server = "reading"
    /\ client # "prompt" => told = "none"
    /\ client = "waiting" =>
         /\ Sendable(line)
         /\ server \in {"down", "accepting"} => result.info # "none"

\* The columns of the table are those of a CREATE.
StoreInv ==
    /\ store = [columns |-> store.columns, rows |-> store.rows, lossy |-> store.lossy]
    /\ store.columns # <<>> =>
         \E l \in Lines : l.op = "CREATE" /\ store.columns = User!Columns(l.columns)

(* The inductive invariant: InSync is a part of it, at the prompt.          *)
Inv ==
    /\ TypeOK /\ ConnectionInv /\ RequestInv /\ ServingInv /\ ResponseInv
    /\ ClientInv /\ StoreInv

(* The statuses by their numbers.                                           *)
LEMMA StatusesAre == Statuses = 0 .. 2
BY DEF Statuses, INTERNAL_ERROR, OK

(* What the handler stores with a status.                                   *)
LEMMA ResultsAre ==
    /\ \A s \in Statuses : Result(s).status = s /\ Result(s).info = Info[s + 1]
                           /\ Info[s + 1] \in {"INTERNAL_ERROR", "BAD_REQUEST", "OK"}
    /\ \A i : Without(i).info = i
<1>1. ASSUME NEW s \in Statuses
      PROVE  Result(s).status = s /\ Result(s).info = Info[s + 1]
             /\ Info[s + 1] \in {"INTERNAL_ERROR", "BAD_REQUEST", "OK"}
  <2>1. s = 0 \/ s = 1 \/ s = 2
    BY StatusesAre
  <2>2. Info[s + 1] \in {"INTERNAL_ERROR", "BAD_REQUEST", "OK"}
    BY <2>1 DEF Info
  <2> QED
    BY <2>2 DEF Result
<1> QED
  BY <1>1 DEF Without

(* It is of the type TypeOK gives it.                                       *)
LEMMA ResultsTyped ==
    /\ \A s \in Statuses : Result(s) \in {Result(n) : n \in Statuses}
    /\ \A i \in {"none", "ended", "killed", "looping"} :
          Without(i) \in {Without(j) : j \in {"none", "ended", "killed", "looping"}}
OBVIOUS

\* Whatever has arrived at the server is the message of the line typed last.
LEMMA ArrivedIs ==
    ASSUME Inv, Arrived.ok
    PROVE  /\ client # "prompt" /\ server = "reading" /\ response = <<>>
           /\ Sendable(line) /\ request = Messages[line]
           /\ Arrived.rest = <<>> /\ Arrived.value.has.statement = Understood(line)
<1>1. request # <<>>
  BY NothingRead DEF Arrived
<1>2. /\ server = "reading" /\ response = <<>>
      /\ \/ client # "prompt" /\ Sendable(line) /\ request = Messages[line]
         \/ client = "gone" /\ \E l \in Lines : Sendable(l) /\ request \in Cut(Messages[l])
  BY <1>1 DEF Inv, RequestInv
<1>3. ASSUME NEW l \in Lines, Sendable(l), request \in Cut(Messages[l]) PROVE FALSE
  BY <1>3, CallsReadWhole DEF Arrived
<1>4. client # "prompt" /\ Sendable(line) /\ request = Messages[line]
  BY <1>2, <1>3
<1>5. Arrived.rest = <<>> /\ Arrived.value.has.statement = Understood(line)
  BY <1>4, CallsReadWhole DEF Arrived, Understood
<1> QED
  BY <1>2, <1>4, <1>5

\* Whatever answer the client can read is that of the result.
LEMMA ReplyIs ==
    ASSUME Inv, Reply.ok
    PROVE  \E s \in Statuses : /\ response = Replies[s] /\ result = Result(s)
                               /\ Reply.rest = <<>>
                               /\ Reply.value.has.success.has.info = Info[s + 1]
<1>0. Reply = Told(response)
  BY DEF Reply, Told
<1>1. response # <<>>
  BY <1>0, NothingRead
<1>2. \/ \E s \in Statuses : response = Replies[s] /\ result = Result(s)
      \/ \E s \in Statuses : response \in Cut(Replies[s])
  BY <1>1 DEF Inv, ResponseInv
<1>3. ASSUME NEW s \in Statuses, response \in Cut(Replies[s]) PROVE FALSE
  BY <1>0, <1>3, RepliesReadWhole, StatusesAre
<1>4. PICK s \in Statuses : response = Replies[s] /\ result = Result(s)
  BY <1>2, <1>3
<1>5. Reply.rest = <<>> /\ Reply.value.has.success.has.info = Info[s + 1]
  BY <1>0, <1>4, RepliesReadWhole, StatusesAre
<1> QED
  BY <1>4, <1>5

(* Inv holds at the beginning.                                              *)
LEMMA InitInv == Init => Inv
<1> SUFFICES ASSUME Init PROVE Inv
  OBVIOUS
<1>1. TypeOK
  BY MaxTabsAssumption, ResultsTyped DEF Init, TypeOK
<1>2. StoreInv
  BY DEF Init, StoreInv, EmptyStore
<1>3. ConnectionInv /\ RequestInv /\ ServingInv /\ ResponseInv /\ ClientInv
  BY DEF Init, ConnectionInv, RequestInv, ServingInv, ResponseInv, ClientInv
<1> QED
  BY <1>1, <1>2, <1>3 DEF Inv

\* The printing and the end of a client keep the types.
LEMMA TypesTyped ==
    ASSUME Inv, NEW l \in Lines, Types(l)
    PROVE  line' = l /\ told' = "none" /\ tabs' \in 0 .. MaxTabs /\ client = "prompt"
<1>1. tabs \in 0 .. MaxTabs /\ tabs < MaxTabs /\ MaxTabs \in Nat
  BY MaxTabsAssumption DEF Inv, TypeOK, Types
<1>2. tabs' = printStatement(parse_statement(l), tabs).tabs
  BY DEF Types
<1>3. tabs' \in {tabs, tabs + 1}
  BY <1>1, <1>2, StatementPrinted
<1> QED
  BY <1>1, <1>3 DEF Types

(* The end of a client keeps the types.                                     *)
LEMMA GoneTyped ==
    ASSUME Gone
    PROVE  /\ client' = "gone" /\ link' = "none" /\ response' = <<>> /\ told' = "none"
           /\ line' = line /\ tabs' \in 0 .. MaxTabs
BY MaxTabsAssumption DEF Gone

\* The store stays, and with it what holds of it.
LEMMA StoreStays == ASSUME StoreInv, UNCHANGED store PROVE StoreInv'
BY DEF StoreInv

----------------------------------------------------------------------------
(* The steps of the client keep it.                                         *)

(* TypeFatal keeps Inv.                                                     *)
LEMMA TypeFatalInv == ASSUME Inv, NEW l \in Lines, TypeFatal(l) PROVE Inv'
<1>1. StoreInv'
  BY StoreStays DEF Inv, TypeFatal
<1>2. /\ client' = "gone" /\ link' = "none" /\ response' = <<>> /\ told' = "none"
      /\ line' = line /\ tabs' \in 0 .. MaxTabs /\ client = "prompt"
      /\ UNCHANGED <<request, server, statement, result, store>>
  BY GoneTyped DEF TypeFatal
<1>3. TypeOK'
  BY <1>2 DEF Inv, TypeOK
<1>4. ConnectionInv' /\ ResponseInv' /\ ClientInv' /\ ServingInv'
  BY <1>2 DEF Inv, ConnectionInv, ResponseInv, ClientInv, ServingInv
<1>5. RequestInv'
  BY <1>2 DEF Inv, RequestInv
<1> QED
  BY <1>1, <1>3, <1>4, <1>5 DEF Inv

(* Call keeps Inv.                                                          *)
LEMMA CallInv == ASSUME Inv, NEW l \in Lines, Call(l) PROVE Inv'
<1>1. StoreInv'
  BY StoreStays DEF Inv, Call
<1>2. /\ line' = l /\ told' = "none" /\ tabs' \in 0 .. MaxTabs /\ client = "prompt"
      /\ link = "up" /\ Sendable(l) /\ request' = Messages[l] /\ client' = "waiting"
      /\ UNCHANGED <<link, response, server, statement, result, store>>
  BY TypesTyped DEF Call, Sendable
<1>3. server = "reading" /\ request = <<>> /\ response = <<>>
  BY <1>2 DEF Inv, ClientInv, RequestInv, ResponseInv
<1>4. TypeOK'
  BY <1>2 DEF Inv, TypeOK
<1>5. ConnectionInv' /\ ResponseInv' /\ ClientInv' /\ ServingInv' /\ RequestInv'
  BY <1>2, <1>3 DEF Inv, ConnectionInv, ResponseInv, ClientInv, ServingInv, RequestInv
<1> QED
  BY <1>1, <1>4, <1>5 DEF Inv

(* KilledSending keeps Inv.                                                 *)
LEMMA KilledSendingInv == ASSUME Inv, NEW l \in Lines, KilledSending(l) PROVE Inv'
<1>1. StoreInv'
  BY StoreStays DEF Inv, KilledSending
<1>2. /\ client' = "gone" /\ link' = "none" /\ response' = <<>> /\ told' = "none"
      /\ line' = line /\ tabs' \in 0 .. MaxTabs /\ client = "prompt"
      /\ link = "up" /\ Sendable(l) /\ request' \in Cut(Messages[l])
      /\ UNCHANGED <<server, statement, result, store>>
  BY GoneTyped DEF KilledSending, Sendable
<1>3. server = "reading"
  BY <1>2 DEF Inv, ClientInv
<1>4. TypeOK'
  BY <1>2 DEF Inv, TypeOK
<1>5. ConnectionInv' /\ ResponseInv' /\ ClientInv' /\ ServingInv' /\ RequestInv'
  BY <1>2, <1>3 DEF Inv, ConnectionInv, ResponseInv, ClientInv, ServingInv, RequestInv
<1> QED
  BY <1>1, <1>4, <1>5 DEF Inv

(* CallBrokenLink keeps Inv.                                                *)
LEMMA CallBrokenLinkInv == ASSUME Inv, NEW l \in Lines, CallBrokenLink(l) PROVE Inv'
<1>1. StoreInv'
  BY StoreStays DEF Inv, CallBrokenLink
<1>2. /\ link = "down" /\ UNCHANGED <<request, server, statement, result, store>>
  BY DEF CallBrokenLink
<1>3. server \in {"down", "accepting"} /\ request = <<>>
  BY <1>2 DEF Inv, ConnectionInv, RequestInv
<1>4. CASE Types(l) /\ UNCHANGED <<client, link, response>>
  <2>1. line' = l /\ told' = "none" /\ tabs' \in 0 .. MaxTabs /\ client = "prompt"
    BY <1>4, TypesTyped
  <2>2. TypeOK'
    BY <1>2, <1>4, <2>1 DEF Inv, TypeOK
  <2>3. ConnectionInv' /\ ResponseInv' /\ ClientInv' /\ ServingInv' /\ RequestInv'
    BY <1>2, <1>3, <1>4, <2>1 DEF Inv, ConnectionInv, ResponseInv, ClientInv, ServingInv, RequestInv
  <2> QED
    BY <1>1, <2>2, <2>3 DEF Inv
<1>5. CASE client = "prompt" /\ Gone
  <2>1. /\ client' = "gone" /\ link' = "none" /\ response' = <<>> /\ told' = "none"
        /\ line' = line /\ tabs' \in 0 .. MaxTabs
    BY <1>5, GoneTyped
  <2>2. TypeOK'
    BY <1>2, <2>1 DEF Inv, TypeOK
  <2>3. ConnectionInv' /\ ResponseInv' /\ ClientInv' /\ ServingInv' /\ RequestInv'
    BY <1>2, <1>3, <2>1 DEF Inv, ConnectionInv, ResponseInv, ClientInv, ServingInv, RequestInv
  <2> QED
    BY <1>1, <2>2, <2>3 DEF Inv
<1> QED
  BY <1>4, <1>5 DEF CallBrokenLink

(* Receive keeps Inv.                                                       *)
LEMMA ReceiveInv == ASSUME Inv, Receive PROVE Inv'
<1>1. StoreInv'
  BY StoreStays DEF Inv, Receive
<1>2. PICK s \in Statuses : /\ response = Replies[s] /\ result = Result(s)
                            /\ Reply.rest = <<>>
                            /\ Reply.value.has.success.has.info = Info[s + 1]
  BY ReplyIs DEF Receive
<1>3. /\ client = "waiting" /\ client' = "prompt" /\ told' = Info[s + 1] /\ response' = <<>>
      /\ UNCHANGED <<line, tabs, out, link, request, server, statement, result, store>>
  BY <1>2 DEF Receive
<1>4. response # <<>>
  BY <1>2, RepliesReadWhole, StatusesAre
<1>5. request = <<>> /\ server \notin {"executing", "answering", "looping"}
  BY <1>4 DEF Inv, RequestInv, ServingInv
<1>6. TypeOK'
  BY <1>2, <1>3 DEF Inv, TypeOK
<1>7. link = "up" => server = "reading"
  BY <1>5 DEF Inv, ConnectionInv, TypeOK
<1>8. ConnectionInv' /\ ResponseInv' /\ ClientInv' /\ ServingInv' /\ RequestInv'
  BY <1>3, <1>5, <1>7 DEF Inv, ConnectionInv, ResponseInv, ClientInv, ServingInv, RequestInv
<1> QED
  BY <1>1, <1>6, <1>8 DEF Inv

(* ReceiveFails keeps Inv.                                                  *)
LEMMA ReceiveFailsInv == ASSUME Inv, ReceiveFails PROVE Inv'
<1>1. StoreInv'
  BY StoreStays DEF Inv, ReceiveFails
<1>2. /\ client = "waiting" /\ link = "down" /\ client' = "prompt" /\ response' = <<>>
      /\ UNCHANGED <<line, tabs, out, told, link, request, server, statement, result, store>>
  BY DEF ReceiveFails, console
<1>3. server \in {"down", "accepting"} /\ request = <<>>
  BY <1>2 DEF Inv, ConnectionInv, RequestInv
<1>4. TypeOK'
  BY <1>2 DEF Inv, TypeOK
<1>5. ConnectionInv' /\ ResponseInv' /\ ClientInv' /\ ServingInv' /\ RequestInv'
  BY <1>2, <1>3 DEF Inv, ConnectionInv, ResponseInv, ClientInv, ServingInv, RequestInv
<1> QED
  BY <1>1, <1>4, <1>5 DEF Inv

(* ClientEnds keeps Inv.                                                    *)
LEMMA ClientEndsInv == ASSUME Inv, ClientEnds PROVE Inv'
<1>1. StoreInv'
  BY StoreStays DEF Inv, ClientEnds
<1>2. /\ client' = "gone" /\ link' = "none" /\ response' = <<>> /\ told' = "none"
      /\ line' = line /\ tabs' \in 0 .. MaxTabs
      /\ UNCHANGED <<request, server, statement, result, store>>
  BY GoneTyped DEF ClientEnds
<1>3. TypeOK'
  BY <1>2 DEF Inv, TypeOK
<1>4. ConnectionInv' /\ ResponseInv' /\ ClientInv' /\ ServingInv' /\ RequestInv'
  BY <1>2 DEF Inv, ConnectionInv, ResponseInv, ClientInv, ServingInv, RequestInv
<1> QED
  BY <1>1, <1>3, <1>4 DEF Inv

(* ClientStarts keeps Inv.                                                  *)
LEMMA ClientStartsInv == ASSUME Inv, ClientStarts PROVE Inv'
<1>1. StoreInv'
  BY StoreStays DEF Inv, ClientStarts
<1>2. /\ client = "gone" /\ server = "accepting"
      /\ client' = "prompt" /\ link' = "up" /\ server' = "reading" /\ line' = NoLine
      /\ UNCHANGED <<tabs, out, told, request, response, statement, result, store>>
  BY DEF ClientStarts
<1>3. request = <<>> /\ response = <<>>
  BY <1>2 DEF Inv, RequestInv, ResponseInv
<1>4. TypeOK'
  BY <1>2 DEF Inv, TypeOK
<1>5. ConnectionInv' /\ ResponseInv' /\ ClientInv' /\ ServingInv' /\ RequestInv'
  BY <1>2, <1>3 DEF Inv, ConnectionInv, ResponseInv, ClientInv, ServingInv, RequestInv
<1> QED
  BY <1>1, <1>4, <1>5 DEF Inv

----------------------------------------------------------------------------
(* The table keeps the columns of a CREATE, and every outcome is foreseen.  *)

\* The table of a store of which StoreInv holds is one that can be looked into.
LEMMA StoreNumbered == ASSUME StoreInv PROVE Numbered(store.columns)
<1>1. CASE store.columns = <<>>
  <2>1. DOMAIN <<>> = 1 .. 0
    OBVIOUS
  <2> QED
    BY <1>1, <2>1 DEF Numbered
<1>2. CASE store.columns # <<>>
  <2>1. PICK l \in Lines : l.op = "CREATE" /\ store.columns = User!Columns(l.columns)
    BY <1>2 DEF StoreInv
  <2>2. l.columns \in ListOf(ColumnDefinitions)
    BY <2>1, LinesAssumption, GrammarCases
  <2>3. DOMAIN l.columns = 1 .. Len(l.columns) /\ Len(l.columns) \in Nat
    BY <2>2, ListIsSeq, SeqLen
  <2>4. DOMAIN User!Columns(l.columns) = DOMAIN l.columns
    BY DEF User!Columns
  <2> QED
    BY <2>1, <2>3, <2>4 DEF Numbered
<1> QED
  BY <1>1, <1>2

(* StoreInv of a store.                                                     *)
StoreIs(st) ==
    /\ st = [columns |-> st.columns, rows |-> st.rows, lossy |-> st.lossy]
    /\ st.columns # <<>> =>
         \E l \in Lines : l.op = "CREATE" /\ st.columns = User!Columns(l.columns)

(* The changes the statements make leave the columns those of a CREATE.     *)
LEMMA StoresMade ==
    ASSUME NEW st, StoreIs(st)
    PROVE  /\ \A l \in Lines : l.op = "CREATE" => StoreIs([st EXCEPT !.columns = User!Columns(l.columns)])
           /\ \A rows : StoreIs([st EXCEPT !.rows = rows])
           /\ StoreIs([columns |-> <<>>, rows |-> {}, lossy |-> TRUE])
<1>1. PICK c, r, y : st = [columns |-> c, rows |-> r, lossy |-> y]
  BY DEF StoreIs
<1>2. ASSUME NEW l \in Lines, l.op = "CREATE" PROVE StoreIs([st EXCEPT !.columns = User!Columns(l.columns)])
  <2> DEFINE d == User!Columns(l.columns)
  <2> HIDE DEF d
  <2>1. [st EXCEPT !.columns = d] = [columns |-> d, rows |-> r, lossy |-> y]
    BY <1>1
  <2>2. d = User!Columns(l.columns)
    BY DEF d
  <2> DEFINE t == [st EXCEPT !.columns = d]
  <2>3. t = [columns |-> t.columns, rows |-> t.rows, lossy |-> t.lossy] /\ t.columns = d
    BY <2>1
  <2> HIDE DEF t
  <2>4. StoreIs(t)
    BY <1>2, <2>2, <2>3 DEF StoreIs
  <2> QED
    BY <2>4 DEF t, d
<1>3. ASSUME NEW rows PROVE StoreIs([st EXCEPT !.rows = rows])
  <2> DEFINE t == [st EXCEPT !.rows = rows]
  <2>1. t = [columns |-> c, rows |-> rows, lossy |-> y]
    BY <1>1
  <2>2. t = [columns |-> t.columns, rows |-> t.rows, lossy |-> t.lossy] /\ t.columns = st.columns
    BY <1>1, <2>1
  <2> HIDE DEF t
  <2>3. StoreIs(t)
    BY <2>2 DEF StoreIs
  <2> QED
    BY <2>3 DEF t
<1>4. StoreIs([columns |-> <<>>, rows |-> {}, lossy |-> TRUE])
  <2> DEFINE t == [columns |-> <<>>, rows |-> {}, lossy |-> TRUE]
  <2>1. t = [columns |-> t.columns, rows |-> t.rows, lossy |-> t.lossy] /\ t.columns = <<>>
    OBVIOUS
  <2> HIDE DEF t
  <2>2. StoreIs(t)
    BY <2>1 DEF StoreIs
  <2> QED
    BY <2>2 DEF t
<1> QED
  BY <1>2, <1>3, <1>4

(* The parts of an outcome.                                                 *)
LEMMA OutcomeIs == ASSUME NEW i, NEW st PROVE User!Outcome(i, st).store = st /\ User!Outcome(i, st).status = i
BY DEF User!Outcome

\* Every line leaves a table that a CREATE made, or none.
LEMMA OutcomesKeep ==
    ASSUME NEW l \in Lines, l.op # "SELECT", StoreIs(store), NEW i, NEW st, May(l, i, st)
    PROVE  StoreIs(st)
<1> DEFINE u == User!Outcome(i, st)
<1>1. u \in User!Outcomes(l) /\ u.store = st
  BY OutcomeIs DEF May
<1> HIDE DEF u
<1>2. ASSUME NEW s, StoreIs(s), NEW j, u = User!Outcome(j, s) PROVE StoreIs(st)
  <2>1. u.store = s
    BY <1>2, OutcomeIs
  <2> QED
    BY <1>1, <1>2, <2>1
<1>3. CASE l.op = "CREATE"
  <2> DEFINE made == [store EXCEPT !.columns = User!Columns(l.columns)]
  <2>1. StoreIs(made)
    BY <1>3, StoresMade
  <2>2. u = User!Outcome("BAD_REQUEST", store) \/ u = User!Outcome("OK", made)
    BY <1>1, <1>3, OutcomesAre, Zenon DEF User!CreateOutcomes
  <2> HIDE DEF made
  <2> QED
    BY <1>2, <2>1, <2>2
<1>4. CASE l.op = "DROP"
  <2> DEFINE dropped == [columns |-> <<>>, rows |-> {}, lossy |-> TRUE]
  <2>1. StoreIs(dropped)
    BY StoresMade
  <2>2. u = User!Outcome("BAD_REQUEST", store) \/ u = User!Outcome("OK", dropped)
    BY <1>1, <1>4, OutcomesAre, Zenon DEF User!DropOutcomes
  <2> HIDE DEF dropped
  <2> QED
    BY <1>2, <2>1, <2>2
<1>5. CASE l.op = "ADD"
  <2> DEFINE rows == store.rows \cup {User!Cells(r) : r \in User!Rows(l)}
             added == [store EXCEPT !.rows = rows]
  <2>1. StoreIs(added)
    <3> HIDE DEF rows
    <3> QED
      BY StoresMade
  <2>2. added = [store EXCEPT !.rows = @ \cup {User!Cells(r) : r \in User!Rows(l)}]
    OBVIOUS
  <2> HIDE DEF added
  <2>3. \/ u = User!Outcome("BAD_REQUEST", store) \/ u = User!Outcome("ended", store)
        \/ u = User!Outcome("OK", store) \/ u = User!Outcome("OK", added)
    BY <1>1, <1>5, <2>2, OutcomesAre, Zenon DEF User!AddOutcomes
  <2> QED
    BY <1>2, <2>1, <2>3
<1>6. CASE l.op = "REMOVE"
  <2>1. u \in User!RemoveOutcomes(l)
    BY <1>1, <1>6, OutcomesAre
  <2>2. \E j : u = User!Outcome(j, store)
    <3>1. CASE \/ store.columns = <<>> \/ ~Usable(l.where, store.columns) \/ store.rows = {} \/ l.where = <<>>
      BY <2>1, <3>1, Zenon DEF User!RemoveOutcomes, Usable
    <3>2. CASE /\ store.columns # <<>> /\ Usable(l.where, store.columns)
               /\ store.rows # {} /\ l.where # <<>>
      <4>1. User!RemoveOutcomes(l) = UNION {Remark(l, row) : row \in store.rows}
        BY <3>2, Zenon DEF User!RemoveOutcomes, Usable, Remark
      <4>2. PICK row \in store.rows : u \in Remark(l, row)
        BY <2>1, <4>1, Zenon
      <4> QED
        BY <4>2, Zenon DEF Remark
    <3> QED
      BY <3>1, <3>2
  <2> QED
    BY <1>2, <2>2
<1>7. CASE l.op = "UPDATE"
  <2>1. \E j : u = User!Outcome(j, store)
    BY <1>1, <1>7, OutcomesAre, Zenon DEF User!UpdateOutcomes
  <2> QED
    BY <1>2, <2>1
<1>8. l \in Grammar
  BY LinesAssumption
<1> QED
  BY <1>3, <1>4, <1>5, <1>6, <1>7, <1>8, GrammarCases

\* What the server is about to do with a line is what the line says.
LEMMA ProcessedForeseen ==
    ASSUME Inv, server = "executing"
    PROVE  /\ line \in Lines /\ line \in Grammar /\ line.op # "SELECT"
           /\ Foreseen(line, Processed)
<1>1. Sendable(line) /\ statement = Understood(line)
  BY DEF Inv, ServingInv
<1>2. line \in Lines /\ line \in Grammar /\ line.op # "SELECT"
  BY <1>1, StatementOf DEF Sendable
<1>3. Brings(line, statement)
  BY <1>1, CallsReadWhole
<1>4. Numbered(store.columns)
  BY StoreNumbered DEF Inv
<1> QED
  BY <1>2, <1>3, <1>4, OutcomesForeseen DEF Processed

(* A request is refused, crashes the handler or is executed.                *)
LEMMA KindsDiffer ==
    /\ Refuse.does = "refuse" /\ Crash.does = "crash"
    /\ \A q : Query(q).does = "query" /\ Query(q).query = q
BY DEF Refuse, Crash, Query

\* The three ways a statement ends, as the line may end.
LEMMA ProcessedMay ==
    ASSUME Inv, server = "executing"
    PROVE  /\ Processed.does = "refuse" => May(line, "BAD_REQUEST", store)
           /\ Processed.does = "crash" => May(line, "ended", store)
           /\ Processed.does = "query" =>
                \A o \in executeQuery(Processed.query, store) :
                   /\ o.ends = "answer" => o.status \in Statuses /\ May(line, Info[o.status + 1], o.store)
                   /\ o.ends = "loop" => May(line, "looping", store)
                   /\ o.ends = "crash" => May(line, "ended", store)
<1> DEFINE p == Processed
<1>1. Foreseen(line, p)
  BY ProcessedForeseen
<1> HIDE DEF p
<1>2. CASE p = Refuse /\ May(line, "BAD_REQUEST", store)
  BY <1>2, KindsDiffer DEF p
<1>3. CASE p = Crash /\ May(line, "ended", store)
  BY <1>3, KindsDiffer DEF p
<1>4. ASSUME NEW q, p = Query(q), \A o \in executeQuery(q, store) : Judged(line, o)
      PROVE  /\ p.does = "query"
             /\ \A o \in executeQuery(p.query, store) :
                   /\ o.ends = "answer" => o.status \in Statuses /\ May(line, Info[o.status + 1], o.store)
                   /\ o.ends = "loop" => May(line, "looping", store)
                   /\ o.ends = "crash" => May(line, "ended", store)
  <2>1. p.does = "query" /\ p.query = q
    BY <1>4, KindsDiffer
  <2>2. ASSUME NEW o, Judged(line, o)
        PROVE  /\ o.ends = "answer" => o.status \in Statuses /\ May(line, Info[o.status + 1], o.store)
               /\ o.ends = "loop" => May(line, "looping", store)
               /\ o.ends = "crash" => May(line, "ended", store)
    BY <2>2 DEF Judged
  <2> QED
    BY <1>4, <2>1, <2>2
<1>5. p.does = "query" => p.does # "refuse" /\ p.does # "crash"
  OBVIOUS
<1> QED
  BY <1>1, <1>2, <1>3, <1>4, <1>5 DEF Foreseen, p

----------------------------------------------------------------------------
(* The steps of the server keep it.                                         *)

(* StoreInv is StoreIs of the store.                                        *)
LEMMA StoreInvIs == StoreInv <=> StoreIs(store)
BY DEF StoreInv, StoreIs

(* ReadArgs keeps Inv.                                                      *)
LEMMA ReadArgsInv == ASSUME Inv, ReadArgs PROVE Inv'
<1>1. StoreInv'
  BY StoreStays DEF Inv, ReadArgs
<1>2. /\ client # "prompt" /\ response = <<>> /\ Sendable(line)
      /\ Arrived.rest = <<>> /\ Arrived.value.has.statement = Understood(line)
  BY ArrivedIs DEF ReadArgs
<1>3. /\ server = "reading" /\ server' = "executing" /\ statement' = Understood(line)
      /\ request' = <<>> /\ result' = Without("none")
      /\ UNCHANGED <<client, line, tabs, out, told, link, response, store>>
  BY <1>2 DEF ReadArgs, console
<1>4. TypeOK'
  BY <1>3, ResultsTyped DEF Inv, TypeOK
<1>5. ConnectionInv' /\ ResponseInv' /\ ClientInv' /\ ServingInv' /\ RequestInv'
  BY <1>2, <1>3 DEF Inv, ConnectionInv, ResponseInv, ClientInv, ServingInv, RequestInv
<1> QED
  BY <1>1, <1>4, <1>5 DEF Inv

(* DropConnection keeps Inv.                                                *)
LEMMA DropConnectionInv == ASSUME Inv, DropConnection PROVE Inv'
<1>1. StoreInv'
  BY StoreStays DEF Inv, DropConnection
<1>2. /\ server = "reading" /\ client = "gone" /\ server' = "accepting" /\ request' = <<>>
      /\ UNCHANGED <<client, line, tabs, out, told, link, response, statement, result, store>>
  BY DEF DropConnection, console
<1>3. TypeOK'
  BY <1>2 DEF Inv, TypeOK
<1>4. ConnectionInv' /\ ResponseInv' /\ ClientInv' /\ ServingInv' /\ RequestInv'
  BY <1>2 DEF Inv, ConnectionInv, ResponseInv, ClientInv, ServingInv, RequestInv
<1> QED
  BY <1>1, <1>3, <1>4 DEF Inv

\* An answer is on its way; the table is one that the line may leave.
LEMMA AnsweringInv ==
    ASSUME Inv, server = "executing", NEW s \in Statuses, Answering(s), StoreInv' PROVE Inv'
<1>2. /\ server' = "answering" /\ result' = Result(s)
      /\ UNCHANGED <<client, line, tabs, out, told, link, request, response, statement>>
  BY DEF Answering, console
<1>3. client # "prompt" /\ Sendable(line) /\ response = <<>>
  BY DEF Inv, ServingInv
<1>4. TypeOK'
  BY <1>2, ResultsTyped DEF Inv, TypeOK
<1>5. request = <<>>
  BY DEF Inv, RequestInv
<1>6. ConnectionInv' /\ ResponseInv' /\ ClientInv' /\ ServingInv' /\ RequestInv'
  BY <1>2, <1>3, <1>5 DEF Inv, ConnectionInv, ResponseInv, ClientInv, ServingInv, RequestInv
<1> QED
  BY <1>4, <1>6 DEF Inv

(* RefuseRequest keeps Inv.                                                 *)
LEMMA RefuseRequestInv == ASSUME Inv, RefuseRequest PROVE Inv'
<1>1. StoreInv'
  BY StoreStays DEF Inv, RefuseRequest
<1> QED
  BY <1>1, AnsweringInv, Texts DEF RefuseRequest

(* ExecuteAnswers keeps Inv.                                                *)
LEMMA ExecuteAnswersInv == ASSUME Inv, ExecuteAnswers PROVE Inv'
<1>1. server = "executing" /\ Processed.does = "query"
  BY DEF ExecuteAnswers
<1>2. PICK o \in executeQuery(Processed.query, store) :
        o.ends = "answer" /\ Answering(o.status) /\ store' = o.store
  BY DEF ExecuteAnswers
<1>3. o.status \in Statuses /\ May(line, Info[o.status + 1], o.store)
  BY <1>1, <1>2, ProcessedMay
<1>4. StoreIs(o.store)
  BY <1>1, <1>3, ProcessedForeseen, OutcomesKeep, StoreInvIs DEF Inv
<1>5. StoreInv'
  <2>1. StoreIs(store')
    BY <1>2, <1>4
  <2> QED
    BY <2>1 DEF StoreIs, StoreInv
<1> QED
  BY <1>1, <1>2, <1>3, <1>5, AnsweringInv

(* ExecuteLoops keeps Inv.                                                  *)
LEMMA ExecuteLoopsInv == ASSUME Inv, ExecuteLoops PROVE Inv'
<1>1. StoreInv'
  BY StoreStays DEF Inv, ExecuteLoops
<1>2. /\ server = "executing" /\ server' = "looping" /\ result' = Without("looping")
      /\ UNCHANGED <<client, line, tabs, out, told, link, request, response, statement, store>>
  BY DEF ExecuteLoops, console
<1>3. client # "prompt" /\ Sendable(line) /\ response = <<>> /\ request = <<>>
  BY <1>2 DEF Inv, ServingInv, RequestInv
<1>4. TypeOK'
  BY <1>2, ResultsTyped DEF Inv, TypeOK
<1>5. ConnectionInv' /\ ResponseInv' /\ ClientInv' /\ ServingInv' /\ RequestInv'
  BY <1>2, <1>3 DEF Inv, ConnectionInv, ResponseInv, ClientInv, ServingInv, RequestInv
<1> QED
  BY <1>1, <1>4, <1>5 DEF Inv

\* The end of the server, with nothing, a part or all of an answer on its way.
LEMMA EndedInv ==
    ASSUME Inv, NEW left, NEW info, Ended(left, info), UNCHANGED store, server # "down",
           info \in {Result(n) : n \in Statuses}
                      \cup {Without(i) : i \in {"none", "ended", "killed", "looping"}},
           client = "waiting" => info.info # "none",
           left # <<>> =>
              /\ client = "waiting"
              /\ \/ \E s \in Statuses : left = Replies[s] /\ info = Result(s)
                 \/ \E s \in Statuses : left \in Cut(Replies[s])
    PROVE  Inv'
<1>1. StoreInv'
  BY StoreStays DEF Inv
<1>2. /\ server' = "down" /\ link' = IF link = "up" THEN "down" ELSE link
      /\ request' = <<>> /\ response' = left /\ result' = info
      /\ UNCHANGED <<client, line, tabs, out, told>>
  BY DEF Ended, console
<1>3. TypeOK'
  BY <1>2 DEF Inv, TypeOK
<1>4. client = "waiting" => link' = "down"
  BY <1>2 DEF Inv, ConnectionInv, TypeOK
<1>5. ConnectionInv' /\ ClientInv' /\ ServingInv' /\ RequestInv'
  BY <1>2 DEF Inv, ConnectionInv, ClientInv, ServingInv, RequestInv
<1>6. ResponseInv'
  BY <1>2, <1>4 DEF ResponseInv
<1> QED
  BY <1>1, <1>3, <1>5, <1>6 DEF Inv

(* ProcessorCrash keeps Inv.                                                *)
LEMMA ProcessorCrashInv == ASSUME Inv, ProcessorCrash PROVE Inv'
<1>1. /\ server = "executing" /\ Ended(response, Without("ended")) /\ UNCHANGED store
      /\ response = <<>>
  BY DEF ProcessorCrash, Inv, ServingInv
<1>2. Without("ended").info # "none"
  BY ResultsAre
<1> QED
  BY <1>1, <1>2, EndedInv, ResultsTyped

(* Respond keeps Inv.                                                       *)
LEMMA RespondInv == ASSUME Inv, Respond PROVE Inv'
<1>1. StoreInv'
  BY StoreStays DEF Inv, Respond
<1>2. server = "answering"
  BY DEF Respond
<1>3. PICK s \in Statuses : result = Result(s)
  BY <1>2 DEF Inv, ServingInv
<1>4. /\ server' = "reading" /\ response' = IF client = "gone" THEN <<>> ELSE Replies[s]
      /\ UNCHANGED <<client, line, tabs, out, told, link, request, result, store>>
  BY <1>3, ResultsAre DEF Respond, console
<1>5. client \in {"waiting", "gone"} /\ request = <<>> /\ Sendable(line)
  BY <1>2 DEF Inv, ServingInv, RequestInv, TypeOK
<1>6. TypeOK'
  BY <1>4 DEF Inv, TypeOK
<1>7. ConnectionInv' /\ ResponseInv' /\ ClientInv' /\ ServingInv' /\ RequestInv'
  BY <1>2, <1>3, <1>4, <1>5 DEF Inv, ConnectionInv, ResponseInv, ClientInv, ServingInv, RequestInv
<1> QED
  BY <1>1, <1>6, <1>7 DEF Inv

(* RespondKilled keeps Inv.                                                 *)
LEMMA RespondKilledInv == ASSUME Inv, RespondKilled PROVE Inv'
<1>1. server = "answering" /\ client = "waiting" /\ UNCHANGED store
  BY DEF RespondKilled
<1>2. PICK s \in Statuses : result = Result(s)
  BY <1>1 DEF Inv, ServingInv
<1>3. PICK left \in Cut(Replies[s]) : Ended(left, Without("killed"))
  BY <1>2, ResultsAre DEF RespondKilled
<1>4. Without("killed").info # "none"
  BY ResultsAre
<1> QED
  BY <1>1, <1>3, <1>4, EndedInv, ResultsTyped

(* ServerEnds keeps Inv.                                                    *)
LEMMA ServerEndsInv == ASSUME Inv, ServerEnds PROVE Inv'
<1> DEFINE info == IF response = <<>> THEN Without("killed") ELSE result
<1>1. server # "down" /\ Ended(response, info) /\ UNCHANGED store
  BY DEF ServerEnds
<1>2. info \in {Result(n) : n \in Statuses}
                 \cup {Without(i) : i \in {"none", "ended", "killed", "looping"}}
  BY ResultsTyped DEF Inv, TypeOK
<1>3. response # <<>> =>
        /\ client = "waiting"
        /\ \/ \E s \in Statuses : response = Replies[s] /\ info = Result(s)
           \/ \E s \in Statuses : response \in Cut(Replies[s])
  BY DEF Inv, ResponseInv
<1>4. ASSUME client = "waiting" PROVE info.info # "none"
  <2>1. CASE response = <<>>
    BY <2>1, ResultsAre
  <2>2. CASE \E s \in Statuses : response = Replies[s] /\ result = Result(s)
    <3>1. PICK s \in Statuses : response = Replies[s] /\ result = Result(s)
      BY <2>2
    <3>2. response # <<>>
      BY <3>1, RepliesReadWhole, StatusesAre
    <3>3. result.info \in {"INTERNAL_ERROR", "BAD_REQUEST", "OK"}
      BY <3>1, ResultsAre
    <3> QED
      BY <3>2, <3>3
  <2>3. CASE response # <<>> /\ link = "down"
    <3>1. server \in {"down", "accepting"}
      BY <2>3 DEF Inv, ConnectionInv
    <3> QED
      BY <1>4, <2>3, <3>1 DEF Inv, ClientInv
  <2> QED
    BY <2>1, <2>2, <2>3 DEF Inv, ResponseInv
<1> HIDE DEF info
<1> QED
  BY <1>1, <1>2, <1>3, <1>4, EndedInv

(* ServerStarts keeps Inv.                                                  *)
LEMMA ServerStartsInv == ASSUME Inv, ServerStarts PROVE Inv'
<1>1. /\ server = "down" /\ server' = "accepting" /\ store' = EmptyStore
      /\ UNCHANGED <<client, line, tabs, out, told, link, request, response, statement, result>>
  BY DEF ServerStarts, console
<1>2. StoreInv'
  BY <1>1 DEF StoreInv, EmptyStore
<1>3. TypeOK'
  BY <1>1 DEF Inv, TypeOK
<1>4. ConnectionInv' /\ ResponseInv' /\ ClientInv' /\ ServingInv' /\ RequestInv'
  BY <1>1 DEF Inv, ConnectionInv, ResponseInv, ClientInv, ServingInv, RequestInv
<1> QED
  BY <1>2, <1>3, <1>4 DEF Inv

(* A stutter keeps Inv.                                                     *)
LEMMA StutterInv == ASSUME Inv, UNCHANGED vars PROVE Inv'
<1>1. UNCHANGED <<client, line, tabs, out, told, link, request, response, server, statement, result, store>>
  BY DEF vars, console
<1> QED
  BY <1>1 DEF Inv, TypeOK, ConnectionInv, RequestInv, ServingInv, ResponseInv, ClientInv, StoreInv

(* Every step keeps Inv.                                                    *)
LEMMA NextInv == ASSUME Inv, [Next]_vars PROVE Inv'
<1>1. ASSUME NEW l \in Lines, TypeFatal(l) \/ Call(l) \/ KilledSending(l) \/ CallBrokenLink(l)
      PROVE  Inv'
  BY <1>1, TypeFatalInv, CallInv, KilledSendingInv, CallBrokenLinkInv
<1>2. CASE ServerStep
  BY <1>2, ReadArgsInv, DropConnectionInv, RefuseRequestInv, ExecuteAnswersInv, ExecuteLoopsInv,
     ProcessorCrashInv, RespondInv DEF ServerStep
<1> QED
  BY <1>1, <1>2, ReceiveInv, ReceiveFailsInv, ClientEndsInv, ClientStartsInv, RespondKilledInv,
     ServerEndsInv, ServerStartsInv, StutterInv DEF Next

(* For all lines, names, strings and numbers: the inductive invariant Inv   *)
(* holds in every state, wherever either process is killed.                 *)
THEOREM CallInvariance == Spec => []Inv
BY InitInv, NextInv, PTL DEF Spec

(* For all lines, names, strings and numbers: every variable of the call    *)
(* keeps its type; the text shown is one of the three the handler sends,    *)
(* read from a whole reply.                                                 *)
THEOREM CallTyped == Spec => []TypeOK
<1>1. Inv => TypeOK
  BY DEF Inv
<1> QED
  BY <1>1, CallInvariance, PTL

(* For all lines, names, strings and numbers: whenever a client is at the   *)
(* prompt of an open connection nothing of a call or reply is left in it,   *)
(* and the server reads the next call from its beginning.                   *)
THEOREM MessagesInSync == Spec => []InSync
<1>1. Inv => InSync
  BY DEF Inv, InSync, RequestInv, ResponseInv, ClientInv
<1> QED
  BY <1>1, CallInvariance, PTL

----------------------------------------------------------------------------
(* The refinement: every step maps to a step of TypedCall or to none.       *)

\* What stands for the variables of TypedCall.
Current == IF OnItsWay THEN line ELSE NoLine
Effect == IF OnItsWay /\ request = <<>> THEN result.info ELSE "none"

\* A line is on its way.
Under(c, v, r) == c = "waiting" \/ v \in {"executing", "answering", "looping"} \/ ReadCall(r).ok

(* OnItsWay by the state of the two processes.                              *)
LEMMA OnItsWayIs ==
    /\ OnItsWay <=> Under(client, server, request)
    /\ OnItsWay' <=> Under(client', server', request')
BY DEF OnItsWay, Arrived, Under

(* What TypedCall is given for its variables.                               *)
LEMMA CurrentIs ==
    /\ OnItsWay => Current = line
    /\ ~OnItsWay => Current = NoLine /\ Effect = "none"
    /\ OnItsWay /\ request = <<>> => Effect = result.info
    /\ request # <<>> => Effect = "none"
    /\ OnItsWay' => Current' = line'
    /\ ~OnItsWay' => Current' = NoLine /\ Effect' = "none"
    /\ OnItsWay' /\ request' = <<>> => Effect' = (result').info
    /\ request' # <<>> => Effect' = "none"
BY DEF Current, Effect

(* A step that maps to the typing of a line.                                *)
LEMMA IsType ==
    ASSUME NEW l \in Lines, Current = NoLine, Current' = l, Effect' = "none", told' = "none",
           UNCHANGED store
    PROVE  User!Next
<1>1. User!Type(l)
  BY DEF User!Type, Current, Effect
<1> QED
  BY <1>1 DEF User!Next

(* A step that maps to the line taking effect.                              *)
LEMMA IsTakeEffect ==
    ASSUME Current # NoLine, Current' = Current, Effect = "none", told' = told,
           May(Current, Effect', store')
    PROVE  User!Next
<1> DEFINE o == User!Outcome(Effect', store')
<1>1. o \in User!Outcomes(Current) /\ o.status = Effect' /\ o.store = store'
  BY OutcomeIs DEF May
<1> HIDE DEF o
<1>2. User!TakeEffect
  BY <1>1 DEF User!TakeEffect, Current, Effect
<1> QED
  BY <1>2 DEF User!Next

(* A step that maps to the outcome being shown.                             *)
LEMMA IsShow ==
    ASSUME Current # NoLine, Effect \in {"OK", "BAD_REQUEST", "INTERNAL_ERROR"}, told' = Effect,
           Current' = NoLine, Effect' = "none", UNCHANGED store
    PROVE  User!Next
<1>1. User!Show
  BY DEF User!Show, Current, Effect
<1> QED
  BY <1>1 DEF User!Next

(* A step that maps to the line being forgotten.                            *)
LEMMA IsForget ==
    ASSUME Current' = NoLine, Effect' = "none", told' = "none", UNCHANGED store
    PROVE  User!Next
<1>1. User!Forget
  BY DEF User!Forget, Current, Effect
<1> QED
  BY <1>1 DEF User!Next

(* A step that maps to the effect being lost with the server.               *)
LEMMA IsLose ==
    ASSUME Current # NoLine, Current' = Current, Effect' = "killed", told' = told, UNCHANGED store
    PROVE  User!Next
<1>1. User!Lose
  BY DEF User!Lose, Current, Effect
<1> QED
  BY <1>1 DEF User!Next

(* A step that maps to the table being lost with the server.                *)
LEMMA IsReset ==
    ASSUME Current = NoLine \/ Effect # "none", Current' = Current, Effect' = Effect, told' = told,
           store' = EmptyStore
    PROVE  User!Next
<1>1. User!Reset
  BY DEF User!Reset, Current, Effect, EmptyStore, User!EmptyStore
<1> QED
  BY <1>1 DEF User!Next

(* A step that maps to none.                                                *)
LEMMA IsStutter ==
    ASSUME Current' = Current, Effect' = Effect, told' = told, UNCHANGED store
    PROVE  UNCHANGED User!vars
BY DEF User!vars, Current, Effect

(* The initial states map to an initial state.                              *)
LEMMA InitMaps == Init => User!Init
<1> SUFFICES ASSUME Init PROVE User!Init
  OBVIOUS
<1>1. client = "prompt" /\ server = "reading" /\ request = <<>> /\ told = "none" /\ store = EmptyStore
  BY DEF Init
<1>2. ~OnItsWay
  BY <1>1, OnItsWayIs, NothingRead DEF Under
<1> QED
  BY <1>1, <1>2 DEF User!Init, EmptyStore, User!EmptyStore

\* A client at the prompt, and a server in front of no line: nothing is on its way.
LEMMA NothingOnItsWay ==
    ASSUME Inv, client = "prompt"
    PROVE  ~OnItsWay /\ request = <<>> /\ server \notin {"executing", "answering", "looping"}
<1>1. ~Arrived.ok
  BY ArrivedIs
<1>2. server \notin {"executing", "answering", "looping"}
  BY DEF Inv, ServingInv
<1>3. request = <<>>
  BY DEF Inv, RequestInv
<1> QED
  BY <1>1, <1>2, <1>3 DEF OnItsWay

(* A line that can be sent is one.                                          *)
LEMMA LineIsOne == ASSUME Sendable(line) PROVE line # NoLine /\ line \in Lines
BY LinesAssumption DEF Sendable

(* A line that ends the client maps to a line forgotten.                    *)
LEMMA TypeFatalMaps == ASSUME Inv, NEW l \in Lines, TypeFatal(l) PROVE User!Next
<1>1. client = "prompt" /\ client' = "gone" /\ told' = "none" /\ UNCHANGED <<request, server, store>>
  BY DEF TypeFatal, Gone
<1>2. ~OnItsWay'
  BY <1>1, NothingOnItsWay, NothingRead, OnItsWayIs DEF Under
<1> QED
  BY <1>1, <1>2, CurrentIs, IsForget

(* Call maps to a step of TypedCall, or to none.                            *)
LEMMA CallMaps == ASSUME Inv, NEW l \in Lines, Call(l) PROVE User!Next
<1>1. /\ client = "prompt" /\ client' = "waiting" /\ line' = l /\ told' = "none" /\ Sendable(l)
      /\ request' = Messages[l] /\ UNCHANGED store
  BY DEF Call, Types, Sendable
<1>2. ~OnItsWay /\ OnItsWay'
  BY <1>1, NothingOnItsWay, OnItsWayIs DEF Under
<1>3. request' # <<>>
  BY <1>1, CallsReadWhole
<1> QED
  BY <1>1, <1>2, <1>3, CurrentIs, IsType

(* KilledSending maps to a step of TypedCall, or to none.                   *)
LEMMA KilledSendingMaps == ASSUME Inv, NEW l \in Lines, KilledSending(l) PROVE User!Next
<1>1. /\ client = "prompt" /\ client' = "gone" /\ told' = "none" /\ Sendable(l)
      /\ request' \in Cut(Messages[l]) /\ UNCHANGED <<server, store>>
  BY DEF KilledSending, Gone, Sendable
<1>2. ~ReadCall(request').ok
  BY <1>1, CallsReadWhole
<1>3. ~OnItsWay'
  BY <1>1, <1>2, NothingOnItsWay, OnItsWayIs DEF Under
<1> QED
  BY <1>1, <1>3, CurrentIs, IsForget

(* CallBrokenLink maps to a step of TypedCall, or to none.                  *)
LEMMA CallBrokenLinkMaps == ASSUME Inv, NEW l \in Lines, CallBrokenLink(l) PROVE User!Next
<1>1. /\ client = "prompt" /\ client' # "waiting" /\ told' = "none"
      /\ UNCHANGED <<request, server, store>>
  BY DEF CallBrokenLink, Types, Gone
<1>2. ~OnItsWay'
  BY <1>1, NothingOnItsWay, NothingRead, OnItsWayIs DEF Under
<1> QED
  BY <1>1, <1>2, CurrentIs, IsForget

(* Receive maps to a step of TypedCall, or to none.                         *)
LEMMA ReceiveMaps == ASSUME Inv, Receive PROVE User!Next
<1>1. PICK s \in Statuses : /\ response = Replies[s] /\ result = Result(s)
                            /\ Reply.value.has.success.has.info = Info[s + 1]
  BY ReplyIs DEF Receive
<1>2. /\ client = "waiting" /\ client' = "prompt" /\ told' = Info[s + 1]
      /\ UNCHANGED <<request, server, store>>
  BY <1>1 DEF Receive
<1>3. response # <<>>
  BY <1>1, RepliesReadWhole, StatusesAre
<1>4. request = <<>> /\ server \notin {"executing", "answering", "looping"} /\ Sendable(line)
  BY <1>2, <1>3 DEF Inv, RequestInv, ServingInv, ClientInv
<1>5. OnItsWay /\ ~OnItsWay'
  BY <1>2, <1>4, NothingRead, OnItsWayIs DEF Under
<1>6. Effect = Info[s + 1] /\ Info[s + 1] \in {"OK", "BAD_REQUEST", "INTERNAL_ERROR"}
  BY <1>1, <1>4, <1>5, CurrentIs, ResultsAre
<1> QED
  BY <1>2, <1>4, <1>5, <1>6, LineIsOne, CurrentIs, IsShow

(* ReceiveFails maps to a step of TypedCall, or to none.                    *)
LEMMA ReceiveFailsMaps == ASSUME Inv, ReceiveFails PROVE User!Next
<1>1. /\ client = "waiting" /\ link = "down" /\ client' = "prompt" /\ told' = told
      /\ UNCHANGED <<request, server, store>>
  BY DEF ReceiveFails, console
<1>2. server \in {"down", "accepting"} /\ request = <<>> /\ told = "none"
  BY <1>1 DEF Inv, ConnectionInv, RequestInv, ClientInv
<1>3. ~OnItsWay'
  BY <1>1, <1>2, NothingRead, OnItsWayIs DEF Under
<1> QED
  BY <1>1, <1>2, <1>3, CurrentIs, IsForget

(* ClientEnds maps to a step of TypedCall, or to none.                      *)
LEMMA ClientEndsMaps == ASSUME Inv, ClientEnds PROVE User!Next \/ UNCHANGED User!vars
<1>1. /\ client' = "gone" /\ told' = "none" /\ line' = line
      /\ UNCHANGED <<request, server, result, store>>
  BY DEF ClientEnds, Gone
<1>2. CASE OnItsWay'
  <2>1. server \in {"executing", "answering", "looping"} \/ Arrived.ok
    BY <1>1, <1>2, OnItsWayIs DEF Under, Arrived
  <2>2. client # "prompt" /\ OnItsWay
    BY <2>1, NothingOnItsWay, ArrivedIs DEF OnItsWay
  <2>3. told = "none"
    BY <2>2 DEF Inv, ClientInv
  <2>4. Current' = Current /\ Effect' = Effect
    BY <1>1, <1>2, <2>2, CurrentIs
  <2> QED
    BY <1>1, <2>3, <2>4, IsStutter
<1>3. CASE ~OnItsWay'
  BY <1>1, <1>3, CurrentIs, IsForget
<1> QED
  BY <1>2, <1>3

(* ClientStarts maps to a step of TypedCall, or to none.                    *)
LEMMA ClientStartsMaps == ASSUME Inv, ClientStarts PROVE UNCHANGED User!vars
<1>1. /\ client = "gone" /\ server = "accepting" /\ client' = "prompt" /\ server' = "reading"
      /\ UNCHANGED <<request, told, store>>
  BY DEF ClientStarts
<1>2. request = <<>>
  BY <1>1 DEF Inv, RequestInv
<1>3. ~OnItsWay /\ ~OnItsWay'
  BY <1>1, <1>2, NothingRead, OnItsWayIs DEF Under
<1> QED
  BY <1>1, <1>3, CurrentIs, IsStutter

(* ReadArgs maps to a step of TypedCall, or to none.                        *)
LEMMA ReadArgsMaps == ASSUME Inv, ReadArgs PROVE UNCHANGED User!vars
<1>1. Sendable(line) /\ request = Messages[line] /\ Arrived.ok /\ Arrived.rest = <<>>
  BY ArrivedIs DEF ReadArgs
<1>2. /\ server' = "executing" /\ request' = <<>> /\ result' = Without("none")
      /\ UNCHANGED <<client, line, told, store>>
  BY <1>1 DEF ReadArgs, console
<1>3. OnItsWay /\ OnItsWay' /\ request # <<>>
  BY <1>1, <1>2, CallsReadWhole, OnItsWayIs DEF Under, OnItsWay
<1>4. (result').info = "none"
  BY <1>2, ResultsAre
<1>5. Current' = Current /\ Effect' = Effect
  BY <1>2, <1>3, <1>4, CurrentIs
<1> QED
  BY <1>2, <1>5, IsStutter

(* DropConnection maps to a step of TypedCall, or to none.                  *)
LEMMA DropConnectionMaps == ASSUME Inv, DropConnection PROVE UNCHANGED User!vars
<1>1. /\ client = "gone" /\ server = "reading" /\ ~Arrived.ok
      /\ server' = "accepting" /\ request' = <<>> /\ UNCHANGED <<client, told, store>>
  BY DEF DropConnection, console
<1>2. ~OnItsWay /\ ~OnItsWay'
  BY <1>1, NothingRead, OnItsWayIs DEF Under, OnItsWay
<1> QED
  BY <1>1, <1>2, CurrentIs, IsStutter

\* A server that executes: its line is on its way, without an effect so far.
LEMMA Executing ==
    ASSUME Inv, server = "executing"
    PROVE  /\ Current = line /\ Current # NoLine /\ Effect = "none" /\ request = <<>>
           /\ client # "prompt" /\ told = "none"
<1>1. client # "prompt" /\ Sendable(line) /\ result = Without("none")
  BY DEF Inv, ServingInv
<1>2. request = <<>> /\ told = "none"
  BY <1>1 DEF Inv, RequestInv, ClientInv
<1>3. OnItsWay
  BY DEF OnItsWay
<1> QED
  BY <1>1, <1>2, <1>3, LineIsOne, ResultsAre, CurrentIs

(* An answer the handler has ready maps to the line taking effect.          *)
LEMMA AnsweringMaps ==
    ASSUME Inv, server = "executing", NEW s \in Statuses, Answering(s),
           May(line, Info[s + 1], store')
    PROVE  User!Next
<1>1. /\ server' = "answering" /\ result' = Result(s)
      /\ UNCHANGED <<client, line, told, request>>
  BY DEF Answering, console
<1>2. OnItsWay' /\ request' = <<>>
  BY <1>1, Executing, OnItsWayIs DEF Under
<1>3. Current' = line /\ Effect' = Info[s + 1]
  BY <1>1, <1>2, ResultsAre, CurrentIs
<1> QED
  BY <1>1, <1>3, Executing, IsTakeEffect

(* RefuseRequest maps to a step of TypedCall, or to none.                   *)
LEMMA RefuseRequestMaps == ASSUME Inv, RefuseRequest PROVE User!Next
<1>1. server = "executing" /\ Processed.does = "refuse" /\ store' = store
  BY DEF RefuseRequest
<1>2. May(line, "BAD_REQUEST", store')
  BY <1>1, ProcessedMay
<1> QED
  BY <1>1, <1>2, AnsweringMaps, Texts DEF RefuseRequest

(* ExecuteAnswers maps to a step of TypedCall, or to none.                  *)
LEMMA ExecuteAnswersMaps == ASSUME Inv, ExecuteAnswers PROVE User!Next
<1>1. server = "executing" /\ Processed.does = "query"
  BY DEF ExecuteAnswers
<1>2. PICK o \in executeQuery(Processed.query, store) :
        o.ends = "answer" /\ Answering(o.status) /\ store' = o.store
  BY DEF ExecuteAnswers
<1>3. o.status \in Statuses /\ May(line, Info[o.status + 1], o.store)
  BY <1>1, <1>2, ProcessedMay
<1>4. May(line, Info[o.status + 1], store')
  BY <1>2, <1>3
<1> QED
  BY <1>1, <1>2, <1>3, <1>4, AnsweringMaps

(* ExecuteLoops maps to a step of TypedCall, or to none.                    *)
LEMMA ExecuteLoopsMaps == ASSUME Inv, ExecuteLoops PROVE User!Next
<1>1. /\ server = "executing" /\ server' = "looping" /\ result' = Without("looping")
      /\ UNCHANGED <<client, line, told, request, store>>
  BY DEF ExecuteLoops, console
<1>2. May(line, "looping", store)
  BY <1>1, ProcessedMay DEF ExecuteLoops
<1>3. OnItsWay' /\ request' = <<>>
  BY <1>1, Executing, OnItsWayIs DEF Under
<1>4. Current' = line /\ Effect' = "looping"
  BY <1>1, <1>3, ResultsAre, CurrentIs
<1>5. May(line, "looping", store')
  BY <1>1, <1>2
<1> QED
  BY <1>1, <1>4, <1>5, Executing, IsTakeEffect

(* ProcessorCrash maps to a step of TypedCall, or to none.                  *)
LEMMA ProcessorCrashMaps == ASSUME Inv, ProcessorCrash PROVE User!Next
<1>1. /\ server = "executing" /\ server' = "down" /\ request' = <<>> /\ result' = Without("ended")
      /\ UNCHANGED <<client, line, told, store>>
  BY DEF ProcessorCrash, Ended, console
<1>2. May(line, "ended", store)
  BY <1>1, ProcessedMay DEF ProcessorCrash
<1>3. CASE client = "waiting"
  <2>1. OnItsWay'
    BY <1>1, <1>3, OnItsWayIs DEF Under
  <2>2. Current' = line /\ Effect' = "ended"
    BY <1>1, <2>1, ResultsAre, CurrentIs
  <2>3. May(line, "ended", store')
    BY <1>1, <1>2
  <2> QED
    BY <1>1, <2>2, <2>3, Executing, IsTakeEffect
<1>4. CASE client # "waiting"
  <2>1. ~OnItsWay'
    BY <1>1, <1>4, NothingRead, OnItsWayIs DEF Under
  <2> QED
    BY <1>1, <2>1, Executing, CurrentIs, IsForget
<1> QED
  BY <1>3, <1>4

\* A server that answers.
LEMMA Responding ==
    ASSUME Inv, server = "answering"
    PROVE  /\ OnItsWay /\ Current = line /\ Current # NoLine /\ request = <<>>
           /\ client # "prompt" /\ told = "none"
<1>1. client # "prompt" /\ Sendable(line)
  BY DEF Inv, ServingInv
<1>2. request = <<>> /\ told = "none"
  BY <1>1 DEF Inv, RequestInv, ClientInv
<1>3. OnItsWay
  BY DEF OnItsWay
<1> QED
  BY <1>1, <1>2, <1>3, LineIsOne, CurrentIs

(* Respond maps to a step of TypedCall, or to none.                         *)
LEMMA RespondMaps == ASSUME Inv, Respond PROVE User!Next \/ UNCHANGED User!vars
<1>1. /\ server = "answering" /\ server' = "reading"
      /\ UNCHANGED <<client, line, told, request, result, store>>
  BY DEF Respond, console
<1>2. CASE client = "waiting"
  <2>1. OnItsWay'
    BY <1>1, <1>2, OnItsWayIs DEF Under
  <2>2. Current' = Current /\ Effect' = Effect
    BY <1>1, <2>1, Responding, CurrentIs
  <2> QED
    BY <1>1, <2>2, IsStutter
<1>3. CASE client # "waiting"
  <2>1. ~OnItsWay'
    BY <1>1, <1>3, Responding, NothingRead, OnItsWayIs DEF Under
  <2> QED
    BY <1>1, <2>1, Responding, CurrentIs, IsForget
<1> QED
  BY <1>2, <1>3

(* RespondKilled maps to a step of TypedCall, or to none.                   *)
LEMMA RespondKilledMaps == ASSUME Inv, RespondKilled PROVE User!Next
<1>1. server = "answering" /\ client = "waiting" /\ UNCHANGED store
  BY DEF RespondKilled
<1>2. /\ request' = <<>> /\ result' = Without("killed")
      /\ UNCHANGED <<client, line, told>>
  BY DEF RespondKilled, Ended, console
<1>3. OnItsWay'
  BY <1>1, <1>2, OnItsWayIs DEF Under
<1>4. Current' = line /\ Effect' = "killed"
  BY <1>2, <1>3, ResultsAre, CurrentIs
<1> QED
  BY <1>1, <1>2, <1>4, Responding, IsLose

(* ServerEnds maps to a step of TypedCall, or to none.                      *)
LEMMA ServerEndsMaps == ASSUME Inv, ServerEnds PROVE User!Next \/ UNCHANGED User!vars
<1>1. /\ server' = "down" /\ request' = <<>>
      /\ result' = IF response = <<>> THEN Without("killed") ELSE result
      /\ UNCHANGED <<client, line, told, store>>
  BY DEF ServerEnds, Ended, console
<1>2. CASE client = "waiting"
  <2>1. OnItsWay /\ OnItsWay' /\ Sendable(line)
    BY <1>1, <1>2, OnItsWayIs DEF Under, Inv, ClientInv
  <2>2. Current = line /\ Current' = line /\ line # NoLine
    BY <1>1, <2>1, LineIsOne, CurrentIs
  <2>3. CASE response = <<>>
    <3>1. Effect' = "killed"
      BY <1>1, <2>1, <2>3, ResultsAre, CurrentIs
    <3> QED
      BY <1>1, <2>2, <3>1, IsLose
  <2>4. CASE response # <<>>
    <3>1. request = <<>>
      BY <2>4 DEF Inv, RequestInv
    <3>2. Effect' = Effect
      BY <1>1, <2>1, <2>4, <3>1, CurrentIs
    <3> QED
      BY <1>1, <2>2, <3>2, IsStutter
  <2> QED
    BY <2>3, <2>4
<1>3. CASE client # "waiting"
  <2>1. ~OnItsWay'
    BY <1>1, <1>3, NothingRead, OnItsWayIs DEF Under
  <2>2. CASE client = "prompt"
    BY <1>1, <2>1, <2>2, NothingOnItsWay, CurrentIs, IsStutter
  <2>3. CASE client # "prompt"
    <3>1. told = "none"
      BY <2>3 DEF Inv, ClientInv
    <3> QED
      BY <1>1, <2>1, <3>1, CurrentIs, IsForget
  <2> QED
    BY <2>2, <2>3
<1> QED
  BY <1>2, <1>3

(* ServerStarts maps to a step of TypedCall, or to none.                    *)
LEMMA ServerStartsMaps == ASSUME Inv, ServerStarts PROVE User!Next
<1>1. /\ server = "down" /\ server' = "accepting" /\ store' = EmptyStore
      /\ UNCHANGED <<client, line, told, request, result>>
  BY DEF ServerStarts, console
<1>2. request = <<>>
  BY <1>1 DEF Inv, RequestInv
<1>3. CASE client = "waiting"
  <2>1. OnItsWay /\ OnItsWay' /\ result.info # "none"
    BY <1>1, <1>3, OnItsWayIs DEF Under, Inv, ClientInv
  <2>2. Current' = Current /\ Effect' = Effect /\ Effect # "none"
    BY <1>1, <1>2, <2>1, CurrentIs
  <2> QED
    BY <1>1, <2>2, IsReset
<1>4. CASE client # "waiting"
  <2>1. ~OnItsWay /\ ~OnItsWay'
    BY <1>1, <1>2, <1>4, NothingRead, OnItsWayIs DEF Under
  <2> QED
    BY <1>1, <2>1, CurrentIs, IsReset
<1> QED
  BY <1>3, <1>4

(* A stutter maps to one.                                                   *)
LEMMA StutterMaps == ASSUME UNCHANGED vars PROVE UNCHANGED User!vars
<1>1. UNCHANGED <<client, line, told, request, server, result, store>>
  BY DEF vars, console
<1>2. OnItsWay' <=> OnItsWay
  BY <1>1, OnItsWayIs
<1> QED
  BY <1>1, <1>2, IsStutter DEF Current, Effect

(* Every step maps to a step of TypedCall or a stutter.                     *)
LEMMA NextMaps == ASSUME Inv, [Next]_vars PROVE [User!Next]_(User!vars)
<1>1. ASSUME NEW l \in Lines, TypeFatal(l) \/ Call(l) \/ KilledSending(l) \/ CallBrokenLink(l)
      PROVE  User!Next
  BY <1>1, TypeFatalMaps, CallMaps, KilledSendingMaps, CallBrokenLinkMaps
<1>2. CASE ServerStep
  <2>1. User!Next \/ UNCHANGED User!vars
    BY <1>2, ReadArgsMaps, DropConnectionMaps, RefuseRequestMaps, ExecuteAnswersMaps,
       ExecuteLoopsMaps, ProcessorCrashMaps, RespondMaps DEF ServerStep
  <2> QED
    BY <2>1
<1> QED
  BY <1>1, <1>2, ReceiveMaps, ReceiveFailsMaps, ClientEndsMaps, ClientStartsMaps, RespondKilledMaps,
     ServerEndsMaps, ServerStartsMaps, StutterMaps DEF Next

(* For all lines, names, strings and numbers: StatementCall implements      *)
(* TypedCall. A typed line takes effect as a whole, as it was typed and at  *)
(* most once, or not at all, and the outcome shown is its own, wherever     *)
(* either process is killed.                                                *)
THEOREM CallImplementsTypedCall == Spec => ImplementsTypedCall
<1>1. Spec => []Inv
  BY CallInvariance
<1>2. Init => User!Init
  BY InitMaps
<1>3. Inv /\ [Next]_vars => [User!Next]_(User!vars)
  BY NextMaps
<1> QED
  BY <1>1, <1>2, <1>3, PTL DEF Spec, User!Spec, ImplementsTypedCall
============================================================================
