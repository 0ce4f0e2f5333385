------------------------- MODULE ThreadSuite_proofs -------------------------
(***************************************************************************)
(* buffer_linux and buffer_windows lose, double and reorder no record, the *)
(* lock of the latter keeps the dumps of different threads apart, and      *)
(* inscount_tls counts every instruction, for every program, every number  *)
(* of threads and every buffer size.                                       *)
(*                                                                         *)
(* The files are flattened sequences of sequences, and the buffer of       *)
(* buffer_linux is filled by a fold.  Both are defined by recursion in the *)
(* community modules, so the first part shows, by a least counterexample,  *)
(* what one element more adds.  The second part follows one thread, the    *)
(* third the tools.                                                        *)
(***************************************************************************)
EXTENDS ThreadSuite, FiniteSetTheorems, SequenceTheorems, NaturalsInduction,
        WellFoundedInduction, TLAPS

(***************************************************************************)
(* A set of numbers that is not empty has a least.                         *)
(***************************************************************************)
LEMMA LeastNumber ==
  ASSUME NEW T \in SUBSET Nat, T # {}
  PROVE  \E n \in T : \A m \in T : n <= m
<1>1. PICK n \in T : \A m \in T : <<m, n>> \notin OpToRel(<, Nat)
  BY NatLessThanWellFounded, WFMin
<1>2. \A m \in T : ~(m < n)
  BY <1>1 DEF OpToRel
<1> QED  BY <1>2

-----------------------------------------------------------------------------
(***************************************************************************)
(* Append, after a concatenation.                                          *)
(***************************************************************************)
LEMMA ConcatAppend ==
  ASSUME NEW S, NEW s \in Seq(S), NEW u \in Seq(S), NEW elem \in S
  PROVE  s \o Append(u, elem) = Append(s \o u, elem)
<1>1. Append(u, elem) = u \o <<elem>> /\ <<elem>> \in Seq(S)
  BY AppendIsConcat
<1>2. s \o u \in Seq(S)
  BY ConcatProperties
<1>3. Append(s \o u, elem) = (s \o u) \o <<elem>>
  BY <1>2, AppendIsConcat
<1> QED  BY <1>1, <1>3, ConcatAssociative

(***************************************************************************)
(* What FlattenSeq is applied to: sequences of addresses or instructions.  *)
(***************************************************************************)
Elements == Nat \cup Instructions

Flattable == Seq(Seq(Elements))

(***************************************************************************)
(* The sequences of sequences, and their appending and concatenation.      *)
(***************************************************************************)
LEMMA FlattableProperties ==
  ASSUME NEW seqs \in Flattable
  PROVE  /\ Len(seqs) \in Nat /\ DOMAIN seqs = 1 .. Len(seqs)
         /\ \A i \in 1 .. Len(seqs) : seqs[i] \in Seq(Elements)
         /\ <<>> \in Flattable
         /\ \A s \in Seq(Elements) :
              /\ Append(seqs, s) \in Flattable /\ Len(Append(seqs, s)) = Len(seqs) + 1
              /\ Append(seqs, s)[Len(seqs) + 1] = s
              /\ \A i \in 1 .. Len(seqs) : Append(seqs, s)[i] = seqs[i]
         /\ \A more \in Flattable : seqs \o more \in Flattable
         /\ seqs \o <<>> = seqs
         /\ SubSeq(seqs, 1, Len(seqs)) = seqs
         /\ \A n \in 0 .. Len(seqs) : SubSeq(seqs, 1, n) \in Flattable
         /\ \A n \in 0 .. Len(seqs) : n # Len(seqs) =>
              SubSeq(seqs, 1, n + 1) = Append(SubSeq(seqs, 1, n), seqs[n + 1])
<1>1. Len(seqs) \in Nat /\ DOMAIN seqs = 1 .. Len(seqs)
      /\ \A i \in 1 .. Len(seqs) : seqs[i] \in Seq(Elements)
  BY DEF Flattable
<1>2. <<>> \in Flattable /\ seqs \o <<>> = seqs
  BY ConcatEmptySeq DEF Flattable
<1>3. \A s \in Seq(Elements) :
        /\ Append(seqs, s) \in Flattable /\ Len(Append(seqs, s)) = Len(seqs) + 1
        /\ Append(seqs, s)[Len(seqs) + 1] = s
        /\ \A i \in 1 .. Len(seqs) : Append(seqs, s)[i] = seqs[i]
  BY AppendProperties DEF Flattable
<1>4. \A more \in Flattable : seqs \o more \in Flattable
  BY ConcatProperties DEF Flattable
<1>6. SubSeq(seqs, 1, Len(seqs)) = seqs
  BY SubSeqFull DEF Flattable
<1>7. \A n \in 0 .. Len(seqs) : SubSeq(seqs, 1, n) \in Flattable
  BY <1>1, SubSeqProperties DEF Flattable
<1>8. ASSUME NEW n \in 0 .. Len(seqs), n # Len(seqs)
      PROVE  SubSeq(seqs, 1, n + 1) = Append(SubSeq(seqs, 1, n), seqs[n + 1])
  <2> Len(seqs) \in Nat
    BY <1>1
  <2>1. n + 1 \in 1 .. Len(seqs) /\ 1 \in 1 .. Len(seqs) /\ (n + 1) - 1 = n
    BY <1>8
  <2>2. SubSeq(seqs, 1, n + 1) = SubSeq(seqs, 1, n) \o <<seqs[n + 1]>>
    BY <2>1, SubSeqRecursiveSecond DEF Flattable
  <2>3. seqs[n + 1] \in Seq(Elements)
    BY <1>1, <2>1
  <2> QED  BY <1>7, <2>2, <2>3, AppendIsConcat DEF Flattable
<1> QED  BY <1>1, <1>2, <1>3, <1>4, <1>6, <1>7, <1>8

(***************************************************************************)
(* Concatenation of addresses or instructions is associative.              *)
(***************************************************************************)
LEMMA Concat3 ==
  ASSUME NEW a \in Seq(Elements), NEW b \in Seq(Elements), NEW c \in Seq(Elements)
  PROVE  (a \o b) \o c = a \o (b \o c)
BY ConcatAssociative

(***************************************************************************)
(* Append, after a concatenation of sequences of sequences.                *)
(***************************************************************************)
LEMMA FlattableAppend ==
  ASSUME NEW a \in Flattable, NEW b \in Flattable, NEW s \in Seq(Elements)
  PROVE  a \o Append(b, s) = Append(a \o b, s)
BY ConcatAppend DEF Flattable

(***************************************************************************)
(* The prefixes of a sequence of sequences, flattened one after the other. *)
(***************************************************************************)
Flattens(F, seqs, n) ==
  /\ F \in [0 .. n -> Seq(Elements)]
  /\ F[0] = <<>>
  /\ \A i \in 1 .. n : F[i] = F[i - 1] \o seqs[i]

FlattensNext(F, G, seqs, n, k, s) ==
  Flattens(G, seqs, k) /\ G[k] = F[n] \o s

(***************************************************************************)
(* They exist for every sequence of sequences.                             *)
(***************************************************************************)
LEMMA FlattensExtended ==
  ASSUME NEW seqs, NEW n \in Nat, NEW F, Flattens(F, seqs, n),
         NEW k, k = n + 1, NEW x \in Seq(Elements), seqs[k] = x
  PROVE  \E G : FlattensNext(F, G, seqs, n, k, x)
<1> DEFINE G == [i \in 0 .. n + 1 |-> IF i = n + 1 THEN F[n] \o seqs[n + 1] ELSE F[i]]
<1>1. F \in [0 .. n -> Seq(Elements)] /\ F[0] = <<>>
      /\ \A i \in 1 .. n : F[i] = F[i - 1] \o seqs[i]
  BY DEF Flattens
<1>2. F[n] \o seqs[n + 1] \in Seq(Elements)
  BY <1>1, ConcatProperties
<1>3. G \in [0 .. n + 1 -> Seq(Elements)] /\ G[0] = <<>>
  BY <1>1, <1>2
<1>4. G[n + 1] = F[n] \o seqs[n + 1] /\ \A i \in 0 .. n : G[i] = F[i]
  OBVIOUS
<1>5. ASSUME NEW i \in 1 .. n + 1 PROVE G[i] = G[i - 1] \o seqs[i]
  <2> HIDE DEF G
  <2>1. CASE i = n + 1
    <3>1. (n + 1) - 1 = n /\ n \in 0 .. n
      OBVIOUS
    <3> QED  BY <1>4, <2>1, <3>1
  <2>2. CASE i # n + 1
    <3>1. i \in 1 .. n /\ i \in 0 .. n /\ i - 1 \in 0 .. n
      BY <2>2
    <3> QED  BY <1>1, <1>4, <3>1
  <2> QED  BY <2>1, <2>2
<1> HIDE DEF G
<1>6. Flattens(G, seqs, n + 1)
  BY <1>3, <1>5 DEF Flattens
<1> QED  BY <1>4, <1>6 DEF FlattensNext

(***************************************************************************)
(* By induction: the least prefix that has none would be extended.         *)
(***************************************************************************)
LEMMA FlattensExists ==
  ASSUME NEW seqs \in Flattable
  PROVE  \E F : Flattens(F, seqs, Len(seqs))
<1> DEFINE Has(n) == \E F : Flattens(F, seqs, n)
           T == {n \in 0 .. Len(seqs) : ~Has(n)}
<1>1. Len(seqs) \in Nat /\ \A i \in 1 .. Len(seqs) : seqs[i] \in Seq(Elements)
  BY FlattableProperties
<1>2. Has(0)
  <2>1. Flattens([i \in 0 .. 0 |-> <<>>], seqs, 0)
    <3>1. <<>> \in Seq(Elements)
      OBVIOUS
    <3>2. \A i \in 1 .. 0 : FALSE
      OBVIOUS
    <3> DEFINE F == [i \in 0 .. 0 |-> <<>>]
    <3>3. F \in [0 .. 0 -> Seq(Elements)] /\ F[0] = <<>>
      BY <3>1
    <3> HIDE DEF F
    <3>4. Flattens(F, seqs, 0)
      BY <3>2, <3>3 DEF Flattens
    <3> QED  BY <3>4 DEF F
  <2> QED  BY <2>1
<1>3. \A n \in Nat : n + 1 \in 1 .. Len(seqs) /\ Has(n) => Has(n + 1)
  <2>1. ASSUME NEW n \in Nat, n + 1 \in 1 .. Len(seqs), Has(n) PROVE Has(n + 1)
    <3>1. PICK F : Flattens(F, seqs, n)
      BY <2>1
    <3>2. PICK k \in 1 .. Len(seqs) : k = n + 1
      BY <2>1
    <3>4. PICK x \in Seq(Elements) : seqs[k] = x
      BY <1>1
    <3>3. \E G : FlattensNext(F, G, seqs, n, k, x)
      BY <3>1, <3>2, <3>4, FlattensExtended
    <3> QED  BY <3>2, <3>3 DEF FlattensNext
  <2> QED  BY <2>1
<1> HIDE DEF Has
<1>4. ASSUME T # {} PROVE FALSE
  <2> T \in SUBSET Nat
    BY <1>1
  <2>1. PICK n \in T : \A m \in T : n <= m
    <3> HIDE DEF T
    <3> QED  BY <1>4, LeastNumber
  <2>2. n # 0
    BY <1>2, <2>1
  <2>3. n - 1 \in Nat /\ n - 1 \in 0 .. Len(seqs) /\ n - 1 \notin T
    BY <1>1, <2>1, <2>2
  <2>4. Has(n - 1) /\ (n - 1) + 1 = n
    BY <1>1, <2>1, <2>3
  <2> QED  BY <1>1, <1>3, <2>1, <2>3, <2>4
<1>5. Has(Len(seqs))
  BY <1>1, <1>4
<1> QED  BY <1>5 DEF Has

(***************************************************************************)
(* FlattenSeq of the community modules is the last of them.                *)
(***************************************************************************)
LEMMA FlattenIsLast ==
  ASSUME NEW seqs \in Flattable, NEW F, Flattens(F, seqs, Len(seqs))
  PROVE  FlattenSeq(seqs) = F[Len(seqs)]
<1>1. Len(seqs) \in Nat /\ F \in [0 .. Len(seqs) -> Seq(Elements)] /\ F[0] = <<>>
      /\ \A i \in 1 .. Len(seqs) : F[i] = F[i - 1] \o seqs[i] /\ seqs[i] \in Seq(Elements)
  BY FlattableProperties DEF Flattens
<1>2. CASE Len(seqs) = 0
  BY <1>1, <1>2, EmptySeq DEF FlattenSeq
<1>3. CASE Len(seqs) # 0
  <2> DEFINE n == Len(seqs)
             Is(f) == f = [i \in 1 .. n |-> IF i = 1 THEN seqs[i] ELSE f[i - 1] \o seqs[i]]
             g == [i \in 1 .. n |-> F[i]]
             flatten == CHOOSE f : Is(f)
  <2>1. FlattenSeq(seqs) = flatten[n]
    BY <1>3 DEF FlattenSeq
  <2>2. Is(g)
    <3>1. F[1] = seqs[1]
      <4>1. 1 \in 1 .. n /\ 1 - 1 = 0
        BY <1>1, <1>3
      <4>2. F[1] = F[1 - 1] \o seqs[1] /\ seqs[1] \in Seq(Elements)
        BY <1>1, <4>1
      <4>3. F[1] = <<>> \o seqs[1]
        BY <1>1, <4>1, <4>2
      <4> QED  BY <4>2, <4>3, ConcatEmptySeq
    <3>2. \A i \in 1 .. n : i # 1 => i - 1 \in 1 .. n
      BY <1>1
    <3>3. \A i \in 1 .. n : F[i] = F[i - 1] \o seqs[i]
      BY <1>1
    <3> QED  BY <3>1, <3>2, <3>3
  <2>3. Is(flatten)
    BY <2>2
  <2>4. \A i \in 1 .. n : flatten[i] = IF i = 1 THEN seqs[i] ELSE flatten[i - 1] \o seqs[i]
    <3> HIDE DEF flatten
    <3> QED  BY <2>3
  <2> HIDE DEF flatten, Is, g
  <2> DEFINE T == {i \in 1 .. n : flatten[i] # F[i]}
  <2>5. ASSUME T # {} PROVE FALSE
    <3> T \in SUBSET Nat
      BY <1>1
    <3>1. PICK i \in T : \A j \in T : i <= j
      <4> HIDE DEF T
      <4> QED  BY <2>5, LeastNumber
    <3> i \in 1 .. n /\ i \in Nat
      BY <1>1
    <3>2. i # 1
      <4>1. 1 \in 1 .. n /\ 1 - 1 = 0
        BY <1>1, <1>3
      <4>2. flatten[1] = seqs[1]
        BY <2>4, <4>1
      <4>3. F[1] = seqs[1]
        <5>1. F[1] = F[1 - 1] \o seqs[1] /\ seqs[1] \in Seq(Elements)
          BY <1>1, <4>1
        <5>2. F[1] = <<>> \o seqs[1]
          BY <1>1, <4>1, <5>1
        <5> QED  BY <5>1, <5>2, ConcatEmptySeq
      <4> QED  BY <4>2, <4>3
    <3>3. i - 1 \in 1 .. n /\ i - 1 \notin T
      <4>1. i - 1 \in 1 .. n /\ ~(i <= i - 1)
        BY <1>1, <3>2
      <4> QED  BY <3>1, <4>1
    <3>4. flatten[i - 1] = F[i - 1]
      BY <3>3
    <3>5. flatten[i] = F[i]
      BY <1>1, <2>4, <3>1, <3>2, <3>4
    <3> QED  BY <3>1, <3>5
  <2>6. n \in 1 .. n
    BY <1>1, <1>3
  <2> QED  BY <2>1, <2>5, <2>6
<1> QED  BY <1>2, <1>3
(***************************************************************************)
(* One sequence more is flattened to the end.                              *)
(***************************************************************************)
LEMMA FlattenOneMore ==
  ASSUME NEW seqs \in Flattable, NEW more \in Flattable, NEW s \in Seq(Elements),
         NEW n \in Nat, NEW k \in Nat, k = n + 1, Len(seqs) = n, Len(more) = k,
         \A i \in 1 .. n : more[i] = seqs[i], more[k] = s
  PROVE  FlattenSeq(more) = FlattenSeq(seqs) \o s /\ FlattenSeq(seqs) \in Seq(Elements)
<1>1. PICK F : Flattens(F, seqs, n)
  BY FlattensExists
<1>2. FlattenSeq(seqs) = F[n]
  BY <1>1, FlattenIsLast
<1>3. F[n] \in Seq(Elements)
  BY <1>1 DEF Flattens
<1>6. Flattens(F, more, n)
  BY <1>1 DEF Flattens
<1>4. PICK G : FlattensNext(F, G, more, n, k, s)
  <2>1. more[k] = s /\ k = n + 1
    OBVIOUS
  <2> QED  BY <1>6, <2>1, FlattensExtended
<1>5. FlattenSeq(more) = G[k]
  BY <1>4, FlattenIsLast DEF FlattensNext
<1> QED  BY <1>2, <1>3, <1>4, <1>5 DEF FlattensNext

(***************************************************************************)
(* Flattening, element by element.                                         *)
(***************************************************************************)
LEMMA FlattenProperties ==
  ASSUME NEW seqs \in Flattable
  PROVE  /\ FlattenSeq(<<>>) = <<>>
         /\ FlattenSeq(seqs) \in Seq(Elements)
         /\ \A s \in Seq(Elements) : FlattenSeq(Append(seqs, s)) = FlattenSeq(seqs) \o s
<1>1. FlattenSeq(<<>>) = <<>>
  BY EmptySeq DEF FlattenSeq
<1>2. ASSUME NEW s \in Seq(Elements)
      PROVE  FlattenSeq(Append(seqs, s)) = FlattenSeq(seqs) \o s
             /\ FlattenSeq(seqs) \in Seq(Elements)
  <2>1. PICK more \in Flattable :
          /\ more = Append(seqs, s) /\ Len(more) = Len(seqs) + 1
          /\ more[Len(seqs) + 1] = s /\ \A i \in 1 .. Len(seqs) : more[i] = seqs[i]
    <3>1. Append(seqs, s) \in Flattable
      BY FlattableProperties
    <3>2. /\ Len(Append(seqs, s)) = Len(seqs) + 1 /\ Append(seqs, s)[Len(seqs) + 1] = s
          /\ \A i \in 1 .. Len(seqs) : Append(seqs, s)[i] = seqs[i]
      BY FlattableProperties
    <3> DEFINE more == Append(seqs, s)
    <3>3. more = Append(seqs, s)
      OBVIOUS
    <3> HIDE DEF more
    <3> QED  BY <3>1, <3>2, <3>3
  <2>2. PICK n \in Nat, k \in Nat : n = Len(seqs) /\ k = n + 1
    BY FlattableProperties
  <2>3. /\ Len(seqs) = n /\ Len(more) = k /\ more[k] = s
        /\ \A i \in 1 .. n : more[i] = seqs[i]
    BY <2>1, <2>2
  <2>4. FlattenSeq(more) = FlattenSeq(seqs) \o s /\ FlattenSeq(seqs) \in Seq(Elements)
    BY <2>2, <2>3, FlattenOneMore
  <2> QED  BY <2>1, <2>4
<1>3. <<>> \in Seq(Elements)
  BY EmptySeq
<1> QED  BY <1>1, <1>2, <1>3

(***************************************************************************)
(* Two sequences, one after the other, are flattened one after the other.  *)
(***************************************************************************)
LEMMA FlattenConcat ==
  ASSUME NEW s \in Flattable, NEW u \in Flattable
  PROVE  FlattenSeq(s \o u) = FlattenSeq(s) \o FlattenSeq(u)
<1> DEFINE p(n) == SubSeq(u, 1, n)
           Good(n) == FlattenSeq(s \o p(n)) = FlattenSeq(s) \o FlattenSeq(p(n))
           T == {n \in 0 .. Len(u) : ~Good(n)}
<1>1. Len(u) \in Nat
  BY FlattableProperties
<1>2. Good(0)
  <2>1. p(0) = <<>>
    BY <1>1, SubSeqEmpty
  <2>2. s \o <<>> = s
    BY FlattableProperties
  <2>4. FlattenSeq(s) \in Seq(Elements)
    BY FlattenProperties
  <2>5. FlattenSeq(s) \o <<>> = FlattenSeq(s)
    BY <2>4, ConcatEmptySeq
  <2>3. FlattenSeq(<<>>) = <<>>
    BY FlattenProperties
  <2> QED  BY <2>1, <2>2, <2>3, <2>5
<1>3. ASSUME NEW n \in 0 .. Len(u), n + 1 \in 1 .. Len(u), Good(n) PROVE Good(n + 1)
  <2> DEFINE a == p(n)
             elem == u[n + 1]
  <2>1. a \in Flattable /\ elem \in Seq(Elements) /\ p(n + 1) = Append(a, elem)
    <3>1. n # Len(u)
      BY <1>1, <1>3
    <3> QED  BY <1>3, <3>1, FlattableProperties
  <2>2. FlattenSeq(s \o a) = FlattenSeq(s) \o FlattenSeq(a)
    BY <1>3
  <2> HIDE DEF a, elem
  <2>3. s \o Append(a, elem) = Append(s \o a, elem) /\ s \o a \in Flattable
    <3>1. s \o Append(a, elem) = Append(s \o a, elem)
      BY <2>1, FlattableAppend
    <3>2. \A y \in Flattable : s \o y \in Flattable
      BY FlattableProperties
    <3> QED  BY <2>1, <3>1, <3>2
  <2>4. /\ FlattenSeq(Append(s \o a, elem)) = FlattenSeq(s \o a) \o elem
        /\ FlattenSeq(Append(a, elem)) = FlattenSeq(a) \o elem
        /\ FlattenSeq(s) \in Seq(Elements) /\ FlattenSeq(a) \in Seq(Elements)
    BY <2>1, <2>3, FlattenProperties
  <2>5. (FlattenSeq(s) \o FlattenSeq(a)) \o elem = FlattenSeq(s) \o (FlattenSeq(a) \o elem)
    <3> DEFINE y == FlattenSeq(s)
               z == FlattenSeq(a)
    <3>1. y \in Seq(Elements) /\ z \in Seq(Elements)
      BY <2>4
    <3> HIDE DEF y, z
    <3>2. \A w \in Seq(Elements) : (y \o z) \o w = y \o (z \o w)
      BY <3>1, ConcatAssociative
    <3> QED  BY <2>1, <3>2 DEF y, z
  <2> QED  BY <2>1, <2>2, <2>3, <2>4, <2>5
<1> HIDE DEF Good
<1>4. ASSUME T # {} PROVE FALSE
  <2> T \in SUBSET Nat
    BY <1>1
  <2>1. PICK n \in T : \A m \in T : n <= m
    <3> HIDE DEF T
    <3> QED  BY <1>4, LeastNumber
  <2>2. n # 0 /\ n \in 0 .. Len(u) /\ n \in Nat
    BY <1>1, <1>2, <2>1
  <2>3. n - 1 \in 0 .. Len(u) /\ ~(n <= n - 1) /\ (n - 1) + 1 = n /\ n \in 1 .. Len(u)
    BY <1>1, <2>2
  <2>4. Good(n - 1)
    BY <2>1, <2>3
  <2>5. Good((n - 1) + 1)
    BY <1>3, <2>3, <2>4
  <2> QED  BY <2>1, <2>3, <2>5
<1>5. Good(Len(u))
  BY <1>1, <1>4
<1> QED  BY <1>5, FlattableProperties DEF Good

-----------------------------------------------------------------------------
(***************************************************************************)
(* A function on 1 .. n whose values are sequences can be flattened.       *)
(***************************************************************************)
LEMMA IsFlattable ==
  ASSUME NEW n \in Nat, NEW f, f = [i \in 1 .. n |-> f[i]],
         \A i \in 1 .. n : f[i] \in Seq(Elements)
  PROVE  f \in Flattable /\ Len(f) = n
<1>1. f \in [1 .. n -> Seq(Elements)]
  OBVIOUS
<1> QED  BY <1>1 DEF Flattable

(***************************************************************************)
(* Sequences of no more than one element.                                  *)
(***************************************************************************)
LEMMA ShortSeqs ==
  /\ <<>> \in Seq(Elements)
  /\ \A x \in Elements : <<x>> \in Seq(Elements)
OBVIOUS

(***************************************************************************)
(* Printed, record by record.                                              *)
(***************************************************************************)
PrintedEach(records) ==
  [i \in DOMAIN records |-> IF records[i] = 0 THEN <<>> ELSE <<records[i]>>]

(***************************************************************************)
(* It can be flattened, and that of two sequences is one after the other.  *)
(***************************************************************************)
LEMMA PrintedEachProperties ==
  ASSUME NEW a \in Seq(Elements), NEW b \in Seq(Elements)
  PROVE  /\ PrintedEach(a) \in Flattable
         /\ PrintedEach(a \o b) = PrintedEach(a) \o PrintedEach(b)
<1> DEFINE one(x) == IF x = 0 THEN <<>> ELSE <<x>>
<1>1. \A x \in Elements : one(x) \in Seq(Elements)
  BY ShortSeqs
<1>2. ASSUME NEW s \in Seq(Elements)
      PROVE  /\ PrintedEach(s) = [i \in 1 .. Len(s) |-> one(s[i])]
             /\ PrintedEach(s) \in Flattable /\ Len(PrintedEach(s)) = Len(s)
  <2>1. Len(s) \in Nat /\ DOMAIN s = 1 .. Len(s) /\ \A i \in 1 .. Len(s) : s[i] \in Elements
    OBVIOUS
  <2>2. PrintedEach(s) = [i \in 1 .. Len(s) |-> one(s[i])]
    BY <2>1 DEF PrintedEach
  <2> HIDE DEF one
  <2>3. \A i \in 1 .. Len(s) : PrintedEach(s)[i] \in Seq(Elements)
    BY <1>1, <2>1, <2>2
  <2>4. PrintedEach(s) = [i \in 1 .. Len(s) |-> PrintedEach(s)[i]]
    BY <2>2
  <2> QED  BY <2>1, <2>2, <2>3, <2>4, IsFlattable
<1> HIDE DEF one
<1>3. a \o b \in Seq(Elements) /\ Len(a \o b) = Len(a) + Len(b)
      /\ \A i \in 1 .. Len(a) + Len(b) :
           (a \o b)[i] = IF i <= Len(a) THEN a[i] ELSE b[i - Len(a)]
  BY ConcatProperties
<1>4. PrintedEach(a) \o PrintedEach(b) = PrintedEach(a \o b)
  <2> DEFINE p == PrintedEach(a)
             q == PrintedEach(b)
             r == PrintedEach(a \o b)
  <2>1. /\ p = [i \in 1 .. Len(a) |-> one(a[i])] /\ p \in Flattable /\ Len(p) = Len(a)
        /\ q = [i \in 1 .. Len(b) |-> one(b[i])] /\ q \in Flattable /\ Len(q) = Len(b)
        /\ r = [i \in 1 .. Len(a) + Len(b) |-> one((a \o b)[i])] /\ r \in Flattable
        /\ Len(r) = Len(a) + Len(b)
    BY <1>2, <1>3
  <2> HIDE DEF p, q, r
  <2>2. Len(a) \in Nat /\ Len(b) \in Nat
    OBVIOUS
  <2>3. p \o q \in Flattable /\ Len(p \o q) = Len(p) + Len(q)
        /\ \A i \in 1 .. Len(p) + Len(q) :
             (p \o q)[i] = IF i <= Len(p) THEN p[i] ELSE q[i - Len(p)]
    BY <2>1, ConcatProperties DEF Flattable
  <2>4. ASSUME NEW i \in 1 .. Len(a) + Len(b) PROVE (p \o q)[i] = r[i]
    <3>1. CASE i <= Len(a)
      <4>1. i \in 1 .. Len(a)
        BY <2>2, <3>1
      <4> QED  BY <1>3, <2>1, <2>3, <3>1, <4>1
    <3>2. CASE ~(i <= Len(a))
      <4>1. i - Len(a) \in 1 .. Len(b)
        BY <2>2, <3>2
      <4> QED  BY <1>3, <2>1, <2>3, <3>2, <4>1
    <3> QED  BY <3>1, <3>2
  <2>5. p \o q = r
    BY <2>1, <2>3, <2>4, SeqEqual DEF Flattable
  <2> QED  BY <2>5 DEF p, q, r
<1> QED  BY <1>2, <1>4

(***************************************************************************)
(* What is printed of two sequences is printed one after the other.        *)
(***************************************************************************)
LEMMA PrintedConcat ==
  ASSUME NEW a \in Seq(Elements), NEW b \in Seq(Elements)
  PROVE  /\ Printed(a) \in Seq(Elements)
         /\ Printed(a \o b) = Printed(a) \o Printed(b)
<1>1. \A s : Printed(s) = FlattenSeq(PrintedEach(s))
  BY DEF Printed, PrintedEach
<1>2. PrintedEach(a) \in Flattable /\ PrintedEach(b) \in Flattable
      /\ PrintedEach(a \o b) = PrintedEach(a) \o PrintedEach(b)
  BY PrintedEachProperties
<1>3. FlattenSeq(PrintedEach(a)) \in Seq(Elements)
  BY <1>2, FlattenProperties
<1>4. FlattenSeq(PrintedEach(a) \o PrintedEach(b))
        = FlattenSeq(PrintedEach(a)) \o FlattenSeq(PrintedEach(b))
  BY <1>2, FlattenConcat
<1> QED  BY <1>1, <1>2, <1>3, <1>4

(***************************************************************************)
(* One record is printed, unless it has no address.                        *)
(***************************************************************************)
LEMMA PrintedOne ==
  /\ Printed(<<>>) = <<>>
  /\ \A x \in Elements : Printed(<<x>>) = IF x = 0 THEN <<>> ELSE <<x>>
<1>1. FlattenSeq(<<>>) = <<>>
  BY EmptySeq DEF FlattenSeq
<1>2. Printed(<<>>) = <<>>
  <2>1. [i \in DOMAIN <<>> |-> IF <<>>[i] = 0 THEN <<>> ELSE << <<>>[i] >>] = <<>>
    OBVIOUS
  <2> QED  BY <1>1, <2>1 DEF Printed
<1>3. ASSUME NEW x \in Elements PROVE Printed(<<x>>) = IF x = 0 THEN <<>> ELSE <<x>>
  <2> DEFINE s == IF x = 0 THEN <<>> ELSE <<x>>
  <2>1. s \in Seq(Elements)
    BY ShortSeqs
  <2>2. Printed(<<x>>) = FlattenSeq(<<s>>)
    BY DEF Printed
  <2> HIDE DEF s
  <2>3. <<>> \in Flattable /\ Append(<<>>, s) = <<s>>
    BY <2>1 DEF Flattable
  <2>4. FlattenSeq(Append(<<>>, s)) = FlattenSeq(<<>>) \o s
    BY <2>1, <2>3, FlattenProperties
  <2>5. <<>> \o s = s
    BY <2>1, ConcatEmptySeq
  <2> QED  BY <1>1, <2>2, <2>3, <2>4, <2>5 DEF s
<1> QED  BY <1>2, <1>3

-----------------------------------------------------------------------------
(***************************************************************************)
(* The records of an instruction are addresses.                            *)
(***************************************************************************)
LEMMA RecordsOfInstruction ==
  ASSUME NEW ins \in Instructions
  PROVE  MEMREFs(ins) \in Seq(Elements) /\ StandardMEMREFs(ins) \in Seq(Elements)
<1> DEFINE m == ins.memOps
           refs(op) == (IF op.read THEN <<op.ea>> ELSE <<>>)
                         \o (IF op.written THEN <<op.ea>> ELSE <<>>)
           f == [i \in DOMAIN m |-> refs(m[i])]
<1>1. m \in Seq(MemOps)
  BY DEF Instructions
<1>2. \A op \in MemOps : refs(op) \in Seq(Elements)
  <2> SUFFICES ASSUME NEW op \in MemOps PROVE refs(op) \in Seq(Elements)
    OBVIOUS
  <2>1. op.ea \in Elements
    BY DEF MemOps, Elements
  <2> DEFINE a == IF op.read THEN <<op.ea>> ELSE <<>>
             b == IF op.written THEN <<op.ea>> ELSE <<>>
  <2>2. a \in Seq(Elements) /\ b \in Seq(Elements)
    BY <2>1, ShortSeqs
  <2> HIDE DEF a, b
  <2>3. a \o b \in Seq(Elements)
    BY <2>2, ConcatProperties
  <2> QED  BY <2>3 DEF a, b
<1>3. MEMREFs(ins) = FlattenSeq(f)
  BY DEF MEMREFs
<1>4. f = [i \in 1 .. Len(m) |-> refs(m[i])] /\ Len(m) \in Nat
      /\ \A i \in 1 .. Len(m) : m[i] \in MemOps
  BY <1>1
<1> HIDE DEF m, refs, f
<1>5. f = [i \in 1 .. Len(m) |-> f[i]] /\ \A i \in 1 .. Len(m) : f[i] \in Seq(Elements)
  BY <1>2, <1>4
<1>6. f \in Flattable
  BY <1>4, <1>5, IsFlattable
<1>7. FlattenSeq(f) \in Seq(Elements)
  BY <1>6, FlattenProperties
<1> QED  BY <1>3, <1>7, ShortSeqs DEF StandardMEMREFs

(***************************************************************************)
(* The records of a sequence of instructions, of which buffer_linux writes *)
(* those it knows only (standard).                                         *)
(***************************************************************************)
Refs(standard, ins) == IF standard THEN StandardMEMREFs(ins) ELSE MEMREFs(ins)

RefsEach(standard, s) == [i \in DOMAIN s |-> Refs(standard, s[i])]

RefsOf(standard, s) == FlattenSeq(RefsEach(standard, s))

(***************************************************************************)
(* One instruction more adds its records.                                  *)
(***************************************************************************)
LEMMA RefsOfOneMore ==
  ASSUME NEW s \in Seq(Instructions), NEW ins \in Instructions, NEW standard \in BOOLEAN
  PROVE  /\ RefsOf(standard, s) \in Seq(Elements)
         /\ RefsOf(standard, Append(s, ins)) = RefsOf(standard, s) \o Refs(standard, ins)
         /\ Refs(standard, ins) \in Seq(Elements)
<1>1. \A i \in Instructions : Refs(standard, i) \in Seq(Elements)
  BY RecordsOfInstruction DEF Refs
<1> DEFINE f == RefsEach(standard, s)
           g == RefsEach(standard, Append(s, ins))
           r == Refs(standard, ins)
<1>2. Len(s) \in Nat /\ DOMAIN s = 1 .. Len(s) /\ \A i \in 1 .. Len(s) : s[i] \in Instructions
  OBVIOUS
<1>3. f = [i \in 1 .. Len(s) |-> Refs(standard, s[i])]
  BY <1>2 DEF RefsEach
<1>4. g = [i \in 1 .. Len(s) + 1 |-> Refs(standard, Append(s, ins)[i])]
  BY <1>2, AppendProperties DEF RefsEach
<1>5. Append(s, ins)[Len(s) + 1] = ins /\ \A i \in 1 .. Len(s) : Append(s, ins)[i] = s[i]
  BY AppendProperties
<1>6. r \in Seq(Elements)
  BY <1>1
<1>7. r = Refs(standard, ins)
  OBVIOUS
<1> HIDE DEF f, g, r
<1>8. f = [i \in 1 .. Len(s) |-> f[i]] /\ \A i \in 1 .. Len(s) : f[i] \in Seq(Elements)
  BY <1>1, <1>2, <1>3
<1>9. f \in Flattable /\ Len(f) = Len(s)
  BY <1>2, <1>8, IsFlattable
<1>20. PICK n \in Nat : n = Len(s)
  BY <1>2
<1>21. PICK k \in Nat : k = n + 1
  OBVIOUS
<1>10. n = Len(s) /\ k = n + 1
  BY <1>20, <1>21
<1>15. g = [i \in 1 .. k |-> g[i]] /\ g[k] = r /\ \A i \in 1 .. n : g[i] = f[i]
  <2>1. k \in 1 .. k /\ \A i \in 1 .. n : i \in 1 .. k
    BY <1>10
  <2> QED  BY <1>3, <1>4, <1>5, <1>7, <1>10, <2>1
<1>16. \A i \in 1 .. k : g[i] \in Seq(Elements)
  <2>1. \A i \in 1 .. k : i = k \/ i \in 1 .. n
    BY <1>10
  <2> QED  BY <1>6, <1>8, <1>10, <1>15, <2>1
<1>17. g \in Flattable /\ Len(g) = k
  BY <1>15, <1>16, IsFlattable
<1>11. FlattenSeq(g) = FlattenSeq(f) \o r /\ FlattenSeq(f) \in Seq(Elements)
  BY <1>6, <1>9, <1>10, <1>15, <1>17, FlattenOneMore
<1>12. RefsOf(standard, s) = FlattenSeq(f) /\ RefsOf(standard, Append(s, ins)) = FlattenSeq(g)
  BY DEF RefsOf, f, g
<1> QED  BY <1>6, <1>7, <1>10, <1>11, <1>12

-----------------------------------------------------------------------------
(***************************************************************************)
(* The lines of a file that thread t wrote.                                *)
(***************************************************************************)
Lines == [tid : THREADIDs, ea : Elements]

LinesEach(lines, t) == [i \in DOMAIN lines |-> IF lines[i].tid = t THEN <<lines[i].ea>> ELSE <<>>]

LinesIn(lines, t) == FlattenSeq(LinesEach(lines, t))

(***************************************************************************)
(* One line more is a line more of the thread that wrote it.               *)
(***************************************************************************)
LEMMA LinesInOneMore ==
  ASSUME NEW lines \in Seq(Lines), NEW line \in Lines, NEW t \in THREADIDs
  PROVE  /\ LinesIn(lines, t) \in Seq(Elements)
         /\ line.tid = t => LinesIn(Append(lines, line), t) = LinesIn(lines, t) \o <<line.ea>>
         /\ line.tid # t => LinesIn(Append(lines, line), t) = LinesIn(lines, t)
<1> DEFINE one(l) == IF l.tid = t THEN <<l.ea>> ELSE <<>>
           f == LinesEach(lines, t)
           g == LinesEach(Append(lines, line), t)
           r == one(line)
<1>1. \A l \in Lines : one(l) \in Seq(Elements)
  BY ShortSeqs DEF Lines
<1>2. Len(lines) \in Nat /\ DOMAIN lines = 1 .. Len(lines)
      /\ \A i \in 1 .. Len(lines) : lines[i] \in Lines
  OBVIOUS
<1>3. f = [i \in 1 .. Len(lines) |-> one(lines[i])]
  BY <1>2 DEF LinesEach
<1>4. g = [i \in 1 .. Len(lines) + 1 |-> one(Append(lines, line)[i])]
  BY <1>2, AppendProperties DEF LinesEach
<1>5. Append(lines, line)[Len(lines) + 1] = line
      /\ \A i \in 1 .. Len(lines) : Append(lines, line)[i] = lines[i]
  BY AppendProperties
<1>6. r \in Seq(Elements)
  BY <1>1
<1>7. r = one(line)
  OBVIOUS
<1> HIDE DEF f, g, r, one
<1>8. f = [i \in 1 .. Len(lines) |-> f[i]] /\ \A i \in 1 .. Len(lines) : f[i] \in Seq(Elements)
  BY <1>1, <1>2, <1>3
<1>9. f \in Flattable /\ Len(f) = Len(lines)
  BY <1>2, <1>8, IsFlattable
<1>20. PICK n \in Nat : n = Len(lines)
  BY <1>2
<1>21. PICK k \in Nat : k = n + 1
  OBVIOUS
<1>10. n = Len(lines) /\ k = n + 1
  BY <1>20, <1>21
<1>15. g = [i \in 1 .. k |-> g[i]] /\ g[k] = r /\ \A i \in 1 .. n : g[i] = f[i]
  <2>1. k \in 1 .. k /\ \A i \in 1 .. n : i \in 1 .. k
    BY <1>10
  <2> QED  BY <1>3, <1>4, <1>5, <1>7, <1>10, <2>1
<1>16. \A i \in 1 .. k : g[i] \in Seq(Elements)
  <2>1. \A i \in 1 .. k : i = k \/ i \in 1 .. n
    BY <1>10
  <2> QED  BY <1>6, <1>8, <1>10, <1>15, <2>1
<1>17. g \in Flattable /\ Len(g) = k
  BY <1>15, <1>16, IsFlattable
<1>11. FlattenSeq(g) = FlattenSeq(f) \o r /\ FlattenSeq(f) \in Seq(Elements)
  BY <1>6, <1>9, <1>10, <1>15, <1>17, FlattenOneMore
<1>12. LinesIn(lines, t) = FlattenSeq(f) /\ LinesIn(Append(lines, line), t) = FlattenSeq(g)
  BY DEF LinesIn, f, g
<1>13. FlattenSeq(f) \o <<>> = FlattenSeq(f)
  BY <1>11, ConcatEmptySeq
<1>14. (line.tid = t => r = <<line.ea>>) /\ (line.tid # t => r = <<>>)
  BY <1>7 DEF one
<1> QED  BY <1>6, <1>10, <1>11, <1>12, <1>13, <1>14

-----------------------------------------------------------------------------
(***************************************************************************)
(* buffer_linux: the buffer and the file of a thread, and all they hold.   *)
(***************************************************************************)
Logs == [buffer : Seq(Elements), file : Seq(Elements)]

HasRoom(log) == log \in Logs /\ Len(log.buffer) < BufferSize

AllOf(log) == log.file \o Printed(log.buffer)

(***************************************************************************)
(* BufferFull empties the buffer into the file.                            *)
(***************************************************************************)
LEMMA DumpKeepsAll ==
  ASSUME NEW log \in Logs, NEW new, new = DumpBufferToFile(log)
  PROVE  /\ HasRoom(new) /\ new.buffer = <<>> /\ new.file = AllOf(log)
         /\ AllOf(new) = AllOf(log) /\ AllOf(log) \in Seq(Elements)
<1>1. log.buffer \in Seq(Elements) /\ log.file \in Seq(Elements)
  BY DEF Logs
<1>2. Printed(log.buffer) \in Seq(Elements)
  BY <1>1, PrintedConcat
<1>3. AllOf(log) \in Seq(Elements)
  BY <1>1, <1>2, ConcatProperties DEF AllOf
<1>4. new = [buffer |-> <<>>, file |-> AllOf(log)]
  BY DEF DumpBufferToFile, AllOf
<1>5. HasRoom(new) /\ new.buffer = <<>> /\ new.file = AllOf(log)
  BY <1>3, <1>4, ThreadSuiteAssumption, ShortSeqs DEF HasRoom, Logs
<1>6. AllOf(new) = new.file \o <<>>
  BY <1>5, PrintedOne DEF AllOf
<1>7. AllOf(log) \o <<>> = AllOf(log)
  BY <1>3, ConcatEmptySeq
<1> QED  BY <1>3, <1>5, <1>6, <1>7

(***************************************************************************)
(* A record that Pin puts into the buffer is the last of all.              *)
(***************************************************************************)
LEMMA FillKeepsAll ==
  ASSUME NEW log, HasRoom(log), NEW ea \in Elements, NEW new, new = FillBuffer(log, ea)
  PROVE  HasRoom(new) /\ AllOf(new) = AllOf(log) \o Printed(<<ea>>)
<1> DEFINE filled == [log EXCEPT !.buffer = Append(@, ea)]
<1>1. log \in Logs /\ log.buffer \in Seq(Elements) /\ log.file \in Seq(Elements)
      /\ Len(log.buffer) < BufferSize /\ Len(log.buffer) \in Nat
  BY DEF Logs, HasRoom
<1>2. /\ Append(log.buffer, ea) = log.buffer \o <<ea>>
      /\ Append(log.buffer, ea) \in Seq(Elements)
      /\ Len(Append(log.buffer, ea)) = Len(log.buffer) + 1
  BY <1>1, AppendIsConcat, AppendProperties
<1>3. filled \in Logs /\ filled.buffer = Append(log.buffer, ea) /\ filled.file = log.file
  BY <1>1, <1>2 DEF Logs
<1>4. new = IF Len(filled.buffer) = BufferSize THEN DumpBufferToFile(filled) ELSE filled
  BY DEF FillBuffer
<1> HIDE DEF filled
<1>5. AllOf(filled) = AllOf(log) \o Printed(<<ea>>)
  <2>1. <<ea>> \in Seq(Elements)
    BY ShortSeqs
  <2> DEFINE p == Printed(log.buffer)
             q == Printed(<<ea>>)
  <2>2. p \in Seq(Elements) /\ q \in Seq(Elements)
    BY <1>1, <2>1, PrintedConcat
  <2>3. Printed(log.buffer \o <<ea>>) = p \o q
    BY <1>1, <2>1, PrintedConcat
  <2> HIDE DEF p, q
  <2>4. (log.file \o p) \o q = log.file \o (p \o q)
    BY <1>1, <2>2, Concat3
  <2> QED  BY <1>2, <1>3, <2>3, <2>4 DEF AllOf, p, q
<1>6. CASE Len(filled.buffer) = BufferSize
  <2>1. new = DumpBufferToFile(filled)
    BY <1>4, <1>6
  <2> QED  BY <1>3, <1>5, <2>1, DumpKeepsAll
<1>7. CASE Len(filled.buffer) # BufferSize
  <2>1. new = filled
    BY <1>4, <1>7
  <2>2. HasRoom(filled)
    BY <1>1, <1>2, <1>3, <1>7, ThreadSuiteAssumption DEF HasRoom
  <2> QED  BY <1>5, <2>1, <2>2
<1> QED  BY <1>6, <1>7

-----------------------------------------------------------------------------
(***************************************************************************)
(* The fold of the community modules goes through the records r by sets of *)
(* their positions: the greatest position comes last.                      *)
(***************************************************************************)
FoldStep(h, log, r, s) ==
  IF s = {} THEN log ELSE FillBuffer(h[s \ {Max(s)}], r[Max(s)])

Folds(h, log, r, n) == h = [s \in SUBSET (1 .. n) |-> FoldStep(h, log, r, s)]

(***************************************************************************)
(* The greatest number of a set.                                           *)
(***************************************************************************)
LEMMA MaxIs ==
  ASSUME NEW n \in Nat, NEW s \in SUBSET (1 .. n), n \in s
  PROVE  Max(s) = n
<1>1. \A y \in s : n >= y
  OBVIOUS
<1>2. \A x \in s : (\A y \in s : x >= y) => x = n
  OBVIOUS
<1> QED  BY <1>1, <1>2 DEF Max

(***************************************************************************)
(* A fold for one position more.                                           *)
(***************************************************************************)
LEMMA FoldsExtended ==
  ASSUME NEW log, NEW r, NEW n \in Nat, NEW k \in Nat, k = n + 1, NEW h, Folds(h, log, r, n)
  PROVE  \E g : Folds(g, log, r, k)
<1> DEFINE g == [s \in SUBSET (1 .. k) |->
                   IF k \in s THEN FillBuffer(h[s \ {k}], r[k]) ELSE h[s]]
<1>1. \A s \in SUBSET (1 .. n) : h[s] = FoldStep(h, log, r, s)
  BY DEF Folds
<1>2. \A s \in SUBSET (1 .. k) : k \notin s => s \in SUBSET (1 .. n)
  OBVIOUS
<1>3. \A s \in SUBSET (1 .. k) : s \ {k} \in SUBSET (1 .. n)
  OBVIOUS
<1>4. \A s \in SUBSET (1 .. n) : s \in SUBSET (1 .. k) /\ k \notin s
  OBVIOUS
<1>5. \A s \in SUBSET (1 .. n) : g[s] = h[s]
  BY <1>4
<1>6. \A s \in SUBSET (1 .. k) : k \in s => g[s] = FillBuffer(h[s \ {k}], r[k])
  OBVIOUS
<1>7. g = [s \in SUBSET (1 .. k) |-> g[s]]
  OBVIOUS
<1> HIDE DEF g
<1>8. ASSUME NEW s \in SUBSET (1 .. k) PROVE g[s] = FoldStep(g, log, r, s)
  <2>1. CASE k \in s
    <3>1. Max(s) = k /\ s # {}
      BY <2>1, MaxIs
    <3>2. g[s \ {k}] = h[s \ {k}]
      BY <1>3, <1>5
    <3>3. FoldStep(g, log, r, s) = FillBuffer(g[s \ {k}], r[k])
      BY <3>1 DEF FoldStep
    <3> QED  BY <1>6, <2>1, <3>2, <3>3
  <2>2. CASE k \notin s
    <3>1. s \in SUBSET (1 .. n) /\ s \ {Max(s)} \in SUBSET (1 .. n)
      BY <1>2, <2>2
    <3>2. g[s] = h[s] /\ g[s \ {Max(s)}] = h[s \ {Max(s)}]
      BY <1>5, <3>1
    <3>3. FoldStep(g, log, r, s) = FoldStep(h, log, r, s)
      BY <3>2 DEF FoldStep
    <3> QED  BY <1>1, <3>1, <3>2, <3>3
  <2> QED  BY <2>1, <2>2
<1>9. Folds(g, log, r, k)
  BY <1>7, <1>8 DEF Folds
<1> QED  BY <1>9

(***************************************************************************)
(* Hence there is one for every number of positions.                       *)
(***************************************************************************)
LEMMA FoldsExists ==
  ASSUME NEW log, NEW r, NEW n \in Nat
  PROVE  \E h : Folds(h, log, r, n)
<1> DEFINE T == {m \in Nat : ~ \E h : Folds(h, log, r, m)}
<1>1. ASSUME T # {} PROVE FALSE
  <2> T \in SUBSET Nat
    OBVIOUS
  <2>1. PICK m \in T : \A j \in T : m <= j
    <3> HIDE DEF T
    <3> QED  BY <1>1, LeastNumber
  <2>2. m # 0
    <3> DEFINE h == [s \in SUBSET (1 .. 0) |-> log]
    <3>1. \A s \in SUBSET (1 .. 0) : s = {}
      OBVIOUS
    <3>2. \A s \in SUBSET (1 .. 0) : FoldStep(h, log, r, s) = log
      BY <3>1 DEF FoldStep
    <3>3. Folds(h, log, r, 0)
      BY <3>2 DEF Folds
    <3> QED  BY <2>1, <3>3
  <2>3. m - 1 \in Nat /\ ~(m <= m - 1) /\ m \in Nat /\ m = (m - 1) + 1
    BY <2>2
  <2>4. PICK h : Folds(h, log, r, m - 1)
    BY <2>1, <2>3
  <2>5. \E g : Folds(g, log, r, m)
    BY <2>3, <2>4, FoldsExtended
  <2> QED  BY <2>1, <2>5
<1> QED  BY <1>1

(***************************************************************************)
(* All that the buffer and the file hold after the records of an           *)
(* instruction: what they held, and the records.                           *)
(***************************************************************************)
LEMMA FoldKeepsAll ==
  ASSUME NEW log, HasRoom(log), NEW r \in Seq(Elements),
         NEW new, new = FoldLeft(FillBuffer, log, r)
  PROVE  HasRoom(new) /\ AllOf(new) = AllOf(log) \o Printed(r)
<1>1. PICK n \in Nat : n = Len(r) /\ DOMAIN r = 1 .. n /\ \A i \in 1 .. n : r[i] \in Elements
  OBVIOUS
<1> DEFINE h == CHOOSE f : Folds(f, log, r, n)
<1>2. Folds(h, log, r, n)
  BY FoldsExists
<1>3. new = h[1 .. n]
  BY <1>1 DEF FoldLeft, MapThenFoldSet, Folds, FoldStep
<1> HIDE DEF h
<1>4. \A s \in SUBSET (1 .. n) : h[s] = FoldStep(h, log, r, s)
  BY <1>2 DEF Folds
<1> DEFINE p(k) == SubSeq(r, 1, k)
           Good(k) == HasRoom(h[1 .. k]) /\ AllOf(h[1 .. k]) = AllOf(log) \o Printed(p(k))
           T == {k \in 0 .. n : ~Good(k)}
<1>5. AllOf(log) \in Seq(Elements)
  BY DumpKeepsAll DEF HasRoom
<1>6. Good(0)
  <2>1. 1 .. 0 = {} /\ p(0) = <<>>
    BY SubSeqEmpty
  <2>2. h[1 .. 0] = log
    BY <1>4, <2>1 DEF FoldStep
  <2>3. Printed(p(0)) = <<>> /\ AllOf(log) \o <<>> = AllOf(log)
    BY <1>5, <2>1, PrintedOne, ConcatEmptySeq
  <2> QED  BY <2>2, <2>3
<1>7. ASSUME NEW k \in 1 .. n, NEW j \in 0 .. n, j = k - 1, Good(j) PROVE Good(k)
  <2>1. /\ (1 .. k) \in SUBSET (1 .. n) /\ 1 .. k # {} /\ k \in 1 .. k
        /\ (1 .. k) \ {k} = 1 .. j
    <3>1. k \in 1 .. k /\ \A i \in 1 .. k : i \in 1 .. n
      OBVIOUS
    <3>2. \A i \in 1 .. k : i # k <=> i \in 1 .. j
      BY <1>7
    <3>3. \A i \in 1 .. j : i \in 1 .. k
      BY <1>7
    <3> QED  BY <3>1, <3>2, <3>3
  <2>2. Max(1 .. k) = k
    BY <2>1, MaxIs
  <2>3. h[1 .. k] = FillBuffer(h[1 .. j], r[k])
    BY <1>4, <2>1, <2>2 DEF FoldStep
  <2>4. r[k] \in Elements
    BY <1>1
  <2>5. HasRoom(h[1 .. k]) /\ AllOf(h[1 .. k]) = AllOf(h[1 .. j]) \o Printed(<<r[k]>>)
    BY <1>7, <2>3, <2>4, FillKeepsAll
  <2>6. p(k) = p(j) \o <<r[k]>> /\ p(j) \in Seq(Elements)
    <3>1. 1 \in 1 .. Len(r) /\ k \in 1 .. Len(r)
      BY <1>1
    <3>2. p(k) = SubSeq(r, 1, k - 1) \o <<r[k]>>
      BY <3>1, SubSeqRecursiveSecond
    <3>3. p(j) \in Seq(Elements)
      BY <1>1, SubSeqProperties
    <3> QED  BY <1>7, <3>2, <3>3
  <2> DEFINE one == <<r[k]>>
             a == p(j)
             before == AllOf(log)
  <2>7. one \in Seq(Elements)
    BY <2>4, ShortSeqs
  <2>8. Printed(p(k)) = Printed(a) \o Printed(one) /\ Printed(a) \in Seq(Elements)
        /\ Printed(one) \in Seq(Elements)
    BY <2>6, <2>7, PrintedConcat
  <2>9. before \in Seq(Elements) /\ AllOf(h[1 .. j]) = before \o Printed(a)
    BY <1>5, <1>7
  <2>10. AllOf(h[1 .. k]) = (before \o Printed(a)) \o Printed(one)
    BY <2>5, <2>9
  <2> HIDE DEF one, a, before
  <2>11. (before \o Printed(a)) \o Printed(one) = before \o (Printed(a) \o Printed(one))
    BY <2>8, <2>9, Concat3
  <2> QED  BY <2>5, <2>8, <2>10, <2>11 DEF before
<1> HIDE DEF Good
<1>8. ASSUME T # {} PROVE FALSE
  <2> T \in SUBSET Nat
    OBVIOUS
  <2>1. PICK k \in T : \A j \in T : k <= j
    <3> HIDE DEF T
    <3> QED  BY <1>8, LeastNumber
  <2>2. k # 0
    BY <1>6, <2>1
  <2>3. k \in 1 .. n /\ k - 1 \in 0 .. n /\ ~(k <= k - 1)
    BY <2>1, <2>2
  <2>4. Good(k - 1)
    BY <2>1, <2>3
  <2> QED  BY <1>7, <2>1, <2>3, <2>4
<1>9. Good(n)
  BY <1>8
<1>10. p(n) = r
  BY <1>1, SubSeqFull
<1> QED  BY <1>3, <1>9, <1>10 DEF Good

-----------------------------------------------------------------------------
(***************************************************************************)
(* The program of a thread: bl are the blocks it entered, to what it has   *)
(* still to execute of the last.                                           *)
(***************************************************************************)
Done(bl, to) == SubSeq(FlattenSeq(bl), 1, Len(FlattenSeq(bl)) - Len(to))

ProgramOK(bl, to) ==
  /\ bl \in Flattable /\ to \in Seq(Instructions) /\ Done(bl, to) \in Seq(Instructions)
  /\ FlattenSeq(bl) = Done(bl, to) \o to

(***************************************************************************)
(* What comes before the rest of a sequence.                               *)
(***************************************************************************)
LEMMA BeforeRest ==
  ASSUME NEW a \in Seq(Instructions), NEW b \in Seq(Instructions), NEW s, s = a \o b
  PROVE  SubSeq(s, 1, Len(s) - Len(b)) = a /\ Len(s) = Len(a) + Len(b)
<1>1. /\ s \in Seq(Instructions) /\ Len(s) = Len(a) + Len(b)
      /\ \A i \in 1 .. Len(a) + Len(b) : s[i] = IF i <= Len(a) THEN a[i] ELSE b[i - Len(a)]
  BY ConcatProperties
<1>2. Len(a) \in Nat /\ Len(b) \in Nat
  OBVIOUS
<1>3. Len(s) - Len(b) = Len(a) /\ \A i \in 1 .. Len(a) : s[i] = a[i]
  BY <1>1, <1>2
<1>4. \A i \in 1 .. Len(a) : s[i] \in Instructions
  BY <1>3
<1>5. /\ SubSeq(s, 1, Len(a)) \in Seq(Instructions)
      /\ Len(SubSeq(s, 1, Len(a))) = Len(a)
      /\ \A i \in 1 .. Len(a) : SubSeq(s, 1, Len(a))[i] = s[i]
  <2>1. /\ SubSeq(s, 1, Len(a)) \in Seq(Instructions)
        /\ Len(SubSeq(s, 1, Len(a))) = IF 1 <= Len(a) THEN Len(a) - 1 + 1 ELSE 0
        /\ \A i \in 1 .. Len(a) - 1 + 1 : SubSeq(s, 1, Len(a))[i] = s[1 + i - 1]
    BY <1>2, <1>4, SubSeqProperties
  <2> QED  BY <1>2, <2>1
<1>6. SubSeq(s, 1, Len(a)) = a
  BY <1>3, <1>5, SeqEqual
<1> QED  BY <1>1, <1>3, <1>6

(***************************************************************************)
(* Entering a block executes nothing yet.                                  *)
(***************************************************************************)
LEMMA EnteringExecutesNothing ==
  ASSUME NEW bl, NEW bbl \in Blocks, ProgramOK(bl, <<>>), NEW new, new = Append(bl, bbl)
  PROVE  /\ ProgramOK(new, bbl) /\ Done(new, bbl) = Done(bl, <<>>)
         /\ Len(FlattenSeq(new)) = Len(FlattenSeq(bl)) + Len(bbl)
<1>1. bbl \in Seq(Instructions)
  BY ThreadSuiteAssumption
<1>2. bbl \in Seq(Elements)
  BY <1>1, SeqMonotonic DEF Elements
<1> DEFINE done == Done(bl, <<>>)
<1>3. bl \in Flattable /\ done \in Seq(Instructions) /\ FlattenSeq(bl) = done \o <<>>
  BY DEF ProgramOK
<1>4. new \in Flattable
  BY <1>2, <1>3, FlattableProperties
<1>5. FlattenSeq(new) = FlattenSeq(bl) \o bbl
  BY <1>2, <1>3, FlattenProperties
<1> HIDE DEF done
<1>6. done \o <<>> = done
  BY <1>3, ConcatEmptySeq
<1>7. FlattenSeq(new) = done \o bbl
  BY <1>3, <1>5, <1>6
<1>8. Done(new, bbl) = done /\ Len(FlattenSeq(new)) = Len(done) + Len(bbl)
  BY <1>1, <1>3, <1>7, BeforeRest DEF Done
<1>9. ProgramOK(new, bbl)
  BY <1>1, <1>3, <1>4, <1>7, <1>8 DEF ProgramOK
<1> QED  BY <1>3, <1>6, <1>8, <1>9 DEF done

(***************************************************************************)
(* An instruction executed is one more done.                               *)
(***************************************************************************)
LEMMA ExecutingDoesOneMore ==
  ASSUME NEW bl, NEW to, ProgramOK(bl, to), to # <<>>
  PROVE  /\ ProgramOK(bl, Tail(to)) /\ Head(to) \in Instructions
         /\ Done(bl, Tail(to)) = Append(Done(bl, to), Head(to))
<1> DEFINE done == Done(bl, to)
           ins == Head(to)
           rest == Tail(to)
           more == Append(done, ins)
<1>1. /\ bl \in Flattable /\ to \in Seq(Instructions) /\ done \in Seq(Instructions)
      /\ FlattenSeq(bl) = done \o to
  BY DEF ProgramOK
<1>2. ins \in Instructions /\ rest \in Seq(Instructions) /\ to = <<ins>> \o rest
  <2>1. ins \in Instructions /\ rest \in Seq(Instructions)
    BY <1>1, HeadTailProperties
  <2>2. to = <<ins>> \o rest
    BY <1>1
  <2> QED  BY <2>1, <2>2
<1>3. more = done \o <<ins>> /\ more \in Seq(Instructions)
  BY <1>1, <1>2, AppendIsConcat, AppendProperties
<1> HIDE DEF done, ins, rest, more
<1>4. (done \o <<ins>>) \o rest = done \o (<<ins>> \o rest)
  <2>1. <<ins>> \in Seq(Instructions)
    BY <1>2
  <2> QED  BY <1>1, <1>2, <2>1, ConcatAssociative
<1>5. FlattenSeq(bl) = more \o rest
  BY <1>1, <1>2, <1>3, <1>4
<1>6. Done(bl, rest) = more
  BY <1>2, <1>3, <1>5, BeforeRest DEF Done
<1>7. ProgramOK(bl, rest)
  BY <1>1, <1>2, <1>3, <1>5, <1>6 DEF ProgramOK
<1> QED  BY <1>2, <1>6, <1>7 DEF done, ins, rest, more

-----------------------------------------------------------------------------
(***************************************************************************)
(* Pin has filled the buffer with the records.                             *)
(***************************************************************************)
Filled(records, next, place, filled, rest) ==
  /\ filled = SubSeq(records, 1, IF Len(records) < BufferSize THEN Len(records)
                                                              ELSE BufferSize)
  /\ rest = SubSeq(records, BufferSize + 1, Len(records))
  /\ place = IF Len(filled) = BufferSize THEN "full" ELSE next

(***************************************************************************)
(* Pin fills the buffer of buffer_windows with as many of the records as   *)
(* there is room for.                                                      *)
(***************************************************************************)
LEMMA FillWindowsKeepsAll ==
  ASSUME NEW records \in Seq(Elements), NEW next, NEW place, NEW filled, NEW rest,
         Filled(records, next, place, filled, rest)
  PROVE  /\ filled \in Seq(Elements) /\ rest \in Seq(Elements) /\ filled \o rest = records
         /\ Len(filled) <= BufferSize
         /\ Len(filled) # BufferSize => Len(filled) < BufferSize /\ rest = <<>>
         /\ records = <<>> => filled = <<>> /\ rest = <<>>
<1>0. /\ filled = SubSeq(records, 1, IF Len(records) < BufferSize THEN Len(records)
                                                                   ELSE BufferSize)
      /\ rest = SubSeq(records, BufferSize + 1, Len(records))
  BY DEF Filled
<1>1. BufferSize \in Nat /\ BufferSize > 0 /\ Len(records) \in Nat
      /\ \A i \in 1 .. Len(records) : records[i] \in Elements
  BY ThreadSuiteAssumption
<1>2. CASE Len(records) < BufferSize
  <2>1. filled = records
    BY <1>0, <1>2, SubSeqFull
  <2>2. rest = <<>>
    BY <1>0, <1>1, <1>2, SubSeqEmpty
  <2>3. records \o <<>> = records /\ <<>> \in Seq(Elements)
    BY ConcatEmptySeq
  <2>4. Len(filled) < BufferSize /\ Len(filled) <= BufferSize
    BY <1>1, <1>2, <2>1
  <2>5. filled \o rest = records /\ filled \in Seq(Elements) /\ rest \in Seq(Elements)
    BY <2>1, <2>2, <2>3
  <2> QED  BY <2>1, <2>2, <2>4, <2>5
<1>3. CASE ~(Len(records) < BufferSize)
  <2>1. filled = SubSeq(records, 1, BufferSize)
    BY <1>0, <1>3
  <2>2. filled \in Seq(Elements) /\ Len(filled) = BufferSize
    <3>1. \A i \in 1 .. BufferSize : records[i] \in Elements
      BY <1>1, <1>3
    <3>2. filled \in Seq(Elements)
      BY <1>1, <2>1, <3>1, SubSeqProperties
    <3>3. Len(filled) = IF 1 <= BufferSize THEN BufferSize - 1 + 1 ELSE 0
      BY <1>1, <2>1, <3>1, SubSeqProperties
    <3> QED  BY <1>1, <3>2, <3>3
  <2>3. rest \in Seq(Elements)
    <3>1. \A i \in BufferSize + 1 .. Len(records) : records[i] \in Elements
      BY <1>1
    <3>2. BufferSize + 1 \in Int /\ Len(records) \in Int
      BY <1>1
    <3> QED  BY <1>0, <3>1, <3>2, SubSeqProperties
  <2>4. filled \o rest = records
    <3>1. 1 \in 1 .. Len(records) + 1 /\ BufferSize \in 1 - 1 .. Len(records)
          /\ Len(records) \in BufferSize .. Len(records)
      BY <1>1, <1>3
    <3>2. SubSeq(records, 1, BufferSize) \o SubSeq(records, BufferSize + 1, Len(records))
            = SubSeq(records, 1, Len(records))
      BY <3>1, ConcatAdjacentSubSeq
    <3> QED  BY <1>0, <2>1, <3>2, SubSeqFull
  <2>5. records # <<>>
    BY <1>1, <1>3
  <2>6. Len(filled) <= BufferSize
    BY <1>1, <2>2
  <2> QED  BY <2>2, <2>3, <2>4, <2>5, <2>6
<1> QED  BY <1>2, <1>3

-----------------------------------------------------------------------------
(***************************************************************************)
(* One thread: ph is its phase, bl and to its program, en whether it ends, *)
(* lg its log of buffer_linux, ln its lines in the file of buffer_windows, *)
(* bf and qu its buffer and what found no room in it.                      *)
(***************************************************************************)
LogOK(bl, to, lg) ==
  HasRoom(lg) /\ AllOf(lg) = Printed(RefsOf(TRUE, Done(bl, to)))

WindowsOK(bl, to, ln, bf, qu) ==
  (ln \o Printed(bf)) \o Printed(qu) = Printed(RefsOf(FALSE, Done(bl, to)))

BuffersOK(ph, bf, qu) ==
  /\ bf \in Seq(Elements) /\ qu \in Seq(Elements) /\ Len(bf) <= BufferSize
  /\ ph = "app" => Len(bf) < BufferSize /\ qu = <<>>

PlaceOK(ph, bl, to, en, lg, bf, qu) ==
  /\ ph = "outside" =>
       bl = <<>> /\ to = <<>> /\ lg.buffer = <<>> /\ bf = <<>> /\ qu = <<>>
  /\ ph \in {"outside", "app"} => ~en
  /\ en => to = <<>> /\ lg.buffer = <<>> /\ qu = <<>>
  /\ ph \in {"ended", "over"} => en /\ bf = <<>>

(***************************************************************************)
(* The records of what is done, and the lines of a thread, are sequences.  *)
(***************************************************************************)
LEMMA RecordsAreSeqs ==
  /\ \A s \in Seq(Instructions) : \A standard \in BOOLEAN :
       RefsOf(standard, s) \in Seq(Elements)
  /\ \A lines \in Seq(Lines) : \A t \in THREADIDs : LinesIn(lines, t) \in Seq(Elements)
<1> DEFINE nop == [standard |-> TRUE, memOps |-> <<>>]
<1>1. nop \in Instructions
  BY DEF Instructions
<1> HIDE DEF nop
<1>2. ASSUME NEW s \in Seq(Instructions), NEW standard \in BOOLEAN
      PROVE  RefsOf(standard, s) \in Seq(Elements)
  BY <1>1, RefsOfOneMore
<1>3. ASSUME NEW lines \in Seq(Lines), NEW t \in THREADIDs
      PROVE  LinesIn(lines, t) \in Seq(Elements)
  <2> DEFINE line == [tid |-> t, ea |-> 0]
  <2>1. line \in Lines
    BY DEF Lines, Elements
  <2> HIDE DEF line
  <2> QED  BY <2>1, LinesInOneMore
<1> QED  BY <1>2, <1>3

(***************************************************************************)
(* Of nothing there are no records and no lines.                           *)
(***************************************************************************)
LEMMA NothingRecorded ==
  /\ \A standard : RefsOf(standard, <<>>) = <<>>
  /\ \A t : LinesIn(<<>>, t) = <<>>
<1>1. FlattenSeq(<<>>) = <<>>
  BY EmptySeq DEF FlattenSeq
<1>2. \A standard : RefsEach(standard, <<>>) = <<>>
  BY DEF RefsEach
<1>3. \A t : LinesEach(<<>>, t) = <<>>
  BY DEF LinesEach
<1> QED  BY <1>1, <1>2, <1>3 DEF RefsOf, LinesIn

(***************************************************************************)
(* A thread that has done nothing.                                         *)
(***************************************************************************)
LEMMA NewThread ==
  /\ ProgramOK(<<>>, <<>>) /\ LogOK(<<>>, <<>>, [buffer |-> <<>>, file |-> <<>>])
  /\ WindowsOK(<<>>, <<>>, <<>>, <<>>, <<>>) /\ BuffersOK("outside", <<>>, <<>>)
<1>1. FlattenSeq(<<>>) = <<>> /\ <<>> \o <<>> = <<>> /\ Len(<<>>) = 0
      /\ <<>> \in Seq(Elements) /\ <<>> \in Seq(Instructions) /\ <<>> \in Flattable
  BY EmptySeq DEF FlattenSeq, Flattable
<1>2. Done(<<>>, <<>>) = <<>>
  <2>1. 1 \in Int /\ 0 - 0 \in Int /\ 0 - 0 < 1
    OBVIOUS
  <2>2. SubSeq(<<>>, 1, 0 - 0) = <<>>
    BY <2>1, SubSeqEmpty
  <2> QED  BY <1>1, <2>2 DEF Done
<1>3. ProgramOK(<<>>, <<>>)
  BY <1>1, <1>2 DEF ProgramOK
<1> DEFINE log == [buffer |-> <<>>, file |-> <<>>]
<1>4. Printed(RefsOf(TRUE, Done(<<>>, <<>>))) = <<>>
      /\ Printed(RefsOf(FALSE, Done(<<>>, <<>>))) = <<>> /\ Printed(<<>>) = <<>>
  BY <1>2, NothingRecorded, PrintedOne
<1>5. LogOK(<<>>, <<>>, log)
  <2>1. HasRoom(log)
    BY <1>1, ThreadSuiteAssumption DEF HasRoom, Logs
  <2>2. AllOf(log) = <<>>
    BY <1>1, <1>4 DEF AllOf
  <2> QED  BY <1>4, <2>1, <2>2 DEF LogOK
<1>6. WindowsOK(<<>>, <<>>, <<>>, <<>>, <<>>)
  BY <1>1, <1>4 DEF WindowsOK
<1>7. BuffersOK("outside", <<>>, <<>>)
  BY <1>1, ThreadSuiteAssumption DEF BuffersOK
<1> QED  BY <1>3, <1>5, <1>6, <1>7

-----------------------------------------------------------------------------
(***************************************************************************)
(* Executing an instruction: buffer_linux.                                 *)
(***************************************************************************)
LEMMA ExecutingKeepsLog ==
  ASSUME NEW bl, NEW to, ProgramOK(bl, to), to # <<>>, NEW lg, LogOK(bl, to, lg),
         NEW new, new = FoldLeft(FillBuffer, lg, StandardMEMREFs(Head(to)))
  PROVE  LogOK(bl, Tail(to), new)
<1> DEFINE done == Done(bl, to)
           ins == Head(to)
           r == StandardMEMREFs(ins)
           before == RefsOf(TRUE, done)
<1>1. ProgramOK(bl, Tail(to)) /\ ins \in Instructions /\ Done(bl, Tail(to)) = Append(done, ins)
  BY ExecutingDoesOneMore
<1>2. done \in Seq(Instructions)
  BY DEF ProgramOK
<1>3. HasRoom(lg) /\ AllOf(lg) = Printed(before)
  BY DEF LogOK
<1>4. new = FoldLeft(FillBuffer, lg, r) /\ r = Refs(TRUE, ins)
  BY DEF Refs
<1> HIDE DEF done, ins, r
<1>5. before \in Seq(Elements) /\ RefsOf(TRUE, Append(done, ins)) = before \o r
      /\ r \in Seq(Elements)
  BY <1>1, <1>2, <1>4, RefsOfOneMore
<1> HIDE DEF before
<1>6. HasRoom(new) /\ AllOf(new) = AllOf(lg) \o Printed(r)
  BY <1>3, <1>4, <1>5, FoldKeepsAll
<1>7. Printed(before \o r) = Printed(before) \o Printed(r)
  BY <1>5, PrintedConcat
<1> QED  BY <1>1, <1>3, <1>5, <1>6, <1>7 DEF LogOK

(***************************************************************************)
(* What is in the buffer and what found no room in it are together what    *)
(* was to be put there.                                                    *)
(***************************************************************************)
AllWindows(ln, bf, qu) == (ln \o Printed(bf)) \o Printed(qu)

LEMMA FilledHoldsAll ==
  ASSUME NEW ln \in Seq(Elements), NEW filled \in Seq(Elements), NEW rest \in Seq(Elements)
  PROVE  AllWindows(ln, filled, rest) = ln \o Printed(filled \o rest)
<1>1. Printed(filled) \in Seq(Elements) /\ Printed(rest) \in Seq(Elements)
      /\ Printed(filled \o rest) = Printed(filled) \o Printed(rest)
  BY PrintedConcat
<1>2. (ln \o Printed(filled)) \o Printed(rest) = ln \o (Printed(filled) \o Printed(rest))
  BY <1>1, Concat3
<1> QED  BY <1>1, <1>2 DEF AllWindows

(***************************************************************************)
(* Executing an instruction: buffer_windows.                               *)
(***************************************************************************)
LEMMA ExecutingKeepsWindows ==
  ASSUME NEW bl, NEW to, ProgramOK(bl, to), to # <<>>,
         NEW ln \in Seq(Elements), NEW bf \in Seq(Elements), WindowsOK(bl, to, ln, bf, <<>>),
         NEW filled \in Seq(Elements), NEW rest \in Seq(Elements),
         filled \o rest = bf \o MEMREFs(Head(to))
  PROVE  WindowsOK(bl, Tail(to), ln, filled, rest)
<1> DEFINE done == Done(bl, to)
           ins == Head(to)
           r == MEMREFs(ins)
           before == RefsOf(FALSE, done)
<1>1. ins \in Instructions /\ Done(bl, Tail(to)) = Append(done, ins)
  BY ExecutingDoesOneMore
<1>2. done \in Seq(Instructions)
  BY DEF ProgramOK
<1>3. (ln \o Printed(bf)) \o Printed(<<>>) = Printed(before)
  BY DEF WindowsOK
<1>4. filled \o rest = bf \o r /\ r = Refs(FALSE, ins)
  BY DEF Refs
<1> HIDE DEF done, ins, r
<1>5. before \in Seq(Elements) /\ RefsOf(FALSE, Append(done, ins)) = before \o r
      /\ r \in Seq(Elements)
  BY <1>1, <1>2, <1>4, RefsOfOneMore
<1> HIDE DEF before
<1>6. (ln \o Printed(filled)) \o Printed(rest) = ln \o Printed(bf \o r)
  <2>1. AllWindows(ln, filled, rest) = ln \o Printed(filled \o rest)
    BY FilledHoldsAll
  <2> QED  BY <1>4, <2>1 DEF AllWindows
<1>7. Printed(bf \o r) = Printed(bf) \o Printed(r)
      /\ Printed(bf) \in Seq(Elements) /\ Printed(r) \in Seq(Elements)
      /\ Printed(before \o r) = Printed(before) \o Printed(r)
  BY <1>5, PrintedConcat
<1>8. ln \o (Printed(bf) \o Printed(r)) = (ln \o Printed(bf)) \o Printed(r)
  BY <1>7, Concat3
<1>9. (ln \o Printed(bf)) \o Printed(<<>>) = ln \o Printed(bf)
  <2>1. ln \o Printed(bf) \in Seq(Elements)
    BY <1>7, ConcatProperties
  <2> QED  BY <2>1, PrintedOne, ConcatEmptySeq
<1> QED  BY <1>1, <1>3, <1>5, <1>6, <1>7, <1>8, <1>9 DEF WindowsOK

(***************************************************************************)
(* After BufferFull the buffer, now empty, is filled from the rest.        *)
(***************************************************************************)
LEMMA RefillingKeepsWindows ==
  ASSUME NEW bl, NEW to, NEW ln \in Seq(Elements), NEW qu \in Seq(Elements),
         WindowsOK(bl, to, ln, <<>>, qu),
         NEW filled \in Seq(Elements), NEW rest \in Seq(Elements), filled \o rest = qu
  PROVE  WindowsOK(bl, to, ln, filled, rest)
<1>1. (ln \o Printed(filled)) \o Printed(rest) = ln \o Printed(qu)
  <2>1. AllWindows(ln, filled, rest) = ln \o Printed(filled \o rest)
    BY FilledHoldsAll
  <2> QED  BY <2>1 DEF AllWindows
<1>2. ln \o Printed(<<>>) = ln
  BY PrintedOne, ConcatEmptySeq
<1> QED  BY <1>1, <1>2 DEF WindowsOK

(***************************************************************************)
(* A record moves from the buffer to the file, or is left out.             *)
(***************************************************************************)
LEMMA WritingKeepsWindows ==
  ASSUME NEW bl, NEW to, NEW ln \in Seq(Elements), NEW qu \in Seq(Elements),
         NEW bf \in Seq(Elements), bf # <<>>, WindowsOK(bl, to, ln, bf, qu),
         NEW new, new = IF Head(bf) = 0 THEN ln ELSE ln \o <<Head(bf)>>
  PROVE  WindowsOK(bl, to, new, Tail(bf), qu) /\ Head(bf) \in Elements
         /\ Tail(bf) \in Seq(Elements) /\ Len(Tail(bf)) < Len(bf)
<1> DEFINE ea == Head(bf)
           rest == Tail(bf)
           one == IF ea = 0 THEN <<>> ELSE <<ea>>
<1>1. ea \in Elements /\ rest \in Seq(Elements) /\ Len(rest) < Len(bf)
  BY HeadTailProperties
<1>2. bf = <<ea>> \o rest /\ <<ea>> \in Seq(Elements)
  BY <1>1
<1>3. new = IF ea = 0 THEN ln ELSE ln \o <<ea>>
  OBVIOUS
<1> HIDE DEF ea, rest
<1>4. Printed(<<ea>>) = one /\ Printed(bf) = Printed(<<ea>>) \o Printed(rest)
      /\ Printed(rest) \in Seq(Elements)
  BY <1>1, <1>2, PrintedOne, PrintedConcat
<1>5. new = ln \o one /\ one \in Seq(Elements)
  BY <1>2, <1>3, ConcatEmptySeq, ShortSeqs
<1> HIDE DEF one
<1>6. (ln \o one) \o Printed(rest) = ln \o (one \o Printed(rest))
  BY <1>4, <1>5, Concat3
<1>7. new \o Printed(rest) = ln \o Printed(bf)
  BY <1>4, <1>5, <1>6
<1>8. (ln \o Printed(bf)) \o Printed(qu) = Printed(RefsOf(FALSE, Done(bl, to)))
  BY DEF WindowsOK
<1>9. WindowsOK(bl, to, new, rest, qu)
  BY <1>7, <1>8 DEF WindowsOK
<1> QED  BY <1>1, <1>9 DEF ea, rest

-----------------------------------------------------------------------------
(***************************************************************************)
(* All of a thread but its lines, and each thing that may happen to it.    *)
(***************************************************************************)
ThreadOK(ph, bl, to, en, lg, bf, qu) ==
  /\ ProgramOK(bl, to) /\ LogOK(bl, to, lg)
  /\ BuffersOK(ph, bf, qu) /\ PlaceOK(ph, bl, to, en, lg, bf, qu)

(***************************************************************************)
(* Where the records are then, and the thread.                             *)
(***************************************************************************)
LEMMA FilledProperties ==
  ASSUME NEW records \in Seq(Elements), NEW next \in {"app", "ended"},
         NEW place, NEW filled, NEW rest, Filled(records, next, place, filled, rest)
  PROVE  /\ filled \in Seq(Elements) /\ rest \in Seq(Elements) /\ filled \o rest = records
         /\ BuffersOK(place, filled, rest)
         /\ place \in {"full", next} /\ (place = next => rest = <<>>)
         /\ records = <<>> => filled = <<>> /\ rest = <<>> /\ place = next
<1>1. /\ filled = SubSeq(records, 1, IF Len(records) < BufferSize THEN Len(records)
                                                              ELSE BufferSize)
      /\ rest = SubSeq(records, BufferSize + 1, Len(records))
      /\ place = IF Len(filled) = BufferSize THEN "full" ELSE next
  BY DEF Filled
<1>2. /\ filled \in Seq(Elements) /\ rest \in Seq(Elements) /\ filled \o rest = records
      /\ Len(filled) <= BufferSize
      /\ Len(filled) # BufferSize => Len(filled) < BufferSize /\ rest = <<>>
      /\ records = <<>> => filled = <<>> /\ rest = <<>>
  BY FillWindowsKeepsAll
<1>3. place \in {"full", next} /\ (place = next => rest = <<>>)
  BY <1>1, <1>2
<1>4. BuffersOK(place, filled, rest)
  BY <1>1, <1>2 DEF BuffersOK
<1>5. records = <<>> => place = next
  <2>1. Len(<<>>) = 0 /\ BufferSize # 0
    BY ThreadSuiteAssumption
  <2> QED  BY <1>1, <1>2, <2>1
<1> QED  BY <1>2, <1>3, <1>4, <1>5

(***************************************************************************)
(* A thread starts.                                                        *)
(***************************************************************************)
LEMMA Starting ==
  ASSUME NEW bl, NEW to, NEW en, NEW lg, NEW bf, NEW qu,
         ThreadOK("outside", bl, to, en, lg, bf, qu)
  PROVE  ThreadOK("app", bl, to, en, lg, bf, qu)
<1>1. BuffersOK("app", bf, qu)
  <2>1. bf = <<>> /\ qu = <<>> /\ Len(<<>>) = 0
    BY DEF ThreadOK, PlaceOK
  <2> QED  BY <2>1, ThreadSuiteAssumption DEF ThreadOK, BuffersOK
<1>2. PlaceOK("app", bl, to, en, lg, bf, qu)
  BY DEF ThreadOK, PlaceOK
<1> QED  BY <1>1, <1>2 DEF ThreadOK

(***************************************************************************)
(* A thread gets the lock, or ends.                                        *)
(***************************************************************************)
LEMMA Passing ==
  ASSUME NEW bl, NEW to, NEW en, NEW lg, NEW bf, NEW qu
  PROVE  /\ ThreadOK("full", bl, to, en, lg, bf, qu) => ThreadOK("write", bl, to, en, lg, bf, qu)
         /\ ThreadOK("ended", bl, to, en, lg, bf, qu) => ThreadOK("over", bl, to, en, lg, bf, qu)
BY DEF ThreadOK, PlaceOK, BuffersOK

(***************************************************************************)
(* A thread enters a block.                                                *)
(***************************************************************************)
Entered(bl, bbl, new) == new = Append(bl, bbl)

LEMMA Entering ==
  ASSUME NEW bl, NEW en, NEW lg, NEW bf, NEW qu, ThreadOK("app", bl, <<>>, en, lg, bf, qu),
         NEW bbl \in Blocks, NEW new, Entered(bl, bbl, new)
  PROVE  /\ ThreadOK("app", new, bbl, en, lg, bf, qu)
         /\ \A ln : WindowsOK(bl, <<>>, ln, bf, qu) => WindowsOK(new, bbl, ln, bf, qu)
         /\ Len(FlattenSeq(new)) = Len(FlattenSeq(bl)) + Len(bbl)
<1>1. /\ ProgramOK(new, bbl) /\ Done(new, bbl) = Done(bl, <<>>)
      /\ Len(FlattenSeq(new)) = Len(FlattenSeq(bl)) + Len(bbl)
  BY EnteringExecutesNothing DEF ThreadOK, Entered
<1>2. LogOK(new, bbl, lg)
  BY <1>1 DEF ThreadOK, LogOK
<1>3. PlaceOK("app", new, bbl, en, lg, bf, qu)
  BY DEF ThreadOK, PlaceOK
<1>4. \A ln : WindowsOK(bl, <<>>, ln, bf, qu) => WindowsOK(new, bbl, ln, bf, qu)
  BY <1>1 DEF WindowsOK
<1> QED  BY <1>1, <1>2, <1>3, <1>4 DEF ThreadOK

(***************************************************************************)
(* A thread executes an instruction.                                       *)
(***************************************************************************)
LEMMA Executing ==
  ASSUME NEW bl, NEW to, NEW en, NEW lg, NEW bf, NEW qu,
         ThreadOK("app", bl, to, en, lg, bf, qu), to # <<>>,
         NEW new, new = FoldLeft(FillBuffer, lg, StandardMEMREFs(Head(to))),
         NEW place, NEW filled, NEW rest,
         Filled(bf \o MEMREFs(Head(to)), "app", place, filled, rest)
  PROVE  /\ ThreadOK(place, bl, Tail(to), en, new, filled, rest)
         /\ \A ln \in Seq(Elements) :
              WindowsOK(bl, to, ln, bf, qu) => WindowsOK(bl, Tail(to), ln, filled, rest)
<1>1. ProgramOK(bl, to) /\ LogOK(bl, to, lg) /\ bf \in Seq(Elements) /\ qu = <<>> /\ ~en
  BY DEF ThreadOK, BuffersOK, PlaceOK
<1>2. ProgramOK(bl, Tail(to)) /\ Head(to) \in Instructions
  BY <1>1, ExecutingDoesOneMore
<1>3. LogOK(bl, Tail(to), new)
  BY <1>1, ExecutingKeepsLog
<1> DEFINE r == MEMREFs(Head(to))
           records == bf \o r
<1>4. r \in Seq(Elements)
  BY <1>2, RecordsOfInstruction
<1>5. records \in Seq(Elements)
  BY <1>1, <1>4, ConcatProperties
<1>6. Filled(records, "app", place, filled, rest)
  OBVIOUS
<1>7. records = bf \o MEMREFs(Head(to))
  OBVIOUS
<1> HIDE DEF records, r
<1>8. /\ filled \in Seq(Elements) /\ rest \in Seq(Elements) /\ filled \o rest = records
      /\ BuffersOK(place, filled, rest) /\ place \in {"full", "app"}
  BY <1>5, <1>6, FilledProperties
<1>9. PlaceOK(place, bl, Tail(to), en, new, filled, rest)
  BY <1>1, <1>8 DEF PlaceOK
<1>10. ASSUME NEW ln \in Seq(Elements), WindowsOK(bl, to, ln, bf, qu)
       PROVE  WindowsOK(bl, Tail(to), ln, filled, rest)
  <2>1. filled \o rest = bf \o MEMREFs(Head(to)) /\ WindowsOK(bl, to, ln, bf, <<>>)
    BY <1>1, <1>7, <1>8, <1>10
  <2> QED  BY <1>1, <1>8, <2>1, ExecutingKeepsWindows
<1> QED  BY <1>2, <1>3, <1>8, <1>9, <1>10 DEF ThreadOK

(***************************************************************************)
(* A thread leaves BufferFull.                                             *)
(***************************************************************************)
Refilled(en, qu, place, filled, rest) ==
  Filled(qu, IF en THEN "ended" ELSE "app", place, filled, rest)

LEMMA Refilling ==
  ASSUME NEW ph \in {"full", "write"}, NEW bl, NEW to, NEW en, NEW lg, NEW bf, NEW qu,
         ThreadOK(ph, bl, to, en, lg, bf, qu), NEW place, NEW filled, NEW rest,
         Refilled(en, qu, place, filled, rest)
  PROVE  /\ ThreadOK(place, bl, to, en, lg, filled, rest)
         /\ place \in {"full", "app", "ended"}
         /\ \A ln \in Seq(Elements) :
              WindowsOK(bl, to, ln, <<>>, qu) => WindowsOK(bl, to, ln, filled, rest)
<1> DEFINE next == IF en THEN "ended" ELSE "app"
<1>0. Filled(qu, next, place, filled, rest) /\ next \in {"app", "ended"}
  BY DEF Refilled
<1>5. next = IF en THEN "ended" ELSE "app"
  OBVIOUS
<1> HIDE DEF next
<1>1. ProgramOK(bl, to) /\ LogOK(bl, to, lg) /\ qu \in Seq(Elements)
      /\ (en => to = <<>> /\ lg.buffer = <<>> /\ qu = <<>>)
  BY DEF ThreadOK, BuffersOK, PlaceOK
<1>2. /\ filled \in Seq(Elements) /\ rest \in Seq(Elements) /\ filled \o rest = qu
      /\ BuffersOK(place, filled, rest) /\ place \in {"full", next}
      /\ qu = <<>> => filled = <<>> /\ rest = <<>> /\ place = next
  BY <1>0, <1>1, FilledProperties
<1>3. PlaceOK(place, bl, to, en, lg, filled, rest) /\ place \in {"full", "app", "ended"}
  <2>1. CASE en
    BY <1>1, <1>2, <1>5, <2>1 DEF PlaceOK
  <2>2. CASE ~en
    BY <1>2, <1>5, <2>2 DEF PlaceOK
  <2> QED  BY <2>1, <2>2
<1>4. \A ln \in Seq(Elements) :
        WindowsOK(bl, to, ln, <<>>, qu) => WindowsOK(bl, to, ln, filled, rest)
  BY <1>1, <1>2, RefillingKeepsWindows
<1> QED  BY <1>1, <1>2, <1>3, <1>4 DEF ThreadOK

(***************************************************************************)
(* A thread writes a record.                                               *)
(***************************************************************************)
LEMMA WritingRecord ==
  ASSUME NEW bl, NEW to, NEW en, NEW lg, NEW bf, NEW qu,
         ThreadOK("write", bl, to, en, lg, bf, qu), bf # <<>>,
         NEW ln \in Seq(Elements), NEW new, new = IF Head(bf) = 0 THEN ln ELSE ln \o <<Head(bf)>>
  PROVE  /\ ThreadOK("write", bl, to, en, lg, Tail(bf), qu)
         /\ WindowsOK(bl, to, ln, bf, qu) => WindowsOK(bl, to, new, Tail(bf), qu)
<1>1. bf \in Seq(Elements) /\ qu \in Seq(Elements) /\ Len(bf) <= BufferSize
  BY DEF ThreadOK, BuffersOK
<1>2. Tail(bf) \in Seq(Elements) /\ Len(Tail(bf)) <= BufferSize
  <2>1. Tail(bf) \in Seq(Elements) /\ Len(Tail(bf)) = Len(bf) - 1 /\ Len(bf) \in Nat
    BY <1>1, HeadTailProperties
  <2> QED  BY <1>1, <2>1, ThreadSuiteAssumption
<1>3. BuffersOK("write", Tail(bf), qu)
  BY <1>1, <1>2 DEF BuffersOK
<1>4. PlaceOK("write", bl, to, en, lg, Tail(bf), qu)
  BY DEF ThreadOK, PlaceOK
<1>5. WindowsOK(bl, to, ln, bf, qu) => WindowsOK(bl, to, new, Tail(bf), qu)
  BY <1>1, WritingKeepsWindows
<1> QED  BY <1>3, <1>4, <1>5 DEF ThreadOK

(***************************************************************************)
(* A thread is about to end.                                               *)
(***************************************************************************)
LEMMA Ending ==
  ASSUME NEW bl, NEW en, NEW lg, NEW bf, NEW qu, ThreadOK("app", bl, <<>>, en, lg, bf, qu),
         NEW new, new = DumpBufferToFile(lg)
  PROVE  ThreadOK("full", bl, <<>>, TRUE, new, bf, qu)
<1>1. lg \in Logs /\ AllOf(lg) = Printed(RefsOf(TRUE, Done(bl, <<>>))) /\ qu = <<>>
  BY DEF ThreadOK, LogOK, HasRoom, BuffersOK
<1>2. HasRoom(new) /\ new.buffer = <<>> /\ AllOf(new) = AllOf(lg)
  BY <1>1, DumpKeepsAll
<1>3. LogOK(bl, <<>>, new)
  BY <1>1, <1>2 DEF LogOK
<1>4. PlaceOK("full", bl, <<>>, TRUE, new, bf, qu)
  BY <1>1, <1>2 DEF PlaceOK
<1> QED  BY <1>3, <1>4 DEF ThreadOK, BuffersOK

-----------------------------------------------------------------------------
(***************************************************************************)
(* The invariant: the state has its shape, and every thread is all right.  *)
(***************************************************************************)
Places == {"outside", "app", "full", "write", "ended", "over"}

ShapeOK ==
  /\ phase \in [THREADIDs -> Places] /\ KnobDoWriteToOutputFile \in BOOLEAN
  /\ DOMAIN blocks = THREADIDs /\ DOMAIN todo = THREADIDs /\ DOMAIN ending = THREADIDs
  /\ DOMAIN mlog = THREADIDs /\ DOMAIN buf = THREADIDs /\ DOMAIN queue = THREADIDs
  /\ ofile \in Seq(Lines)

AllOK(t) ==
  ThreadOK(phase[t], blocks[t], todo[t], ending[t], mlog[t], buf[t], queue[t])

LinesOK(t) ==
  WindowsOK(blocks[t], todo[t], LinesIn(ofile, t), buf[t], queue[t])

ThreadsOK ==
  /\ ShapeOK
  /\ \A t \in THREADIDs : AllOK(t) /\ (KnobDoWriteToOutputFile => LinesOK(t))

(***************************************************************************)
(* A step leaves a thread alone.                                           *)
(***************************************************************************)
Alone(u) ==
  /\ phase'[u] = phase[u] /\ blocks'[u] = blocks[u] /\ todo'[u] = todo[u]
  /\ ending'[u] = ending[u] /\ mlog'[u] = mlog[u] /\ buf'[u] = buf[u]
  /\ queue'[u] = queue[u] /\ LinesIn(ofile', u) = LinesIn(ofile, u)

(***************************************************************************)
(* A step of thread t keeps the invariant if it leaves the others alone.   *)
(***************************************************************************)
LEMMA OneThread ==
  ASSUME ThreadsOK, ShapeOK', KnobDoWriteToOutputFile' = KnobDoWriteToOutputFile,
         NEW t \in THREADIDs, \A u \in THREADIDs : u # t => Alone(u),
         AllOK(t)', KnobDoWriteToOutputFile => LinesOK(t)'
  PROVE  ThreadsOK'
<1>1. ASSUME NEW u \in THREADIDs, Alone(u) PROVE AllOK(u)' /\ (KnobDoWriteToOutputFile => LinesOK(u)')
  <2>1. AllOK(u) /\ (KnobDoWriteToOutputFile => LinesOK(u))
    BY DEF ThreadsOK
  <2>2. AllOK(u)'
    BY <1>1, <2>1 DEF AllOK, Alone
  <2>3. KnobDoWriteToOutputFile => LinesOK(u)'
    BY <1>1, <2>1 DEF LinesOK, Alone
  <2> QED  BY <2>2, <2>3
<1>2. ASSUME NEW u \in THREADIDs PROVE AllOK(u)' /\ (KnobDoWriteToOutputFile => LinesOK(u)')
  BY <1>1
<1> QED  BY <1>2 DEF ThreadsOK

(***************************************************************************)
(* What the invariant says of one thread.                                  *)
(***************************************************************************)
LEMMA OfThread ==
  ASSUME ThreadsOK, NEW t \in THREADIDs
  PROVE  /\ ThreadOK(phase[t], blocks[t], todo[t], ending[t], mlog[t], buf[t], queue[t])
         /\ KnobDoWriteToOutputFile =>
              WindowsOK(blocks[t], todo[t], LinesIn(ofile, t), buf[t], queue[t])
         /\ LinesIn(ofile, t) \in Seq(Elements) /\ ofile \in Seq(Lines)
<1>1. AllOK(t) /\ (KnobDoWriteToOutputFile => LinesOK(t)) /\ ofile \in Seq(Lines)
  BY DEF ThreadsOK, ShapeOK
<1>2. LinesIn(ofile, t) \in Seq(Elements)
  BY <1>1, RecordsAreSeqs
<1> QED  BY <1>1, <1>2 DEF AllOK, LinesOK

(***************************************************************************)
(* FillWindows fills the buffer of thread t.                               *)
(***************************************************************************)
LEMMA FillWindowsFills ==
  ASSUME ShapeOK, NEW t \in THREADIDs, NEW records, NEW next \in Places,
         FillWindows(t, records, next)
  PROVE  /\ Filled(records, next, phase'[t], buf'[t], queue'[t])
         /\ \A u \in THREADIDs : u # t =>
              phase'[u] = phase[u] /\ buf'[u] = buf[u] /\ queue'[u] = queue[u]
         /\ phase' \in [THREADIDs -> Places] /\ DOMAIN buf' = THREADIDs
         /\ DOMAIN queue' = THREADIDs
BY DEF FillWindows, Filled, ShapeOK, Places

-----------------------------------------------------------------------------
(***************************************************************************)
(* A thread starts: of the three tools only inscount_tls does something.   *)
(***************************************************************************)
LEMMA ThreadStartKeeps ==
  ASSUME ThreadsOK, NEW t \in THREADIDs, ThreadStart(t)
  PROVE  ThreadsOK'
<1> USE DEF ThreadStart, programVars
<1>1. ShapeOK'
  BY DEF ThreadsOK, ShapeOK, Places
<1>2. phase[t] = "outside" /\ phase'[t] = "app"
  BY DEF ThreadsOK, ShapeOK
<1>3. AllOK(t)'
  <2>1. ThreadOK("app", blocks[t], todo[t], ending[t], mlog[t], buf[t], queue[t])
    BY <1>2, OfThread, Starting
  <2> QED  BY <1>2, <2>1 DEF AllOK
<1>4. KnobDoWriteToOutputFile => LinesOK(t)'
  BY DEF ThreadsOK, LinesOK
<1>5. \A u \in THREADIDs : u # t => Alone(u)
  BY DEF Alone, ThreadsOK, ShapeOK
<1> QED  BY <1>1, <1>3, <1>4, <1>5, OneThread

(***************************************************************************)
(* A thread gets the lock, or ThreadFini of inscount_tls is called.        *)
(***************************************************************************)
LEMMA PassingKeeps ==
  ASSUME ThreadsOK, NEW t \in THREADIDs, GetFileLock(t) \/ ThreadFini(t)
  PROVE  ThreadsOK'
<1> DEFINE place == IF phase[t] = "full" THEN "write" ELSE "over"
<1>1. /\ phase[t] \in {"full", "ended"} /\ phase' = [phase EXCEPT ![t] = place]
      /\ UNCHANGED <<programVars, KnobDoWriteToOutputFile, mlog, buf, queue, ofile>>
  BY DEF GetFileLock, ThreadFini, OtherTools
<1> USE DEF programVars
<1>2. ShapeOK'
  BY <1>1 DEF ThreadsOK, ShapeOK, Places
<1>3. phase'[t] = place
  BY <1>1 DEF ThreadsOK, ShapeOK
<1>4. AllOK(t)'
  <2>1. ThreadOK(place, blocks[t], todo[t], ending[t], mlog[t], buf[t], queue[t])
    BY <1>1, OfThread, Passing
  <2> QED  BY <1>1, <1>3, <2>1 DEF AllOK
<1>5. KnobDoWriteToOutputFile => LinesOK(t)'
  BY <1>1 DEF ThreadsOK, LinesOK
<1>6. \A u \in THREADIDs : u # t => Alone(u)
  BY <1>1 DEF Alone, ThreadsOK, ShapeOK
<1>7. KnobDoWriteToOutputFile' = KnobDoWriteToOutputFile
  BY <1>1
<1> QED  BY <1>2, <1>4, <1>5, <1>6, <1>7, OneThread

(***************************************************************************)
(* A thread enters a block.                                                *)
(***************************************************************************)
LEMMA EnterBlockKeeps ==
  ASSUME ThreadsOK, NEW t \in THREADIDs, NEW bbl \in Blocks, EnterBlock(t, bbl)
  PROVE  /\ ThreadsOK'
         /\ Len(FlattenSeq(blocks'[t])) = Len(FlattenSeq(blocks[t])) + Len(bbl)
         /\ \A u \in THREADIDs : u # t => blocks'[u] = blocks[u]
<1> USE DEF EnterBlock
<1>1. ShapeOK'
  BY DEF ThreadsOK, ShapeOK
<1>2. /\ phase'[t] = "app" /\ phase[t] = "app" /\ todo[t] = <<>> /\ todo'[t] = bbl
      /\ blocks'[t] = Append(blocks[t], bbl)
  BY DEF ThreadsOK, ShapeOK
<1>3. ThreadOK("app", blocks[t], <<>>, ending[t], mlog[t], buf[t], queue[t])
  BY <1>2, OfThread
<1> DEFINE new == blocks'[t]
<1>4. new = Append(blocks[t], bbl)
  BY <1>2
<1> HIDE DEF new
<1>5. /\ ThreadOK("app", new, bbl, ending[t], mlog[t], buf[t], queue[t])
      /\ \A ln : WindowsOK(blocks[t], <<>>, ln, buf[t], queue[t])
                   => WindowsOK(new, bbl, ln, buf[t], queue[t])
      /\ Len(FlattenSeq(new)) = Len(FlattenSeq(blocks[t])) + Len(bbl)
  <2>1. Entered(blocks[t], bbl, new)
    BY <1>4 DEF Entered
  <2> QED  BY <1>3, <2>1, Entering
<1>6. AllOK(t)'
  BY <1>2, <1>5 DEF AllOK, new
<1>7. KnobDoWriteToOutputFile => LinesOK(t)'
  <2>1. KnobDoWriteToOutputFile =>
          WindowsOK(blocks[t], <<>>, LinesIn(ofile, t), buf[t], queue[t])
    BY <1>2, OfThread
  <2>2. KnobDoWriteToOutputFile =>
          WindowsOK(new, bbl, LinesIn(ofile, t), buf[t], queue[t])
    BY <1>5, <2>1
  <2> QED  BY <1>2, <2>2 DEF LinesOK, new
<1>8. \A u \in THREADIDs : u # t => Alone(u)
  BY DEF Alone, ThreadsOK, ShapeOK
<1>9. ThreadsOK'
  BY <1>1, <1>6, <1>7, <1>8, OneThread
<1> QED  BY <1>5, <1>8, <1>9 DEF Alone, new

(***************************************************************************)
(* A thread executes an instruction.                                       *)
(***************************************************************************)
LEMMA ExecuteKeeps ==
  ASSUME ThreadsOK, NEW t \in THREADIDs, Execute(t)
  PROVE  ThreadsOK'
<1> DEFINE records == buf[t] \o MEMREFs(Head(todo[t]))
           new == FoldLeft(FillBuffer, mlog[t], StandardMEMREFs(Head(todo[t])))
<1>1. /\ phase[t] = "app" /\ todo[t] # <<>>
      /\ todo' = [todo EXCEPT ![t] = Tail(@)]
      /\ mlog' = [mlog EXCEPT ![t] = new]
      /\ FillWindows(t, records, "app")
      /\ UNCHANGED <<blocks, ending, KnobDoWriteToOutputFile, ofile>>
  BY DEF Execute
<1>2. ShapeOK /\ "app" \in Places
  BY DEF ThreadsOK, Places
<1> HIDE DEF records
<1>3. /\ Filled(records, "app", phase'[t], buf'[t], queue'[t])
      /\ \A u \in THREADIDs : u # t =>
           phase'[u] = phase[u] /\ buf'[u] = buf[u] /\ queue'[u] = queue[u]
      /\ phase' \in [THREADIDs -> Places] /\ DOMAIN buf' = THREADIDs
      /\ DOMAIN queue' = THREADIDs
  BY <1>1, <1>2, FillWindowsFills
<1>4. ThreadOK("app", blocks[t], todo[t], ending[t], mlog[t], buf[t], queue[t])
  BY <1>1, OfThread
<1>5. todo'[t] = Tail(todo[t]) /\ mlog'[t] = new
  BY <1>1, <1>2 DEF ShapeOK
<1> DEFINE log == mlog'[t]
           place == phase'[t]
           filled == buf'[t]
           rest == queue'[t]
<1>6. /\ log = FoldLeft(FillBuffer, mlog[t], StandardMEMREFs(Head(todo[t])))
      /\ Filled(buf[t] \o MEMREFs(Head(todo[t])), "app", place, filled, rest)
  BY <1>3, <1>5 DEF records
<1> HIDE DEF new, log, place, filled, rest
<1>7. /\ ThreadOK(place, blocks[t], Tail(todo[t]), ending[t], log, filled, rest)
      /\ \A ln \in Seq(Elements) :
           WindowsOK(blocks[t], todo[t], ln, buf[t], queue[t])
             => WindowsOK(blocks[t], Tail(todo[t]), ln, filled, rest)
  BY <1>1, <1>4, <1>6, Executing
<1>8. AllOK(t)'
  BY <1>1, <1>5, <1>7 DEF AllOK, log, place, filled, rest
<1>9. KnobDoWriteToOutputFile => LinesOK(t)'
  <2>1. KnobDoWriteToOutputFile =>
          WindowsOK(blocks[t], Tail(todo[t]), LinesIn(ofile, t), filled, rest)
    BY <1>7, OfThread
  <2> QED  BY <1>1, <1>5, <2>1 DEF LinesOK, filled, rest
<1>10. \A u \in THREADIDs : u # t => Alone(u)
  BY <1>1, <1>2, <1>3 DEF Alone, ShapeOK
<1>11. ShapeOK'
  BY <1>1, <1>2, <1>3 DEF ShapeOK
<1>12. KnobDoWriteToOutputFile' = KnobDoWriteToOutputFile
  BY <1>1
<1> QED  BY <1>8, <1>9, <1>10, <1>11, <1>12, OneThread

(***************************************************************************)
(* A thread leaves BufferFull.                                             *)
(***************************************************************************)
LEMMA AfterBufferFullKeeps ==
  ASSUME ThreadsOK, NEW t \in THREADIDs, ReleaseFileLock(t) \/ BufferFullWithoutEmit(t)
  PROVE  ThreadsOK' /\ phase'[t] \in {"full", "app", "ended"}
         /\ \A u \in THREADIDs : u # t => phase'[u] = phase[u]
<1> DEFINE next == IF ending[t] THEN "ended" ELSE "app"
<1>1. /\ phase[t] \in {"full", "write"} /\ (KnobDoWriteToOutputFile => buf[t] = <<>>)
      /\ FillWindows(t, queue[t], next)
      /\ UNCHANGED <<blocks, todo, ending, mlog, KnobDoWriteToOutputFile, ofile>>
  BY DEF ReleaseFileLock, BufferFullWithoutEmit, AfterBufferFull, programVars, OtherTools
<1>2. ShapeOK /\ next \in Places /\ next = IF ending[t] THEN "ended" ELSE "app"
  BY DEF ThreadsOK, Places
<1> HIDE DEF next
<1>3. /\ Filled(queue[t], next, phase'[t], buf'[t], queue'[t])
      /\ \A u \in THREADIDs : u # t =>
           phase'[u] = phase[u] /\ buf'[u] = buf[u] /\ queue'[u] = queue[u]
      /\ phase' \in [THREADIDs -> Places] /\ DOMAIN buf' = THREADIDs
      /\ DOMAIN queue' = THREADIDs
  BY <1>1, <1>2, FillWindowsFills
<1> DEFINE place == phase'[t]
           filled == buf'[t]
           rest == queue'[t]
<1>4. Filled(queue[t], next, place, filled, rest)
  BY <1>3
<1> HIDE DEF place, filled, rest
<1>5. PICK ph \in {"full", "write"} :
        ThreadOK(ph, blocks[t], todo[t], ending[t], mlog[t], buf[t], queue[t])
  BY <1>1, OfThread
<1>6. /\ ThreadOK(place, blocks[t], todo[t], ending[t], mlog[t], filled, rest)
      /\ place \in {"full", "app", "ended"}
      /\ \A ln \in Seq(Elements) :
           WindowsOK(blocks[t], todo[t], ln, <<>>, queue[t])
             => WindowsOK(blocks[t], todo[t], ln, filled, rest)
  <2>1. Refilled(ending[t], queue[t], place, filled, rest)
    BY <1>2, <1>4 DEF Refilled
  <2> QED  BY <1>5, <2>1, Refilling
<1>7. AllOK(t)'
  BY <1>1, <1>6 DEF AllOK, place, filled, rest
<1>8. KnobDoWriteToOutputFile => LinesOK(t)'
  <2>1. KnobDoWriteToOutputFile =>
          WindowsOK(blocks[t], todo[t], LinesIn(ofile, t), filled, rest)
    BY <1>1, <1>6, OfThread
  <2> QED  BY <1>1, <2>1 DEF LinesOK, filled, rest
<1>9. \A u \in THREADIDs : u # t => Alone(u)
  BY <1>1, <1>3 DEF Alone
<1>10. ShapeOK'
  BY <1>1, <1>2, <1>3 DEF ShapeOK
<1>11. KnobDoWriteToOutputFile' = KnobDoWriteToOutputFile
  BY <1>1
<1>12. ThreadsOK'
  BY <1>7, <1>8, <1>9, <1>10, <1>11, OneThread
<1> QED  BY <1>3, <1>6, <1>12 DEF place

(***************************************************************************)
(* A thread writes a record.                                               *)
(***************************************************************************)
LEMMA WriteRecordKeeps ==
  ASSUME ThreadsOK, NEW t \in THREADIDs, WriteRecord(t)
  PROVE  ThreadsOK'
<1> DEFINE ea == Head(buf[t])
           line == [tid |-> t, ea |-> ea]
<1>1. /\ phase[t] = "write" /\ buf[t] # <<>>
      /\ ofile' = IF ea = 0 THEN ofile ELSE Append(ofile, line)
      /\ buf' = [buf EXCEPT ![t] = Tail(@)]
      /\ UNCHANGED <<phase, blocks, todo, ending, mlog, KnobDoWriteToOutputFile, queue>>
  BY DEF WriteRecord, programVars, OtherTools
<1>2. ThreadOK("write", blocks[t], todo[t], ending[t], mlog[t], buf[t], queue[t])
      /\ LinesIn(ofile, t) \in Seq(Elements) /\ ofile \in Seq(Lines)
  BY <1>1, OfThread
<1>3. ea \in Elements
  <2>1. buf[t] \in Seq(Elements)
    BY <1>2 DEF ThreadOK, BuffersOK
  <2> QED  BY <1>1, <2>1, HeadTailProperties
<1>4. line \in Lines /\ line.tid = t /\ line.ea = ea
  BY <1>3 DEF Lines
<1>5. ea = Head(buf[t])
  OBVIOUS
<1> HIDE DEF ea, line
<1>6. ofile' \in Seq(Lines)
  BY <1>1, <1>2, <1>4, AppendProperties
<1>7. \A u \in THREADIDs : u # t => LinesIn(ofile', u) = LinesIn(ofile, u)
  <2> SUFFICES ASSUME NEW u \in THREADIDs, u # t
               PROVE  LinesIn(ofile', u) = LinesIn(ofile, u)
    OBVIOUS
  <2>1. LinesIn(Append(ofile, line), u) = LinesIn(ofile, u)
    BY <1>2, <1>4, LinesInOneMore
  <2> QED  BY <1>1, <2>1
<1>8. LinesIn(ofile', t) = IF ea = 0 THEN LinesIn(ofile, t) ELSE LinesIn(ofile, t) \o <<ea>>
  <2>1. LinesIn(Append(ofile, line), t) = LinesIn(ofile, t) \o <<ea>>
    BY <1>2, <1>4, LinesInOneMore
  <2> QED  BY <1>1, <2>1
<1> DEFINE ln == LinesIn(ofile, t)
           new == LinesIn(ofile', t)
<1>9. new = IF Head(buf[t]) = 0 THEN ln ELSE ln \o <<Head(buf[t])>>
  BY <1>5, <1>8
<1>10. ln \in Seq(Elements)
  BY <1>2
<1>11. KnobDoWriteToOutputFile => WindowsOK(blocks[t], todo[t], ln, buf[t], queue[t])
  BY OfThread
<1> HIDE DEF ln, new
<1>12. /\ ThreadOK("write", blocks[t], todo[t], ending[t], mlog[t], Tail(buf[t]), queue[t])
       /\ WindowsOK(blocks[t], todo[t], ln, buf[t], queue[t])
            => WindowsOK(blocks[t], todo[t], new, Tail(buf[t]), queue[t])
  BY <1>1, <1>2, <1>9, <1>10, WritingRecord
<1>13. buf'[t] = Tail(buf[t]) /\ phase'[t] = "write"
  BY <1>1 DEF ThreadsOK, ShapeOK
<1>14. AllOK(t)'
  BY <1>1, <1>12, <1>13 DEF AllOK
<1>15. KnobDoWriteToOutputFile => LinesOK(t)'
  BY <1>1, <1>11, <1>12, <1>13 DEF LinesOK, new
<1>16. \A u \in THREADIDs : u # t => Alone(u)
  BY <1>1, <1>7 DEF Alone, ThreadsOK, ShapeOK
<1>17. ShapeOK'
  BY <1>1, <1>6 DEF ThreadsOK, ShapeOK
<1>18. KnobDoWriteToOutputFile' = KnobDoWriteToOutputFile
  BY <1>1
<1> QED  BY <1>14, <1>15, <1>16, <1>17, <1>18, OneThread

(***************************************************************************)
(* A thread is about to end.                                               *)
(***************************************************************************)
LEMMA EndThreadKeeps ==
  ASSUME ThreadsOK, NEW t \in THREADIDs, EndThread(t)
  PROVE  ThreadsOK'
<1> USE DEF EndThread
<1>1. ShapeOK'
  BY DEF ThreadsOK, ShapeOK, Places
<1>2. /\ phase[t] = "app" /\ phase'[t] = "full" /\ todo[t] = <<>> /\ ending'[t] = TRUE
      /\ mlog'[t] = DumpBufferToFile(mlog[t])
  BY DEF ThreadsOK, ShapeOK
<1>3. ThreadOK("app", blocks[t], <<>>, ending[t], mlog[t], buf[t], queue[t])
  BY <1>2, OfThread
<1> DEFINE log == mlog'[t]
<1>4. log = DumpBufferToFile(mlog[t])
  BY <1>2
<1> HIDE DEF log
<1>5. ThreadOK("full", blocks[t], <<>>, TRUE, log, buf[t], queue[t])
  BY <1>3, <1>4, Ending
<1>6. AllOK(t)'
  BY <1>2, <1>5 DEF AllOK, log
<1>7. KnobDoWriteToOutputFile => LinesOK(t)'
  BY DEF ThreadsOK, LinesOK
<1>8. \A u \in THREADIDs : u # t => Alone(u)
  BY DEF Alone, ThreadsOK, ShapeOK
<1> QED  BY <1>1, <1>6, <1>7, <1>8, OneThread

-----------------------------------------------------------------------------
(***************************************************************************)
(* The counts of inscount_tls: of the threads that run, in tdata, of those *)
(* that are over, in OutFile, and of the threads started, numThreads.      *)
(***************************************************************************)
Running == Places \ {"outside", "over"}

Started == {t \in THREADIDs : phase[t] # "outside"}

CountsOK ==
  /\ DOMAIN tdata = {t \in THREADIDs : phase[t] \in Running}
  /\ \A t \in DOMAIN tdata : tdata[t] = Len(FlattenSeq(blocks[t]))
  /\ DOMAIN OutFile = {t \in THREADIDs : phase[t] = "over"}
  /\ \A t \in DOMAIN OutFile : OutFile[t] = Len(FlattenSeq(blocks[t]))
  /\ IsFiniteSet(Started) /\ numThreads = Cardinality(Started)
  /\ exited => \A t \in THREADIDs : phase[t] \in {"outside", "over"}

(***************************************************************************)
(* A step of thread t takes it from one place to another.                  *)
(***************************************************************************)
Moves(t, from, to) ==
  /\ phase \in [THREADIDs -> Places] /\ phase' \in [THREADIDs -> Places]
  /\ phase[t] = from /\ phase'[t] = to
  /\ \A u \in THREADIDs : u # t => phase'[u] = phase[u]

(***************************************************************************)
(* A thread that runs on changes no count.                                 *)
(***************************************************************************)
LEMMA RunningOnKeepsCounts ==
  ASSUME CountsOK, NEW t \in THREADIDs, NEW from \in Running, NEW to \in Running,
         Moves(t, from, to), UNCHANGED <<blocks, tdata, OutFile, numThreads, exited>>
  PROVE  CountsOK'
<1>1. \A u \in THREADIDs : /\ phase'[u] \in Running <=> phase[u] \in Running
                           /\ phase'[u] = "over" <=> phase[u] = "over"
                           /\ phase'[u] = "outside" <=> phase[u] = "outside"
  BY DEF Moves, Running, Places
<1>2. Started' = Started
  BY <1>1 DEF Started
<1>3. {u \in THREADIDs : phase'[u] \in Running} = {u \in THREADIDs : phase[u] \in Running}
      /\ {u \in THREADIDs : phase'[u] = "over"} = {u \in THREADIDs : phase[u] = "over"}
  BY <1>1
<1>4. ~exited
  BY DEF CountsOK, Moves, Running
<1>5. blocks' = blocks /\ tdata' = tdata /\ OutFile' = OutFile /\ numThreads' = numThreads
      /\ exited' = exited
  OBVIOUS
<1> QED  BY <1>2, <1>3, <1>4, <1>5 DEF CountsOK

(***************************************************************************)
(* A thread that starts has a count, of nothing.                           *)
(***************************************************************************)
LEMMA ThreadStartKeepsCounts ==
  ASSUME CountsOK, ThreadsOK, NEW t \in THREADIDs, ThreadStart(t)
  PROVE  CountsOK'
<1>1. Moves(t, "outside", "app")
  BY DEF ThreadStart, ThreadsOK, ShapeOK, Moves, Places
<1>2. /\ ~exited /\ exited' = exited /\ blocks' = blocks /\ OutFile' = OutFile
      /\ numThreads' = numThreads + 1
      /\ tdata' = [u \in DOMAIN tdata \cup {t} |-> IF u = t THEN 0 ELSE tdata[u]]
  BY DEF ThreadStart, programVars
<1>3. Started' = Started \cup {t} /\ t \notin Started
  BY <1>1 DEF Started, Moves
<1>4. IsFiniteSet(Started') /\ Cardinality(Started') = Cardinality(Started) + 1
  BY <1>3, FS_AddElement DEF CountsOK
<1>5. {u \in THREADIDs : phase'[u] \in Running} = DOMAIN tdata \cup {t}
  BY <1>1 DEF CountsOK, Moves, Running, Places
<1>6. {u \in THREADIDs : phase'[u] = "over"} = DOMAIN OutFile
  BY <1>1 DEF CountsOK, Moves
<1>7. Len(FlattenSeq(blocks[t])) = 0
  <2>1. blocks[t] = <<>>
    BY <1>1, OfThread DEF ThreadOK, PlaceOK, Moves
  <2>2. FlattenSeq(<<>>) = <<>> /\ Len(<<>>) = 0
    BY EmptySeq DEF FlattenSeq
  <2> QED  BY <2>1, <2>2
<1>8. \A u \in DOMAIN tdata' : tdata'[u] = Len(FlattenSeq(blocks'[u]))
  BY <1>2, <1>7 DEF CountsOK
<1> QED  BY <1>2, <1>4, <1>5, <1>6, <1>8 DEF CountsOK

(***************************************************************************)
(* docount adds the instructions of the block a thread enters.             *)
(***************************************************************************)
LEMMA EnterBlockKeepsCounts ==
  ASSUME CountsOK, ThreadsOK, NEW t \in THREADIDs, NEW bbl \in Blocks, EnterBlock(t, bbl)
  PROVE  CountsOK'
<1>1. Len(FlattenSeq(blocks'[t])) = Len(FlattenSeq(blocks[t])) + Len(bbl)
      /\ \A u \in THREADIDs : u # t => blocks'[u] = blocks[u]
  BY EnterBlockKeeps
<1>2. /\ phase[t] = "app" /\ phase' = phase /\ exited' = exited /\ OutFile' = OutFile
      /\ numThreads' = numThreads /\ tdata' = [tdata EXCEPT ![t] = @ + Len(bbl)]
  BY DEF EnterBlock, docount
<1>3. Started' = Started
  BY <1>2 DEF Started
<1>4. t \in DOMAIN tdata
  BY <1>2 DEF CountsOK, Running, Places
<1>5. \A u \in DOMAIN tdata' : tdata'[u] = Len(FlattenSeq(blocks'[u]))
  <2> SUFFICES ASSUME NEW u \in DOMAIN tdata
               PROVE  tdata'[u] = Len(FlattenSeq(blocks'[u]))
    BY <1>2
  <2>1. u \in THREADIDs /\ tdata[u] = Len(FlattenSeq(blocks[u]))
    BY DEF CountsOK
  <2>2. CASE u = t
    BY <1>1, <1>2, <1>4, <2>1, <2>2
  <2>3. CASE u # t
    BY <1>1, <1>2, <2>1, <2>3
  <2> QED  BY <2>2, <2>3
<1>6. \A u \in DOMAIN OutFile : u \in THREADIDs /\ u # t
  BY <1>2 DEF CountsOK
<1>7. \A u \in DOMAIN OutFile : OutFile'[u] = Len(FlattenSeq(blocks'[u]))
  BY <1>1, <1>2, <1>6 DEF CountsOK
<1> QED  BY <1>2, <1>3, <1>5, <1>7 DEF CountsOK

(***************************************************************************)
(* ThreadFini prints the count of the thread and forgets it.               *)
(***************************************************************************)
LEMMA ThreadFiniKeepsCounts ==
  ASSUME CountsOK, ThreadsOK, NEW t \in THREADIDs, ThreadFini(t)
  PROVE  CountsOK'
<1>1. Moves(t, "ended", "over")
  BY DEF ThreadFini, ThreadsOK, ShapeOK, Moves, Places
<1>2. /\ exited' = exited /\ blocks' = blocks /\ numThreads' = numThreads
      /\ OutFile' = [u \in DOMAIN OutFile \cup {t} |-> IF u = t THEN tdata[t] ELSE OutFile[u]]
      /\ tdata' = [u \in DOMAIN tdata \ {t} |-> tdata[u]]
  BY DEF ThreadFini, programVars
<1>3. Started' = Started
  BY <1>1 DEF Started, Moves
<1>4. {u \in THREADIDs : phase'[u] \in Running} = DOMAIN tdata \ {t}
  BY <1>1 DEF CountsOK, Moves, Running, Places
<1>5. {u \in THREADIDs : phase'[u] = "over"} = DOMAIN OutFile \cup {t}
  BY <1>1 DEF CountsOK, Moves
<1>6. t \in DOMAIN tdata /\ ~exited
  BY <1>1 DEF CountsOK, Moves, Running, Places
<1>7. \A u \in DOMAIN tdata' : tdata'[u] = Len(FlattenSeq(blocks'[u]))
  BY <1>2 DEF CountsOK
<1>8. \A u \in DOMAIN OutFile' : OutFile'[u] = Len(FlattenSeq(blocks'[u]))
  BY <1>2, <1>6 DEF CountsOK
<1> QED  BY <1>2, <1>3, <1>4, <1>5, <1>6, <1>7, <1>8 DEF CountsOK

(***************************************************************************)
(* The other steps of a thread leave it running.                           *)
(***************************************************************************)
LEMMA RunsOn ==
  ASSUME ThreadsOK, NEW t \in THREADIDs,
         \/ Execute(t) \/ GetFileLock(t) \/ WriteRecord(t) \/ ReleaseFileLock(t)
         \/ BufferFullWithoutEmit(t) \/ EndThread(t)
  PROVE  /\ ThreadsOK'
         /\ \E from \in Running, to \in Running : Moves(t, from, to)
         /\ UNCHANGED <<blocks, tdata, OutFile, numThreads, exited>>
<1>1. ThreadsOK'
  BY ExecuteKeeps, PassingKeeps, WriteRecordKeeps, AfterBufferFullKeeps, EndThreadKeeps
<1>2. phase \in [THREADIDs -> Places] /\ phase' \in [THREADIDs -> Places]
  BY <1>1 DEF ThreadsOK, ShapeOK
<1>3. UNCHANGED <<blocks, tdata, OutFile, numThreads, exited>>
  BY DEF Execute, GetFileLock, WriteRecord, ReleaseFileLock, BufferFullWithoutEmit,
         EndThread, OtherTools, inscountVars, programVars
<1>4. CASE ReleaseFileLock(t) \/ BufferFullWithoutEmit(t)
  <2>1. phase'[t] \in {"full", "app", "ended"} /\ \A u \in THREADIDs : u # t => phase'[u] = phase[u]
    BY <1>4, AfterBufferFullKeeps
  <2>2. phase[t] \in {"full", "write"}
    BY <1>4 DEF ReleaseFileLock, BufferFullWithoutEmit
  <2>3. phase[t] \in Running /\ phase'[t] \in Running /\ Moves(t, phase[t], phase'[t])
    BY <1>2, <2>1, <2>2 DEF Moves, Running, Places
  <2> QED  BY <1>1, <1>3, <2>3
<1>5. CASE GetFileLock(t) \/ WriteRecord(t) \/ EndThread(t)
  <2>1. phase[t] \in Running /\ phase'[t] \in Running /\ Moves(t, phase[t], phase'[t])
    BY <1>2, <1>5 DEF GetFileLock, WriteRecord, EndThread, Moves, Running, Places
  <2> QED  BY <1>1, <1>3, <2>1
<1>6. CASE Execute(t)
  <2>1. FillWindows(t, buf[t] \o MEMREFs(Head(todo[t])), "app") /\ phase[t] = "app"
    BY <1>6 DEF Execute
  <2>2. phase'[t] \in {"full", "app"} /\ \A u \in THREADIDs : u # t => phase'[u] = phase[u]
    BY <1>2, <2>1 DEF FillWindows
  <2>3. phase[t] \in Running /\ phase'[t] \in Running /\ Moves(t, phase[t], phase'[t])
    BY <1>2, <2>1, <2>2 DEF Moves, Running, Places
  <2> QED  BY <1>1, <1>3, <2>3
<1> QED  BY <1>4, <1>5, <1>6

-----------------------------------------------------------------------------
(***************************************************************************)
(* The invariant holds in every state.                                     *)
(***************************************************************************)
LEMMA SuiteInvariant == SuiteSpec => [](ThreadsOK /\ CountsOK)
<1>1. SuiteInit => ThreadsOK /\ CountsOK
  <2> SUFFICES ASSUME SuiteInit PROVE ThreadsOK /\ CountsOK
    OBVIOUS
  <2> USE DEF SuiteInit
  <2>1. ShapeOK
    BY EmptySeq DEF ShapeOK, Places
  <2>2. ASSUME NEW t \in THREADIDs PROVE AllOK(t) /\ LinesOK(t)
    <3>1. /\ phase[t] = "outside" /\ blocks[t] = <<>> /\ todo[t] = <<>> /\ ending[t] = FALSE
          /\ mlog[t] = [buffer |-> <<>>, file |-> <<>>] /\ buf[t] = <<>> /\ queue[t] = <<>>
          /\ LinesIn(ofile, t) = <<>>
      BY <2>2, NothingRecorded
    <3>2. PlaceOK("outside", <<>>, <<>>, FALSE, [buffer |-> <<>>, file |-> <<>>], <<>>, <<>>)
      BY DEF PlaceOK
    <3> QED  BY <3>1, <3>2, NewThread DEF AllOK, LinesOK, ThreadOK
  <2>3. CountsOK
    <3>1. Started = {}
      BY DEF Started
    <3>2. {t \in THREADIDs : phase[t] \in Running} = {}
          /\ {t \in THREADIDs : phase[t] = "over"} = {}
      BY DEF Running
    <3> QED  BY <3>1, <3>2, FS_EmptySet DEF CountsOK
  <2> QED  BY <2>1, <2>2, <2>3 DEF ThreadsOK
<1>2. (ThreadsOK /\ CountsOK) /\ [SuiteNext]_suiteVars => (ThreadsOK /\ CountsOK)'
  <2> SUFFICES ASSUME ThreadsOK, CountsOK, [SuiteNext]_suiteVars PROVE ThreadsOK' /\ CountsOK'
    OBVIOUS
  <2>1. ASSUME NEW t \in THREADIDs, ThreadStart(t) PROVE ThreadsOK' /\ CountsOK'
    BY <2>1, ThreadStartKeeps, ThreadStartKeepsCounts
  <2>2. ASSUME NEW t \in THREADIDs, NEW bbl \in Blocks, EnterBlock(t, bbl)
        PROVE  ThreadsOK' /\ CountsOK'
    BY <2>2, EnterBlockKeeps, EnterBlockKeepsCounts
  <2>3. ASSUME NEW t \in THREADIDs,
               \/ Execute(t) \/ GetFileLock(t) \/ WriteRecord(t) \/ ReleaseFileLock(t)
               \/ BufferFullWithoutEmit(t) \/ EndThread(t)
        PROVE  ThreadsOK' /\ CountsOK'
    <3>1. ThreadsOK' /\ UNCHANGED <<blocks, tdata, OutFile, numThreads, exited>>
      BY <2>3, RunsOn
    <3>2. PICK from \in Running, to \in Running : Moves(t, from, to)
      BY <2>3, RunsOn
    <3> QED  BY <3>1, <3>2, RunningOnKeepsCounts
  <2>4. ASSUME NEW t \in THREADIDs, ThreadFini(t) PROVE ThreadsOK' /\ CountsOK'
    BY <2>4, PassingKeeps, ThreadFiniKeepsCounts
  <2>5. CASE Fini \/ UNCHANGED suiteVars
    <3>1. UNCHANGED <<phase, blocks, todo, ending, tdata, OutFile, numThreads, mlog,
                      KnobDoWriteToOutputFile, buf, queue, ofile>>
      BY <2>5 DEF Fini, suiteVars, programVars, OtherTools, inscountVars
    <3>2. ThreadsOK'
      BY <3>1 DEF ThreadsOK, ShapeOK, AllOK, LinesOK
    <3>3. exited' => \A t \in THREADIDs : phase[t] \in {"outside", "over"}
      BY <2>5 DEF Fini, suiteVars, programVars, CountsOK
    <3>4. Started' = Started
      BY <3>1 DEF Started
    <3>5. CountsOK'
      BY <3>1, <3>3, <3>4 DEF CountsOK
    <3> QED  BY <3>2, <3>5
  <2> QED
    BY <2>1, <2>2, <2>3, <2>4, <2>5 DEF SuiteNext, Exited
<1> QED
  BY <1>1, <1>2, PTL DEF SuiteSpec

(***************************************************************************)
(* What the operators of the properties are in those of the invariant.     *)
(***************************************************************************)
LEMMA InTermsOfThread ==
  ASSUME NEW t
  PROVE  /\ Executed(t) = Done(blocks[t], todo[t])
         /\ Referred(t, StandardMEMREFs) = RefsOf(TRUE, Done(blocks[t], todo[t]))
         /\ Referred(t, MEMREFs) = RefsOf(FALSE, Done(blocks[t], todo[t]))
         /\ LinesOf(t) = LinesIn(ofile, t)
<1>1. Executed(t) = Done(blocks[t], todo[t])
  BY DEF Executed, Done
<1>2. Referred(t, StandardMEMREFs) = RefsOf(TRUE, Executed(t))
  BY DEF Referred, RefsOf, RefsEach, Refs
<1>3. Referred(t, MEMREFs) = RefsOf(FALSE, Executed(t))
  BY DEF Referred, RefsOf, RefsEach, Refs
<1>4. LinesOf(t) = LinesIn(ofile, t)
  BY DEF LinesOf, LinesIn, LinesEach
<1> QED  BY <1>1, <1>2, <1>3, <1>4

(***************************************************************************)
(* No record is lost, doubled, reordered or written for another thread, by *)
(* either tool.                                                            *)
(***************************************************************************)
THEOREM FilesAndBuffersAlwaysComplete == SuiteSpec => []FilesAndBuffersComplete
<1>1. ThreadsOK => FilesAndBuffersComplete
  <2> SUFFICES ASSUME ThreadsOK, NEW t \in THREADIDs
      PROVE  /\ mlog[t].file \o Printed(mlog[t].buffer) = Printed(Referred(t, StandardMEMREFs))
             /\ KnobDoWriteToOutputFile =>
                  LinesOf(t) \o Printed(buf[t]) \o Printed(queue[t]) = Printed(Referred(t, MEMREFs))
    BY DEF FilesAndBuffersComplete
  <2>1. /\ ThreadOK(phase[t], blocks[t], todo[t], ending[t], mlog[t], buf[t], queue[t])
        /\ KnobDoWriteToOutputFile =>
             WindowsOK(blocks[t], todo[t], LinesIn(ofile, t), buf[t], queue[t])
    BY OfThread
  <2>2. AllOf(mlog[t]) = Printed(RefsOf(TRUE, Done(blocks[t], todo[t])))
    BY <2>1 DEF ThreadOK, LogOK
  <2>3. mlog[t].file \o Printed(mlog[t].buffer) = Printed(Referred(t, StandardMEMREFs))
    BY <2>2, InTermsOfThread DEF AllOf
  <2>4. KnobDoWriteToOutputFile =>
          LinesOf(t) \o Printed(buf[t]) \o Printed(queue[t]) = Printed(Referred(t, MEMREFs))
    BY <2>1, InTermsOfThread DEF WindowsOK
  <2> QED  BY <2>3, <2>4
<1> QED  BY <1>1, SuiteInvariant, PTL

-----------------------------------------------------------------------------
(***************************************************************************)
(* The lock of buffer_windows is taken exactly while a thread writes, and  *)
(* then by one.                                                            *)
(***************************************************************************)
LockInv ==
  /\ fileLock \in {0, 1}
  /\ fileLock = 0 => \A t \in THREADIDs : phase[t] # "write"
  /\ fileLock = 1 => \E t \in THREADIDs : phase[t] = "write"
  /\ \A t, u \in THREADIDs : phase[t] = "write" /\ phase[u] = "write" => t = u

(***************************************************************************)
(* A thread that takes or lets go the lock, or moves elsewhere, keeps it.  *)
(***************************************************************************)
LEMMA MovesKeepLock ==
  ASSUME LockInv, NEW t \in THREADIDs, NEW from \in Places, NEW to \in Places,
         Moves(t, from, to), to = "write" => from = "write" \/ fileLock = 0,
         fileLock' = IF from = "write" \/ to = "write"
                     THEN (IF to = "write" THEN 1 ELSE 0) ELSE fileLock
  PROVE  LockInv'
<1>1. /\ phase[t] = from /\ phase'[t] = to
      /\ \A u \in THREADIDs : u # t => phase'[u] = phase[u]
  BY DEF Moves
<1>2. CASE to = "write"
  <2>1. \A u \in THREADIDs : u # t => phase[u] # "write"
    BY <1>1, <1>2 DEF LockInv
  <2> QED  BY <1>1, <1>2, <2>1 DEF LockInv
<1>3. CASE to # "write" /\ from = "write"
  <2>1. \A u \in THREADIDs : u # t => phase[u] # "write"
    BY <1>1, <1>3 DEF LockInv
  <2> QED  BY <1>1, <1>3, <2>1 DEF LockInv
<1>4. CASE to # "write" /\ from # "write"
  <2>1. fileLock' = fileLock
    BY <1>4
  <2>2. \A u \in THREADIDs : phase'[u] = "write" <=> phase[u] = "write"
    BY <1>1, <1>4
  <2> QED  BY <2>1, <2>2 DEF LockInv
<1> QED  BY <1>2, <1>3, <1>4

(***************************************************************************)
(* The invariant of the lock holds in every state.                         *)
(***************************************************************************)
LEMMA LockInvariant == SuiteSpec => []LockInv
<1>1. SuiteInit => LockInv
  BY DEF SuiteInit, LockInv
<1>2. ThreadsOK /\ ThreadsOK' /\ LockInv /\ [SuiteNext]_suiteVars => LockInv'
  <2> SUFFICES ASSUME ThreadsOK, ThreadsOK', LockInv, [SuiteNext]_suiteVars PROVE LockInv'
    OBVIOUS
  <2>0. phase \in [THREADIDs -> Places] /\ phase' \in [THREADIDs -> Places]
    BY DEF ThreadsOK, ShapeOK
  <2>1. ASSUME NEW t \in THREADIDs, ThreadStart(t) \/ EndThread(t) \/ ThreadFini(t)
        PROVE  LockInv'
    <3>1. /\ phase'[t] # "write" /\ phase[t] # "write" /\ fileLock' = fileLock
          /\ Moves(t, phase[t], phase'[t])
      BY <2>0, <2>1 DEF ThreadStart, EndThread, ThreadFini, Moves
    <3> QED  BY <2>0, <3>1, MovesKeepLock
  <2>2. ASSUME NEW t \in THREADIDs, Execute(t) PROVE LockInv'
    <3>1. FillWindows(t, buf[t] \o MEMREFs(Head(todo[t])), "app")
          /\ phase[t] = "app" /\ fileLock' = fileLock
      BY <2>2 DEF Execute
    <3>2. phase'[t] # "write" /\ Moves(t, phase[t], phase'[t])
      BY <2>0, <3>1 DEF FillWindows, Moves
    <3> QED  BY <2>0, <3>1, <3>2, MovesKeepLock
  <2>3. ASSUME NEW t \in THREADIDs, GetFileLock(t) PROVE LockInv'
    <3>1. /\ phase'[t] = "write" /\ phase[t] # "write" /\ fileLock = 0 /\ fileLock' = 1
          /\ Moves(t, phase[t], phase'[t])
      BY <2>0, <2>3 DEF GetFileLock, Moves
    <3> QED  BY <2>0, <3>1, MovesKeepLock
  <2>4. ASSUME NEW t \in THREADIDs, ReleaseFileLock(t) \/ BufferFullWithoutEmit(t)
        PROVE  LockInv'
    <3>1. phase'[t] # "write" /\ Moves(t, phase[t], phase'[t])
      BY <2>0, <2>4, AfterBufferFullKeeps DEF Moves
    <3>2. fileLock' = IF phase[t] = "write" THEN 0 ELSE fileLock
      BY <2>4 DEF ReleaseFileLock, BufferFullWithoutEmit
    <3> QED  BY <2>0, <3>1, <3>2, MovesKeepLock
  <2>5. ASSUME NEW t \in THREADIDs, NEW bbl \in Blocks, EnterBlock(t, bbl) PROVE LockInv'
    BY <2>5 DEF EnterBlock, LockInv
  <2>6. ASSUME NEW t \in THREADIDs, WriteRecord(t) PROVE LockInv'
    BY <2>6 DEF WriteRecord, LockInv
  <2>7. CASE Fini \/ UNCHANGED suiteVars
    BY <2>7 DEF Fini, suiteVars, LockInv
  <2> QED
    BY <2>1, <2>2, <2>3, <2>4, <2>5, <2>6, <2>7 DEF SuiteNext, Exited
<1> QED
  BY <1>1, <1>2, SuiteInvariant, PTL DEF SuiteSpec

(***************************************************************************)
(* The lock counts the threads that write; a thread that executes has room *)
(* in its buffers and nothing waiting for room.                            *)
(***************************************************************************)
THEOREM SuiteTypeCorrect == SuiteSpec => []SuiteTypeOK
<1>1. ThreadsOK /\ CountsOK /\ LockInv => SuiteTypeOK
  <2> SUFFICES ASSUME ThreadsOK, CountsOK, LockInv PROVE SuiteTypeOK
    OBVIOUS
  <2>1. phase \in [THREADIDs -> Places]
    BY DEF ThreadsOK, ShapeOK
  <2>2. fileLock = Cardinality({t \in THREADIDs : phase[t] = "write"})
    <3> DEFINE W == {t \in THREADIDs : phase[t] = "write"}
    <3>1. CASE fileLock = 0
      <4>1. W = {}
        BY <3>1 DEF LockInv
      <4> QED  BY <3>1, <4>1, FS_EmptySet
    <3>2. CASE fileLock = 1
      <4>1. PICK t \in THREADIDs : phase[t] = "write"
        BY <3>2 DEF LockInv
      <4>2. W = {t}
        BY <4>1 DEF LockInv
      <4>3. Cardinality(W) = 1
        <5> HIDE DEF W
        <5> QED  BY <4>2, FS_Singleton
      <4> QED  BY <3>2, <4>3
    <3> QED  BY <3>1, <3>2 DEF LockInv
  <2>3. DOMAIN tdata = {t \in THREADIDs : phase[t] \notin {"outside", "over"}}
    <3>1. \A t \in THREADIDs : phase[t] \in Running <=> phase[t] \notin {"outside", "over"}
      BY <2>1 DEF Running
    <3> QED  BY <3>1 DEF CountsOK
  <2>4. ASSUME NEW t \in THREADIDs
        PROVE  /\ Len(mlog[t].buffer) < BufferSize
               /\ Len(buf[t]) <= BufferSize
               /\ phase[t] = "app" => Len(buf[t]) < BufferSize /\ queue[t] = <<>>
    BY OfThread DEF ThreadOK, LogOK, HasRoom, BuffersOK
  <2> QED  BY <2>1, <2>2, <2>3, <2>4 DEF SuiteTypeOK, Places
<1> QED
  BY <1>1, SuiteInvariant, LockInvariant, PTL

-----------------------------------------------------------------------------
(***************************************************************************)
(* A thread that did not start, or is over, has nothing left to execute,   *)
(* to record or to write.                                                  *)
(***************************************************************************)
LEMMA NothingLeft ==
  ASSUME ThreadsOK, NEW t \in THREADIDs, phase[t] \in {"outside", "over"}
  PROVE  /\ todo[t] = <<>>
         /\ mlog[t].file = Printed(Referred(t, StandardMEMREFs))
         /\ KnobDoWriteToOutputFile => LinesOf(t) = Printed(Referred(t, MEMREFs))
<1>1. /\ ThreadOK(phase[t], blocks[t], todo[t], ending[t], mlog[t], buf[t], queue[t])
      /\ KnobDoWriteToOutputFile =>
           WindowsOK(blocks[t], todo[t], LinesIn(ofile, t), buf[t], queue[t])
      /\ LinesIn(ofile, t) \in Seq(Elements)
  BY OfThread
<1>2. todo[t] = <<>> /\ mlog[t].buffer = <<>> /\ buf[t] = <<>> /\ queue[t] = <<>>
  BY <1>1 DEF ThreadOK, PlaceOK
<1>3. Printed(<<>>) = <<>>
  BY PrintedOne
<1>4. mlog[t].file = Printed(Referred(t, StandardMEMREFs))
  <2>1. AllOf(mlog[t]) = Printed(RefsOf(TRUE, Done(blocks[t], todo[t])))
        /\ mlog[t].file \in Seq(Elements)
    BY <1>1 DEF ThreadOK, LogOK, HasRoom, Logs
  <2>2. AllOf(mlog[t]) = mlog[t].file
    BY <1>2, <1>3, <2>1, ConcatEmptySeq DEF AllOf
  <2> QED  BY <2>1, <2>2, InTermsOfThread
<1>5. KnobDoWriteToOutputFile => LinesOf(t) = Printed(Referred(t, MEMREFs))
  <2> DEFINE ln == LinesIn(ofile, t)
  <2>1. (ln \o <<>>) \o <<>> = ln
    BY <1>1, ConcatEmptySeq
  <2>2. KnobDoWriteToOutputFile =>
          (ln \o <<>>) \o <<>> = Printed(RefsOf(FALSE, Done(blocks[t], todo[t])))
    BY <1>1, <1>2, <1>3 DEF WindowsOK
  <2> QED  BY <2>1, <2>2, InTermsOfThread
<1> QED  BY <1>2, <1>4, <1>5

(***************************************************************************)
(* When the application is over, the files hold everything and every       *)
(* thread's count is printed, that of the instructions it executed.        *)
(***************************************************************************)
THEOREM AlwaysCompleteAtExit == SuiteSpec => []CompleteAtExit
<1>1. ThreadsOK /\ CountsOK => CompleteAtExit
  <2> SUFFICES ASSUME ThreadsOK, CountsOK PROVE CompleteAtExit
    OBVIOUS
  <2>1. ASSUME NEW t \in THREADIDs
        PROVE  /\ Len(FlattenSeq(blocks[t])) = Len(Executed(t)) + Len(todo[t])
               /\ Len(Executed(t)) \in Nat
    <3>1. ProgramOK(blocks[t], todo[t])
      BY OfThread DEF ThreadOK
    <3>2. Executed(t) \in Seq(Instructions) /\ todo[t] \in Seq(Instructions)
          /\ FlattenSeq(blocks[t]) = Executed(t) \o todo[t]
      BY <3>1, InTermsOfThread DEF ProgramOK
    <3> QED  BY <3>2, BeforeRest
  <2>2. \A t \in DOMAIN tdata : tdata[t] = Len(Executed(t)) + Len(todo[t])
    BY <2>1 DEF CountsOK
  <2>3. ASSUME exited
        PROVE  /\ numThreads = Cardinality(DOMAIN OutFile)
               /\ \A t \in DOMAIN OutFile : OutFile[t] = Len(Executed(t))
               /\ \A t \in THREADIDs : mlog[t].file = Printed(Referred(t, StandardMEMREFs))
               /\ KnobDoWriteToOutputFile =>
                    \A t \in THREADIDs : LinesOf(t) = Printed(Referred(t, MEMREFs))
    <3>1. \A t \in THREADIDs : phase[t] \in {"outside", "over"}
      BY <2>3 DEF CountsOK
    <3>2. DOMAIN OutFile = Started
      BY <3>1 DEF CountsOK, Started
    <3>3. ASSUME NEW t \in DOMAIN OutFile PROVE OutFile[t] = Len(Executed(t))
      <4>1. t \in THREADIDs /\ OutFile[t] = Len(FlattenSeq(blocks[t])) /\ todo[t] = <<>>
        BY <3>1, NothingLeft DEF CountsOK
      <4>2. Len(<<>>) = 0
        OBVIOUS
      <4> QED  BY <2>1, <4>1, <4>2
    <3>4. numThreads = Cardinality(DOMAIN OutFile)
      BY <3>2 DEF CountsOK
    <3> QED  BY <3>1, <3>3, <3>4, NothingLeft
  <2> QED  BY <2>2, <2>3 DEF CompleteAtExit
<1> QED  BY <1>1, SuiteInvariant, PTL

-----------------------------------------------------------------------------
(***************************************************************************)
(* The file grows only in a thread's write phase, by the record at hand.   *)
(***************************************************************************)
LEMMA OnlyWriteRecordWrites ==
  ASSUME SuiteNext, ofile' # ofile
  PROVE  \E t \in THREADIDs :
           /\ phase[t] = "write"
           /\ ofile' = Append(ofile, [tid |-> t, ea |-> Head(buf[t])])
  BY DEF SuiteNext, ThreadStart, EnterBlock, Execute, GetFileLock, WriteRecord,
         ReleaseFileLock, BufferFullWithoutEmit, EndThread, ThreadFini, Fini, Exited,
         suiteVars

(***************************************************************************)
(* Append puts its element at the end of a sequence.                       *)
(***************************************************************************)
LEMMA AppendIsLast ==
  ASSUME NEW S, NEW s \in Seq(S), NEW x
  PROVE  Append(s, x)[Len(Append(s, x))] = x
<1>1. s \in Seq(S \cup {x})
  OBVIOUS
<1> QED
  BY <1>1

(***************************************************************************)
(* The records of a buffer are written in one go: a thread that writes is  *)
(* not interrupted by the lines of another.                                *)
(***************************************************************************)
THEOREM DumpsAlwaysUnbroken == SuiteSpec => DumpsUnbroken
<1>1. ASSUME LockInv, ThreadsOK, SuiteNext, NEW t \in THREADIDs,
             phase[t] = "write", ofile' # ofile
      PROVE  ofile'[Len(ofile')].tid = t
  <2>1. PICK u \in THREADIDs : /\ phase[u] = "write"
                               /\ ofile' = Append(ofile, [tid |-> u, ea |-> Head(buf[u])])
    BY <1>1, OnlyWriteRecordWrites
  <2>2. u = t
    BY <1>1, <2>1 DEF LockInv
  <2>3. ofile \in Seq(Lines)
    BY <1>1 DEF ThreadsOK, ShapeOK
  <2>4. ofile'[Len(ofile')] = [tid |-> t, ea |-> Head(buf[t])]
    BY <2>1, <2>2, <2>3, AppendIsLast
  <2> QED
    BY <2>4
<1>2. LockInv /\ (ThreadsOK /\ CountsOK) /\ [SuiteNext]_suiteVars =>
        [\A t \in THREADIDs :
           phase[t] = "write" /\ ofile' # ofile => ofile'[Len(ofile')].tid = t]_suiteVars
  BY <1>1
<1> QED
  BY <1>2, LockInvariant, SuiteInvariant, PTL DEF SuiteSpec, DumpsUnbroken

=============================================================================
