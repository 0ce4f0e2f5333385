------------------------- MODULE CountSuite_proofs -------------------------
(***************************************************************************)
(* The counters per instruction, per block and anywhere in a block agree   *)
(* for every program, however long it runs and wherever Pin puts the calls *)
(* that may come anywhere. The two dependency tools agree between blocks   *)
(* for every program, and their histogram is that of the instructions that *)
(* executed, until the instruction number wraps. countreps finds the same  *)
(* with and without -slow, but for exactly what its 32-bit parameters cut  *)
(* off, and no more memory operations of instructions with REP than of the *)
(* whole program.                                                          *)
(***************************************************************************)
EXTENDS CountSuite, FiniteSetTheorems, SequenceTheorems, NaturalsInduction,
        WellFoundedInduction, TLAPS

(***************************************************************************)
(* What CountersAgree says needs the block that is executing: the one the  *)
(* calls still due are for.                                                *)
(***************************************************************************)
CountInv ==
  /\ pending \in Seq(Instrs)
  /\ trace \in Seq(Instrs)
  /\ block \in Seq(Instrs)
  /\ due \subseteq AnywhereTools
  /\ CountersAgree

(***************************************************************************)
(* Executing one instruction moves it from what is pending to the trace.   *)
(***************************************************************************)
LEMMA ExecuteMoves ==
  ASSUME pending \in Seq(Instrs), trace \in Seq(Instrs), Execute
  PROVE  /\ pending' \in Seq(Instrs) /\ trace' \in Seq(Instrs)
         /\ Len(pending') = Len(pending) - 1
         /\ Len(trace') = Len(trace) + 1
<1>1. pending # <<>> /\ pending' = Tail(pending) /\ trace' = Append(trace, Head(pending))
  BY DEF Execute
<1>2. Head(pending) \in Instrs
  BY <1>1
<1> QED
  BY <1>1, <1>2

(***************************************************************************)
(* An instruction that executes is counted by inscount0 only.              *)
(***************************************************************************)
LEMMA ExecutionCounted ==
  ASSUME CountInv, Execute, icount0' = docount0(icount0),
         UNCHANGED <<icount1, icount2, totalCount, due, block>>
  PROVE  CountInv'
<1>1. /\ pending' \in Seq(Instrs) /\ trace' \in Seq(Instrs)
      /\ Len(pending') = Len(pending) - 1
      /\ Len(trace') = Len(trace) + 1
  BY ExecuteMoves DEF CountInv
<1>2. Len(pending) \in Nat /\ Len(trace) \in Nat
  BY DEF CountInv
<1> QED
  BY <1>1, <1>2 DEF CountInv, CountersAgree, docount0

(***************************************************************************)
(* The invariant holds in every state of the counting tools.               *)
(***************************************************************************)
LEMMA CountInvariant == CountSpec => []CountInv
<1>1. CountInit => CountInv
  <2> SUFFICES ASSUME CountInit PROVE CountInv
    OBVIOUS
  <2>1. pending = <<>> /\ trace = <<>> /\ block = <<>> /\ due = {}
    BY DEF CountInit, Init
  <2>2. /\ icount0 = 0 /\ icount1 = 0 /\ icount2 = 0 /\ totalCount = 0
        /\ Len(pending) = 0 /\ Len(trace) = 0
    BY <2>1 DEF CountInit
  <2>3. "inscount2" \notin due /\ "countreps" \notin due
    BY <2>1
  <2>4. CountersAgree
    <3>1. icount0 = Len(trace) /\ icount1 = icount0 + Len(pending)
      BY <2>2
    <3>2. /\ (IF "inscount2" \in due THEN Len(block) ELSE 0) = 0
          /\ (IF "countreps" \in due THEN Len(block) ELSE 0) = 0
      BY <2>3
    <3>3. icount2 = icount1 - 0 /\ totalCount = icount1 - 0
      BY <2>2
    <3> QED
      BY <3>1, <3>2, <3>3 DEF CountersAgree
  <2> QED
    BY <2>1, <2>4 DEF CountInv
<1>2. CountInv /\ [CountNext]_<<vars, countVars>> => CountInv'
  <2> SUFFICES ASSUME CountInv, [CountNext]_<<vars, countVars>> PROVE CountInv'
    OBVIOUS
  <2>1. ASSUME NEW bbl \in Blocks, CountEnterBlock(bbl) PROVE CountInv'
    <3>1. bbl \in Seq(Instrs)
      BY DependSuiteAssumption
    <3>2. /\ due = {} /\ pending = <<>>
          /\ pending' = bbl /\ block' = bbl /\ trace' = trace
          /\ due' = AnywhereTools
          /\ icount1' = icount1 + Len(bbl)
          /\ UNCHANGED <<icount0, icount2, totalCount>>
      BY <2>1 DEF CountEnterBlock, EnterBlock, docount
    <3>3. "inscount2" \in due' /\ "countreps" \in due'
      BY <3>2 DEF AnywhereTools
    <3>4. Len(pending) = 0 /\ Len(pending') = Len(bbl) /\ Len(block') = Len(bbl)
          /\ Len(bbl) \in Nat /\ Len(trace) \in Nat /\ Len(trace') = Len(trace)
      BY <3>1, <3>2 DEF CountInv
    <3>5. icount0 = Len(trace) /\ icount1 = Len(trace) /\ icount2 = Len(trace)
          /\ totalCount = Len(trace)
      BY <3>2, <3>4 DEF CountInv, CountersAgree
    <3>6. CountersAgree'
      BY <3>2, <3>3, <3>4, <3>5 DEF CountersAgree
    <3> QED
      BY <3>1, <3>2, <3>6 DEF CountInv
  <2>2. CASE CountAnalyse
    BY <2>2 DEF CountAnalyse, Analyse, countVars, CountInv, CountersAgree
  <2>3. CASE Inscount2Anywhere
    BY <2>3 DEF Inscount2Anywhere, vars, docount, CountInv, CountersAgree, AnywhereTools
  <2>4. CASE InstrumentTraceAnywhere
    BY <2>4 DEF InstrumentTraceAnywhere, vars, docount, CountInv, CountersAgree,
                AnywhereTools
  <2>5. CASE ExecutePlain
    BY <2>5, ExecutionCounted DEF ExecutePlain
  <2>6. ASSUME NEW it, ExecuteIteration(it) PROVE CountInv'
    BY <2>6, ExecutionCounted DEF ExecuteIteration
  <2>7. CASE UNCHANGED <<vars, countVars>>
    BY <2>7 DEF vars, countVars, CountInv, CountersAgree
  <2> QED
    BY <2>1, <2>2, <2>3, <2>4, <2>5, <2>6, <2>7 DEF CountNext, StartRep, ContinueRep
<1> QED
  BY <1>1, <1>2, PTL DEF CountSpec

(***************************************************************************)
(* The counters per instruction, per block and per block at any moment     *)
(* agree between two blocks, and never differ by more than the block that  *)
(* is executing.                                                           *)
(***************************************************************************)
THEOREM CountersAlwaysAgree == CountSpec => []CountersAgree
<1>1. CountInv => CountersAgree
  BY DEF CountInv
<1> QED
  BY <1>1, CountInvariant, PTL

-----------------------------------------------------------------------------
(***************************************************************************)
(* The dependency tools. The state of the tool called before every         *)
(* instruction, and of the one called once before every block, as a value; *)
(* and what the analysis routine makes of such a value.                    *)
(***************************************************************************)
Tool1 == [ptr |-> insPointer, last |-> lastInsPointer,
          dist |-> insDependDistance, out |-> outside]

Tool2 == [ptr |-> insPointer2, last |-> lastInsPointer2,
          dist |-> insDependDistance2, out |-> outside2]

ToolStates ==
  [ptr : INT32, last : [Regs -> INT32], dist : [Indices -> Nat], out : SUBSET INT32]

NumberOf(s) == Wrap(s.ptr + 1)

DistanceTo(s, r) == Wrap(NumberOf(s) - s.last[r])

CountedBy(s, ins) == {r \in ins.read : s.last[r] > 0 /\ DistanceTo(s, r) <= maxSize}

After(s, ins) ==
  [ptr  |-> NumberOf(s),
   last |-> [r \in Regs |-> IF r \in ins.write THEN NumberOf(s) ELSE s.last[r]],
   dist |-> [d \in Indices |->
               s.dist[d] + Cardinality({r \in CountedBy(s, ins) : DistanceTo(s, r) = d})],
   out  |-> s.out \cup ({DistanceTo(s, r) : r \in CountedBy(s, ins)} \ Indices)]

(***************************************************************************)
(* Both analysis routines do to their state what After says, called for    *)
(* one instruction.                                                        *)
(***************************************************************************)
LEMMA RoutinesAreAfter ==
  ASSUME NEW ins
  PROVE  /\ updateInsDependDistance(ins) => Tool1' = After(Tool1, ins)
         /\ PerBlock!updateInsDependDistance(ins) => Tool2' = After(Tool2, ins)
<1>1. ASSUME updateInsDependDistance(ins)
      PROVE  Tool1' = After(Tool1, ins)
  BY <1>1 DEF updateInsDependDistance, Count, Written, Tool1, After, NumberOf,
              DistanceTo, CountedBy
<1>2. ASSUME PerBlock!updateInsDependDistance(ins)
      PROVE  Tool2' = After(Tool2, ins)
  <2>1. \A n : PerBlock!Wrap(n) = Wrap(n)
    BY DEF PerBlock!Wrap, Wrap
  <2>2. PerBlock!Indices = Indices
    BY DEF PerBlock!Indices, Indices
  <2>3. \A S : PerBlock!Cardinality(S) = Cardinality(S)
    BY DEF PerBlock!Cardinality, Cardinality, PerBlock!IsFiniteSet, IsFiniteSet
  <2> QED
    BY <1>2, <2>1, <2>2, <2>3
       DEF PerBlock!updateInsDependDistance, PerBlock!Count, PerBlock!Written, Tool2,
           After, NumberOf, DistanceTo, CountedBy
<1> QED  BY <1>1, <1>2

(***************************************************************************)
(* The powers of two, of which Wrap and INT32 are made: they count the     *)
(* subsets of 1 .. k, which the element k + 1 doubles.                     *)
(***************************************************************************)
LEMMA PowersOfTwo ==
  ASSUME NEW k \in Nat
  PROVE  2 ^ k \in Nat \ {0} /\ 2 ^ 0 = 1 /\ 2 ^ (k + 1) = 2 * 2 ^ k
<1> DEFINE Old == SUBSET (1 .. k)
           New == {S \cup {k + 1} : S \in Old}
           All == SUBSET (1 .. k + 1)
<1>1. /\ IsFiniteSet(1 .. k) /\ Cardinality(1 .. k) = k
      /\ IsFiniteSet(1 .. k + 1) /\ Cardinality(1 .. k + 1) = k + 1
  BY FS_Interval
<1>2. /\ IsFiniteSet(Old) /\ Cardinality(Old) = 2 ^ k
      /\ IsFiniteSet(All) /\ Cardinality(All) = 2 ^ (k + 1)
  BY <1>1, FS_SUBSET
<1>3. 2 ^ 0 = 1
  <2>1. IsFiniteSet({}) /\ Cardinality({}) = 0
    BY FS_EmptySet
  <2>2. Cardinality(SUBSET {}) = 2 ^ 0
    BY <2>1, FS_SUBSET
  <2>3. SUBSET {} = {{}}
    OBVIOUS
  <2> QED  BY <2>2, <2>3, FS_Singleton
<1>4. All = Old \cup New
  <2>1. ASSUME NEW S \in All
        PROVE  S \in Old \cup New
    <3>1. CASE k + 1 \in S
      <4>1. S \ {k + 1} \in Old /\ S = (S \ {k + 1}) \cup {k + 1}
        BY <3>1
      <4> QED  BY <4>1
    <3>2. CASE k + 1 \notin S
      BY <3>2
    <3> QED  BY <3>1, <3>2
  <2>2. ASSUME NEW S \in Old
        PROVE  S \in All /\ S \cup {k + 1} \in All
    OBVIOUS
  <2> HIDE DEF Old, All
  <2>3. \A T \in New : T \in All
    BY <2>2
  <2> HIDE DEF New
  <2>4. All \subseteq Old \cup New
    BY <2>1
  <2>5. Old \subseteq All /\ New \subseteq All
    BY <2>2, <2>3
  <2> QED  BY <2>4, <2>5
<1>5. Old \cap New = {}
  <2>1. k + 1 \notin 1 .. k
    OBVIOUS
  <2> QED  BY <2>1
<1>6. ExistsBijection(Old, New)
  <2> DEFINE f == [S \in Old |-> S \cup {k + 1}]
  <2>1. \A S \in Old : k + 1 \notin S
    OBVIOUS
  <2>2. \A S, T \in Old : S \cup {k + 1} = T \cup {k + 1} => S = T
    BY <2>1
  <2>3. /\ f \in [Old -> New]
        /\ \A S \in Old : f[S] = S \cup {k + 1}
        /\ \A T \in New : \E S \in Old : f[S] = T
    OBVIOUS
  <2> HIDE DEF f, Old, New
  <2>4. f \in Bijection(Old, New)
    BY <2>2, <2>3 DEF Bijection, Injection, Surjection, IsInjective
  <2> QED  BY <2>4 DEF ExistsBijection
<1> HIDE DEF Old, New, All
<1>7. IsFiniteSet(New) /\ Cardinality(New) = Cardinality(Old)
  BY <1>2, <1>6, FS_Bijection
<1>8. Cardinality(All) = Cardinality(Old) + Cardinality(New)
  <2>1. Cardinality(Old \cap New) = 0
    BY <1>5, FS_EmptySet
  <2>2. Cardinality(Old) \in Nat /\ Cardinality(New) \in Nat
    BY <1>2, <1>7, FS_CardinalityType
  <2>3. Cardinality(Old \cup New) =
          Cardinality(Old) + Cardinality(New) - Cardinality(Old \cap New)
    BY <1>2, <1>7, FS_Union
  <2> QED  BY <1>4, <2>1, <2>2, <2>3
<1>9. Cardinality(Old) \in Nat /\ Cardinality(Old) # 0
  <2>1. {} \in Old
    BY DEF Old
  <2> QED  BY <1>2, <2>1, FS_EmptySet, FS_CardinalityType
<1> QED  BY <1>2, <1>3, <1>7, <1>8, <1>9

(***************************************************************************)
(* A word has twice as many values as there are non-negative integers.     *)
(***************************************************************************)
LEMMA HalfOfWord ==
  /\ 2 ^ (IntWidth - 1) \in Nat \ {0}
  /\ 2 ^ IntWidth = 2 * 2 ^ (IntWidth - 1)
<1>1. IntWidth - 1 \in Nat /\ (IntWidth - 1) + 1 = IntWidth
  BY InsDependAssumption
<1> DEFINE k == IntWidth - 1
<1>2. 2 ^ k \in Nat \ {0} /\ 2 ^ (k + 1) = 2 * 2 ^ k
  <2> HIDE DEF k
  <2> QED  BY <1>1, PowersOfTwo DEF k
<1> QED  BY <1>1, <1>2

(***************************************************************************)
(* Wrap gives an integer of the width of the code, the same one when it    *)
(* had that width before.                                                  *)
(***************************************************************************)
LEMMA WrapIsInt ==
  ASSUME NEW n \in Int
  PROVE  /\ Wrap(n) \in INT32
         /\ n \in INT32 => Wrap(n) = n
<1> DEFINE half == 2 ^ (IntWidth - 1)
<1>1. half \in Nat \ {0} /\ 2 ^ IntWidth = 2 * half
  BY HalfOfWord
<1>2. Wrap(n) = ((n + half) % (2 * half)) - half
  BY <1>1 DEF Wrap
<1>3. INT32 = -half .. half - 1
  BY DEF INT32
<1> HIDE DEF half
<1>4. (n + half) % (2 * half) \in 0 .. 2 * half - 1
  BY <1>1
<1>5. n \in -half .. half - 1 => (n + half) % (2 * half) = n + half
  BY <1>1
<1> QED  BY <1>1, <1>2, <1>3, <1>4, <1>5

(***************************************************************************)
(* One more instruction leaves a state of the tool, and takes nothing from *)
(* the histogram.                                                          *)
(***************************************************************************)
LEMMA AfterIsState ==
  ASSUME NEW s \in ToolStates, NEW ins \in Instrs
  PROVE  /\ After(s, ins) \in ToolStates
         /\ \A d \in Indices : s.dist[d] <= After(s, ins).dist[d]
<1>1. /\ s.ptr \in INT32 /\ s.last \in [Regs -> INT32]
      /\ s.dist \in [Indices -> Nat] /\ s.out \subseteq INT32
  BY DEF ToolStates
<1>2. INT32 \subseteq Int /\ 1 \in Int
  BY HalfOfWord DEF INT32
<1>3. NumberOf(s) \in INT32
  <2> DEFINE n == s.ptr + 1
  <2>1. s.ptr \in Int
    BY <1>1, <1>2
  <2>3. n \in Int
    BY <2>1
  <2>2. NumberOf(s) = Wrap(n)
    BY DEF NumberOf
  <2> HIDE DEF n
  <2> QED  BY <2>3, <2>2, WrapIsInt
<1>4. \A r \in Regs : DistanceTo(s, r) \in INT32
  <2> TAKE r \in Regs
  <2> DEFINE n == NumberOf(s) - s.last[r]
  <2>1. NumberOf(s) \in Int /\ s.last[r] \in Int
    BY <1>1, <1>2, <1>3
  <2>3. n \in Int
    BY <2>1
  <2>2. DistanceTo(s, r) = Wrap(n)
    BY DEF DistanceTo
  <2> HIDE DEF n
  <2> QED  BY <2>3, <2>2, WrapIsInt
<1>5. CountedBy(s, ins) \subseteq Regs
  BY InsDependAssumption DEF CountedBy
<1>6. \A d : Cardinality({r \in CountedBy(s, ins) : DistanceTo(s, r) = d}) \in Nat
  <2> TAKE d
  <2>1. {r \in CountedBy(s, ins) : DistanceTo(s, r) = d} \in SUBSET Regs
    BY <1>5
  <2> QED  BY <2>1, FS_Subset, FS_CardinalityType, InsDependAssumption
<1>7. After(s, ins).ptr \in INT32 /\ After(s, ins).last \in [Regs -> INT32]
  BY <1>1, <1>3 DEF After
<1>8. /\ After(s, ins).dist \in [Indices -> Nat]
      /\ \A d \in Indices : s.dist[d] <= After(s, ins).dist[d]
  <2>1. After(s, ins).dist =
          [d \in Indices |->
             s.dist[d] + Cardinality({r \in CountedBy(s, ins) : DistanceTo(s, r) = d})]
    BY DEF After
  <2> HIDE DEF After
  <2>2. ASSUME NEW d \in Indices
        PROVE  /\ After(s, ins).dist[d] \in Nat
               /\ s.dist[d] <= After(s, ins).dist[d]
    <3> DEFINE more == Cardinality({r \in CountedBy(s, ins) : DistanceTo(s, r) = d})
    <3>1. After(s, ins).dist[d] = s.dist[d] + more
      BY <2>1
    <3>2. more \in Nat
      BY <1>6
    <3>3. s.dist[d] \in Nat
      BY <1>1
    <3> HIDE DEF more
    <3> QED  BY <3>1, <3>2, <3>3
  <2> QED  BY <2>1, <2>2
<1>9. After(s, ins).out \subseteq INT32
  <2>1. After(s, ins).out =
          s.out \cup ({DistanceTo(s, r) : r \in CountedBy(s, ins)} \ Indices)
    BY DEF After
  <2>2. \A n \in {DistanceTo(s, r) : r \in CountedBy(s, ins)} : n \in INT32
    BY <1>4, <1>5
  <2> HIDE DEF After
  <2> QED  BY <1>1, <2>1, <2>2
<1>10. After(s, ins) = [ptr |-> After(s, ins).ptr, last |-> After(s, ins).last,
                        dist |-> After(s, ins).dist, out |-> After(s, ins).out]
  BY DEF After
<1> HIDE DEF After
<1> QED  BY <1>7, <1>8, <1>9, <1>10 DEF ToolStates

-----------------------------------------------------------------------------
(***************************************************************************)
(* The tool per block (in state s2) is ahead of the other one (in state    *)
(* s1) by k of the pending instructions p, and has q still to go through:  *)
(* h are the states between, each the one before after one more            *)
(* instruction.                                                            *)
(***************************************************************************)
Ahead(s1, s2, p, q, k, h) ==
  /\ k \in 0 .. Len(p)
  /\ q = SubSeq(p, k + 1, Len(p))
  /\ h \in [0 .. k -> ToolStates]
  /\ h[0] = s1 /\ h[k] = s2
  /\ \A i \in 1 .. k : h[i] = After(h[i - 1], p[i])
  /\ \A i \in 0 .. k : \A d \in Indices : h[i].dist[d] <= s2.dist[d]

IsAhead(s1, s2, p, q) == \E k, h : Ahead(s1, s2, p, q, k, h)

(***************************************************************************)
(* What the histogram counts is a natural number.                          *)
(***************************************************************************)
LEMMA DistIsNat ==
  ASSUME NEW s \in ToolStates, NEW d \in Indices
  PROVE  s.dist[d] \in Nat
BY DEF ToolStates

(***************************************************************************)
(* When a block is entered neither of two tools in the same state is       *)
(* ahead.                                                                  *)
(***************************************************************************)
LEMMA BlockIsAhead ==
  ASSUME NEW s \in ToolStates, NEW p \in Seq(Instrs)
  PROVE  IsAhead(s, s, p, p)
<1> DEFINE h == [i \in 0 .. 0 |-> s]
<1>1. h \in [0 .. 0 -> ToolStates] /\ \A i \in 0 .. 0 : h[i] = s
  OBVIOUS
<1> HIDE DEF h
<1>2. 0 \in 0 .. Len(p) /\ p = SubSeq(p, 0 + 1, Len(p))
  OBVIOUS
<1>3. \A i \in 0 .. 0 : \A d \in Indices : h[i].dist[d] <= s.dist[d]
  BY <1>1, DistIsNat
<1>4. Ahead(s, s, p, p, 0, h)
  BY <1>1, <1>2, <1>3 DEF Ahead
<1> QED  BY <1>4 DEF IsAhead

(***************************************************************************)
(* With nothing pending none can be ahead: the tools are in one state.     *)
(***************************************************************************)
LEMMA NothingAhead ==
  ASSUME NEW s1, NEW s2, NEW q, IsAhead(s1, s2, <<>>, q)
  PROVE  s1 = s2 /\ q = <<>>
<1>1. PICK k, h : Ahead(s1, s2, <<>>, q, k, h)
  BY DEF IsAhead
<1>2. k = 0
  BY <1>1 DEF Ahead
<1> QED  BY <1>1, <1>2 DEF Ahead

(***************************************************************************)
(* What remains of a block after its first k instructions is nothing, or   *)
(* the next instruction and what remains after that.                       *)
(***************************************************************************)
LEMMA RestOfBlock ==
  ASSUME NEW p \in Seq(Instrs), NEW k \in 0 .. Len(p)
  PROVE  /\ SubSeq(p, k + 1, Len(p)) = <<>> <=> k = Len(p)
         /\ k < Len(p) =>
              /\ Head(SubSeq(p, k + 1, Len(p))) = p[k + 1]
              /\ Tail(SubSeq(p, k + 1, Len(p))) = SubSeq(p, k + 2, Len(p))
              /\ p[k + 1] \in Instrs
<1>1. k \in Nat /\ Len(p) \in Nat /\ k + 1 \in 1 .. Len(p) + 1
  OBVIOUS
<1> DEFINE q == SubSeq(p, k + 1, Len(p))
<1>2. q \in Seq(Instrs) /\ Len(q) = Len(p) - k
  OBVIOUS
<1>3. \A i \in 1 .. Len(p) - k : q[i] = p[k + i]
  OBVIOUS
<1> DEFINE r == SubSeq(p, k + 2, Len(p))
<1>4. ASSUME k < Len(p)
      PROVE  /\ r \in Seq(Instrs) /\ Len(r) = Len(p) - k - 1
             /\ \A i \in 1 .. Len(p) - k - 1 : r[i] = p[k + 1 + i]
  BY <1>4
<1>5. q = <<>> <=> Len(q) = 0
  BY <1>2
<1> HIDE DEF q, r
<1>6. ASSUME k < Len(p)
      PROVE  Head(q) = p[k + 1] /\ Tail(q) = r /\ p[k + 1] \in Instrs
  <2>1. q # <<>> /\ Head(q) = q[1] /\ 1 \in 1 .. Len(p) - k
    BY <1>1, <1>2, <1>5, <1>6
  <2>2. Tail(q) \in Seq(Instrs) /\ Len(Tail(q)) = Len(q) - 1
        /\ \A i \in 1 .. Len(q) - 1 : Tail(q)[i] = q[i + 1]
    BY <1>2, <2>1, HeadTailProperties
  <2>3. Len(r) = Len(p) - k - 1 /\ Len(q) - 1 = Len(p) - k - 1
    BY <1>1, <1>2, <1>4, <1>6
  <2>4. ASSUME NEW i \in 1 .. Len(p) - k - 1
        PROVE  Tail(q)[i] = r[i]
    <3>1. Tail(q)[i] = q[i + 1]
      BY <2>2, <2>3
    <3>2. i + 1 \in 1 .. Len(p) - k /\ k + (i + 1) = k + 1 + i
      BY <1>1
    <3>3. q[i + 1] = p[k + 1 + i]
      BY <1>3, <3>2
    <3> QED  BY <1>4, <1>6, <3>1, <3>3
  <2>5. Tail(q) = r
    BY <1>4, <1>6, <2>2, <2>3, <2>4, SeqEqual
  <2> QED  BY <1>1, <1>3, <1>6, <2>1, <2>5
<1> QED  BY <1>1, <1>2, <1>5, <1>6 DEF q, r

(***************************************************************************)
(* The tool per block goes one instruction further ahead.                  *)
(***************************************************************************)
LEMMA OneMoreAhead ==
  ASSUME NEW s1, NEW s2, NEW p \in Seq(Instrs), NEW q, IsAhead(s1, s2, p, q), q # <<>>
  PROVE  IsAhead(s1, After(s2, Head(q)), p, Tail(q))
<1>1. PICK k, h : Ahead(s1, s2, p, q, k, h)
  BY DEF IsAhead
<1>2. k \in 0 .. Len(p) /\ q = SubSeq(p, k + 1, Len(p))
  BY <1>1 DEF Ahead
<1>3. /\ k \in Nat /\ Len(p) \in Nat /\ k < Len(p) /\ Head(q) = p[k + 1]
      /\ Tail(q) = SubSeq(p, k + 2, Len(p)) /\ p[k + 1] \in Instrs
  BY <1>2, RestOfBlock
<1>4. /\ h \in [0 .. k -> ToolStates] /\ h[0] = s1 /\ h[k] = s2
      /\ \A i \in 1 .. k : h[i] = After(h[i - 1], p[i])
      /\ \A i \in 0 .. k : \A d \in Indices : h[i].dist[d] <= s2.dist[d]
  BY <1>1 DEF Ahead
<1> DEFINE s3 == After(s2, p[k + 1])
           g == [i \in 0 .. k + 1 |-> IF i <= k THEN h[i] ELSE s3]
<1>5. s2 \in ToolStates
  BY <1>3, <1>4
<1>6. s3 \in ToolStates /\ \A d \in Indices : s2.dist[d] <= s3.dist[d]
  BY <1>3, <1>5, AfterIsState
<1> HIDE DEF s3
<1>7. /\ g \in [0 .. k + 1 -> ToolStates]
      /\ \A i \in 0 .. k : g[i] = h[i]
      /\ g[k + 1] = s3
  BY <1>3, <1>4, <1>6
<1> HIDE DEF g
<1>8. \A i \in 1 .. k + 1 : g[i] = After(g[i - 1], p[i])
  <2> TAKE i \in 1 .. k + 1
  <2>1. CASE i <= k
    BY <1>3, <1>4, <1>7, <2>1
  <2>2. CASE i = k + 1
    BY <1>3, <1>4, <1>7, <2>2 DEF s3
  <2> QED  BY <1>3, <2>1, <2>2
<1>9. \A i \in 0 .. k + 1 : \A d \in Indices : g[i].dist[d] <= s3.dist[d]
  <2> TAKE i \in 0 .. k + 1
  <2> TAKE d \in Indices
  <2>1. s2.dist[d] \in Nat /\ s3.dist[d] \in Nat
    BY <1>5, <1>6, DistIsNat
  <2>2. CASE i <= k
    <3>1. i \in 0 .. k /\ h[i] \in ToolStates
      BY <1>3, <1>4, <2>2
    <3>2. h[i].dist[d] \in Nat /\ h[i].dist[d] <= s2.dist[d] /\ s2.dist[d] <= s3.dist[d]
      BY <1>4, <1>6, <3>1, DistIsNat
    <3>3. g[i] = h[i]
      BY <1>7, <3>1
    <3> QED  BY <2>1, <3>2, <3>3
  <2>3. CASE i = k + 1
    BY <1>7, <2>1, <2>3
  <2> QED  BY <1>3, <2>2, <2>3
<1>10. k + 1 \in 0 .. Len(p) /\ (k + 1) + 1 = k + 2 /\ g[0] = s1
  BY <1>3, <1>4, <1>7
<1>11. Ahead(s1, s3, p, Tail(q), k + 1, g)
  BY <1>3, <1>7, <1>8, <1>9, <1>10 DEF Ahead
<1> QED  BY <1>3, <1>11 DEF IsAhead, s3

(***************************************************************************)
(* The tool per instruction catches up by one when the instruction         *)
(* executes, which it does only after the other tool is done with the      *)
(* block.                                                                  *)
(***************************************************************************)
LEMMA OneLessAhead ==
  ASSUME NEW s1, NEW s2, NEW p \in Seq(Instrs), IsAhead(s1, s2, p, <<>>), p # <<>>
  PROVE  IsAhead(After(s1, Head(p)), s2, Tail(p), <<>>)
<1>1. PICK k, h : Ahead(s1, s2, p, <<>>, k, h)
  BY DEF IsAhead
<1>2. k \in 0 .. Len(p) /\ <<>> = SubSeq(p, k + 1, Len(p))
  BY <1>1 DEF Ahead
<1>3. k = Len(p) /\ Len(p) \in Nat \ {0}
  BY <1>2, RestOfBlock
<1>4. /\ h \in [0 .. k -> ToolStates] /\ h[0] = s1 /\ h[k] = s2
      /\ \A i \in 1 .. k : h[i] = After(h[i - 1], p[i])
      /\ \A i \in 0 .. k : \A d \in Indices : h[i].dist[d] <= s2.dist[d]
  BY <1>1 DEF Ahead
<1> DEFINE t == Tail(p)
           g == [i \in 0 .. k - 1 |-> h[i + 1]]
<1>5. /\ t \in Seq(Instrs) /\ Len(t) = k - 1 /\ Head(p) = p[1]
      /\ \A i \in 1 .. k - 1 : t[i] = p[i + 1]
  BY <1>3, HeadTailProperties
<1> HIDE DEF t
<1>6. /\ g \in [0 .. k - 1 -> ToolStates]
      /\ \A i \in 0 .. k - 1 : g[i] = h[i + 1]
  BY <1>3, <1>4
<1> HIDE DEF g
<1>7. g[0] = After(s1, Head(p)) /\ g[k - 1] = s2
  BY <1>3, <1>4, <1>5, <1>6
<1>8. ASSUME NEW i \in 1 .. k - 1
      PROVE  g[i] = After(g[i - 1], t[i])
  <2>1. i + 1 \in 1 .. k /\ i \in 0 .. k - 1 /\ i - 1 \in 0 .. k - 1 /\ (i + 1) - 1 = i
        /\ (i - 1) + 1 = i
    BY <1>3
  <2>2. h[i + 1] = After(h[i], p[i + 1])
    BY <1>4, <2>1
  <2>3. g[i] = h[i + 1] /\ g[i - 1] = h[i]
    BY <1>6, <2>1
  <2> QED  BY <1>5, <2>2, <2>3
<1>9. \A i \in 0 .. k - 1 : \A d \in Indices : g[i].dist[d] <= s2.dist[d]
  <2> TAKE i \in 0 .. k - 1
  <2>1. i + 1 \in 0 .. k /\ g[i] = h[i + 1]
    BY <1>3, <1>6
  <2> QED  BY <1>4, <2>1
<1>10. k - 1 \in 0 .. Len(t) /\ <<>> = SubSeq(t, (k - 1) + 1, Len(t))
  BY <1>3, <1>5, RestOfBlock
<1>11. Ahead(After(s1, Head(p)), s2, t, <<>>, k - 1, g)
  BY <1>6, <1>7, <1>8, <1>9, <1>10 DEF Ahead
<1> QED  BY <1>11 DEF IsAhead, t

-----------------------------------------------------------------------------
(***************************************************************************)
(* The invariant of the two tools: the one per block is ahead of the other *)
(* by some of the pending instructions.                                    *)
(***************************************************************************)
AheadInv ==
  /\ trace \in Seq(Instrs)
  /\ pending \in Seq(Instrs)
  /\ Tool1 \in ToolStates /\ Tool2 \in ToolStates
  /\ IsAhead(Tool1, Tool2, pending, insts)

(***************************************************************************)
(* Neither tool is ahead when the program starts.                          *)
(***************************************************************************)
LEMMA InitAhead == Init => AheadInv
<1> SUFFICES ASSUME Init
             PROVE  AheadInv
  OBVIOUS
<1>1. Tool2 = Tool1
  <2>1. PerBlock!Indices = Indices
    BY DEF PerBlock!Indices, Indices
  <2> QED  BY <2>1 DEF Init, ToolInit, PerBlock!ToolInit, Tool1, Tool2
<1>2. Tool1 \in ToolStates
  <2>1. 0 \in INT32
    BY HalfOfWord DEF INT32
  <2> QED  BY <2>1 DEF Init, ToolInit, Tool1, ToolStates
<1>3. pending = <<>> /\ insts = <<>> /\ trace = <<>> /\ <<>> \in Seq(Instrs)
  BY DEF Init
<1> QED  BY <1>1, <1>2, <1>3, BlockIsAhead DEF AheadInv

(***************************************************************************)
(* Every step of the program and its tools keeps the invariant.            *)
(***************************************************************************)
LEMMA NextAhead == AheadInv /\ [Next]_vars => AheadInv'
<1> SUFFICES ASSUME AheadInv, [Next]_vars
             PROVE  AheadInv'
  OBVIOUS
<1>1. /\ trace \in Seq(Instrs) /\ pending \in Seq(Instrs)
      /\ Tool1 \in ToolStates /\ Tool2 \in ToolStates
      /\ IsAhead(Tool1, Tool2, pending, insts)
  BY DEF AheadInv
<1>2. UNCHANGED toolVars => Tool1' = Tool1
  BY DEF toolVars, Tool1
<1>3. UNCHANGED perBlockVars => Tool2' = Tool2
  BY DEF perBlockVars, Tool2
<1> HIDE DEF Tool1, Tool2
<1>4. ASSUME NEW bbl \in Blocks, EnterBlock(bbl)
      PROVE  AheadInv'
  <2>1. bbl \in Seq(Instrs)
    BY DependSuiteAssumption
  <2>2. /\ pending = <<>> /\ pending' = bbl /\ insts' = bbl /\ trace' = trace
        /\ Tool1' = Tool1 /\ Tool2' = Tool2
    BY <1>2, <1>3, <1>4 DEF EnterBlock
  <2>3. Tool2 = Tool1
    BY <1>1, <2>2, NothingAhead
  <2>4. IsAhead(Tool1, Tool1, bbl, bbl)
    BY <1>1, <2>1, BlockIsAhead
  <2> QED  BY <1>1, <2>1, <2>2, <2>3, <2>4 DEF AheadInv
<1>5. ASSUME Analyse
      PROVE  AheadInv'
  <2>1. /\ insts # <<>> /\ insts' = Tail(insts) /\ pending' = pending /\ trace' = trace
        /\ Tool1' = Tool1 /\ Tool2' = After(Tool2, Head(insts))
    BY <1>2, <1>5, RoutinesAreAfter DEF Analyse
  <2>2. IsAhead(Tool1, After(Tool2, Head(insts)), pending, Tail(insts))
    BY <1>1, <2>1, OneMoreAhead
  <2>3. Head(insts) \in Instrs
    <3>1. PICK k, h : Ahead(Tool1, Tool2, pending, insts, k, h)
      BY <1>1 DEF IsAhead
    <3>2. k \in 0 .. Len(pending) /\ insts = SubSeq(pending, k + 1, Len(pending))
      BY <3>1 DEF Ahead
    <3>3. k < Len(pending)
      BY <1>1, <2>1, <3>2, RestOfBlock
    <3> QED  BY <1>1, <3>2, <3>3, RestOfBlock
  <2>4. After(Tool2, Head(insts)) \in ToolStates
    BY <1>1, <2>3, AfterIsState
  <2> QED  BY <1>1, <2>1, <2>2, <2>4 DEF AheadInv
<1>6. ASSUME Execute
      PROVE  AheadInv'
  <2>1. /\ insts = <<>> /\ insts' = <<>> /\ pending # <<>> /\ pending' = Tail(pending)
        /\ trace' = Append(trace, Head(pending))
        /\ Tool1' = After(Tool1, Head(pending)) /\ Tool2' = Tool2
    BY <1>3, <1>6, RoutinesAreAfter DEF Execute
  <2>2. IsAhead(After(Tool1, Head(pending)), Tool2, Tail(pending), <<>>)
    BY <1>1, <2>1, OneLessAhead
  <2>3. Head(pending) \in Instrs /\ Tail(pending) \in Seq(Instrs)
        /\ Append(trace, Head(pending)) \in Seq(Instrs)
    BY <1>1, <2>1
  <2>4. After(Tool1, Head(pending)) \in ToolStates
    BY <1>1, <2>3, AfterIsState
  <2> QED  BY <1>1, <2>1, <2>2, <2>3, <2>4 DEF AheadInv
<1>7. ASSUME UNCHANGED vars
      PROVE  AheadInv'
  BY <1>1, <1>2, <1>3, <1>7 DEF vars, AheadInv
<1> QED  BY <1>4, <1>5, <1>6, <1>7 DEF Next

(***************************************************************************)
(* A step under the counting tools is one of DependSuite, or does not      *)
(* touch its variables.                                                    *)
(***************************************************************************)
LEMMA CountingRunsDependSuite == [CountNext]_<<vars, countVars>> => [Next]_vars
BY DEF CountNext, CountEnterBlock, CountAnalyse, Inscount2Anywhere,
       InstrumentTraceAnywhere, ExecutePlain, StartRep, ContinueRep, ExecuteIteration,
       Next

(***************************************************************************)
(* The invariant holds in every state.                                     *)
(***************************************************************************)
LEMMA AheadInvariant == CountSpec => []AheadInv
<1>1. CountInit => AheadInv
  BY InitAhead DEF CountInit
<1>2. AheadInv /\ [CountNext]_<<vars, countVars>> => AheadInv'
  BY NextAhead, CountingRunsDependSuite
<1> QED  BY <1>1, <1>2, PTL DEF CountSpec

(***************************************************************************)
(* The invariant gives the types.                                          *)
(***************************************************************************)
LEMMA AheadHasTypes == AheadInv => TypeOK
<1> SUFFICES ASSUME AheadInv
             PROVE  TypeOK
  OBVIOUS
<1>1. ToolTypeOK
  BY DEF AheadInv, Tool1, ToolStates, ToolTypeOK
<1>2. PerBlock!ToolTypeOK
  <2>1. PerBlock!Indices = Indices /\ PerBlock!INT32 = INT32
    BY DEF PerBlock!Indices, Indices, PerBlock!INT32, INT32
  <2> QED  BY <2>1 DEF AheadInv, Tool2, ToolStates, PerBlock!ToolTypeOK
<1>3. \E n \in 0 .. Len(pending) : insts = SubSeq(pending, n + 1, Len(pending))
  BY DEF AheadInv, IsAhead, Ahead
<1> QED  BY <1>1, <1>2, <1>3 DEF TypeOK, AheadInv

(***************************************************************************)
(* The invariant gives the agreement: the states between are those of one  *)
(* tool, and no count falls from one to the next.                          *)
(***************************************************************************)
LEMMA AheadAgrees == AheadInv => ToolsAgree
<1> SUFFICES ASSUME AheadInv
             PROVE  ToolsAgree
  OBVIOUS
<1>1. /\ pending \in Seq(Instrs) /\ IsAhead(Tool1, Tool2, pending, insts)
  BY DEF AheadInv
<1>2. ASSUME pending = <<>>
      PROVE  /\ insPointer2 = insPointer
             /\ lastInsPointer2 = lastInsPointer
             /\ insDependDistance2 = insDependDistance
             /\ outside2 = outside
  <2>1. Tool1 = Tool2
    <3> HIDE DEF Tool1, Tool2
    <3> QED  BY <1>1, <1>2, NothingAhead
  <2> QED  BY <2>1 DEF Tool1, Tool2
<1>3. ASSUME NEW d \in Indices
      PROVE  insDependDistance[d] <= insDependDistance2[d]
  <2>1. PICK k, h : Ahead(Tool1, Tool2, pending, insts, k, h)
    BY <1>1 DEF IsAhead
  <2>2. k \in 0 .. Len(pending) /\ h[0] = Tool1
        /\ \A i \in 0 .. k : h[i].dist[d] <= Tool2.dist[d]
    BY <2>1 DEF Ahead
  <2>3. 0 \in 0 .. k
    BY <1>1, <2>2
  <2>4. Tool1.dist[d] <= Tool2.dist[d]
    BY <2>2, <2>3
  <2> QED  BY <2>4 DEF Tool1, Tool2
<1> QED  BY <1>2, <1>3 DEF ToolsAgree

(***************************************************************************)
(* The state of both dependency tools keeps its types, whatever wraps: the *)
(* instruction numbers and distances stay integers of the width of the     *)
(* code, and what is left to analyse is the end of what is to execute.     *)
(***************************************************************************)
THEOREM TypeCorrect == CountSpec => []TypeOK
BY AheadInvariant, AheadHasTypes, PTL

(***************************************************************************)
(* The tool that instruments instruction by instruction and the one that   *)
(* walks each block have found the same between two blocks, and within one *)
(* no count of the former exceeds that of the latter.                      *)
(***************************************************************************)
THEOREM ToolsAlwaysAgree == CountSpec => []ToolsAgree
BY AheadInvariant, AheadAgrees, PTL

-----------------------------------------------------------------------------
(***************************************************************************)
(* The histogram. What the trace t says of a register: l is the number of  *)
(* the last instruction that wrote r, 0 if none did; the j-th instruction  *)
(* reads r, written last d instructions before; the number of such pairs.  *)
(* HistoryOf says that the state s of the tool is what the trace t makes   *)
(* it.                                                                     *)
(***************************************************************************)
LastWriter(t, r, l) ==
  /\ l \in 0 .. Len(t)
  /\ l > 0 => r \in t[l].write
  /\ \A j \in l + 1 .. Len(t) : r \notin t[j].write

DependsIn(t, j, r, d) ==
  /\ d < j
  /\ r \in t[j].read
  /\ r \in t[j - d].write
  /\ \A k \in j - d + 1 .. j - 1 : r \notin t[k].write

PairsIn(t, d) ==
  {at \in (1 .. Len(t)) \X Regs : DependsIn(t, at[1], at[2], d)}

HistoryOf(t, s) ==
  /\ s.ptr = Len(t)
  /\ \A r \in Regs : LastWriter(t, r, s.last[r])
  /\ \A d \in Indices : s.dist[d] = IF d = 0 THEN 0 ELSE Cardinality(PairsIn(t, d))

Readers(t, ins, d) == {r \in Regs : DependsIn(Append(t, ins), Len(t) + 1, r, d)}

(***************************************************************************)
(* An instruction at the end of the trace leaves the others where they     *)
(* are.                                                                    *)
(***************************************************************************)
LEMMA OneMoreInstruction ==
  ASSUME NEW t \in Seq(Instrs), NEW ins \in Instrs
  PROVE  /\ Append(t, ins) \in Seq(Instrs)
         /\ Len(t) \in Nat /\ Len(Append(t, ins)) = Len(t) + 1
         /\ Append(t, ins)[Len(t) + 1] = ins
         /\ \A j \in 1 .. Len(t) : Append(t, ins)[j] = t[j]
OBVIOUS

(***************************************************************************)
(* The last writer of a register after one more instruction.               *)
(***************************************************************************)
LEMMA WriterAfter ==
  ASSUME NEW t \in Seq(Instrs), NEW ins \in Instrs, NEW r \in Regs, NEW l,
         LastWriter(t, r, l)
  PROVE  LastWriter(Append(t, ins), r, IF r \in ins.write THEN Len(t) + 1 ELSE l)
<1> DEFINE u == Append(t, ins)
           n == Len(t)
<1>1. /\ n \in Nat /\ Len(u) = n + 1 /\ u[n + 1] = ins
      /\ \A j \in 1 .. n : u[j] = t[j]
  BY OneMoreInstruction
<1>2. /\ l \in 0 .. n /\ (l > 0 => r \in t[l].write)
      /\ \A j \in l + 1 .. n : r \notin t[j].write
  BY DEF LastWriter
<1> HIDE DEF u, n
<1>3. CASE r \in ins.write
  BY <1>1, <1>3 DEF LastWriter, u, n
<1>4. CASE r \notin ins.write
  <2>1. l \in 0 .. n + 1 /\ (l > 0 => r \in u[l].write)
    BY <1>1, <1>2
  <2>2. \A j \in l + 1 .. n + 1 : r \notin u[j].write
    <3> TAKE j \in l + 1 .. n + 1
    <3>1. CASE j = n + 1
      BY <1>1, <1>4, <3>1
    <3>2. CASE j # n + 1
      <4>1. j \in l + 1 .. n /\ j \in 1 .. n
        BY <1>1, <1>2, <3>2
      <4> QED  BY <1>1, <1>2, <4>1
    <3> QED  BY <3>1, <3>2
  <2>3. LastWriter(u, r, l)
    BY <1>1, <2>1, <2>2 DEF LastWriter
  <2> QED  BY <1>4, <2>3 DEF u
<1> QED  BY <1>3, <1>4

(***************************************************************************)
(* The instruction that comes last depends over a distance d through the   *)
(* register r exactly when it reads r, r was written, and d is the         *)
(* distance to the last writer, as the routine computes it.                *)
(***************************************************************************)
LEMMA DependenceIsDistance ==
  ASSUME NEW t \in Seq(Instrs), NEW ins \in Instrs, NEW r \in Regs, NEW l,
         LastWriter(t, r, l), NEW d \in Nat \ {0}
  PROVE  DependsIn(Append(t, ins), Len(t) + 1, r, d)
           <=> r \in ins.read /\ l > 0 /\ Len(t) + 1 - l = d
<1> DEFINE u == Append(t, ins)
           n == Len(t)
<1>1. /\ n \in Nat /\ Len(u) = n + 1 /\ u[n + 1] = ins
      /\ \A j \in 1 .. n : u[j] = t[j]
  BY OneMoreInstruction
<1>2. /\ l \in 0 .. n /\ (l > 0 => r \in t[l].write)
      /\ \A j \in l + 1 .. n : r \notin t[j].write
  BY DEF LastWriter
<1>3. DependsIn(u, n + 1, r, d) <=>
        /\ d < n + 1 /\ r \in ins.read
        /\ r \in u[n + 1 - d].write
        /\ \A k \in n + 1 - d + 1 .. n + 1 - 1 : r \notin u[k].write
  BY <1>1 DEF DependsIn
<1> HIDE DEF u, n
<1>4. ASSUME r \in ins.read, l > 0, n + 1 - l = d
      PROVE  DependsIn(u, n + 1, r, d)
  <2>1. d < n + 1 /\ n + 1 - d = l /\ l \in 1 .. n /\ n + 1 - 1 = n
    BY <1>1, <1>2, <1>4
  <2>2. r \in u[l].write
    BY <1>1, <1>2, <2>1
  <2>3. \A k \in l + 1 .. n : r \notin u[k].write
    <3> TAKE k \in l + 1 .. n
    <3>1. k \in 1 .. n
      BY <1>1, <2>1
    <3> QED  BY <1>1, <1>2, <3>1
  <2> QED  BY <1>3, <1>4, <2>1, <2>2, <2>3
<1>5. ASSUME DependsIn(u, n + 1, r, d)
      PROVE  r \in ins.read /\ l > 0 /\ n + 1 - l = d
  <2> DEFINE w == n + 1 - d
  <2>1. w \in 1 .. n
    BY <1>1, <1>3, <1>5
  <2>2. w + 1 = n + 1 - d + 1 /\ n + 1 - 1 = n
    BY <1>1
  <2>3. /\ r \in ins.read /\ r \in u[w].write
        /\ \A k \in w + 1 .. n : r \notin u[k].write
    BY <1>3, <1>5, <2>2
  <2>4. r \in t[w].write /\ \A k \in w + 1 .. n : r \notin t[k].write
    <3>1. \A k \in w + 1 .. n : k \in 1 .. n
      BY <2>1
    <3> HIDE DEF w
    <3> QED  BY <1>1, <2>1, <2>3, <3>1
  <2> HIDE DEF w
  <2>5. ~(w \in l + 1 .. n) /\ (l > 0 => ~(l \in w + 1 .. n))
    BY <1>2, <2>4
  <2>6. l = w
    BY <1>1, <1>2, <2>1, <2>5
  <2> QED  BY <1>1, <2>1, <2>3, <2>6 DEF w
<1> QED  BY <1>4, <1>5 DEF u, n

(***************************************************************************)
(* One more instruction adds to the pairs at a distance those in which it  *)
(* reads.                                                                  *)
(***************************************************************************)
LEMMA PairsGrow ==
  ASSUME NEW t \in Seq(Instrs), NEW ins \in Instrs, NEW d \in Nat \ {0}
  PROVE  /\ IsFiniteSet(PairsIn(t, d)) /\ IsFiniteSet(Readers(t, ins, d))
         /\ Cardinality(PairsIn(Append(t, ins), d))
              = Cardinality(PairsIn(t, d)) + Cardinality(Readers(t, ins, d))
<1> DEFINE u == Append(t, ins)
           n == Len(t)
           New == {<<n + 1, r>> : r \in Readers(t, ins, d)}
<1>1. /\ n \in Nat /\ Len(u) = n + 1
      /\ \A j \in 1 .. n : u[j] = t[j]
  BY OneMoreInstruction
<1>2. IsFiniteSet(Regs)
  BY InsDependAssumption
<1>3. Readers(t, ins, d) \in SUBSET Regs
  BY DEF Readers
<1>4. IsFiniteSet(Readers(t, ins, d)) /\ Cardinality(Readers(t, ins, d)) \in Nat
  BY <1>2, <1>3, FS_Subset, FS_CardinalityType
<1>5. IsFiniteSet(PairsIn(t, d)) /\ Cardinality(PairsIn(t, d)) \in Nat
  <2>1. IsFiniteSet((1 .. n) \X Regs)
    <3>1. 1 \in Int /\ n \in Int
      BY <1>1
    <3>2. IsFiniteSet(1 .. n)
      <4> HIDE DEF n
      <4> QED  BY <3>1, FS_Interval
    <3> HIDE DEF n
    <3> QED  BY <1>2, <3>2, FS_Product
  <2>2. PairsIn(t, d) \in SUBSET ((1 .. n) \X Regs)
    BY DEF PairsIn
  <2> QED  BY <2>1, <2>2, FS_Subset, FS_CardinalityType
<1> HIDE DEF u, n
<1>6. \A j \in 1 .. n, r \in Regs : DependsIn(u, j, r, d) <=> DependsIn(t, j, r, d)
  <2> TAKE j \in 1 .. n, r \in Regs
  <2>1. u[j] = t[j] /\ (d < j => j - d \in 1 .. n)
        /\ (d < j => \A k \in j - d + 1 .. j - 1 : k \in 1 .. n)
    BY <1>1
  <2>2. d < j => u[j - d] = t[j - d] /\ \A k \in j - d + 1 .. j - 1 : u[k] = t[k]
    BY <1>1, <2>1
  <2> QED  BY <2>1, <2>2 DEF DependsIn
<1>7. PairsIn(u, d) = PairsIn(t, d) \cup New
  <2>1. ASSUME NEW j, NEW r
        PROVE  <<j, r>> \in PairsIn(u, d) <=> <<j, r>> \in PairsIn(t, d) \/ <<j, r>> \in New
    <3>1. <<j, r>> \in PairsIn(u, d) <=>
            j \in 1 .. n + 1 /\ r \in Regs /\ DependsIn(u, j, r, d)
      BY <1>1 DEF PairsIn
    <3>2. <<j, r>> \in PairsIn(t, d) <=>
            j \in 1 .. n /\ r \in Regs /\ DependsIn(t, j, r, d)
      BY DEF PairsIn, n
    <3>3. <<j, r>> \in New <=> j = n + 1 /\ r \in Regs /\ DependsIn(u, n + 1, r, d)
      BY DEF Readers, u, n
    <3>4. j \in 1 .. n + 1 <=> j \in 1 .. n \/ j = n + 1
      BY <1>1
    <3> HIDE DEF New
    <3> QED  BY <1>6, <3>1, <3>2, <3>3, <3>4
  <2>2. \A at \in PairsIn(u, d) \cup PairsIn(t, d) \cup New : at = <<at[1], at[2]>>
    BY DEF PairsIn
  <2> HIDE DEF New
  <2> QED  BY <2>1, <2>2
<1>8. PairsIn(t, d) \cap New = {}
  <2>1. \A at \in PairsIn(t, d) : at[1] \in 1 .. n
    BY DEF PairsIn, n
  <2>2. \A at \in New : at[1] = n + 1
    OBVIOUS
  <2>3. n + 1 \notin 1 .. n
    BY <1>1
  <2> HIDE DEF New
  <2> QED  BY <2>1, <2>2, <2>3
<1>9. IsFiniteSet(New) /\ Cardinality(New) = Cardinality(Readers(t, ins, d))
  <2> DEFINE f == [r \in Readers(t, ins, d) |-> <<n + 1, r>>]
  <2>1. /\ f \in [Readers(t, ins, d) -> New]
        /\ \A r, q \in Readers(t, ins, d) : f[r] = f[q] => r = q
        /\ \A at \in New : \E r \in Readers(t, ins, d) : f[r] = at
    OBVIOUS
  <2> HIDE DEF f, New
  <2>2. f \in Bijection(Readers(t, ins, d), New)
    BY <2>1 DEF Bijection, Injection, Surjection, IsInjective
  <2>3. ExistsBijection(Readers(t, ins, d), New)
    BY <2>2 DEF ExistsBijection
  <2> QED  BY <1>4, <2>3, FS_Bijection
<1> HIDE DEF New
<1>10. Cardinality(PairsIn(t, d) \cap New) = 0
  BY <1>8, FS_EmptySet
<1>11. Cardinality(PairsIn(t, d) \cup New) =
         Cardinality(PairsIn(t, d)) + Cardinality(New) - Cardinality(PairsIn(t, d) \cap New)
  BY <1>5, <1>9, FS_Union
<1> QED  BY <1>4, <1>5, <1>7, <1>9, <1>10, <1>11 DEF u

(***************************************************************************)
(* The routine makes of the state that belongs to a trace the one that     *)
(* belongs to the trace with one more instruction, as long as the          *)
(* instruction numbers fit a word.                                         *)
(***************************************************************************)
LEMMA HistoryGrows ==
  ASSUME NEW t \in Seq(Instrs), NEW ins \in Instrs, NEW s \in ToolStates,
         HistoryOf(t, s), Len(t) + 1 < 2 ^ (IntWidth - 1)
  PROVE  HistoryOf(Append(t, ins), After(s, ins))
<1> DEFINE u == Append(t, ins)
           n == Len(t)
           a == After(s, ins)
           half == 2 ^ (IntWidth - 1)
<1>1. /\ n \in Nat /\ Len(u) = n + 1 /\ u[n + 1] = ins /\ n + 1 < half
      /\ half \in Nat \ {0} /\ INT32 = -half .. half - 1
  BY OneMoreInstruction, HalfOfWord DEF INT32
<1>2. /\ s.ptr = n
      /\ \A r \in Regs : LastWriter(t, r, s.last[r])
      /\ \A d \in Indices : s.dist[d] = IF d = 0 THEN 0 ELSE Cardinality(PairsIn(t, d))
  BY DEF HistoryOf
<1> HIDE DEF u, n, a, half
<1>3. n + 1 \in Int /\ n + 1 \in INT32
  BY <1>1
<1>4. NumberOf(s) = n + 1
  BY <1>2, <1>3, WrapIsInt DEF NumberOf
<1>5. \A r \in Regs : s.last[r] \in 0 .. n /\ DistanceTo(s, r) = n + 1 - s.last[r]
  <2> TAKE r \in Regs
  <2>1. s.last[r] \in 0 .. n
    BY <1>2 DEF LastWriter, n
  <2> DEFINE m == n + 1 - s.last[r]
  <2>2. m \in Int /\ m \in INT32
    BY <1>1, <2>1
  <2>3. DistanceTo(s, r) = Wrap(m)
    <3>1. DistanceTo(s, r) = Wrap(NumberOf(s) - s.last[r])
      BY DEF DistanceTo
    <3>2. NumberOf(s) - s.last[r] = m
      <4> DEFINE k == NumberOf(s)
      <4>1. k = n + 1
        BY <1>4
      <4> HIDE DEF k
      <4>2. k - s.last[r] = n + 1 - s.last[r]
        BY <4>1, <2>1, <1>1
      <4> QED  BY <4>2 DEF k, m
    <3> HIDE DEF m
    <3> QED  BY <3>1, <3>2
  <2> HIDE DEF m
  <2>4. Wrap(m) = m
    BY <2>2, WrapIsInt
  <2> QED  BY <2>1, <2>3, <2>4 DEF m
<1>6. /\ a.ptr = n + 1
      /\ \A r \in Regs : a.last[r] = IF r \in ins.write THEN n + 1 ELSE s.last[r]
      /\ \A d \in Indices :
           a.dist[d] = s.dist[d]
             + Cardinality({r \in CountedBy(s, ins) : DistanceTo(s, r) = d})
  BY <1>4 DEF a, After
<1>7. \A r \in Regs : LastWriter(u, r, a.last[r])
  <2> TAKE r \in Regs
  <2>1. LastWriter(u, r, IF r \in ins.write THEN n + 1 ELSE s.last[r])
    BY <1>2, WriterAfter DEF u, n
  <2> QED  BY <1>6, <2>1
<1>8. \A d \in Indices : a.dist[d] = IF d = 0 THEN 0 ELSE Cardinality(PairsIn(u, d))
  <2> TAKE d \in Indices
  <2> DEFINE met == {r \in CountedBy(s, ins) : DistanceTo(s, r) = d}
  <2>1. d \in Nat /\ d <= maxSize
    BY InsDependAssumption DEF Indices
  <2>2. ins.read \subseteq Regs
    BY InsDependAssumption
  <2>3. CASE d = 0
    <3>1. \A r \in Regs : DistanceTo(s, r) # 0
      BY <1>1, <1>5
    <3>2. met = {}
      BY <2>2, <2>3, <3>1 DEF CountedBy
    <3> HIDE DEF met
    <3>3. Cardinality(met) = 0
      BY <3>2, FS_EmptySet
    <3>4. s.dist[d] = 0 /\ a.dist[d] = s.dist[d] + Cardinality(met)
      BY <1>2, <1>6, <2>3 DEF met
    <3> QED  BY <2>3, <3>3, <3>4
  <2>4. CASE d # 0
    <3>1. d \in Nat \ {0}
      BY <2>1, <2>4
    <3>2. met = Readers(t, ins, d)
      <4>1. ASSUME NEW r \in Regs
            PROVE  r \in met <=> r \in Readers(t, ins, d)
        <5>1. LastWriter(t, r, s.last[r])
          BY <1>2
        <5>2. DependsIn(Append(t, ins), Len(t) + 1, r, d)
                <=> r \in ins.read /\ s.last[r] > 0 /\ Len(t) + 1 - s.last[r] = d
          BY <3>1, <5>1, DependenceIsDistance
        <5>3. DistanceTo(s, r) = n + 1 - s.last[r]
          BY <1>5
        <5>4. r \in met <=> r \in ins.read /\ s.last[r] > 0 /\ DistanceTo(s, r) = d
          BY <2>1 DEF CountedBy
        <5> HIDE DEF met
        <5> QED  BY <5>2, <5>3, <5>4 DEF Readers, n
      <4>2. met \subseteq Regs /\ Readers(t, ins, d) \subseteq Regs
        BY <2>2 DEF CountedBy, Readers
      <4> HIDE DEF met
      <4> QED  BY <4>1, <4>2
    <3> HIDE DEF met
    <3>3. Cardinality(PairsIn(u, d)) =
            Cardinality(PairsIn(t, d)) + Cardinality(Readers(t, ins, d))
      BY <3>1, PairsGrow DEF u
    <3>4. a.dist[d] = s.dist[d] + Cardinality(met) /\ s.dist[d] = Cardinality(PairsIn(t, d))
      BY <1>2, <1>6, <2>4 DEF met
    <3> QED  BY <2>4, <3>2, <3>3, <3>4
  <2> QED  BY <2>3, <2>4
<1> QED  BY <1>1, <1>6, <1>7, <1>8 DEF HistoryOf, u, a

-----------------------------------------------------------------------------
(***************************************************************************)
(* The invariant of the histogram: until the instruction number wraps the  *)
(* state of the tool is what the trace makes it. Afterwards distances go   *)
(* wrong, and nothing is promised.                                         *)
(***************************************************************************)
HistoryInv ==
  AheadInv /\ (Len(trace) < 2 ^ (IntWidth - 1) => HistoryOf(trace, Tool1))

(***************************************************************************)
(* Executing an instruction is one call of the routine per instruction.    *)
(***************************************************************************)
LEMMA ExecuteIsAfter ==
  Execute => /\ Tool1' = After(Tool1, Head(pending))
             /\ trace' = Append(trace, Head(pending))
             /\ pending # <<>>
BY RoutinesAreAfter DEF Execute

(***************************************************************************)
(* Every step of the program and its tools keeps the invariant.            *)
(***************************************************************************)
LEMMA NextHistory == HistoryInv /\ [Next]_vars => HistoryInv'
<1> SUFFICES ASSUME HistoryInv, [Next]_vars
             PROVE  HistoryInv'
  OBVIOUS
<1> DEFINE half == 2 ^ (IntWidth - 1)
<1>1. /\ AheadInv /\ AheadInv'
      /\ Len(trace) < half => HistoryOf(trace, Tool1)
  BY NextAhead DEF HistoryInv
<1> HIDE DEF half
<1>2. CASE Execute
  <2>1. /\ trace \in Seq(Instrs) /\ Head(pending) \in Instrs /\ Tool1 \in ToolStates
    BY <1>1, <1>2, ExecuteIsAfter DEF AheadInv
  <2>2. Len(trace) \in Nat /\ Len(Append(trace, Head(pending))) = Len(trace) + 1
        /\ half \in Nat
    BY <2>1, HalfOfWord DEF half
  <2>3. ASSUME Len(Append(trace, Head(pending))) < half
        PROVE  HistoryOf(Append(trace, Head(pending)), After(Tool1, Head(pending)))
    <3>1. Len(trace) < half /\ Len(trace) + 1 < half
      BY <2>2, <2>3
    <3>2. HistoryOf(trace, Tool1)
      BY <1>1, <3>1
    <3> HIDE DEF Tool1
    <3> QED  BY <2>1, <3>1, <3>2, HistoryGrows DEF half
  <2>4. Tool1' = After(Tool1, Head(pending)) /\ trace' = Append(trace, Head(pending))
    BY <1>2, ExecuteIsAfter
  <2>5. Len(trace)' < half => HistoryOf(trace, Tool1)'
    <3> HIDE DEF Tool1
    <3> QED  BY <2>3, <2>4 DEF HistoryOf
  <2> QED  BY <1>1, <2>5 DEF HistoryInv, half
<1>3. CASE UNCHANGED <<toolVars, trace>>
  <2>1. Tool1' = Tool1 /\ trace' = trace
    BY <1>3 DEF toolVars, Tool1
  <2>2. Len(trace)' < half => HistoryOf(trace, Tool1)'
    <3> HIDE DEF Tool1
    <3> QED  BY <1>1, <2>1 DEF HistoryOf
  <2> QED  BY <1>1, <2>2 DEF HistoryInv, half
<1>4. Execute \/ UNCHANGED <<toolVars, trace>>
  BY DEF Next, EnterBlock, Analyse, vars
<1> QED  BY <1>2, <1>3, <1>4

(***************************************************************************)
(* Before the program starts its trace is empty, and so is the histogram.  *)
(***************************************************************************)
LEMMA InitHistory == Init => HistoryInv
<1> SUFFICES ASSUME Init
             PROVE  HistoryOf(trace, Tool1)
  BY InitAhead DEF HistoryInv
<1>1. trace = <<>> /\ Len(trace) = 0
  BY DEF Init
<1>2. Tool1 = [ptr |-> 0, last |-> [r \in Regs |-> 0],
               dist |-> [d \in Indices |-> 0], out |-> {}]
  BY DEF Init, ToolInit, Tool1
<1>3. \A r \in Regs : LastWriter(trace, r, 0)
  BY <1>1 DEF LastWriter
<1>4. \A d : Cardinality(PairsIn(trace, d)) = 0
  <2> TAKE d
  <2>1. PairsIn(trace, d) = {}
    BY <1>1 DEF PairsIn
  <2> QED  BY <2>1, FS_EmptySet
<1> QED  BY <1>1, <1>2, <1>3, <1>4 DEF HistoryOf

(***************************************************************************)
(* The invariant holds in every state.                                     *)
(***************************************************************************)
LEMMA HistoryInvariant == CountSpec => []HistoryInv
<1>1. CountInit => HistoryInv
  BY InitHistory DEF CountInit
<1>2. HistoryInv /\ [CountNext]_<<vars, countVars>> => HistoryInv'
  BY NextHistory, CountingRunsDependSuite
<1> QED  BY <1>1, <1>2, PTL DEF CountSpec

(***************************************************************************)
(* The invariant gives the histogram.                                      *)
(***************************************************************************)
LEMMA HistoryIsTrue == HistoryInv => HistogramIsTrue
<1> SUFFICES ASSUME HistoryInv, Len(trace) < 2 ^ (IntWidth - 1), NEW d \in Indices
             PROVE  insDependDistance[d] = IF d = 0 THEN 0 ELSE Dependences(d)
  BY DEF HistogramIsTrue
<1>1. Tool1.dist[d] = IF d = 0 THEN 0 ELSE Cardinality(PairsIn(trace, d))
  BY DEF HistoryInv, HistoryOf
<1>2. trace \in Seq(Instrs) /\ DOMAIN trace = 1 .. Len(trace)
  BY DEF HistoryInv, AheadInv
<1>3. Dependences(d) = Cardinality(PairsIn(trace, d))
  BY <1>2 DEF Dependences, PairsIn, DependsAt, DependsIn
<1> QED  BY <1>1, <1>3 DEF Tool1

(***************************************************************************)
(* The histogram of the tool per instruction is that of the program that   *)
(* executed: for every distance the pairs of an instruction and a register *)
(* it reads, written last that many instructions before.                   *)
(***************************************************************************)
THEOREM HistogramAlwaysTrue == CountSpec => []HistogramIsTrue
BY HistoryInvariant, HistoryIsTrue, PTL

-----------------------------------------------------------------------------

(***************************************************************************)
(* countreps with and without -slow. The labels of the executions, the     *)
(* states of the tool, the iterations Pin shows it (an iteration executes  *)
(* unless the count register is 0), what is cut off, and whether the       *)
(* instruction has an operand.                                             *)
(***************************************************************************)
Executions == [nr : Nat, ins : RepOps, count : Nat, df : BOOLEAN]

RepTools ==
  [stats : [RepOps -> [count : Nat, repeatedCount : Nat, zeroLength : Nat]],
   memOps : [RepOps -> [reads : Nat, writes : Nat]],
   logged : Nat,
   log : [Operands -> SUBSET (Executions \X Int)]]

Iterations ==
  [exec : Executions, ins : RepOps, first : BOOLEAN, executing : BOOLEAN, count : Nat,
   df : BOOLEAN, ea : [Operands -> Int]]

IsIteration(it) ==
  /\ it \in Iterations /\ (it.executing <=> it.count # 0)
  /\ it.exec.ins = it.ins /\ it.exec.df = it.df
  /\ it.first => it.exec.count = it.count

Losses == [RepOps -> [repeats : Nat, zeros : Nat]]

HasOperand(op, operand) ==
  \/ operand = "Read " /\ RepInfo[op].reads > 0
  \/ operand = "Read2" /\ RepInfo[op].reads > 1
  \/ operand = "Write" /\ RepInfo[op].writes > 0

(***************************************************************************)
(* The bytes of count elements from ea in the direction df, the lowest of  *)
(* them computed without any limit of width; those of one element; and how *)
(* far on the next element is.                                             *)
(***************************************************************************)
Lowest(ea, df, count, size) == IF df THEN ea - size * count + size ELSE ea

Elements(ea, df, count, size) ==
  Lowest(ea, df, count, size) .. Lowest(ea, df, count, size) + size * count - 1

OneElement(ea, size) == ea .. ea + size - 1

Step(df, size) == IF df THEN -size ELSE size

(***************************************************************************)
(* The entries of the log for the bytes S of an execution.                 *)
(***************************************************************************)
At(exec, S) == {exec} \X S

(***************************************************************************)
(* What the tool with -slow has still to count before and after the        *)
(* iteration it: the one without -slow counted all iterations at the       *)
(* first. Nothing if the instruction may stop early, since then both count *)
(* each.                                                                   *)
(***************************************************************************)
CountOwed(it) == IF RepInfo[it.ins].conditional \/ it.first THEN 0 ELSE it.count

CountOwedAfter(it) ==
  IF RepInfo[it.ins].conditional \/ it.count = 0 THEN 0 ELSE it.count - 1

(***************************************************************************)
(* In the same way the bytes of an operand that it has still to log.       *)
(***************************************************************************)
BytesOwed(it, operand) ==
  IF RepInfo[it.ins].conditional \/ it.first \/ ~HasOperand(it.ins, operand) THEN {}
  ELSE At(it.exec, Elements(it.ea[operand], it.df, it.count, RepInfo[it.ins].size))

BytesOwedAfter(it, operand) ==
  IF RepInfo[it.ins].conditional \/ it.count = 0 \/ ~HasOperand(it.ins, operand) THEN {}
  ELSE At(it.exec, Elements(it.ea[operand] + Step(it.df, RepInfo[it.ins].size), it.df,
                            it.count - 1, RepInfo[it.ins].size))

(***************************************************************************)
(* The tool with -slow is in state s, the other in state f, for which l    *)
(* was cut off, and s has still to count n iterations of the instruction   *)
(* op, and nothing else.                                                   *)
(***************************************************************************)
Agree(s, f, l, op, n) ==
  /\ s.stats[op].count = f.stats[op].count
  /\ s.stats[op].zeroLength = f.stats[op].zeroLength - l[op].zeros
  /\ s.stats[op].repeatedCount + n = f.stats[op].repeatedCount + l[op].repeats
  /\ s.memOps[op].reads + n * RepInfo[op].reads =
       f.memOps[op].reads + l[op].repeats * RepInfo[op].reads
  /\ s.memOps[op].writes + n * RepInfo[op].writes =
       f.memOps[op].writes + l[op].repeats * RepInfo[op].writes

OwesCounts(s, f, l, op, n) ==
  /\ \A o \in RepOps \ {op} : Agree(s, f, l, o, 0)
  /\ op \in RepOps => Agree(s, f, l, op, n)

OwesNoCounts(s, f, l) == \A op \in RepOps : Agree(s, f, l, op, 0)

(***************************************************************************)
(* In the same way s has still to log the entries X. Once the limit of the *)
(* log is reached the rest of the iterations is missing there: only of the *)
(* newest execution, and never all of them.  The label of no execution is  *)
(* above n.                                                                *)
(***************************************************************************)
OwesEntries(s, f, X) ==
  /\ s.logged = f.logged
  /\ \A operand \in Operands : s.log[operand] \subseteq Replaced(f.log[operand])
  /\ f.logged < memoryOpsToLog =>
       \A operand \in Operands :
         Replaced(f.log[operand]) = s.log[operand] \cup X[operand]

Begun(s, f) ==
  \A operand \in Operands :
    \A e \in Replaced(f.log[operand]) : \E d \in s.log[operand] : d[1] = e[1]

NewestMissing(s, f) ==
  \A operand \in Operands :
    \A e \in Replaced(f.log[operand]) \ s.log[operand] :
      f.logged >= memoryOpsToLog =>
        \A other \in Operands : \A d \in f.log[other] : d[1].nr <= e[1].nr

LabelsUpTo(f, n) == \A operand \in Operands : \A d \in f.log[operand] : d[1].nr <= n

OwesBytes(s, f, X, n) ==
  OwesEntries(s, f, X) /\ Begun(s, f) /\ NewestMissing(s, f) /\ LabelsUpTo(f, n)

(***************************************************************************)
(* All entries owed before and after an iteration, and none.               *)
(***************************************************************************)
Owed(it) == [operand \in Operands |-> BytesOwed(it, operand)]

OwedAfter(it) == [operand \in Operands |-> BytesOwedAfter(it, operand)]

Nothing == [operand \in Operands |-> {}]

(***************************************************************************)
(* The invariant: between two instructions with REP nothing is owed, and   *)
(* before a further iteration exactly what the iterations from this one on *)
(* will count and log.                                                     *)
(***************************************************************************)
RepInv ==
  /\ slow \in RepTools /\ fast \in RepTools /\ lost \in Losses
  /\ \/ /\ iteration = NoIteration
        /\ OwesNoCounts(slow, fast, lost)
        /\ OwesBytes(slow, fast, Nothing, Len(trace))
     \/ /\ IsIteration(iteration) /\ ~iteration.first /\ iteration.executing
        /\ OwesCounts(slow, fast, lost, iteration.ins, CountOwed(iteration))
        /\ OwesBytes(slow, fast, Owed(iteration), iteration.exec.nr)
        /\ iteration.exec.nr <= Len(trace)

-----------------------------------------------------------------------------
(***************************************************************************)
(* A UINT32 holds at least the numbers up to 3, and never more than was    *)
(* assigned to it.                                                         *)
(***************************************************************************)
LEMMA UINT32s ==
  /\ \A n \in Nat : ToUINT32(n) \in Nat /\ ToUINT32(n) <= n
  /\ \A n \in 0 .. 3 : ToUINT32(n) = n
<1> DEFINE k == UIntWidth - 2
           m == 2 ^ UIntWidth
<1>1. k \in Nat /\ k + 1 \in Nat /\ (k + 1) + 1 = UIntWidth
  BY CountRepsAssumption
<1>2. 2 ^ k \in Nat \ {0} /\ 2 ^ (k + 1) = 2 * 2 ^ k
  <2> HIDE DEF k
  <2> QED  BY <1>1, PowersOfTwo
<1>3. m = 2 * 2 ^ (k + 1)
  <2> HIDE DEF k
  <2>1. 2 ^ ((k + 1) + 1) = 2 * 2 ^ (k + 1)
    BY <1>1, PowersOfTwo
  <2> QED  BY <1>1, <2>1
<1> DEFINE p == 2 ^ k
<1>4. p \in Nat \ {0} /\ m = 2 * (2 * p)
  <2> HIDE DEF k, m
  <2> QED  BY <1>2, <1>3
<1> HIDE DEF p, m
<1>5. m \in Nat /\ m > 3
  BY <1>4
<1>6. \A n : ToUINT32(n) = n % m
  BY DEF ToUINT32, m
<1>7. \A n \in Nat : /\ n % m \in 0 .. m - 1
                     /\ n < m => n % m = n
  BY <1>5
<1>8. ASSUME NEW n \in Nat
      PROVE  ToUINT32(n) \in Nat /\ ToUINT32(n) <= n
  <2> DEFINE r == n % m
  <2>1. r \in 0 .. m - 1 /\ (n < m => r = n)
    BY <1>7
  <2> HIDE DEF r
  <2>2. r \in Nat /\ r <= n
    BY <1>5, <2>1
  <2> QED  BY <1>6, <2>2 DEF r
<1>9. ASSUME NEW n \in 0 .. 3
      PROVE  ToUINT32(n) = n
  BY <1>5, <1>6, <1>7
<1> QED  BY <1>8, <1>9

(***************************************************************************)
(* Intervals are sets of integers, whatever their bounds.                  *)
(***************************************************************************)
LEMMA Intervals == \A i, j : i .. j \subseteq Int
OBVIOUS

(***************************************************************************)
(* Entries for no bytes, and for those of two sets.                        *)
(***************************************************************************)
LEMMA EntriesAt ==
  ASSUME NEW exec
  PROVE  /\ At(exec, {}) = {}
         /\ \A S, T : At(exec, S \cup T) = At(exec, S) \cup At(exec, T)
         /\ \A S : \A e \in At(exec, S) : e[1] = exec
         /\ \A S : S # {} => At(exec, S) # {}
         /\ \A S \in SUBSET Int : At(exec, S) \subseteq {exec} \X Int
<1>1. At(exec, {}) = {}
  BY DEF At
<1>2. \A S, T : At(exec, S \cup T) = At(exec, S) \cup At(exec, T)
  BY DEF At
<1>3. ASSUME NEW S, NEW e \in At(exec, S)
      PROVE  e[1] = exec
  BY <1>3 DEF At
<1>4. ASSUME NEW S, S # {}
      PROVE  At(exec, S) # {}
  <2>1. PICK x \in S : TRUE
    BY <1>4
  <2>2. <<exec, x>> \in At(exec, S)
    BY <2>1 DEF At
  <2> QED  BY <2>2
<1>5. \A S \in SUBSET Int : At(exec, S) \subseteq {exec} \X Int
  BY DEF At
<1> QED  BY <1>1, <1>2, <1>3, <1>4, <1>5

(***************************************************************************)
(* The bytes of some elements are those of the first and those of the      *)
(* rest, in either direction.                                              *)
(***************************************************************************)
LEMMA MoreElements ==
  ASSUME NEW ea \in Int, NEW df \in BOOLEAN, NEW count \in Nat \ {0},
         NEW size \in Nat \ {0}
  PROVE  /\ Elements(ea, df, count, size) =
              OneElement(ea, size)
                \cup Elements(ea + Step(df, size), df, count - 1, size)
<1> DEFINE m == size * count
<1>1. m \in Nat /\ m >= size
  <2>1. count = 1 \/ count - 1 \in Nat \ {0}
    OBVIOUS
  <2>2. size * count = size + size * (count - 1) /\ size * (count - 1) \in Nat
    OBVIOUS
  <2> QED  BY <2>1, <2>2
<1>2. size * (count - 1) = m - size /\ size * 1 = size
  OBVIOUS
<1>3. OneElement(ea, size) = ea .. ea + size - 1
  BY DEF OneElement
<1> HIDE DEF m
<1>4. CASE df
  <2>1. Elements(ea, df, count, size) = ea - m + size .. ea + size - 1
    BY <1>1, <1>4 DEF Elements, Lowest, m
  <2>2. Elements(ea + Step(df, size), df, count - 1, size) =
          ea - m + size .. ea - 1
    <3>1. /\ ea + (-size) - (m - size) + size = ea - m + size
          /\ ea - m + size + (m - size) - 1 = ea - 1
      BY <1>1
    <3> QED  BY <1>2, <1>4, <3>1 DEF Elements, Lowest, Step
  <2>3. \A x \in Int : x \in ea - m + size .. ea + size - 1
                          <=> x \in ea .. ea + size - 1 \/ x \in ea - m + size .. ea - 1
    BY <1>1
  <2> HIDE DEF Elements
  <2> QED  BY <1>3, <2>1, <2>2, <2>3, Intervals
<1>5. CASE ~df
  <2>1. Elements(ea, df, count, size) = ea .. ea + m - 1
    BY <1>5 DEF Elements, Lowest, m
  <2>2. Elements(ea + Step(df, size), df, count - 1, size) =
          ea + size .. ea + m - 1
    <3>1. ea + size + (m - size) - 1 = ea + m - 1
      BY <1>1
    <3> QED  BY <1>2, <1>5, <3>1 DEF Elements, Lowest, Step
  <2>3. \A x \in Int : x \in ea .. ea + m - 1
                          <=> x \in ea .. ea + size - 1 \/ x \in ea + size .. ea + m - 1
    BY <1>1
  <2> HIDE DEF Elements
  <2> QED  BY <1>3, <2>1, <2>2, <2>3, Intervals
<1> QED  BY <1>4, <1>5

(***************************************************************************)
(* No elements have no bytes.                                              *)
(***************************************************************************)
LEMMA NoElements ==
  ASSUME NEW ea \in Int, NEW df \in BOOLEAN, NEW size \in Nat \ {0}
  PROVE  Elements(ea, df, 0, size) = {}
<1>1. size * 0 = 0
  OBVIOUS
<1>2. Lowest(ea, df, 0, size) \in Int
  BY <1>1 DEF Lowest
<1> QED  BY <1>1, <1>2 DEF Elements

(***************************************************************************)
(* The bytes logged at an iteration, those it is to log, and the condition *)
(* of logging.                                                             *)
(***************************************************************************)
LoggedBytes(slowly, it, operand) ==
  LET size == RepInfo[it.ins].size
      ea == computeEA(it.ea[operand], it.df /\ ~takesConditionalRep(slowly, it.ins),
                      RepCount(slowly, it), size)
  IN  ea .. ea + size * RepCount(slowly, it) - 1

Bytes(slowly, it, operand) ==
  Elements(it.ea[operand], it.df /\ ~takesConditionalRep(slowly, it.ins),
           RepCount(slowly, it), RepInfo[it.ins].size)

Logs(slowly, t, it, operand) ==
  HasOperand(it.ins, operand) /\ t.logged < memoryOpsToLog /\ RepCount(slowly, it) # 0

(***************************************************************************)
(* What is known of an instruction with REP.                               *)
(***************************************************************************)
LEMMA RepInfoTypes ==
  ASSUME NEW op \in RepOps
  PROVE  /\ RepInfo[op].conditional \in BOOLEAN
         /\ RepInfo[op].reads \in 0 .. 2 /\ RepInfo[op].writes \in 0 .. 1
         /\ RepInfo[op].size \in Nat \ {0}
         /\ ~RepInfo[op].conditional => RepInfo[op].reads \in 0 .. 1
<1>1. RepInfo[op] \in [conditional : BOOLEAN, reads : 0 .. 2, writes : 0 .. 1,
                      size : Nat \ {0}]
  BY CountRepsAssumption DEF RepOps
<1>2. RepInfo[op].conditional \/ RepInfo[op].reads <= 1
  BY CountRepsAssumption DEF RepOps
<1>3. RepInfo[op].reads \in 0 .. 2
  BY <1>1
<1> QED  BY <1>1, <1>2, <1>3

(***************************************************************************)
(* The fields of an iteration.                                             *)
(***************************************************************************)
LEMMA IterationTypes ==
  ASSUME NEW it, IsIteration(it)
  PROVE  /\ it.ins \in RepOps /\ it.count \in Nat /\ it.df \in BOOLEAN
         /\ it.first \in BOOLEAN /\ it.executing \in BOOLEAN
         /\ it.ea \in [Operands -> Int] /\ it.exec \in Executions
         /\ it.exec.nr \in Nat /\ it.exec.count \in Nat
         /\ it.exec.ins = it.ins /\ it.exec.df = it.df
         /\ it.first => it.exec.count = it.count
         /\ it.executing <=> it.count # 0
<1>1. it.exec \in Executions
  BY DEF IsIteration, Iterations
<1>2. it.exec.nr \in Nat /\ it.exec.count \in Nat
  BY <1>1 DEF Executions
<1> QED  BY <1>1, <1>2 DEF IsIteration, Iterations

(***************************************************************************)
(* Addresses and counts are integers.                                      *)
(***************************************************************************)
LEMMA BytesAreInts ==
  ASSUME NEW slowly \in BOOLEAN, NEW it, IsIteration(it), NEW operand \in Operands
  PROVE  LoggedBytes(slowly, it, operand) \subseteq Int /\ RepCount(slowly, it) \in Nat
<1>1. RepCount(slowly, it) \in Nat
  BY IterationTypes DEF RepCount
<1>2. LoggedBytes(slowly, it, operand) \subseteq Int
  BY Intervals DEF LoggedBytes
<1> QED  BY <1>1, <1>2

(***************************************************************************)
(* Called iteration by iteration the tool logs the bytes it is to log, and *)
(* there is no displacement. Called once it logs them displaced.           *)
(***************************************************************************)
LEMMA NotDisplaced ==
  ASSUME NEW slowly \in BOOLEAN, NEW it, NEW operand, takesConditionalRep(slowly, it.ins)
  PROVE  LoggedBytes(slowly, it, operand) = Bytes(slowly, it, operand)
<1>1. (it.df /\ ~takesConditionalRep(slowly, it.ins)) = FALSE
  OBVIOUS
<1> QED  BY <1>1 DEF LoggedBytes, Bytes, Elements, computeEA, Lowest

LEMMA ReplacedBytes ==
  ASSUME NEW no \in BOOLEAN, \A op : takesConditionalRep(no, op) <=> RepInfo[op].conditional,
         NEW it, IsIteration(it), IsCalled(no, it), NEW operand \in Operands
  PROVE  Replaced(At(it.exec, LoggedBytes(no, it, operand)))
           = At(it.exec, Bytes(no, it, operand))
<1> DEFINE D == Displacement(it.exec)
           L == LoggedBytes(no, it, operand)
           B == Bytes(no, it, operand)
           size == RepInfo[it.ins].size
           ea == it.ea[operand]
           d == RepCount(no, it)
           t == ToUINT32(size * ToUINT32(d))
           m == size * d
<1>1. /\ it.ins \in RepOps /\ it.count \in Nat /\ it.df \in BOOLEAN /\ ea \in Int
      /\ it.first \in BOOLEAN
      /\ it.exec.ins = it.ins /\ it.exec.df = it.df
      /\ it.first => it.exec.count = it.count
  BY IterationTypes
<1>2. size \in Nat \ {0} /\ RepInfo[it.ins].conditional \in BOOLEAN
  BY <1>1, RepInfoTypes
<1>3. d \in Nat
  BY BytesAreInts
<1>4. t \in Nat /\ m \in Nat
  <2>1. size * ToUINT32(d) \in Nat
    BY <1>2, <1>3, UINT32s
  <2> QED  BY <1>2, <1>3, <2>1, UINT32s
<1>5. PICK low \in Int : /\ B = low .. low + m - 1 /\ L = low + D .. low + D + m - 1
                         /\ D \in Int
  <2>1. CASE RepInfo[it.ins].conditional \/ ~it.df
    <3>1. D = 0
      BY <1>1, <2>1 DEF Displacement
    <3>2. B = ea .. ea + m - 1 /\ L = ea .. ea + m - 1
      BY <2>1 DEF LoggedBytes, Bytes, Elements, computeEA, Lowest
    <3>3. ea + 0 = ea
      BY <1>1
    <3> HIDE DEF D, B, L, m
    <3> QED  BY <1>1, <3>1, <3>2, <3>3
  <2>2. CASE ~RepInfo[it.ins].conditional /\ it.df
    <3>1. d = it.count /\ it.exec.count = it.count
      BY <1>1, <2>2 DEF IsCalled, RepCount
    <3>2. D = m - t
      BY <1>1, <2>2, <3>1 DEF Displacement
    <3>3. B = ea - m + size .. ea - m + size + m - 1
      BY <2>2 DEF Bytes, Elements, Lowest
    <3>4. L = ea - t + size .. ea - t + size + m - 1
      BY <2>2 DEF LoggedBytes, computeEA
    <3> HIDE DEF D, B, L, m, t, size, ea
    <3>5. (ea - m + size) + (m - t) = ea - t + size /\ ea - m + size \in Int
          /\ m - t \in Int
      BY <1>1, <1>2, <1>4 DEF size
    <3> QED  BY <3>2, <3>3, <3>4, <3>5
  <2> QED  BY <1>1, <1>2, <2>1, <2>2
<1> HIDE DEF D, B, L, m
<1>6. ASSUME NEW b \in B
      PROVE  b \in Int /\ b + D \in L /\ (b + D) - D = b
  <2> HIDE DEF t
  <2> QED  BY <1>4, <1>5
<1>7. ASSUME NEW b \in L
      PROVE  b - D \in B
  BY <1>4, <1>5
<1>8. Replaced(At(it.exec, L)) = {<<it.exec, b - D>> : b \in L}
  <2>1. \A e \in At(it.exec, L) : e[1] = it.exec /\ e[2] \in L
    BY DEF At
  <2>2. \A b \in L : <<it.exec, b>> \in At(it.exec, L)
    BY DEF At
  <2> QED  BY <2>1, <2>2 DEF Replaced, D
<1>9. {<<it.exec, b - D>> : b \in L} = At(it.exec, B)
  <2>1. \A e \in At(it.exec, B) : e = <<it.exec, e[2]>> /\ e[2] \in B
    BY DEF At
  <2>2. \A b \in B : <<it.exec, b>> \in At(it.exec, B)
    BY DEF At
  <2>3. \A b \in B : b + D \in L /\ (b + D) - D = b
    BY <1>6
  <2> QED  BY <1>7, <2>1, <2>2, <2>3
<1> QED  BY <1>8, <1>9 DEF L, B

(***************************************************************************)
(* What the analysis routine for one operand does to the state of the      *)
(* tool.                                                                   *)
(***************************************************************************)
LEMMA OperandLogged ==
  ASSUME NEW slowly \in BOOLEAN, NEW t \in RepTools, NEW it, IsIteration(it),
         NEW operand \in Operands, NEW u,
         u = WithOperand(slowly, t, it, operand, HasOperand(it.ins, operand))
  PROVE  /\ u \in RepTools /\ u.stats = t.stats /\ u.memOps = t.memOps
         /\ \A other \in Operands \ {operand} : u.log[other] = t.log[other]
         /\ Logs(slowly, t, it, operand) =>
              /\ u.log[operand] =
                   t.log[operand] \cup At(it.exec, LoggedBytes(slowly, it, operand))
              /\ u.logged = t.logged + IF it.first THEN 1 ELSE 0
         /\ ~Logs(slowly, t, it, operand) =>
              u.log[operand] = t.log[operand] /\ u.logged = t.logged
<1> DEFINE B == At(it.exec, LoggedBytes(slowly, it, operand))
<1>1. /\ t.log \in [Operands -> SUBSET (Executions \X Int)] /\ t.logged \in Nat
      /\ t.stats \in [RepOps -> [count : Nat, repeatedCount : Nat, zeroLength : Nat]]
      /\ t.memOps \in [RepOps -> [reads : Nat, writes : Nat]]
      /\ t = [stats |-> t.stats, memOps |-> t.memOps, logged |-> t.logged, log |-> t.log]
  BY DEF RepTools
<1>2. B \subseteq Executions \X Int
  <2>1. LoggedBytes(slowly, it, operand) \subseteq Int /\ it.exec \in Executions
    BY BytesAreInts, IterationTypes
  <2> QED  BY <2>1 DEF At
<1>3. u = IF Logs(slowly, t, it, operand)
          THEN [t EXCEPT !.log[operand] = @ \cup B,
                         !.logged = @ + (IF it.first THEN 1 ELSE 0)]
          ELSE t
  BY DEF WithOperand, logMemoryAddress, Logs, LoggedBytes, At
<1> HIDE DEF B
<1>4. CASE Logs(slowly, t, it, operand)
  <2>1. u = [stats |-> t.stats, memOps |-> t.memOps,
             logged |-> t.logged + (IF it.first THEN 1 ELSE 0),
             log |-> [t.log EXCEPT ![operand] = @ \cup B]]
    BY <1>1, <1>3, <1>4
  <2>2. [t.log EXCEPT ![operand] = @ \cup B] \in [Operands -> SUBSET (Executions \X Int)]
    BY <1>1, <1>2
  <2>3. t.logged + (IF it.first THEN 1 ELSE 0) \in Nat
    BY <1>1
  <2>4. u \in RepTools
    BY <1>1, <2>1, <2>2, <2>3 DEF RepTools
  <2> QED  BY <1>1, <1>4, <2>1, <2>4 DEF B
<1>5. CASE ~Logs(slowly, t, it, operand)
  BY <1>3, <1>5
<1> QED  BY <1>4, <1>5

(***************************************************************************)
(* Entries replaced one by one: those of two sets, and their labels.       *)
(***************************************************************************)
LEMMA ReplacedEntries ==
  /\ Replaced({}) = {}
  /\ \A A, B : Replaced(A \cup B) = Replaced(A) \cup Replaced(B)
<1>1. Replaced({}) = {}
  BY DEF Replaced
<1>2. \A A, B : Replaced(A \cup B) = Replaced(A) \cup Replaced(B)
  BY DEF Replaced
<1> QED  BY <1>1, <1>2

(***************************************************************************)
(* The routine for an operand as Pin calls it: with -slow or when the      *)
(* instruction may stop early at every iteration, otherwise at the first.  *)
(***************************************************************************)
Called(slowly, t, it, operand) ==
  IF IsCalled(slowly, it)
  THEN WithOperand(slowly, t, it, operand, HasOperand(it.ins, operand)) ELSE t

(***************************************************************************)
(* From the debt X to the debt Y, both of the iteration's execution, one   *)
(* operand is dealt with.                                                  *)
(***************************************************************************)
Pays(X, Y, it, operand) ==
  /\ X[operand] = BytesOwed(it, operand)
  /\ Y[operand] = BytesOwedAfter(it, operand)
  /\ \A other \in Operands \ {operand} : X[other] = Y[other]
  /\ \A o \in Operands : \A e \in Y[o] : e[1] = it.exec

(***************************************************************************)
(* The routine for an operand counts nothing.                              *)
(***************************************************************************)
OnlyBytes(t, u) == u \in RepTools /\ u.stats = t.stats /\ u.memOps = t.memOps

(***************************************************************************)
(* What is logged of one operand at one iteration: A by the tool s, and FB *)
(* by the tool f, which is B when replaced. Both count it with k; the debt *)
(* of the operand goes from P to Q. Nothing is logged once the limit is    *)
(* reached, and f logs only what s begins.                                 *)
(***************************************************************************)
Logged(s, s2, operand, A, k) ==
  /\ s2.logged = s.logged + k
  /\ s2.log[operand] = s.log[operand] \cup A
  /\ \A other \in Operands \ {operand} : s2.log[other] = s.log[other]

Together(s, f, it, A, FB, k, P, Q) ==
  LET B == Replaced(FB)
  IN  /\ k \in Nat
      /\ f.logged < memoryOpsToLog => P \cup B = A \cup Q
      /\ ~(f.logged < memoryOpsToLog) => A = {} /\ FB = {} /\ k = 0
      /\ FB # {} => A # {}
      /\ \A e \in A \cup FB \cup B : e[1] = it.exec

(***************************************************************************)
(* Then what is owed of the log is as described.                           *)
(***************************************************************************)
LEMMA TogetherPaid ==
  ASSUME NEW s \in RepTools, NEW f \in RepTools, NEW it, IsIteration(it),
         NEW operand \in Operands, NEW X, OwesBytes(s, f, X, it.exec.nr),
         NEW Y, Pays(X, Y, it, operand), NEW s2, NEW f2, NEW A, NEW FB, NEW k,
         Together(s, f, it, A, FB, k, X[operand], Y[operand]),
         Logged(s, s2, operand, A, k), Logged(f, f2, operand, FB, k)
  PROVE  OwesBytes(s2, f2, Y, it.exec.nr)
<1> DEFINE B == Replaced(FB)
           limit == f.logged < memoryOpsToLog
           R(o) == Replaced(f.log[o])
           R2(o) == Replaced(f2.log[o])
<1>1. /\ s.logged = f.logged /\ \A o \in Operands : s.log[o] \subseteq R(o)
      /\ limit => \A o \in Operands : R(o) = s.log[o] \cup X[o]
  BY DEF OwesBytes, OwesEntries
<1>2. /\ k \in Nat
      /\ limit => X[operand] \cup B = A \cup Y[operand]
      /\ ~limit => A = {} /\ FB = {} /\ k = 0
      /\ FB # {} => A # {}
      /\ \A e \in A \cup FB \cup B : e[1] = it.exec
  BY DEF Together
<1>3. /\ s2.logged = s.logged + k /\ f2.logged = f.logged + k
      /\ s2.log[operand] = s.log[operand] \cup A
      /\ f2.log[operand] = f.log[operand] \cup FB
      /\ \A other \in Operands \ {operand} : /\ s2.log[other] = s.log[other]
                                             /\ f2.log[other] = f.log[other]
  BY DEF Logged
<1>4. R2(operand) = R(operand) \cup B
  BY <1>3, ReplacedEntries
<1>5. \A o \in Operands \ {operand} : R2(o) = R(o)
  BY <1>3
<1>6. /\ f.logged \in Nat /\ memoryOpsToLog \in Nat
      /\ s2.logged = f2.logged /\ (f2.logged < memoryOpsToLog => limit)
      /\ ~limit => f2.logged = f.logged
  BY <1>1, <1>2, <1>3, CountRepsAssumption DEF RepTools
<1>7. FB = {} => B = {}
  BY ReplacedEntries
<1>8. /\ \A o \in Operands : \A e \in Y[o] : e[1] = it.exec
      /\ \A o \in Operands \ {operand} : X[o] = Y[o]
  BY DEF Pays
<1> HIDE DEF B, limit, R, R2
<1>9. limit => \A o \in Operands : R2(o) = s2.log[o] \cup Y[o]
  <2> SUFFICES ASSUME limit, NEW o \in Operands PROVE R2(o) = s2.log[o] \cup Y[o]
    OBVIOUS
  <2>1. R(o) = s.log[o] \cup X[o]
    BY <1>1
  <2>2. CASE o = operand
    BY <1>2, <1>3, <1>4, <2>1, <2>2
  <2>3. CASE o # operand
    BY <1>3, <1>5, <1>8, <2>1, <2>3
  <2> QED  BY <2>2, <2>3
<1>10. ~limit => /\ \A o \in Operands : s2.log[o] = s.log[o] /\ f2.log[o] = f.log[o]
                 /\ \A o \in Operands : R2(o) = R(o)
  BY <1>2, <1>3, <1>4, <1>5, <1>7
<1>11. OwesEntries(s2, f2, Y)
  <2>1. \A o \in Operands : s2.log[o] \subseteq R2(o)
    BY <1>1, <1>9, <1>10
  <2> QED  BY <1>6, <1>9, <2>1 DEF OwesEntries, R2
<1>12. LabelsUpTo(f2, it.exec.nr)
  <2>1. it.exec.nr \in Nat
    BY IterationTypes
  <2>2. \A o \in Operands : \A d \in f.log[o] : d[1].nr <= it.exec.nr
    BY DEF OwesBytes, LabelsUpTo
  <2>3. \A d \in FB : d[1].nr <= it.exec.nr
    BY <1>2, <2>1
  <2>4. \A o \in Operands : \A d \in f2.log[o] : d \in f.log[o] \/ d \in FB
    BY <1>3
  <2> QED  BY <2>2, <2>3, <2>4 DEF LabelsUpTo
<1>13. Begun(s2, f2)
  <2> SUFFICES ASSUME NEW o \in Operands, NEW e \in R2(o)
               PROVE  \E d \in s2.log[o] : d[1] = e[1]
    BY DEF Begun, R2
  <2>1. CASE e \in R(o)
    <3>1. PICK d \in s.log[o] : d[1] = e[1]
      BY <2>1 DEF OwesBytes, Begun, R
    <3>2. s.log[o] \subseteq s2.log[o]
      BY <1>3
    <3> QED  BY <3>1, <3>2
  <2>2. CASE e \notin R(o)
    <3>1. o = operand /\ e \in B
      BY <1>4, <1>5, <2>2
    <3>2. e[1] = it.exec /\ A # {}
      BY <1>2, <1>7, <3>1
    <3>3. PICK d \in A : TRUE
      BY <3>2
    <3> QED  BY <1>2, <1>3, <3>1, <3>2, <3>3
  <2> QED  BY <2>1, <2>2
<1>14. NewestMissing(s2, f2)
  <2> SUFFICES ASSUME NEW o \in Operands, NEW e \in R2(o) \ s2.log[o],
                      f2.logged >= memoryOpsToLog,
                      NEW other \in Operands, NEW d \in f2.log[other]
               PROVE  d[1].nr <= e[1].nr
    BY DEF NewestMissing, R2
  <2>1. CASE limit
    <3>1. e[1] = it.exec
      BY <1>8, <1>9, <2>1
    <3> QED  BY <1>12, <3>1 DEF LabelsUpTo
  <2>2. CASE ~limit
    <3>1. e \in R(o) \ s.log[o] /\ d \in f.log[other] /\ f.logged >= memoryOpsToLog
      BY <1>6, <1>10, <2>2
    <3> QED  BY <3>1 DEF OwesBytes, NewestMissing, R
  <2> QED  BY <2>1, <2>2
<1> QED  BY <1>11, <1>12, <1>13, <1>14 DEF OwesBytes

(***************************************************************************)
(* At one iteration the call for an operand takes from what is owed the    *)
(* bytes of this iteration, or (at the first, when the other tool logs all *)
(* of them) makes the rest be owed.                                        *)
(***************************************************************************)
LEMMA OperandPaid ==
  ASSUME NEW yes \in BOOLEAN, \A op : takesConditionalRep(yes, op),
         NEW no \in BOOLEAN, \A op : takesConditionalRep(no, op) <=> RepInfo[op].conditional,
         NEW s \in RepTools, NEW f \in RepTools,
         NEW it, IsIteration(it), it.first \/ it.executing, NEW operand \in Operands,
         NEW X, OwesBytes(s, f, X, it.exec.nr), NEW Y, Pays(X, Y, it, operand)
  PROVE  /\ OwesBytes(Called(yes, s, it, operand), Called(no, f, it, operand), Y,
                      it.exec.nr)
         /\ OnlyBytes(s, Called(yes, s, it, operand))
         /\ OnlyBytes(f, Called(no, f, it, operand))
<1> DEFINE has == HasOperand(it.ins, operand)
           s2 == Called(yes, s, it, operand)
           f2 == Called(no, f, it, operand)
           op == RepInfo[it.ins]
           g == has /\ s.logged < memoryOpsToLog /\ it.executing
           k == IF g /\ it.first THEN 1 ELSE 0
           A == IF g THEN At(it.exec, Bytes(yes, it, operand)) ELSE {}
           FB == IF g /\ IsCalled(no, it)
                 THEN At(it.exec, LoggedBytes(no, it, operand)) ELSE {}
           B == IF g /\ IsCalled(no, it) THEN At(it.exec, Bytes(no, it, operand)) ELSE {}
<1>1. /\ it.ins \in RepOps /\ it.count \in Nat /\ it.df \in BOOLEAN
      /\ it.ea[operand] \in Int /\ it.first \in BOOLEAN /\ it.executing \in BOOLEAN
      /\ it.executing <=> it.count # 0
  BY IterationTypes
<1>2. op.size \in Nat \ {0} /\ op.conditional \in BOOLEAN
  BY <1>1, RepInfoTypes
<1>3. has \in BOOLEAN
  BY DEF HasOperand
<1>4. s.logged = f.logged /\ s.logged \in Nat /\ f.logged \in Nat
  BY DEF OwesBytes, OwesEntries, RepTools
<1>5. /\ IsCalled(yes, it)
      /\ RepCount(yes, it) = IF it.executing THEN 1 ELSE 0
      /\ IsCalled(no, it) <=> op.conditional \/ it.first
      /\ RepCount(no, it) = IF op.conditional THEN IF it.executing THEN 1 ELSE 0
                                                 ELSE it.count
  BY <1>2 DEF IsCalled, RepCount
<1>6. Logs(yes, s, it, operand) <=> g
  BY <1>1, <1>3, <1>5 DEF Logs
<1>7. IsCalled(no, it) => (Logs(no, f, it, operand) <=> g)
  BY <1>1, <1>3, <1>4, <1>5 DEF Logs
<1>8. s2 = WithOperand(yes, s, it, operand, HasOperand(it.ins, operand))
  BY <1>5 DEF Called
<1>9. OnlyBytes(s, s2) /\ Logged(s, s2, operand, A, k)
  <2>1. /\ s2 \in RepTools /\ s2.stats = s.stats /\ s2.memOps = s.memOps
        /\ \A other \in Operands \ {operand} : s2.log[other] = s.log[other]
        /\ Logs(yes, s, it, operand) =>
             /\ s2.log[operand] =
                  s.log[operand] \cup At(it.exec, LoggedBytes(yes, it, operand))
             /\ s2.logged = s.logged + IF it.first THEN 1 ELSE 0
        /\ ~Logs(yes, s, it, operand) =>
             s2.log[operand] = s.log[operand] /\ s2.logged = s.logged
    <3> HIDE DEF s2, op, has, g, k, A, FB, B, f2
    <3>1. s2 = WithOperand(yes, s, it, operand, HasOperand(it.ins, operand))
      BY <1>8
    <3> QED  BY <3>1, OperandLogged
  <2>2. CASE g
    <3>1. A = At(it.exec, LoggedBytes(yes, it, operand)) /\ k = IF it.first THEN 1 ELSE 0
      BY <2>2, NotDisplaced
    <3>2. Logs(yes, s, it, operand)
      BY <1>6, <2>2
    <3> HIDE DEF s2, A, k
    <3> QED  BY <2>1, <3>1, <3>2 DEF OnlyBytes, Logged
  <2>3. CASE ~g
    <3>1. A = {} /\ k = 0 /\ s.logged + 0 = s.logged
      BY <1>4, <2>3
    <3> HIDE DEF s2, A, k
    <3> QED  BY <1>6, <2>1, <2>3, <3>1 DEF OnlyBytes, Logged
  <2> QED  BY <2>2, <2>3
<1>10. OnlyBytes(f, f2) /\ Logged(f, f2, operand, FB, k)
  <2>1. CASE IsCalled(no, it)
    <3>1. f2 = WithOperand(no, f, it, operand, HasOperand(it.ins, operand))
      BY <2>1 DEF Called
    <3>2. /\ f2 \in RepTools /\ f2.stats = f.stats /\ f2.memOps = f.memOps
          /\ \A other \in Operands \ {operand} : f2.log[other] = f.log[other]
          /\ Logs(no, f, it, operand) =>
               /\ f2.log[operand] =
                    f.log[operand] \cup At(it.exec, LoggedBytes(no, it, operand))
               /\ f2.logged = f.logged + IF it.first THEN 1 ELSE 0
          /\ ~Logs(no, f, it, operand) =>
               f2.log[operand] = f.log[operand] /\ f2.logged = f.logged
      <4> HIDE DEF f2
      <4> QED  BY <3>1, OperandLogged
    <3>3. CASE g
      <4>1. /\ FB = At(it.exec, LoggedBytes(no, it, operand))
            /\ k = IF it.first THEN 1 ELSE 0
        BY <2>1, <3>3
      <4> HIDE DEF f2, FB, k
      <4> QED  BY <1>7, <2>1, <3>2, <3>3, <4>1 DEF OnlyBytes, Logged
    <3>4. CASE ~g
      <4>1. FB = {} /\ k = 0 /\ f.logged + 0 = f.logged
        BY <1>4, <3>4
      <4> HIDE DEF f2, FB, k
      <4> QED  BY <1>7, <2>1, <3>2, <3>4, <4>1 DEF OnlyBytes, Logged
    <3> QED  BY <3>3, <3>4
  <2>2. CASE ~IsCalled(no, it)
    <3>1. f2 = f /\ FB = {} /\ k = 0 /\ f.logged + 0 = f.logged
      BY <1>4, <1>5, <2>2 DEF Called
    <3> HIDE DEF f2, FB, k, g
    <3> QED  BY <3>1 DEF OnlyBytes, Logged
  <2> QED  BY <2>1, <2>2
<1>11. g \in BOOLEAN /\ k \in Nat
  BY <1>1, <1>3
<1>12. Replaced(FB) = B
  <2>1. CASE g /\ IsCalled(no, it)
    BY <2>1, ReplacedBytes
  <2>2. CASE ~(g /\ IsCalled(no, it))
    <3>1. FB = {} /\ B = {}
      BY <2>2
    <3> HIDE DEF FB, B
    <3> QED  BY <3>1, ReplacedEntries
  <2> QED  BY <2>1, <2>2
<1>13. ASSUME g
       PROVE  X[operand] \cup B = A \cup Y[operand] /\ A # {}
  <2>1. has /\ it.count \in Nat \ {0} /\ it.executing
    BY <1>1, <1>13
  <2> DEFINE one == OneElement(it.ea[operand], op.size)
             rest == Elements(it.ea[operand] + Step(it.df, op.size), it.df,
                              it.count - 1, op.size)
             all == Elements(it.ea[operand], it.df, it.count, op.size)
  <2>2. A = At(it.exec, one)
    <3>1. A = At(it.exec, Elements(it.ea[operand], FALSE, 1, op.size))
      <4>1. (it.df /\ ~takesConditionalRep(yes, it.ins)) = FALSE /\ RepCount(yes, it) = 1
        BY <1>5, <2>1
      <4> QED  BY <1>13, <4>1 DEF Bytes
    <3>2. op.size * 1 = op.size
      BY <1>2
    <3> QED  BY <3>1, <3>2 DEF Elements, Lowest, OneElement
  <2>3. A # {}
    <3>1. it.ea[operand] \in one
      <4>1. \A e \in Int, n \in Nat \ {0} : e \in e .. e + n - 1
        OBVIOUS
      <4> QED  BY <1>1, <1>2, <4>1 DEF OneElement
    <3> HIDE DEF A, one
    <3> QED  BY <2>2, <3>1, EntriesAt
  <2>4. CASE op.conditional
    <3>1. X[operand] = {} /\ Y[operand] = {} /\ B = A
      BY <1>5, <1>13, <2>1, <2>2, <2>4
         DEF BytesOwed, BytesOwedAfter, Bytes, Pays
    <3> QED  BY <2>3, <3>1
  <2>5. CASE ~op.conditional
    <3>1. Y[operand] = At(it.exec, rest)
      BY <2>1, <2>5 DEF BytesOwedAfter, Pays
    <3>2. At(it.exec, all) = A \cup Y[operand]
      <4>1. \A ea \in Int :
              Elements(ea, it.df, it.count, op.size) = OneElement(ea, op.size)
                \cup Elements(ea + Step(it.df, op.size), it.df, it.count - 1, op.size)
        BY <1>1, <1>2, <2>1, MoreElements
      <4>2. all = one \cup rest
        BY <1>1, <4>1
      <4> HIDE DEF A, all, one, rest
      <4> QED  BY <2>2, <3>1, <4>2, EntriesAt
    <3>3. CASE it.first
      <4>1. X[operand] = {} /\ B = At(it.exec, all)
        BY <1>1, <1>5, <1>13, <2>5, <3>3 DEF BytesOwed, Bytes, Pays
      <4> HIDE DEF all, A, B
      <4> QED  BY <2>3, <3>2, <4>1
    <3>4. CASE ~it.first
      <4>1. X[operand] = At(it.exec, all) /\ B = {}
        BY <1>5, <2>1, <2>5, <3>4 DEF BytesOwed, Pays
      <4> HIDE DEF all, A, B
      <4> QED  BY <2>3, <3>2, <4>1
    <3> QED  BY <3>3, <3>4
  <2> QED  BY <2>4, <2>5
<1>14. ASSUME ~g, f.logged < memoryOpsToLog
       PROVE  X[operand] \cup B = A \cup Y[operand]
  <2>1. ~has \/ ~it.executing
    BY <1>4, <1>14
  <2>2. A = {} /\ B = {}
    BY <1>14
  <2>3. X[operand] = Y[operand]
    BY <1>1, <2>1 DEF BytesOwed, BytesOwedAfter, Pays
  <2> QED  BY <2>2, <2>3
<1>15. ~g => A = {} /\ FB = {} /\ B = {} /\ k = 0
  OBVIOUS
<1>16. ~(f.logged < memoryOpsToLog) => ~g
  BY <1>4
<1>17. \A e \in A \cup FB \cup B : e[1] = it.exec
  BY EntriesAt
<1> HIDE DEF s2, f2, g, k, A, B, FB, op, has
<1>18. Together(s, f, it, A, FB, k, X[operand], Y[operand])
  <2>1. FB # {} => A # {}
    BY <1>13, <1>15
  <2> QED  BY <1>11, <1>12, <1>13, <1>14, <1>15, <1>16, <1>17, <2>1 DEF Together
<1>19. OwesBytes(s2, f2, Y, it.exec.nr)
  BY <1>9, <1>10, <1>18, TogetherPaid
<1> QED  BY <1>9, <1>10, <1>19 DEF s2, f2

(***************************************************************************)
(* The routines that count, and what one call of them does. The counters   *)
(* get what a UINT32 holds of the count.                                   *)
(***************************************************************************)
Counted(slowly, t, it) == IF IsCalled(slowly, it) THEN WithCounts(slowly, t, it) ELSE t

Start(it) == IF it.first THEN 1 ELSE 0

ZeroLength(count) == IF count = 0 THEN 1 ELSE 0

CountsCall(t, u, it, c, z) ==
  /\ u \in RepTools /\ u.logged = t.logged /\ u.log = t.log
  /\ \A o \in RepOps \ {it.ins} :
       u.stats[o] = t.stats[o] /\ u.memOps[o] = t.memOps[o]
  /\ u.stats[it.ins].count = t.stats[it.ins].count + Start(it)
  /\ u.stats[it.ins].repeatedCount = t.stats[it.ins].repeatedCount + c
  /\ u.stats[it.ins].zeroLength = t.stats[it.ins].zeroLength + z
  /\ u.memOps[it.ins].reads = t.memOps[it.ins].reads + c * RepInfo[it.ins].reads
  /\ u.memOps[it.ins].writes = t.memOps[it.ins].writes + c * RepInfo[it.ins].writes

(***************************************************************************)
(* The products of addMemops are not cut off: either the count is 0 or 1,  *)
(* or there is at most one read and one write.                             *)
(***************************************************************************)
LEMMA ProductsFit ==
  ASSUME NEW c \in Nat, NEW r \in 0 .. 2, c <= 1 \/ r <= 1
  PROVE  ToUINT32(ToUINT32(c) * r) = ToUINT32(c) * r
<1>1. ToUINT32(0) = 0 /\ ToUINT32(1) = 1 /\ ToUINT32(2) = 2
  BY UINT32s
<1> DEFINE t == ToUINT32(c)
<1>2. t \in Nat /\ t <= c
  BY UINT32s
<1>3. ToUINT32(t) = t
  <2> DEFINE m == 2 ^ UIntWidth
  <2>1. m \in Nat \ {0}
    BY PowersOfTwo, CountRepsAssumption
  <2>2. \A n : ToUINT32(n) = n % m
    BY DEF ToUINT32
  <2> HIDE DEF m
  <2>3. \A n \in Nat : n % m \in 0 .. m - 1 /\ (n < m => n % m = n)
    BY <2>1
  <2>4. c % m \in 0 .. m - 1
    BY <2>3
  <2>5. (c % m) % m = c % m
    <3> DEFINE q == c % m
    <3>1. q \in 0 .. m - 1
      BY <2>4
    <3> HIDE DEF q
    <3>2. q % m = q
      BY <2>1, <2>3, <3>1
    <3> QED  BY <3>2 DEF q
  <2> QED  BY <2>2, <2>5
<1> HIDE DEF t
<1>4. r = 0 \/ r = 1 \/ (r = 2 /\ (t = 0 \/ t = 1))
  BY <1>2
<1>5. t * 0 = 0 /\ t * 1 = t /\ 0 * 2 = 0 /\ 1 * 2 = 2
  BY <1>2
<1>6. CASE r = 0
  BY <1>1, <1>5, <1>6 DEF t
<1>7. CASE r = 1
  BY <1>3, <1>5, <1>7 DEF t
<1>8. CASE r = 2 /\ t = 0
  BY <1>1, <1>5, <1>8 DEF t
<1>9. CASE r = 2 /\ t = 1
  BY <1>1, <1>5, <1>9 DEF t
<1> QED  BY <1>4, <1>6, <1>7, <1>8, <1>9

(***************************************************************************)
(* WithCounts is such a call.                                              *)
(***************************************************************************)
LEMMA CallCounted ==
  ASSUME NEW slowly \in BOOLEAN, NEW t \in RepTools, NEW it, IsIteration(it), NEW u,
         u = WithCounts(slowly, t, it)
  PROVE  CountsCall(t, u, it, ToUINT32(RepCount(slowly, it)),
                    ZeroLength(ToUINT32(RepCount(slowly, it))))
<1>1. it.ins \in RepOps /\ it.first \in BOOLEAN /\ it.count \in Nat
  BY IterationTypes
<1> DEFINE op == it.ins
           n == RepCount(slowly, it)
           c == ToUINT32(n)
           R == RepInfo[op].reads
           W == RepInfo[op].writes
           stats == addCount(t.stats[op], it.first, n)
           ops == addMemops(t.memOps[op], n, R, W)
<1>2. n \in Nat /\ c \in Nat
  BY BytesAreInts, UINT32s DEF Operands
<1>3. /\ t.stats \in [RepOps -> [count : Nat, repeatedCount : Nat, zeroLength : Nat]]
      /\ t.memOps \in [RepOps -> [reads : Nat, writes : Nat]]
      /\ t.logged \in Nat
      /\ t = [stats |-> t.stats, memOps |-> t.memOps, logged |-> t.logged, log |-> t.log]
      /\ t.log \in [Operands -> SUBSET (Executions \X Int)]
  BY DEF RepTools
<1>4. R \in 0 .. 2 /\ W \in 0 .. 2 /\ (n <= 1 \/ R <= 1) /\ (n <= 1 \/ W <= 1)
  <2>1. /\ RepInfo[op].conditional \in BOOLEAN
        /\ R \in 0 .. 2 /\ W \in 0 .. 1
        /\ ~RepInfo[op].conditional => R \in 0 .. 1
    BY <1>1, RepInfoTypes
  <2>2. RepInfo[op].conditional => n = 0 \/ n = 1
    BY DEF RepCount, takesConditionalRep
  <2> QED  BY <2>1, <2>2
<1>5. ToUINT32(ToUINT32(n) * R) = c * R /\ ToUINT32(ToUINT32(n) * W) = c * W
  <2> HIDE DEF n, c, R, W
  <2>1. \A x \in Nat, r \in 0 .. 2 :
          x <= 1 \/ r <= 1 => ToUINT32(ToUINT32(x) * r) = ToUINT32(x) * r
    BY ProductsFit
  <2> QED  BY <1>2, <1>4, <2>1 DEF c
<1>6. c * R \in Nat /\ c * W \in Nat
  <2> HIDE DEF c, R, W
  <2> QED  BY <1>2, <1>4
<1>7. /\ stats.count = t.stats[op].count + Start(it)
      /\ stats.repeatedCount = t.stats[op].repeatedCount + c
      /\ stats.zeroLength = t.stats[op].zeroLength + ZeroLength(c)
      /\ ops.reads = t.memOps[op].reads + c * R
      /\ ops.writes = t.memOps[op].writes + c * W
  BY <1>5 DEF addCount, addMemops, Start, ZeroLength
<1> HIDE DEF n, c, R, W
<1>8. stats \in [count : Nat, repeatedCount : Nat, zeroLength : Nat]
  <2>1. t.stats[op] \in [count : Nat, repeatedCount : Nat, zeroLength : Nat]
    BY <1>1, <1>3
  <2> QED  BY <1>2, <2>1 DEF addCount, c
<1>9. ops \in [reads : Nat, writes : Nat]
  <2>1. t.memOps[op] \in [reads : Nat, writes : Nat]
    BY <1>1, <1>3
  <2> QED  BY <1>5, <1>6, <2>1 DEF addMemops
<1>10. u = [stats |-> [t.stats EXCEPT ![op] = stats], memOps |-> [t.memOps EXCEPT ![op] = ops],
            logged |-> t.logged, log |-> t.log]
  BY <1>3 DEF WithCounts, n, R, W
<1> HIDE DEF stats, ops
<1>11. u \in RepTools
  BY <1>1, <1>3, <1>8, <1>9, <1>10 DEF RepTools
<1>12. u.stats[op] = stats /\ u.memOps[op] = ops
  BY <1>1, <1>3, <1>10
<1>13. /\ u.logged = t.logged /\ u.log = t.log
       /\ \A o \in RepOps \ {op} : u.stats[o] = t.stats[o] /\ u.memOps[o] = t.memOps[o]
  BY <1>3, <1>10
<1> QED  BY <1>7, <1>11, <1>12, <1>13 DEF c, n, R, W, CountsCall

(***************************************************************************)
(* The counts after calls that count c and z with -slow, d and y without,  *)
(* while e and x are cut off: n iterations owed become m.                  *)
(***************************************************************************)
LEMMA AgreeAgain ==
  ASSUME NEW s \in RepTools, NEW f \in RepTools, NEW l \in Losses,
         NEW s2, NEW f2, NEW l2 \in Losses, NEW it, IsIteration(it),
         NEW n \in Nat, NEW m \in Nat, Agree(s, f, l, it.ins, n),
         NEW c \in Nat, NEW z \in Nat, NEW d \in Nat, NEW y \in Nat, NEW e \in Nat,
         NEW x \in Nat, CountsCall(s, s2, it, c, z), CountsCall(f, f2, it, d, y),
         l2[it.ins].repeats = l[it.ins].repeats + e,
         l2[it.ins].zeros = l[it.ins].zeros + x,
         c + m = n + d + e, z = y - x
  PROVE  Agree(s2, f2, l2, it.ins, m)
<1> DEFINE op == it.ins
           R == RepInfo[op].reads
           W == RepInfo[op].writes
           rep == l[op].repeats
<1>1. op \in RepOps
  BY IterationTypes
<1>2. R \in Nat /\ W \in Nat
  BY <1>1, RepInfoTypes
<1>3. /\ s.stats[op].count \in Nat /\ s.stats[op].zeroLength \in Nat
      /\ s.stats[op].repeatedCount \in Nat
      /\ s.memOps[op].reads \in Nat /\ s.memOps[op].writes \in Nat
      /\ f.stats[op].count \in Nat /\ f.stats[op].zeroLength \in Nat
      /\ f.stats[op].repeatedCount \in Nat
      /\ f.memOps[op].reads \in Nat /\ f.memOps[op].writes \in Nat
  BY <1>1 DEF RepTools
<1>4. rep \in Nat /\ l[op].zeros \in Nat
  BY <1>1 DEF Losses
<1>5. /\ s.stats[op].count = f.stats[op].count
      /\ s.stats[op].zeroLength = f.stats[op].zeroLength - l[op].zeros
      /\ s.stats[op].repeatedCount + n = f.stats[op].repeatedCount + rep
      /\ s.memOps[op].reads + n * R = f.memOps[op].reads + rep * R
      /\ s.memOps[op].writes + n * W = f.memOps[op].writes + rep * W
  BY DEF Agree
<1>6. /\ s2.stats[op].count = s.stats[op].count + Start(it)
      /\ s2.stats[op].repeatedCount = s.stats[op].repeatedCount + c
      /\ s2.stats[op].zeroLength = s.stats[op].zeroLength + z
      /\ s2.memOps[op].reads = s.memOps[op].reads + c * R
      /\ s2.memOps[op].writes = s.memOps[op].writes + c * W
  BY DEF CountsCall
<1>7. /\ f2.stats[op].count = f.stats[op].count + Start(it)
      /\ f2.stats[op].repeatedCount = f.stats[op].repeatedCount + d
      /\ f2.stats[op].zeroLength = f.stats[op].zeroLength + y
      /\ f2.memOps[op].reads = f.memOps[op].reads + d * R
      /\ f2.memOps[op].writes = f.memOps[op].writes + d * W
  BY DEF CountsCall
<1>8. l2[op].repeats = rep + e /\ l2[op].zeros = l[op].zeros + x
  OBVIOUS
<1> HIDE DEF op, R, W, rep
<1>9. \A r \in Nat, a \in Nat, b \in Nat :
        a + n * r = b + rep * r => (a + c * r) + m * r = (b + d * r) + (rep + e) * r
  <2> TAKE r \in Nat, a \in Nat, b \in Nat
  <2> DEFINE nr == n * r
             pr == rep * r
             cr == c * r
             mr == m * r
             dr == d * r
             er == e * r
  <2>1. nr \in Nat /\ pr \in Nat /\ cr \in Nat /\ mr \in Nat /\ dr \in Nat /\ er \in Nat
    BY <1>4
  <2>2. (rep + e) * r = pr + er
    BY <1>4
  <2>3. cr + mr = nr + dr + er
    <3>1. (c + m) * r = cr + mr /\ (n + d + e) * r = nr + dr + er
      OBVIOUS
    <3> QED  BY <3>1
  <2> HIDE DEF nr, pr, cr, mr, dr, er
  <2>4. a + nr = b + pr => (a + cr) + mr = (b + dr) + (pr + er)
    BY <2>1, <2>3
  <2> QED  BY <2>2, <2>4 DEF nr, pr, cr, mr, dr, er
<1>10. /\ s2.memOps[op].reads + m * R = f2.memOps[op].reads + l2[op].repeats * R
       /\ s2.memOps[op].writes + m * W = f2.memOps[op].writes + l2[op].repeats * W
  <2>1. (s.memOps[op].reads + c * R) + m * R = (f.memOps[op].reads + d * R) + (rep + e) * R
    BY <1>2, <1>3, <1>5, <1>9
  <2>2. (s.memOps[op].writes + c * W) + m * W = (f.memOps[op].writes + d * W) + (rep + e) * W
    <3> DEFINE a == s.memOps[op].writes
               b == f.memOps[op].writes
    <3>1. a \in Nat /\ b \in Nat /\ W \in Nat /\ a + n * W = b + rep * W
      BY <1>2, <1>3, <1>5
    <3> HIDE DEF a, b
    <3>2. (a + c * W) + m * W = (b + d * W) + (rep + e) * W
      BY <1>9, <3>1
    <3> QED  BY <3>2 DEF a, b
  <2> QED  BY <1>6, <1>7, <1>8, <2>1, <2>2
<1>11. /\ s2.stats[op].count = f2.stats[op].count
       /\ s2.stats[op].zeroLength = f2.stats[op].zeroLength - l2[op].zeros
       /\ s2.stats[op].repeatedCount + m = f2.stats[op].repeatedCount + l2[op].repeats
  BY <1>3, <1>4, <1>5, <1>6, <1>7, <1>8
<1> QED  BY <1>10, <1>11 DEF Agree, op, R, W

(***************************************************************************)
(* What is cut off at an iteration.                                        *)
(***************************************************************************)
CutAway(it) ==
  IF it.first /\ ~RepInfo[it.ins].conditional THEN Cut(it.count) ELSE 0

TakenForEmpty(it) ==
  IF it.first /\ ~RepInfo[it.ins].conditional
     /\ it.count # 0 /\ ToUINT32(it.count) = 0 THEN 1 ELSE 0

LEMMA LossesGrow ==
  ASSUME lost \in Losses, NEW it, IsIteration(it), NEW l2, l2 = NotCounted(it)
  PROVE  /\ l2 \in Losses /\ CutAway(it) \in Nat /\ TakenForEmpty(it) \in Nat
         /\ \A o \in RepOps \ {it.ins} : l2[o] = lost[o]
         /\ l2[it.ins].repeats = lost[it.ins].repeats + CutAway(it)
         /\ l2[it.ins].zeros = lost[it.ins].zeros + TakenForEmpty(it)
<1>1. it.ins \in RepOps /\ it.count \in Nat
  BY IterationTypes
<1>2. Cut(it.count) \in Nat
  BY <1>1, UINT32s DEF Cut
<1>3. lost[it.ins] \in [repeats : Nat, zeros : Nat]
  BY <1>1 DEF Losses
<1>4. CutAway(it) \in Nat /\ TakenForEmpty(it) \in Nat
  BY <1>2 DEF CutAway, TakenForEmpty
<1>5. CASE it.first /\ ~RepInfo[it.ins].conditional
  <2> DEFINE new == [repeats |-> lost[it.ins].repeats + CutAway(it),
                     zeros |-> lost[it.ins].zeros + TakenForEmpty(it)]
  <2>1. l2 = [lost EXCEPT ![it.ins] = new]
    <3>1. /\ CutAway(it) = Cut(it.count)
          /\ TakenForEmpty(it) =
               IF it.count # 0 /\ ToUINT32(it.count) = 0 THEN 1 ELSE 0
      BY <1>5 DEF CutAway, TakenForEmpty
    <3> DEFINE a == CutAway(it)
               b == TakenForEmpty(it)
    <3>2. l2 = [lost EXCEPT ![it.ins].repeats = @ + a, ![it.ins].zeros = @ + b]
      BY <1>5, <3>1 DEF NotCounted
    <3>3. lost[it.ins] = [repeats |-> lost[it.ins].repeats, zeros |-> lost[it.ins].zeros]
      BY <1>3
    <3> HIDE DEF a, b
    <3>4. l2 = [lost EXCEPT ![it.ins] = [repeats |-> lost[it.ins].repeats + a,
                                         zeros |-> lost[it.ins].zeros + b]]
      BY <1>1, <3>2, <3>3 DEF Losses
    <3> QED  BY <3>4 DEF a, b
  <2>2. new \in [repeats : Nat, zeros : Nat]
    BY <1>3, <1>4
  <2>3. /\ new.repeats = lost[it.ins].repeats + CutAway(it)
        /\ new.zeros = lost[it.ins].zeros + TakenForEmpty(it)
    OBVIOUS
  <2> HIDE DEF new
  <2> QED  BY <1>1, <1>4, <2>1, <2>2, <2>3 DEF Losses
<1>6. CASE ~(it.first /\ ~RepInfo[it.ins].conditional)
  <2>1. l2 = lost /\ CutAway(it) = 0 /\ TakenForEmpty(it) = 0
    BY <1>6 DEF NotCounted, CutAway, TakenForEmpty
  <2> QED  BY <1>3, <2>1
<1> QED  BY <1>5, <1>6

(***************************************************************************)
(* In the same way the calls that count take one iteration from what is    *)
(* owed, or make all but the first be owed.                                *)
(***************************************************************************)
LEMMA CountsPaid ==
  ASSUME NEW yes \in BOOLEAN, \A op : takesConditionalRep(yes, op),
         NEW no \in BOOLEAN, \A op : takesConditionalRep(no, op) <=> RepInfo[op].conditional,
         NEW s \in RepTools, NEW f \in RepTools, lost \in Losses,
         NEW it, IsIteration(it), it.first \/ it.executing,
         OwesCounts(s, f, lost, it.ins, CountOwed(it))
  PROVE  /\ OwesCounts(Counted(yes, s, it), Counted(no, f, it), NotCounted(it), it.ins,
                       CountOwedAfter(it))
         /\ Counted(yes, s, it) \in RepTools /\ Counted(no, f, it) \in RepTools
         /\ Counted(yes, s, it).logged = s.logged /\ Counted(yes, s, it).log = s.log
         /\ Counted(no, f, it).logged = f.logged /\ Counted(no, f, it).log = f.log
<1> DEFINE op == it.ins
           s2 == Counted(yes, s, it)
           f2 == Counted(no, f, it)
           l2 == NotCounted(it)
           n == CountOwed(it)
           m == CountOwedAfter(it)
           c == RepCount(yes, it)
           z == ZeroLength(c)
           d == IF IsCalled(no, it) THEN ToUINT32(RepCount(no, it)) ELSE 0
           y == IF IsCalled(no, it) THEN ZeroLength(d) ELSE 0
           e == CutAway(it)
           x == TakenForEmpty(it)
<1>1. /\ op \in RepOps /\ it.count \in Nat
      /\ it.first \in BOOLEAN /\ it.executing \in BOOLEAN
      /\ it.executing <=> it.count # 0
  BY IterationTypes
<1>2. RepInfo[op].conditional \in BOOLEAN
  BY <1>1, RepInfoTypes
<1>3. /\ IsCalled(yes, it)
      /\ c = IF it.executing THEN 1 ELSE 0
      /\ IsCalled(no, it) <=> RepInfo[op].conditional \/ it.first
      /\ RepCount(no, it) = IF RepInfo[op].conditional
                            THEN IF it.executing THEN 1 ELSE 0
                            ELSE it.count
  BY <1>2 DEF IsCalled, RepCount
<1>4. ToUINT32(0) = 0 /\ ToUINT32(1) = 1 /\ ToUINT32(it.count) \in Nat
  BY <1>1, UINT32s
<1>5. /\ n \in Nat /\ m \in Nat /\ c \in Nat /\ z \in Nat /\ d \in Nat /\ y \in Nat
  BY <1>1, <1>3, <1>4 DEF CountOwed, CountOwedAfter, ZeroLength
<1>6. /\ l2 \in Losses /\ e \in Nat /\ x \in Nat
      /\ \A o \in RepOps \ {op} : l2[o] = lost[o]
      /\ l2[op].repeats = lost[op].repeats + e
      /\ l2[op].zeros = lost[op].zeros + x
  <2> HIDE DEF l2, e, x
  <2> QED  BY LossesGrow DEF l2, e, x
<1>7. c + m = n + d + e /\ z = y - x
  <2>1. CASE RepInfo[op].conditional
    <3>1. n = 0 /\ m = 0 /\ e = 0 /\ x = 0
      BY <2>1 DEF CountOwed, CountOwedAfter, CutAway, TakenForEmpty
    <3>2. d = c /\ y = z
      BY <1>1, <1>3, <1>4, <2>1
    <3> HIDE DEF n, m, e, x, d, c, y, z
    <3> QED  BY <1>5, <3>1, <3>2
  <2>2. CASE ~RepInfo[op].conditional /\ it.first
    <3>1. /\ n = 0 /\ d = ToUINT32(it.count) /\ e = it.count - ToUINT32(it.count)
          /\ c + m = it.count
      BY <1>1, <1>3, <2>2 DEF CountOwed, CountOwedAfter, CutAway, Cut
    <3>2. z = y - x
      BY <1>1, <1>3, <1>4, <2>2 DEF TakenForEmpty, ZeroLength
    <3> HIDE DEF n, m, e, x, d, c, y, z
    <3> QED  BY <1>1, <1>4, <3>1, <3>2
  <2>3. CASE ~RepInfo[op].conditional /\ ~it.first
    <3>1. /\ n = it.count /\ m = it.count - 1 /\ c = 1 /\ d = 0 /\ e = 0
          /\ z = 0 /\ y = 0 /\ x = 0
      BY <1>1, <1>3, <2>3
         DEF CountOwed, CountOwedAfter, CutAway, TakenForEmpty, ZeroLength
    <3> HIDE DEF n, m, e, x, d, c, y, z
    <3> QED  BY <1>1, <3>1
  <2> QED  BY <2>1, <2>2, <2>3
<1>8. CountsCall(s, s2, it, c, z)
  <2>1. s2 = WithCounts(yes, s, it)
    BY <1>3 DEF Counted
  <2>2. ToUINT32(c) = c
    BY <1>3, <1>4
  <2> HIDE DEF s2, c
  <2>3. CountsCall(s, s2, it, ToUINT32(c), ZeroLength(ToUINT32(c)))
    BY <2>1, CallCounted DEF c
  <2> QED  BY <2>2, <2>3
<1>9. CountsCall(f, f2, it, d, y)
  <2>1. CASE IsCalled(no, it)
    <3>1. f2 = WithCounts(no, f, it)
      BY <2>1 DEF Counted
    <3>2. d = ToUINT32(RepCount(no, it)) /\ y = ZeroLength(d)
      BY <2>1
    <3> HIDE DEF f2, d, y
    <3>3. CountsCall(f, f2, it, ToUINT32(RepCount(no, it)),
                     ZeroLength(ToUINT32(RepCount(no, it))))
      BY <3>1, CallCounted
    <3> QED  BY <3>2, <3>3
  <2>2. CASE ~IsCalled(no, it)
    <3>1. f2 = f /\ d = 0 /\ y = 0 /\ Start(it) = 0
      BY <1>3, <2>2 DEF Counted, Start
    <3>2. 0 * RepInfo[op].reads = 0 /\ 0 * RepInfo[op].writes = 0
      BY <1>1, RepInfoTypes
    <3>3. /\ f.stats[op].count \in Nat /\ f.stats[op].zeroLength \in Nat
          /\ f.stats[op].repeatedCount \in Nat
          /\ f.memOps[op].reads \in Nat /\ f.memOps[op].writes \in Nat
      BY <1>1 DEF RepTools
    <3> HIDE DEF f2, d, y
    <3> QED  BY <3>1, <3>2, <3>3 DEF CountsCall
  <2> QED  BY <2>1, <2>2
<1> HIDE DEF s2, f2, l2, n, m, c, z, d, y, e, x
<1>10. Agree(s2, f2, l2, op, m)
  <2>1. Agree(s, f, lost, it.ins, n)
    BY <1>1 DEF OwesCounts, n
  <2> QED  BY <1>5, <1>6, <1>7, <1>8, <1>9, <2>1, AgreeAgain
<1>11. \A o \in RepOps \ {op} : Agree(s2, f2, l2, o, 0)
  <2> TAKE o \in RepOps \ {op}
  <2>1. /\ s2.stats[o] = s.stats[o] /\ s2.memOps[o] = s.memOps[o]
        /\ f2.stats[o] = f.stats[o] /\ f2.memOps[o] = f.memOps[o] /\ l2[o] = lost[o]
    BY <1>6, <1>8, <1>9 DEF CountsCall
  <2>2. Agree(s, f, lost, o, 0)
    BY DEF OwesCounts
  <2> QED  BY <2>1, <2>2 DEF Agree
<1>12. OwesCounts(s2, f2, l2, op, m)
  BY <1>10, <1>11 DEF OwesCounts
<1> QED  BY <1>8, <1>9, <1>12 DEF s2, f2, l2, m, CountsCall

(***************************************************************************)
(* All the routines of an iteration, one after the other.                  *)
(***************************************************************************)
LEMMA CallByCall ==
  ASSUME NEW slowly \in BOOLEAN, NEW t, NEW it, it.ins \in RepOps
  PROVE  InstrumentInstruction(slowly, t, it) =
           Called(slowly,
             Called(slowly,
               Called(slowly, Counted(slowly, t, it), it, "Read "), it, "Read2"), it, "Write")
<1>1. /\ HasOperand(it.ins, "Read ") <=> RepInfo[it.ins].reads > 0
      /\ HasOperand(it.ins, "Read2") <=> RepInfo[it.ins].reads > 1
      /\ HasOperand(it.ins, "Write") <=> RepInfo[it.ins].writes > 0
  BY DEF HasOperand
<1>2. \A u :
        /\ WithOperand(slowly, u, it, "Read ", RepInfo[it.ins].reads > 0) =
             WithOperand(slowly, u, it, "Read ", HasOperand(it.ins, "Read "))
        /\ WithOperand(slowly, u, it, "Read2", RepInfo[it.ins].reads > 1) =
             WithOperand(slowly, u, it, "Read2", HasOperand(it.ins, "Read2"))
        /\ WithOperand(slowly, u, it, "Write", RepInfo[it.ins].writes > 0) =
             WithOperand(slowly, u, it, "Write", HasOperand(it.ins, "Write"))
  BY <1>1 DEF WithOperand
<1>3. CASE IsCalled(slowly, it)
  BY <1>2, <1>3 DEF InstrumentInstruction, Called, Counted
<1>4. CASE ~IsCalled(slowly, it)
  BY <1>4 DEF InstrumentInstruction, Called, Counted
<1> QED  BY <1>3, <1>4

(***************************************************************************)
(* All the routines of an iteration together.                              *)
(***************************************************************************)
LEMMA IterationPaid ==
  ASSUME NEW yes \in BOOLEAN, \A op : takesConditionalRep(yes, op),
         NEW no \in BOOLEAN, \A op : takesConditionalRep(no, op) <=> RepInfo[op].conditional,
         NEW s \in RepTools, NEW f \in RepTools, lost \in Losses,
         NEW it, IsIteration(it), it.first \/ it.executing,
         OwesCounts(s, f, lost, it.ins, CountOwed(it)),
         OwesBytes(s, f, Owed(it), it.exec.nr)
  PROVE  /\ InstrumentInstruction(yes, s, it) \in RepTools
         /\ InstrumentInstruction(no, f, it) \in RepTools
         /\ OwesCounts(InstrumentInstruction(yes, s, it), InstrumentInstruction(no, f, it),
                       NotCounted(it), it.ins, CountOwedAfter(it))
         /\ OwesBytes(InstrumentInstruction(yes, s, it), InstrumentInstruction(no, f, it),
                      OwedAfter(it), it.exec.nr)
<1> DEFINE n == CountOwedAfter(it)
           nr == it.exec.nr
           l == NotCounted(it)
           s1 == Counted(yes, s, it)
           f1 == Counted(no, f, it)
           s2 == Called(yes, s1, it, "Read ")
           f2 == Called(no, f1, it, "Read ")
           s3 == Called(yes, s2, it, "Read2")
           f3 == Called(no, f2, it, "Read2")
           s4 == Called(yes, s3, it, "Write")
           f4 == Called(no, f3, it, "Write")
           X1 == Owed(it)
           X2 == [X1 EXCEPT !["Read "] = BytesOwedAfter(it, "Read ")]
           X3 == [X2 EXCEPT !["Read2"] = BytesOwedAfter(it, "Read2")]
           X4 == OwedAfter(it)
<1>1. /\ "Read " \in Operands /\ "Read2" \in Operands /\ "Write" \in Operands
      /\ Operands = {"Read ", "Read2", "Write"}
  BY DEF Operands
<1>2. /\ X1["Read "] = BytesOwed(it, "Read ") /\ X2["Read2"] = BytesOwed(it, "Read2")
      /\ X3["Write"] = BytesOwed(it, "Write")
      /\ X2["Read "] = BytesOwedAfter(it, "Read ")
      /\ X3["Read2"] = BytesOwedAfter(it, "Read2")
      /\ X4["Write"] = BytesOwedAfter(it, "Write")
      /\ \A o \in Operands \ {"Read "} : X1[o] = X2[o]
      /\ \A o \in Operands \ {"Read2"} : X2[o] = X3[o]
      /\ \A o \in Operands \ {"Write"} : X3[o] = X4[o]
  BY <1>1 DEF Owed, OwedAfter
<1>3. /\ \A o \in Operands : \A e \in X1[o] : e[1] = it.exec
      /\ \A o \in Operands : \A e \in BytesOwedAfter(it, o) : e[1] = it.exec
  BY EntriesAt DEF Owed, BytesOwed, BytesOwedAfter
<1>4. /\ s4 = InstrumentInstruction(yes, s, it) /\ f4 = InstrumentInstruction(no, f, it)
  <2>1. it.ins \in RepOps
    BY IterationTypes
  <2> QED  BY <2>1, CallByCall
<1> HIDE DEF X1, X2, X3, X4, n, nr, l, s1, f1
<1>5. Pays(X1, X2, it, "Read ") /\ Pays(X2, X3, it, "Read2") /\ Pays(X3, X4, it, "Write")
  <2> DEFINE Labelled(S) == \A e \in S : e[1] = it.exec
  <2>0. \A o \in Operands : Labelled(X1[o]) /\ Labelled(BytesOwedAfter(it, o))
    BY <1>3
  <2> HIDE DEF Labelled
  <2>1. \A o \in Operands : Labelled(X2[o])
    BY <1>1, <1>2, <2>0
  <2>2. \A o \in Operands : Labelled(X3[o])
    BY <1>1, <1>2, <2>0, <2>1
  <2>3. \A o \in Operands : Labelled(X4[o])
    BY <1>1, <1>2, <2>0, <2>2
  <2> USE DEF Labelled
  <2> QED  BY <1>2, <2>1, <2>2, <2>3 DEF Pays
<1>6. /\ s1 \in RepTools /\ f1 \in RepTools /\ OwesCounts(s1, f1, l, it.ins, n)
      /\ s1.logged = s.logged /\ s1.log = s.log /\ f1.logged = f.logged /\ f1.log = f.log
  BY CountsPaid DEF s1, f1, n, l
<1>7. OwesBytes(s1, f1, X1, nr)
  BY <1>6 DEF OwesBytes, OwesEntries, Begun, NewestMissing, LabelsUpTo, X1, nr
<1> HIDE DEF s2, f2
<1>8. OwesBytes(s2, f2, X2, nr) /\ OnlyBytes(s1, s2) /\ OnlyBytes(f1, f2)
  BY <1>1, <1>5, <1>6, <1>7, OperandPaid DEF s2, f2, nr
<1>9. s2 \in RepTools /\ f2 \in RepTools
  BY <1>8 DEF OnlyBytes
<1> HIDE DEF s3, f3
<1>10. OwesBytes(s3, f3, X3, nr) /\ OnlyBytes(s2, s3) /\ OnlyBytes(f2, f3)
  BY <1>1, <1>5, <1>8, <1>9, OperandPaid DEF s3, f3, nr
<1>11. s3 \in RepTools /\ f3 \in RepTools
  BY <1>10 DEF OnlyBytes
<1> HIDE DEF s4, f4
<1>12. OwesBytes(s4, f4, X4, nr) /\ OnlyBytes(s3, s4) /\ OnlyBytes(f3, f4)
  BY <1>1, <1>5, <1>10, <1>11, OperandPaid DEF s4, f4, nr
<1>13. OwesCounts(s4, f4, l, it.ins, n)
  BY <1>6, <1>8, <1>10, <1>12 DEF OwesCounts, Agree, OnlyBytes
<1> QED  BY <1>4, <1>12, <1>13 DEF n, l, nr, X4, OnlyBytes

-----------------------------------------------------------------------------
(***************************************************************************)
(* What is owed after an iteration is what is owed before the next one.    *)
(***************************************************************************)
LEMMA FollowingOwesRest ==
  ASSUME NEW it, IsIteration(it), it.count > 1
  PROVE  /\ IsIteration(Following(it)) /\ Following(it).ins = it.ins
         /\ ~Following(it).first /\ Following(it).executing
         /\ Following(it).exec = it.exec
         /\ CountOwed(Following(it)) = CountOwedAfter(it)
         /\ Owed(Following(it)) = OwedAfter(it)
<1> DEFINE fo == Following(it)
           size == RepInfo[it.ins].size
<1>1. /\ it.ins \in RepOps /\ it.count \in Nat /\ it.df \in BOOLEAN
      /\ it.executing \in BOOLEAN /\ it.executing /\ it.exec \in Executions
      /\ it.ea \in [Operands -> Int] /\ it.exec.ins = it.ins /\ it.exec.df = it.df
  BY IterationTypes
<1>2. size \in Nat \ {0}
  BY <1>1, RepInfoTypes
<1>3. it = [exec |-> it.exec, ins |-> it.ins, first |-> it.first,
            executing |-> it.executing, count |-> it.count, df |-> it.df, ea |-> it.ea]
  BY DEF IsIteration, Iterations
<1>4. fo = [exec |-> it.exec, ins |-> it.ins, first |-> FALSE,
            executing |-> it.executing, count |-> it.count - 1, df |-> it.df,
            ea |-> [operand \in Operands |-> it.ea[operand] + Step(it.df, size)]]
  <2> DEFINE ea == [operand \in Operands |-> it.ea[operand] + Step(it.df, size)]
  <2>1. fo = [it EXCEPT !.first = FALSE, !.count = @ - 1, !.ea = ea]
    BY DEF Following, Step
  <2> HIDE DEF ea, fo
  <2>2. fo = [exec |-> it.exec, ins |-> it.ins, first |-> FALSE,
              executing |-> it.executing, count |-> it.count - 1, df |-> it.df, ea |-> ea]
    BY <1>3, <2>1
  <2> QED  BY <2>2 DEF ea
<1>5. Step(it.df, size) \in Int
  BY <1>1, <1>2 DEF Step
<1> HIDE DEF fo, size
<1>6. [operand \in Operands |-> it.ea[operand] + Step(it.df, size)] \in [Operands -> Int]
  BY <1>1, <1>5
<1>7. /\ fo.ins = it.ins /\ fo.first = FALSE /\ fo.executing = it.executing
      /\ fo.exec = it.exec /\ fo.count = it.count - 1 /\ fo.df = it.df
      /\ \A operand \in Operands : fo.ea[operand] = it.ea[operand] + Step(it.df, size)
  BY <1>4
<1>8. IsIteration(fo)
  <2>1. it.count - 1 \in Nat /\ it.count - 1 # 0
    BY <1>1
  <2>2. fo \in Iterations
    BY <1>1, <1>4, <1>6, <2>1 DEF Iterations
  <2> QED  BY <1>1, <1>7, <2>1, <2>2 DEF IsIteration
<1>9. CountOwed(fo) = CountOwedAfter(it)
  BY <1>1, <1>7 DEF CountOwed, CountOwedAfter
<1>10. \A operand \in Operands : BytesOwed(fo, operand) = BytesOwedAfter(it, operand)
  BY <1>1, <1>7 DEF BytesOwed, BytesOwedAfter, size
<1>11. Owed(fo) = OwedAfter(it)
  BY <1>10 DEF Owed, OwedAfter
<1> QED  BY <1>1, <1>7, <1>8, <1>9, <1>11 DEF fo

(***************************************************************************)
(* After the last iteration nothing is owed.                               *)
(***************************************************************************)
LEMMA LastOwesNothing ==
  ASSUME NEW it, IsIteration(it), it.count <= 1 \/ RepInfo[it.ins].conditional
  PROVE  CountOwedAfter(it) = 0 /\ OwedAfter(it) = Nothing
<1>1. /\ it.ins \in RepOps /\ it.count \in Nat /\ it.df \in BOOLEAN
      /\ it.ea \in [Operands -> Int]
  BY IterationTypes
<1>2. RepInfo[it.ins].size \in Nat \ {0}
  BY <1>1, RepInfoTypes
<1>3. RepInfo[it.ins].conditional \/ it.count = 0 \/ it.count = 1
  BY <1>1
<1>4. \A operand \in Operands : BytesOwedAfter(it, operand) = {}
  <2> TAKE operand \in Operands
  <2>1. CASE RepInfo[it.ins].conditional \/ it.count = 0
    BY <2>1 DEF BytesOwedAfter
  <2>2. CASE it.count = 1
    <3> DEFINE ea == it.ea[operand] + Step(it.df, RepInfo[it.ins].size)
    <3>1. ea \in Int
      BY <1>1, <1>2 DEF Step
    <3> HIDE DEF ea
    <3>2. Elements(ea, it.df, 0, RepInfo[it.ins].size) = {}
      BY <1>1, <1>2, <3>1, NoElements
    <3>3. it.count - 1 = 0
      BY <2>2
    <3> QED  BY <3>2, <3>3, EntriesAt DEF BytesOwedAfter, ea
  <2> QED  BY <1>3, <2>1, <2>2
<1> QED  BY <1>3, <1>4 DEF CountOwedAfter, OwedAfter, Nothing

(***************************************************************************)
(* Owing no iterations of one instruction is owing none at all.  Owing     *)
(* bytes does not change when the labels may be greater.                   *)
(***************************************************************************)
LEMMA NothingOwed ==
  ASSUME NEW s, NEW f, NEW l, NEW op \in RepOps
  PROVE  OwesCounts(s, f, l, op, 0) <=> OwesNoCounts(s, f, l)
BY DEF OwesCounts, OwesNoCounts

LEMMA MoreLabels ==
  ASSUME NEW s, NEW f \in RepTools, NEW X, NEW n \in Nat, NEW m \in Nat, n <= m,
         OwesBytes(s, f, X, n)
  PROVE  OwesBytes(s, f, X, m)
<1>1. ASSUME NEW operand \in Operands, NEW d \in f.log[operand]
      PROVE  d[1].nr <= m
  <2>1. d \in Executions \X Int
    BY <1>1 DEF RepTools
  <2>2. d[1] \in Executions
    BY <2>1
  <2>3. d[1].nr \in Nat
    BY <2>2 DEF Executions
  <2>4. d[1].nr <= n
    BY <1>1 DEF OwesBytes, LabelsUpTo
  <2> QED  BY <2>3, <2>4
<1> QED  BY <1>1 DEF OwesBytes, LabelsUpTo

(***************************************************************************)
(* What an iteration starts from.                                          *)
(***************************************************************************)
RepStart(it) ==
  /\ slow \in RepTools /\ fast \in RepTools /\ lost \in Losses
  /\ IsIteration(it) /\ (it.first \/ it.executing)
  /\ OwesCounts(slow, fast, lost, it.ins, CountOwed(it))
  /\ OwesBytes(slow, fast, Owed(it), it.exec.nr)
  /\ it.exec.nr <= Len(trace)

TraceGrows == Len(trace) \in Nat /\ Len(trace') \in Nat /\ Len(trace) <= Len(trace')

(***************************************************************************)
(* An iteration keeps the invariant, whether another one follows or not.   *)
(***************************************************************************)
LEMMA IterationKeepsRepInv ==
  ASSUME NEW it, RepStart(it), ExecuteIteration(it), TraceGrows
  PROVE  RepInv'
<1>1. /\ \A op : takesConditionalRep(TRUE, op)
      /\ \A op : takesConditionalRep(FALSE, op) <=> RepInfo[op].conditional
  BY DEF takesConditionalRep
<1>2. /\ slow \in RepTools /\ fast \in RepTools /\ lost \in Losses
      /\ IsIteration(it) /\ (it.first \/ it.executing)
      /\ OwesCounts(slow, fast, lost, it.ins, CountOwed(it))
      /\ OwesBytes(slow, fast, Owed(it), it.exec.nr)
      /\ it.exec.nr <= Len(trace)
  BY DEF RepStart
<1>3. /\ slow' = InstrumentInstruction(TRUE, slow, it)
      /\ fast' = InstrumentInstruction(FALSE, fast, it)
      /\ lost' = NotCounted(it)
      /\ \/ it.count > 1 /\ iteration' = Following(it)
         \/ /\ it.count <= 1 \/ RepInfo[it.ins].conditional
            /\ iteration' = NoIteration
  BY DEF ExecuteIteration
<1>4. /\ slow' \in RepTools /\ fast' \in RepTools
      /\ OwesCounts(slow', fast', lost', it.ins, CountOwedAfter(it))
      /\ OwesBytes(slow', fast', OwedAfter(it), it.exec.nr)
  BY <1>1, <1>2, <1>3, IterationPaid
<1>5. lost' \in Losses
  BY <1>2, <1>3, LossesGrow
<1>6. it.exec.nr \in Nat /\ Len(trace') \in Nat /\ it.exec.nr <= Len(trace')
  <2> DEFINE n == Len(trace)
             m == Len(trace')
  <2>1. it.exec.nr \in Nat /\ n \in Nat /\ m \in Nat /\ n <= m /\ it.exec.nr <= n
    BY <1>2, IterationTypes DEF TraceGrows
  <2> HIDE DEF n, m
  <2>2. it.exec.nr <= m
    BY <2>1
  <2> QED  BY <2>1, <2>2 DEF m
<1>7. CASE it.count > 1 /\ iteration' = Following(it)
  <2>1. /\ IsIteration(iteration') /\ iteration'.ins = it.ins
        /\ ~iteration'.first /\ iteration'.executing /\ iteration'.exec = it.exec
        /\ CountOwed(iteration') = CountOwedAfter(it)
        /\ Owed(iteration') = OwedAfter(it)
    BY <1>2, <1>7, FollowingOwesRest
  <2> QED  BY <1>4, <1>5, <1>6, <2>1 DEF RepInv
<1>8. CASE /\ it.count <= 1 \/ RepInfo[it.ins].conditional
           /\ iteration' = NoIteration
  <2>1. CountOwedAfter(it) = 0 /\ OwedAfter(it) = Nothing
    BY <1>2, <1>8, LastOwesNothing
  <2>2. it.ins \in RepOps
    BY <1>2, IterationTypes
  <2>3. OwesNoCounts(slow', fast', lost')
    BY <1>4, <2>1, <2>2, NothingOwed
  <2>4. OwesBytes(slow', fast', Nothing, Len(trace'))
    BY <1>4, <1>6, <2>1, MoreLabels
  <2> QED  BY <1>4, <1>5, <1>8, <2>3, <2>4 DEF RepInv
<1> QED  BY <1>3, <1>7, <1>8

(***************************************************************************)
(* An iteration is told apart from there being none.                       *)
(***************************************************************************)
LEMMA IterationIsNot == \A it : IsIteration(it) => it # NoIteration
<1> SUFFICES ASSUME NEW it, IsIteration(it)
             PROVE  it # NoIteration
  OBVIOUS
<1>1. "count" \in DOMAIN it
  BY DEF IsIteration, Iterations
<1>2. "count" \notin DOMAIN NoIteration
  BY DEF NoIteration
<1> QED  BY <1>1, <1>2

(***************************************************************************)
(* An instruction with REP starts with its first iteration.                *)
(***************************************************************************)
LEMMA FirstIsIteration ==
  ASSUME NEW ins \in RepOps, NEW count \in RepCounts, NEW df \in BOOLEAN,
         Len(trace) \in Nat
  PROVE  /\ IsIteration(FirstIteration(ins, count, df))
         /\ FirstIteration(ins, count, df).first
         /\ FirstIteration(ins, count, df).ins = ins
         /\ FirstIteration(ins, count, df).exec.nr = Len(trace)
<1> DEFINE it == FirstIteration(ins, count, df)
           executing == count # 0
           ea == [operand \in Operands |-> FirstEA]
           n == Len(trace)
           exec == [nr |-> n, ins |-> ins, count |-> count, df |-> df]
<1>1. count \in Nat /\ n \in Nat
  BY CountSuiteAssumption
<1>2. executing \in BOOLEAN /\ (executing <=> count # 0)
  OBVIOUS
<1>3. ea \in [Operands -> Int]
  BY DEF FirstEA
<1>4. it = [exec |-> exec, ins |-> ins, first |-> TRUE, executing |-> executing,
            count |-> count, df |-> df, ea |-> ea]
  BY DEF FirstIteration
<1> HIDE DEF n
<1>5. /\ exec \in Executions
      /\ exec.nr = n /\ exec.ins = ins /\ exec.count = count /\ exec.df = df
  BY <1>1 DEF Executions
<1> HIDE DEF executing, ea, it, exec
<1>6. /\ it.ins = ins /\ it.first = TRUE /\ it.executing = executing /\ it.count = count
      /\ it.df = df /\ it.exec = exec
  BY <1>4
<1>7. it \in Iterations
  BY <1>1, <1>2, <1>3, <1>4, <1>5 DEF Iterations
<1>8. IsIteration(it) /\ it.first /\ it.ins = ins /\ it.exec.nr = n
  BY <1>2, <1>5, <1>6, <1>7 DEF IsIteration
<1> QED  BY <1>8 DEF it, n

(***************************************************************************)
(* The program only gets longer.                                           *)
(***************************************************************************)
LEMMA TraceOnlyGrows ==
  ASSUME CountInv, [CountNext]_<<vars, countVars>>
  PROVE  TraceGrows
<1>1. pending \in Seq(Instrs) /\ trace \in Seq(Instrs) /\ Len(trace) \in Nat
  BY DEF CountInv
<1>2. ASSUME Execute PROVE TraceGrows
  <2> DEFINE n == Len(trace)
             m == Len(trace')
  <2>1. n \in Nat /\ m = n + 1
    BY <1>1, <1>2, ExecuteMoves
  <2> HIDE DEF n, m
  <2>2. m \in Nat /\ n <= m
    BY <2>1
  <2> QED  BY <2>1, <2>2 DEF n, m, TraceGrows
<1>3. ASSUME trace' = trace PROVE TraceGrows
  <2> DEFINE n == Len(trace)
  <2>1. n \in Nat
    BY <1>1
  <2> HIDE DEF n
  <2>2. n <= n
    BY <2>1
  <2> QED  BY <1>3, <2>1, <2>2 DEF n, TraceGrows
<1> QED
  BY <1>2, <1>3 DEF CountNext, CountEnterBlock, EnterBlock, CountAnalyse, Analyse,
     Inscount2Anywhere, InstrumentTraceAnywhere, ExecutePlain, StartRep, ContinueRep,
     ExecuteIteration, vars

(***************************************************************************)
(* The invariant holds in every state.                                     *)
(***************************************************************************)
LEMMA RepInvariant == CountSpec => []RepInv
<1>1. CountInit => RepInv
  <2> SUFFICES ASSUME CountInit PROVE RepInv
    OBVIOUS
  <2>1. /\ slow = NewCountReps /\ fast = NewCountReps /\ iteration = NoIteration
        /\ lost = [op \in RepOps |-> [repeats |-> 0, zeros |-> 0]]
    BY DEF CountInit
  <2>2. NewCountReps \in RepTools
    BY DEF NewCountReps, RepTools
  <2>3. \A operand \in Operands : NewCountReps.log[operand] = {}
    BY DEF NewCountReps
  <2>4. \A n : OwesBytes(NewCountReps, NewCountReps, Nothing, n)
    BY <2>3, ReplacedEntries
       DEF OwesBytes, OwesEntries, Begun, NewestMissing, LabelsUpTo, Nothing
  <2>5. lost \in Losses
    BY <2>1 DEF Losses
  <2>6. \A op \in RepOps : Agree(NewCountReps, NewCountReps, lost, op, 0)
    BY <2>1 DEF Agree, NewCountReps
  <2> QED  BY <2>1, <2>2, <2>4, <2>5, <2>6 DEF RepInv, OwesNoCounts
<1>2. CountInv /\ RepInv /\ [CountNext]_<<vars, countVars>> => RepInv'
  <2> SUFFICES ASSUME CountInv, RepInv, [CountNext]_<<vars, countVars>> PROVE RepInv'
    OBVIOUS
  <2>1. TraceGrows
    BY TraceOnlyGrows
  <2>2. ASSUME NEW ins \in RepOps, StartRep(ins)
        PROVE  RepInv'
    <3>1. /\ iteration = NoIteration
          /\ slow \in RepTools /\ fast \in RepTools /\ lost \in Losses
          /\ OwesNoCounts(slow, fast, lost)
          /\ OwesBytes(slow, fast, Nothing, Len(trace))
      BY <2>2, IterationIsNot DEF StartRep, RepInv
    <3>2. PICK count \in RepCounts, df \in BOOLEAN :
            ExecuteIteration(FirstIteration(ins, count, df))
      BY <2>2 DEF StartRep
    <3> DEFINE it == FirstIteration(ins, count, df)
               n == Len(trace)
    <3>3. IsIteration(it) /\ it.first /\ it.ins = ins /\ it.exec.nr = n /\ n \in Nat
      BY <2>1, FirstIsIteration DEF TraceGrows
    <3> HIDE DEF it, n
    <3>4. CountOwed(it) = 0 /\ Owed(it) = Nothing
      BY <3>3 DEF CountOwed, Owed, BytesOwed, Nothing
    <3>5. OwesCounts(slow, fast, lost, ins, 0)
      BY <3>1, NothingOwed
    <3>6. it.exec.nr <= n
      BY <3>3
    <3>7. RepStart(it)
      BY <3>1, <3>3, <3>4, <3>5, <3>6 DEF RepStart, n
    <3> QED  BY <2>1, <3>2, <3>7, IterationKeepsRepInv DEF it
  <2>3. CASE ContinueRep
    <3>1. iteration # NoIteration /\ ExecuteIteration(iteration)
      BY <2>3 DEF ContinueRep
    <3>2. RepStart(iteration)
      BY <3>1 DEF RepInv, RepStart
    <3> QED  BY <2>1, <3>1, <3>2, IterationKeepsRepInv
  <2>4. CASE UNCHANGED <<slow, fast, iteration, lost>>
    <3> DEFINE n == Len(trace)
               m == Len(trace')
    <3>1. n \in Nat /\ m \in Nat /\ n <= m
      BY <2>1 DEF TraceGrows
    <3> HIDE DEF n, m
    <3>2. CASE /\ iteration = NoIteration
               /\ OwesNoCounts(slow, fast, lost)
               /\ OwesBytes(slow, fast, Nothing, n)
      <4>1. OwesBytes(slow, fast, Nothing, m)
        BY <3>1, <3>2, MoreLabels DEF RepInv
      <4> QED  BY <2>4, <3>2, <4>1 DEF RepInv, m
    <3>3. CASE /\ IsIteration(iteration) /\ ~iteration.first /\ iteration.executing
               /\ OwesCounts(slow, fast, lost, iteration.ins, CountOwed(iteration))
               /\ OwesBytes(slow, fast, Owed(iteration), iteration.exec.nr)
               /\ iteration.exec.nr <= n
      <4>1. iteration.exec.nr \in Nat
        BY <3>3, IterationTypes
      <4>2. iteration.exec.nr <= m
        BY <3>1, <3>3, <4>1
      <4> QED  BY <2>4, <3>3, <4>2 DEF RepInv, m
    <3> QED  BY <3>2, <3>3 DEF RepInv, n
  <2> QED
    BY <2>2, <2>3, <2>4 DEF CountNext, CountEnterBlock, CountAnalyse, Inscount2Anywhere,
       InstrumentTraceAnywhere, ExecutePlain, countVars
<1> QED  BY <1>1, <1>2, CountInvariant, PTL DEF CountSpec

(***************************************************************************)
(* The invariant gives the agreement between two instructions with REP.    *)
(***************************************************************************)
LEMMA RepInvAgrees == RepInv => StatisticsAgree /\ LogsAgree
<1> SUFFICES ASSUME RepInv, iteration = NoIteration
             PROVE  StatisticsAgree /\ LogsAgree
  BY DEF StatisticsAgree, LogsAgree
<1>1. /\ slow \in RepTools /\ fast \in RepTools /\ lost \in Losses
      /\ OwesNoCounts(slow, fast, lost)
      /\ OwesBytes(slow, fast, Nothing, Len(trace))
  BY IterationIsNot DEF RepInv
<1>2. StatisticsAgree
  <2> SUFFICES ASSUME NEW op \in RepOps
               PROVE  /\ slow.stats[op].count = fast.stats[op].count
                      /\ slow.stats[op].repeatedCount =
                           fast.stats[op].repeatedCount + lost[op].repeats
                      /\ slow.stats[op].zeroLength =
                           fast.stats[op].zeroLength - lost[op].zeros
                      /\ slow.memOps[op].reads =
                           fast.memOps[op].reads + lost[op].repeats * RepInfo[op].reads
                      /\ slow.memOps[op].writes =
                           fast.memOps[op].writes + lost[op].repeats * RepInfo[op].writes
    BY DEF StatisticsAgree
  <2>1. Agree(slow, fast, lost, op, 0)
    BY <1>1 DEF OwesNoCounts
  <2>2. /\ slow.stats[op] \in [count : Nat, repeatedCount : Nat, zeroLength : Nat]
        /\ slow.memOps[op] \in [reads : Nat, writes : Nat]
    BY <1>1 DEF RepTools
  <2>3. /\ slow.stats[op].repeatedCount + 0 = slow.stats[op].repeatedCount
        /\ slow.memOps[op].reads + 0 * RepInfo[op].reads = slow.memOps[op].reads
        /\ slow.memOps[op].writes + 0 * RepInfo[op].writes = slow.memOps[op].writes
    <3>1. RepInfo[op].reads \in Nat /\ RepInfo[op].writes \in Nat
      BY RepInfoTypes
    <3> QED  BY <2>2, <3>1
  <2> QED  BY <2>1, <2>3 DEF Agree
<1>3. ASSUME NEW operand \in Operands
      PROVE  /\ slow.log[operand] \subseteq Replaced(fast.log[operand])
             /\ \A e \in Replaced(fast.log[operand]) :
                  \E d \in slow.log[operand] : d[1] = e[1]
             /\ \A e \in Replaced(fast.log[operand]) \ slow.log[operand] :
                  /\ fast.logged >= memoryOpsToLog
                  /\ \A other \in Operands : \A d \in fast.log[other] :
                       d[1].nr <= e[1].nr
  <2>1. slow.log[operand] \subseteq Replaced(fast.log[operand])
    BY <1>1, <1>3 DEF OwesBytes, OwesEntries
  <2>2. \A e \in Replaced(fast.log[operand]) : \E d \in slow.log[operand] : d[1] = e[1]
    BY <1>1, <1>3 DEF OwesBytes, Begun
  <2>3. ASSUME NEW e \in Replaced(fast.log[operand]) \ slow.log[operand]
        PROVE  fast.logged >= memoryOpsToLog
    <3>1. ~(fast.logged < memoryOpsToLog)
      BY <1>1, <2>3 DEF OwesBytes, OwesEntries, Nothing
    <3>2. fast.logged \in Nat /\ memoryOpsToLog \in Nat
      BY <1>1, CountRepsAssumption DEF RepTools
    <3> QED  BY <3>1, <3>2
  <2>4. \A e \in Replaced(fast.log[operand]) \ slow.log[operand] :
          fast.logged >= memoryOpsToLog =>
            \A other \in Operands : \A d \in fast.log[other] : d[1].nr <= e[1].nr
    BY <1>1, <1>3 DEF OwesBytes, NewestMissing
  <2> QED  BY <2>1, <2>2, <2>3, <2>4
<1>4. slow.logged = fast.logged
  BY <1>1 DEF OwesBytes, OwesEntries
<1> QED  BY <1>2, <1>3, <1>4 DEF LogsAgree

(***************************************************************************)
(* countreps counts the same starts, iterations, empty repetitions, reads  *)
(* and writes of every instruction with and without -slow, whatever the    *)
(* count register and the direction flag, and wherever an instruction      *)
(* stops early, but for exactly what the parameters of 32 bits cut off the *)
(* count register without -slow.                                           *)
(***************************************************************************)
THEOREM StatisticsAlwaysAgree == CountSpec => []StatisticsAgree
BY RepInvariant, RepInvAgrees, PTL

(***************************************************************************)
(* The ranges of bytes logged at once are those the iterations access one  *)
(* by one, in either direction, once moved by what computeEA is off where  *)
(* the length of the block does not fit in 32 bits. Whatever is missing    *)
(* with -slow when the limit of the log is reached belongs to the last     *)
(* execution that was logged, and never is all of an operand missing.      *)
(***************************************************************************)
THEOREM LogsAlwaysAgree == CountSpec => []LogsAgree
BY RepInvariant, RepInvAgrees, PTL

-----------------------------------------------------------------------------
(***************************************************************************)
(* A set of natural numbers has a least one.                               *)
(***************************************************************************)
LEMMA LeastNumber ==
  ASSUME NEW T \in SUBSET Nat, T # {}
  PROVE  \E n \in T : \A m \in T : n <= m
<1>1. PICK n \in T : \A m \in T : <<m, n>> \notin OpToRel(<, Nat)
  BY NatLessThanWellFounded, WFMin
<1>2. \A m \in T : ~(m < n)
  BY <1>1 DEF OpToRel
<1> QED  BY <1>2

(***************************************************************************)
(* The sums of the community modules take the numbers one by one from the  *)
(* set.  Sums is the function they recur on.                               *)
(***************************************************************************)
Chosen(s) == CHOOSE x \in s : TRUE

SumStep(h, f, s) == IF s = {} THEN 0 ELSE f[Chosen(s)] + h[s \ {Chosen(s)}]

Sums(h, f, S) == h = [s \in SUBSET S |-> SumStep(h, f, s)]

SumOf(f, S) == (CHOOSE h : Sums(h, f, S))[S]

Numbers(f, S) == IsFiniteSet(S) /\ \A x \in S : f[x] \in Nat

(***************************************************************************)
(* One element taken from a finite set.                                    *)
(***************************************************************************)
LEMMA OneTaken ==
  ASSUME NEW S, IsFiniteSet(S), NEW s \in SUBSET S, s # {}
  PROVE  /\ Chosen(s) \in s /\ s \ {Chosen(s)} \in SUBSET S
         /\ Cardinality(s) \in Nat /\ Cardinality(s \ {Chosen(s)}) \in Nat
         /\ Cardinality(s \ {Chosen(s)}) = Cardinality(s) - 1
<1>1. Chosen(s) \in s
  BY DEF Chosen
<1>2. IsFiniteSet(s)
  BY FS_Subset
<1>3. Cardinality(s \ {Chosen(s)}) = Cardinality(s) - 1 /\ IsFiniteSet(s \ {Chosen(s)})
  BY <1>1, <1>2, FS_RemoveElement
<1>4. Cardinality(s) \in Nat /\ Cardinality(s \ {Chosen(s)}) \in Nat
  BY <1>2, <1>3, FS_CardinalityType
<1> QED  BY <1>1, <1>3, <1>4

(***************************************************************************)
(* What holds of the empty set, and of a set if of the set without its     *)
(* chosen element, holds of all: bad is the set of those it does not hold  *)
(* of.                                                                     *)
(***************************************************************************)
LEMMA NoneBad ==
  ASSUME NEW S, IsFiniteSet(S), NEW bad \in SUBSET SUBSET S, {} \notin bad,
         \A s \in SUBSET S : s # {} /\ s \ {Chosen(s)} \notin bad => s \notin bad
  PROVE  bad = {}
<1> DEFINE T == {Cardinality(s) : s \in bad}
<1>1. ASSUME bad # {} PROVE FALSE
  <2>1. \A s \in bad : Cardinality(s) \in Nat
    BY FS_Subset, FS_CardinalityType
  <2>2. T \in SUBSET Nat /\ T # {}
    BY <1>1, <2>1
  <2>3. PICK n \in T : \A m \in T : n <= m
    <3> HIDE DEF T
    <3> QED  BY <2>2, LeastNumber
  <2>4. PICK s \in bad : n = Cardinality(s)
    BY <2>3
  <2>5. s \in SUBSET S /\ s # {}
    OBVIOUS
  <2>6. s \ {Chosen(s)} \in bad
    BY <2>5
  <2>7. Cardinality(s \ {Chosen(s)}) = Cardinality(s) - 1 /\ Cardinality(s) \in Nat
    BY <2>5, OneTaken
  <2>8. Cardinality(s) <= Cardinality(s \ {Chosen(s)})
    BY <2>3, <2>4, <2>6
  <2> QED  BY <2>7, <2>8
<1> QED  BY <1>1

(***************************************************************************)
(* The sums of the sets of up to n elements.                               *)
(***************************************************************************)
SumsUpTo(h, f, S, n) ==
  \A s \in SUBSET S : Cardinality(s) <= n => h[s] = SumStep(h, f, s)

(***************************************************************************)
(* There is such a function.                                               *)
(***************************************************************************)
LEMMA SumsExist ==
  ASSUME NEW S, IsFiniteSet(S), NEW f
  PROVE  \E h : Sums(h, f, S)
<1> DEFINE Has(n) == \E h : SumsUpTo(h, f, S, n)
           T == {n \in Nat : ~Has(n)}
<1>1. Has(0)
  <2> DEFINE h == [s \in SUBSET S |-> 0]
  <2>1. \A s \in SUBSET S : Cardinality(s) <= 0 => s = {}
    BY FS_Subset, FS_EmptySet, FS_CardinalityType
  <2>2. \A s \in SUBSET S : Cardinality(s) <= 0 => h[s] = SumStep(h, f, s)
    BY <2>1 DEF SumStep
  <2> HIDE DEF h
  <2>3. SumsUpTo(h, f, S, 0)
    BY <2>2 DEF SumsUpTo
  <2> QED  BY <2>3
<1>2. ASSUME NEW n \in Nat, NEW k \in Nat, k = n + 1, Has(n) PROVE Has(k)
  <2>1. PICK h : SumsUpTo(h, f, S, n)
    BY <1>2
  <2> DEFINE g == [s \in SUBSET S |-> SumStep(h, f, s)]
  <2>2. \A s \in SUBSET S : Cardinality(s) <= n => g[s] = h[s]
    BY <2>1 DEF SumsUpTo
  <2>3. \A s \in SUBSET S : g[s] = SumStep(h, f, s)
    OBVIOUS
  <2> HIDE DEF g
  <2>4. ASSUME NEW s \in SUBSET S, Cardinality(s) <= k PROVE g[s] = SumStep(g, f, s)
    <3>1. CASE s = {}
      BY <2>3, <3>1 DEF SumStep
    <3>2. CASE s # {}
      <4>1. s \ {Chosen(s)} \in SUBSET S /\ Cardinality(s \ {Chosen(s)}) <= n
        BY <1>2, <2>4, <3>2, OneTaken
      <4>2. g[s \ {Chosen(s)}] = h[s \ {Chosen(s)}]
        BY <2>2, <4>1
      <4> QED  BY <2>3, <4>2 DEF SumStep
    <3> QED  BY <3>1, <3>2
  <2>5. SumsUpTo(g, f, S, k)
    BY <2>4 DEF SumsUpTo
  <2> QED  BY <2>5
<1> HIDE DEF Has
<1>3. ASSUME T # {} PROVE FALSE
  <2> T \in SUBSET Nat
    OBVIOUS
  <2>1. PICK n \in T : \A m \in T : n <= m
    <3> HIDE DEF T
    <3> QED  BY <1>3, LeastNumber
  <2>2. n # 0
    BY <1>1, <2>1
  <2>3. n - 1 \in Nat /\ ~(n <= n - 1) /\ n \in Nat /\ n = (n - 1) + 1
    BY <2>2
  <2>4. Has(n - 1)
    BY <2>1, <2>3
  <2>5. Has(n)
    BY <1>2, <2>3, <2>4
  <2> QED  BY <2>1, <2>5
<1>4. PICK m \in Nat : m = Cardinality(S)
  BY FS_CardinalityType
<1>5. Has(m)
  BY <1>3
<1>6. PICK h : SumsUpTo(h, f, S, m)
  BY <1>5 DEF Has
<1>7. \A s \in SUBSET S : Cardinality(s) <= m
  BY <1>4, FS_Subset
<1>8. \A s \in SUBSET S : h[s] = SumStep(h, f, s)
  BY <1>6, <1>7 DEF SumsUpTo
<1> DEFINE g == [s \in SUBSET S |-> h[s]]
<1>9. \A s \in SUBSET S : SumStep(g, f, s) = SumStep(h, f, s)
  BY DEF SumStep, Chosen
<1>10. Sums(g, f, S)
  BY <1>8, <1>9 DEF Sums
<1> QED  BY <1>10

(***************************************************************************)
(* The sum is that of the function above.                                  *)
(***************************************************************************)
IsSum(h, f, S) ==
  SumOf(f, S) = h[S] /\ \A s \in SUBSET S : h[s] = SumStep(h, f, s)

LEMMA SumIs ==
  ASSUME NEW f, NEW S, Numbers(f, S)
  PROVE  \E h : IsSum(h, f, S)
<1> DEFINE h == CHOOSE g : Sums(g, f, S)
<1>1. Sums(h, f, S)
  BY SumsExist DEF Numbers
<1>2. SumOf(f, S) = h[S]
  BY DEF SumOf
<1> HIDE DEF h
<1>3. \A s \in SUBSET S : h[s] = SumStep(h, f, s)
  BY <1>1 DEF Sums
<1> QED  BY <1>2, <1>3 DEF IsSum

(***************************************************************************)
(* A sum grows by as much as one of its numbers.                           *)
(***************************************************************************)
Grown(f, g, S, x, d) ==
  /\ Numbers(f, S) /\ Numbers(g, S) /\ x \in S /\ d \in Nat /\ g[x] = f[x] + d
  /\ \A y \in S : y # x => g[y] = f[y]

LEMMA SumGrows ==
  ASSUME NEW f, NEW g, NEW S, NEW x, NEW d, Grown(f, g, S, x, d)
  PROVE  /\ SumOf(f, S) \in Nat /\ SumOf(g, S) \in Nat
         /\ SumOf(g, S) = SumOf(f, S) + d
<1>1. /\ IsFiniteSet(S) /\ \A y \in S : f[y] \in Nat /\ g[y] \in Nat
      /\ x \in S /\ d \in Nat /\ g[x] = f[x] + d /\ \A y \in S : y # x => g[y] = f[y]
  BY DEF Grown, Numbers
<1>2. PICK h : IsSum(h, f, S)
  BY SumIs DEF Grown
<1>3. PICK k : IsSum(k, g, S)
  BY SumIs DEF Grown
<1> DEFINE Good(s) == /\ h[s] \in Nat /\ k[s] \in Nat
                      /\ k[s] = IF x \in s THEN h[s] + d ELSE h[s]
           bad == {s \in SUBSET S : ~Good(s)}
<1>4. Good({})
  BY <1>2, <1>3 DEF SumStep, IsSum
<1>5. ASSUME NEW s \in SUBSET S, s # {}, Good(s \ {Chosen(s)}) PROVE Good(s)
  <2> DEFINE c == Chosen(s)
             r == s \ {c}
  <2>1. c \in s /\ c \in S /\ c \notin r /\ (x \in s <=> x \in r \/ x = c)
    BY <1>1, <1>5 DEF Chosen
  <2>2. h[s] = f[c] + h[r] /\ k[s] = g[c] + k[r]
    BY <1>2, <1>3, <1>5 DEF SumStep, IsSum
  <2>3. Good(r)
    BY <1>5
  <2> HIDE DEF c, r
  <2>4. f[c] \in Nat /\ g[c] \in Nat /\ g[c] = IF c = x THEN f[c] + d ELSE f[c]
    BY <1>1, <2>1
  <2>5. CASE x = c
    BY <1>1, <2>1, <2>2, <2>3, <2>4, <2>5
  <2>6. CASE x # c
    BY <1>1, <2>1, <2>2, <2>3, <2>4, <2>6
  <2> QED  BY <2>5, <2>6
<1> HIDE DEF Good
<1>6. bad = {}
  <2>1. {} \notin bad /\ bad \in SUBSET SUBSET S
    BY <1>4
  <2>2. \A s \in SUBSET S : s # {} /\ s \ {Chosen(s)} \notin bad => s \notin bad
    BY <1>5
  <2> HIDE DEF bad
  <2> QED  BY <1>1, <2>1, <2>2, NoneBad
<1>7. Good(S)
  BY <1>6
<1> QED  BY <1>1, <1>2, <1>3, <1>7 DEF Good, IsSum

(***************************************************************************)
(* A sum is a number no less than each of its numbers.                     *)
(***************************************************************************)
LEMMA SumAtLeast ==
  ASSUME NEW f, NEW S, Numbers(f, S), NEW x \in S
  PROVE  SumOf(f, S) \in Nat /\ f[x] <= SumOf(f, S)
<1> DEFINE g == [y \in S |-> IF y = x THEN 0 ELSE f[y]]
<1>1. Grown(g, f, S, x, f[x])
  BY DEF Grown, Numbers
<1>2. SumOf(g, S) \in Nat /\ SumOf(f, S) \in Nat /\ SumOf(f, S) = SumOf(g, S) + f[x]
  <2> HIDE DEF g
  <2> QED  BY <1>1, SumGrows
<1>3. f[x] \in Nat
  BY DEF Numbers
<1> QED  BY <1>2, <1>3

(***************************************************************************)
(* A sum of zeros is zero.                                                 *)
(***************************************************************************)
LEMMA SumOfZeros ==
  ASSUME NEW f, NEW S, Numbers(f, S), \A x \in S : f[x] = 0
  PROVE  SumOf(f, S) = 0
<1>1. IsFiniteSet(S)
  BY DEF Numbers
<1>2. PICK h : IsSum(h, f, S)
  BY SumIs
<1> DEFINE bad == {s \in SUBSET S : h[s] # 0}
<1>3. {} \notin bad /\ bad \in SUBSET SUBSET S
  BY <1>2 DEF IsSum, SumStep
<1>4. ASSUME NEW s \in SUBSET S, s # {}, s \ {Chosen(s)} \notin bad
      PROVE  s \notin bad
  <2>1. Chosen(s) \in S /\ f[Chosen(s)] = 0
    BY <1>1, <1>4, OneTaken
  <2>2. h[s \ {Chosen(s)}] = 0
    BY <1>4
  <2>3. h[s] = f[Chosen(s)] + h[s \ {Chosen(s)}]
    BY <1>2, <1>4 DEF IsSum, SumStep
  <2>4. h[s] = 0
    BY <2>1, <2>2, <2>3
  <2> QED  BY <2>4
<1> HIDE DEF bad
<1>5. bad = {}
  BY <1>1, <1>3, <1>4, NoneBad
<1>6. h[S] = 0
  BY <1>5 DEF bad
<1> QED  BY <1>2, <1>6 DEF IsSum

(***************************************************************************)
(* A sum of smaller numbers is no greater.                                 *)
(***************************************************************************)
LEMMA SumOfLess ==
  ASSUME NEW f, NEW g, NEW S, Numbers(f, S), Numbers(g, S), \A x \in S : f[x] <= g[x]
  PROVE  SumOf(f, S) <= SumOf(g, S)
<1>1. IsFiniteSet(S) /\ \A x \in S : f[x] \in Nat /\ g[x] \in Nat
  BY DEF Numbers
<1>2. PICK h : IsSum(h, f, S)
  BY SumIs
<1>3. PICK k : IsSum(k, g, S)
  BY SumIs
<1> DEFINE Good(s) == h[s] \in Nat /\ k[s] \in Nat /\ h[s] <= k[s]
           bad == {s \in SUBSET S : ~Good(s)}
<1>4. Good({})
  <2>1. h[{}] = 0 /\ k[{}] = 0
    BY <1>2, <1>3 DEF SumStep, IsSum
  <2> QED  BY <2>1
<1>5. ASSUME NEW s \in SUBSET S, s # {}, Good(s \ {Chosen(s)}) PROVE Good(s)
  <2> DEFINE c == Chosen(s)
             r == s \ {c}
  <2>1. c \in S
    BY <1>1, <1>5, OneTaken
  <2>2. h[s] = f[c] + h[r] /\ k[s] = g[c] + k[r]
    BY <1>2, <1>3, <1>5 DEF SumStep, IsSum
  <2>3. Good(r)
    BY <1>5
  <2> HIDE DEF c, r
  <2>4. f[c] \in Nat /\ g[c] \in Nat /\ f[c] <= g[c]
    BY <1>1, <2>1
  <2> QED  BY <2>2, <2>3, <2>4
<1> HIDE DEF Good
<1>6. bad = {}
  <2>1. {} \notin bad /\ bad \in SUBSET SUBSET S
    BY <1>4
  <2>2. \A s \in SUBSET S : s # {} /\ s \ {Chosen(s)} \notin bad => s \notin bad
    BY <1>5
  <2> HIDE DEF bad
  <2> QED  BY <1>1, <2>1, <2>2, NoneBad
<1>7. Good(S)
  BY <1>6
<1> QED  BY <1>2, <1>3, <1>7 DEF Good, IsSum

-----------------------------------------------------------------------------
(***************************************************************************)
(* The memory operations countreps counts for the whole program and those  *)
(* it counts for the instructions with REP. With -slow it counts the       *)
(* latter iteration by iteration, each a block or the end of one, and the  *)
(* operations of a block count once for the program.                       *)
(***************************************************************************)
Fields == {"reads", "writes"}

MemOf(field, ins) == IF field = "reads" THEN MemReads(ins) ELSE MemWrites(ins)

BlockOps(field, bbl) == SumFunction([i \in DOMAIN bbl |-> MemOf(field, bbl[i])])

(***************************************************************************)
(* The operations counted of instructions with REP, those of the one that  *)
(* is about to execute, and those of the program still to be counted.      *)
(***************************************************************************)
Waiting(field, pend) ==
  IF pend # <<>> /\ pend[Len(pend)] \in RepOps THEN MemOf(field, pend[Len(pend)]) ELSE 0

StillDue(field, tools, bbl) == IF "countreps" \in tools THEN BlockOps(field, bbl) ELSE 0

RepLast(pend) ==
  /\ pend \in Seq(Instrs)
  /\ \A i \in 1 .. Len(pend) - 1 : pend[i] \notin RepOps

FieldOK(field) ==
  /\ totalMemoryOps[field] \in Nat
  /\ Total(slow.memOps, field) \in Nat
  /\ StillDue(field, due, block) \in Nat
  /\ Total(slow.memOps, field) + Waiting(field, pending)
       <= totalMemoryOps[field] + StillDue(field, due, block)

TotalsInv == RepLast(pending) /\ \A field \in Fields : FieldOK(field)

(***************************************************************************)
(* SumFunction is such a sum.                                              *)
(***************************************************************************)
LEMMA SumFunctionIs ==
  ASSUME NEW S, NEW f, DOMAIN f = S
  PROVE  SumFunction(f) = SumOf(f, S)
BY DEF SumFunction, SumFunctionOnSet, FoldFunctionOnSet, MapThenFoldSet, SumOf, Sums,
       SumStep, Chosen

(***************************************************************************)
(* An instruction has a number of operations, one with REP as many as the  *)
(* table of countreps says.                                                *)
(***************************************************************************)
LEMMA MemOfIs ==
  ASSUME NEW field \in Fields
  PROVE  /\ \A ins \in Instrs : MemOf(field, ins) \in Nat
         /\ \A ins \in RepOps : MemOf(field, ins) = RepInfo[ins][field] /\ ins \in Instrs
BY CountSuiteAssumption DEF MemOf, Fields

(***************************************************************************)
(* A block has a number of operations, those of its last instruction       *)
(* included.                                                               *)
(***************************************************************************)
LEMMA BlockOpsAre ==
  ASSUME NEW field \in Fields, NEW bbl \in Blocks
  PROVE  BlockOps(field, bbl) \in Nat /\ Waiting(field, bbl) <= BlockOps(field, bbl)
<1>1. bbl \in Seq(Instrs) /\ bbl # <<>> /\ Len(bbl) \in Nat
  BY DependSuiteAssumption
<1> DEFINE S == 1 .. Len(bbl)
           f == [i \in S |-> MemOf(field, bbl[i])]
<1>2. BlockOps(field, bbl) = SumOf(f, S)
  <2>1. DOMAIN bbl = S
    BY <1>1
  <2>2. BlockOps(field, bbl) = SumFunction(f)
    BY <2>1 DEF BlockOps
  <2>3. DOMAIN f = S
    OBVIOUS
  <2> HIDE DEF f, S
  <2> QED  BY <2>2, <2>3, SumFunctionIs
<1>3. Numbers(f, S)
  <2>1. IsFiniteSet(S)
    BY <1>1, FS_Interval
  <2>2. \A i \in S : bbl[i] \in Instrs
    BY <1>1
  <2> QED  BY <2>1, <2>2, MemOfIs DEF Numbers
<1>4. Len(bbl) \in S /\ f[Len(bbl)] = MemOf(field, bbl[Len(bbl)])
  <2>1. Len(bbl) \in S
    BY <1>1
  <2> QED  BY <2>1
<1> HIDE DEF f, S
<1>5. SumOf(f, S) \in Nat /\ f[Len(bbl)] <= SumOf(f, S)
  BY <1>3, <1>4, SumAtLeast
<1> QED  BY <1>2, <1>4, <1>5 DEF Waiting

(***************************************************************************)
(* The routine for one operand changes none of the counts.                 *)
(***************************************************************************)
KeepsOps(t, u) == u \in RepTools /\ u.memOps = t.memOps

LEMMA CallKeepsOps ==
  ASSUME NEW slowly \in BOOLEAN, NEW it, IsIteration(it)
  PROVE  \A t \in RepTools : \A operand \in Operands :
           KeepsOps(t, Called(slowly, t, it, operand))
<1> SUFFICES ASSUME NEW t \in RepTools, NEW operand \in Operands, NEW u,
                    u = Called(slowly, t, it, operand)
             PROVE  KeepsOps(t, u)
  OBVIOUS
<1>1. CASE IsCalled(slowly, it)
  <2>1. u = WithOperand(slowly, t, it, operand, HasOperand(it.ins, operand))
    BY <1>1 DEF Called
  <2>2. u \in RepTools /\ u.memOps = t.memOps
    BY <2>1, OperandLogged
  <2> QED  BY <2>2 DEF KeepsOps
<1>2. CASE ~IsCalled(slowly, it)
  BY <1>2 DEF Called, KeepsOps
<1> QED  BY <1>1, <1>2

(***************************************************************************)
(* What an iteration counts with -slow: its instruction once, or not at    *)
(* all.                                                                    *)
(***************************************************************************)
LEMMA IterationCounts ==
  ASSUME NEW t \in RepTools, NEW it, IsIteration(it), NEW u,
         u = InstrumentInstruction(TRUE, t, it), NEW field \in Fields
  PROVE  /\ Total(t.memOps, field) \in Nat /\ Total(u.memOps, field) \in Nat
         /\ Total(u.memOps, field) <= Total(t.memOps, field) + MemOf(field, it.ins)
<1>1. it.ins \in RepOps /\ TRUE \in BOOLEAN
  BY IterationTypes
<1> DEFINE t1 == Counted(TRUE, t, it)
           t2 == Called(TRUE, t1, it, "Read ")
           t3 == Called(TRUE, t2, it, "Read2")
           t4 == Called(TRUE, t3, it, "Write")
           c == RepCount(TRUE, it)
<1>2. u = t4
  BY <1>1, CallByCall
<1>3. /\ t1 \in RepTools /\ c \in {0, 1}
      /\ \A o \in RepOps \ {it.ins} : t1.memOps[o] = t.memOps[o]
      /\ t1.memOps[it.ins].reads = t.memOps[it.ins].reads + c * RepInfo[it.ins].reads
      /\ t1.memOps[it.ins].writes = t.memOps[it.ins].writes + c * RepInfo[it.ins].writes
  <2>1. c \in {0, 1}
    BY DEF RepCount, takesConditionalRep
  <2>2. t1 = WithCounts(TRUE, t, it)
    BY DEF Counted, IsCalled, takesConditionalRep
  <2> HIDE DEF t1
  <2>3. CountsCall(t, t1, it, ToUINT32(c), ZeroLength(ToUINT32(c)))
    BY <1>1, <2>2, CallCounted
  <2> HIDE DEF c
  <2>4. ToUINT32(c) = c
    <3>1. c \in 0 .. 3
      BY <2>1
    <3> QED  BY <3>1, UINT32s
  <2> QED  BY <2>1, <2>3, <2>4 DEF CountsCall
<1>4. \A r \in RepTools : \A operand \in Operands :
        KeepsOps(r, Called(TRUE, r, it, operand))
  BY <1>1, CallKeepsOps
<1>5. u.memOps = t1.memOps
  <2>1. "Read " \in Operands /\ "Read2" \in Operands /\ "Write" \in Operands
    BY DEF Operands
  <2> HIDE DEF t1
  <2>2. t2 \in RepTools /\ t2.memOps = t1.memOps
    BY <1>3, <1>4, <2>1 DEF KeepsOps
  <2> HIDE DEF t2
  <2>3. t3 \in RepTools /\ t3.memOps = t2.memOps
    BY <2>2, <1>4, <2>1 DEF KeepsOps
  <2> HIDE DEF t3
  <2>4. t4 \in RepTools /\ t4.memOps = t3.memOps
    BY <2>3, <1>4, <2>1 DEF KeepsOps
  <2> HIDE DEF t4
  <2> QED  BY <1>2, <2>2, <2>3, <2>4
<1> DEFINE f == [op \in RepOps |-> t.memOps[op][field]]
           g == [op \in RepOps |-> t1.memOps[op][field]]
           d == c * RepInfo[it.ins][field]
<1>6. Total(t.memOps, field) = SumOf(f, RepOps) /\ Total(u.memOps, field) = SumOf(g, RepOps)
  <2>1. Total(t.memOps, field) = SumFunction(f) /\ Total(u.memOps, field) = SumFunction(g)
    BY <1>5 DEF Total
  <2>2. DOMAIN f = RepOps /\ DOMAIN g = RepOps
    OBVIOUS
  <2> HIDE DEF f, g
  <2> QED  BY <2>1, <2>2, SumFunctionIs
<1>7. d \in Nat /\ d <= MemOf(field, it.ins)
  <2> DEFINE n == MemOf(field, it.ins)
  <2>1. RepInfo[it.ins][field] = n /\ n \in Nat
    BY <1>1, MemOfIs
  <2>2. d = c * n
    BY <2>1
  <2>3. c = 0 \/ c = 1
    BY <1>3
  <2> HIDE DEF n, c, d
  <2>4. \A m \in Nat : 0 * m = 0 /\ 1 * m = m
    OBVIOUS
  <2>5. c = 0 => d \in Nat /\ d <= n
    BY <2>1, <2>2, <2>4
  <2>6. c = 1 => d \in Nat /\ d <= n
    BY <2>1, <2>2, <2>4
  <2> QED  BY <2>3, <2>5, <2>6 DEF n
<1>8. Grown(f, g, RepOps, it.ins, d)
  <2>1. IsFiniteSet(RepOps)
    BY CountSuiteAssumption
  <2>2. \A op \in RepOps : t.memOps[op] \in [reads : Nat, writes : Nat]
                           /\ t1.memOps[op] \in [reads : Nat, writes : Nat]
    BY <1>3 DEF RepTools
  <2>3. \A op \in RepOps : t.memOps[op][field] \in Nat /\ t1.memOps[op][field] \in Nat
    BY <2>2 DEF Fields
  <2>4. \A op \in RepOps \ {it.ins} : t1.memOps[op][field] = t.memOps[op][field]
    BY <1>3
  <2>5. t1.memOps[it.ins][field] = t.memOps[it.ins][field] + d
    BY <1>3 DEF Fields
  <2> HIDE DEF d
  <2> QED  BY <1>1, <1>7, <2>1, <2>3, <2>4, <2>5 DEF Grown, Numbers
<1> HIDE DEF f, g, d
<1>9. /\ SumOf(f, RepOps) \in Nat /\ SumOf(g, RepOps) \in Nat
      /\ SumOf(g, RepOps) = SumOf(f, RepOps) + d
  BY <1>8, SumGrows
<1>10. MemOf(field, it.ins) \in Nat
  BY <1>1, MemOfIs
<1>11. \A a, e, n \in Nat : e <= n => a + e <= a + n
  OBVIOUS
<1>12. SumOf(g, RepOps) <= SumOf(f, RepOps) + MemOf(field, it.ins)
  BY <1>7, <1>9, <1>10, <1>11
<1> QED  BY <1>6, <1>9, <1>12

(***************************************************************************)
(* What waits after an instruction executed: nothing if it was the one     *)
(* with REP, which ends its block, and as much as before otherwise.        *)
(***************************************************************************)
LEMMA WaitingAfter ==
  ASSUME NEW field, NEW pend, RepLast(pend), pend # <<>>
  PROVE  /\ RepLast(Tail(pend)) /\ Head(pend) \in Instrs
         /\ Head(pend) \in RepOps =>
              /\ Waiting(field, pend) = MemOf(field, Head(pend))
              /\ Waiting(field, Tail(pend)) = 0
         /\ Head(pend) \notin RepOps => Waiting(field, Tail(pend)) = Waiting(field, pend)
<1>1. /\ pend \in Seq(Instrs) /\ Len(pend) \in Nat \ {0}
      /\ \A i \in 1 .. Len(pend) - 1 : pend[i] \notin RepOps
  BY DEF RepLast
<1> DEFINE tail == Tail(pend)
<1>2. /\ tail \in Seq(Instrs) /\ Len(tail) = Len(pend) - 1
      /\ \A i \in 1 .. Len(tail) : tail[i] = pend[i + 1]
      /\ Head(pend) = pend[1] /\ Head(pend) \in Instrs
  BY <1>1
<1> HIDE DEF tail
<1>3. RepLast(tail)
  BY <1>1, <1>2 DEF RepLast
<1>4. CASE Len(pend) = 1
  <2>1. tail = <<>>
    BY <1>2, <1>4
  <2> QED  BY <1>2, <1>3, <1>4, <2>1 DEF Waiting, tail
<1>5. CASE Len(pend) > 1
  <2>1. Len(tail) \in 1 .. Len(tail) /\ tail # <<>>
    BY <1>1, <1>2, <1>5
  <2>2. tail[Len(tail)] = pend[Len(pend)]
    BY <1>1, <1>2, <2>1
  <2>3. Head(pend) \notin RepOps
    BY <1>1, <1>2, <1>5
  <2>4. Waiting(field, tail) = Waiting(field, pend)
    BY <2>1, <2>2 DEF Waiting
  <2> QED  BY <1>2, <1>3, <2>3, <2>4 DEF tail
<1>6. Len(pend) = 1 \/ Len(pend) > 1
  <2> DEFINE n == Len(pend)
  <2>1. n \in Nat \ {0}
    BY <1>1
  <2> HIDE DEF n
  <2>2. n = 1 \/ n > 1
    BY <2>1
  <2> QED  BY <2>2 DEF n
<1> QED  BY <1>4, <1>5, <1>6

(***************************************************************************)
(* The block entered brings what is due, and at least what waits.          *)
(***************************************************************************)
LEMMA EnterBlockKeepsTotals ==
  ASSUME TotalsInv, NEW bbl \in Blocks, CountEnterBlock(bbl)
  PROVE  TotalsInv'
<1>1. /\ due = {} /\ pending = <<>>
      /\ pending' = bbl /\ block' = bbl /\ due' = AnywhereTools
      /\ UNCHANGED <<totalMemoryOps, slow>>
  BY DEF CountEnterBlock, EnterBlock
<1>2. RepLast(pending')
  BY <1>1, DependSuiteAssumption, CountSuiteAssumption DEF RepLast
<1>3. ASSUME NEW field \in Fields
      PROVE  FieldOK(field)'
  <2>1. Waiting(field, pending) = 0 /\ StillDue(field, due, block) = 0
    BY <1>1 DEF Waiting, StillDue
  <2>2. /\ totalMemoryOps[field] \in Nat /\ Total(slow.memOps, field) \in Nat
        /\ Total(slow.memOps, field) + Waiting(field, pending)
             <= totalMemoryOps[field] + StillDue(field, due, block)
    BY <1>3 DEF TotalsInv, FieldOK
  <2>3. Total(slow.memOps, field) <= totalMemoryOps[field]
    BY <2>1, <2>2
  <2>4. BlockOps(field, bbl) \in Nat /\ Waiting(field, bbl) <= BlockOps(field, bbl)
    BY BlockOpsAre
  <2>5. Waiting(field, bbl) \in Nat
    <3>1. bbl # <<>> => bbl[Len(bbl)] \in Instrs
      BY DependSuiteAssumption
    <3> QED  BY <3>1, MemOfIs DEF Waiting
  <2>6. "countreps" \in due'
    BY <1>1 DEF AnywhereTools
  <2>7. StillDue(field, due', block') = BlockOps(field, bbl)
    BY <1>1, <2>6 DEF StillDue
  <2>8. Total(slow.memOps, field) + Waiting(field, bbl)
          <= totalMemoryOps[field] + BlockOps(field, bbl)
    BY <2>2, <2>3, <2>4, <2>5
  <2> QED  BY <1>1, <2>2, <2>4, <2>7, <2>8 DEF FieldOK
<1> QED  BY <1>2, <1>3 DEF TotalsInv

(***************************************************************************)
(* The call that counts the operations of the block moves them from those  *)
(* due to those of the program.                                            *)
(***************************************************************************)
LEMMA TraceKeepsTotals ==
  ASSUME TotalsInv, InstrumentTraceAnywhere
  PROVE  TotalsInv'
<1>1. /\ "countreps" \in due /\ "countreps" \notin due'
      /\ totalMemoryOps' = addTotalMemops(block)
      /\ pending' = pending /\ slow' = slow
  BY DEF InstrumentTraceAnywhere, vars
<1>2. ASSUME NEW field \in Fields
      PROVE  FieldOK(field)'
  <2>1. totalMemoryOps'[field] = totalMemoryOps[field] + BlockOps(field, block)
    <3>1. BlockOps("reads", block) = SumFunction([i \in DOMAIN block |-> MemReads(block[i])])
      BY DEF BlockOps, MemOf
    <3>2. BlockOps("writes", block) = SumFunction([i \in DOMAIN block |-> MemWrites(block[i])])
      BY DEF BlockOps, MemOf
    <3>3. totalMemoryOps' = [reads |-> totalMemoryOps.reads + BlockOps("reads", block),
                             writes |-> totalMemoryOps.writes + BlockOps("writes", block)]
      BY <1>1, <3>1, <3>2 DEF addTotalMemops
    <3> QED  BY <1>2, <3>3 DEF Fields
  <2>2. StillDue(field, due, block) = BlockOps(field, block)
        /\ StillDue(field, due', block') = 0
    BY <1>1 DEF StillDue
  <2>3. /\ totalMemoryOps[field] \in Nat /\ Total(slow.memOps, field) \in Nat
        /\ BlockOps(field, block) \in Nat
        /\ Total(slow.memOps, field) + Waiting(field, pending)
             <= totalMemoryOps[field] + BlockOps(field, block)
    BY <1>2, <2>2 DEF TotalsInv, FieldOK
  <2>4. totalMemoryOps'[field] \in Nat
        /\ totalMemoryOps'[field] + 0 = totalMemoryOps[field] + BlockOps(field, block)
    BY <2>1, <2>3
  <2> QED  BY <1>1, <2>2, <2>3, <2>4 DEF FieldOK
<1> QED  BY <1>1, <1>2 DEF TotalsInv

(***************************************************************************)
(* An instruction without REP counts for neither.                          *)
(***************************************************************************)
LEMMA PlainKeepsTotals ==
  ASSUME TotalsInv, ExecutePlain
  PROVE  TotalsInv'
<1>1. /\ pending # <<>> /\ pending' = Tail(pending) /\ Head(pending) \notin RepOps
      /\ UNCHANGED <<totalMemoryOps, due, block, slow>>
  BY DEF ExecutePlain, Execute
<1>2. RepLast(pending') /\ \A field : Waiting(field, pending') = Waiting(field, pending)
  BY <1>1, WaitingAfter DEF TotalsInv
<1>3. ASSUME NEW field \in Fields
      PROVE  FieldOK(field)'
  BY <1>1, <1>2, <1>3 DEF TotalsInv, FieldOK
<1> QED  BY <1>2, <1>3 DEF TotalsInv

(***************************************************************************)
(* An iteration counts what waited for it, or less.                        *)
(***************************************************************************)
LEMMA IterationKeepsTotals ==
  ASSUME TotalsInv, NEW it, IsIteration(it), slow \in RepTools, ExecuteIteration(it)
  PROVE  TotalsInv'
<1>1. /\ pending # <<>> /\ pending' = Tail(pending) /\ Head(pending) = it.ins
      /\ slow' = InstrumentInstruction(TRUE, slow, it)
      /\ UNCHANGED <<totalMemoryOps, due, block>>
  BY DEF ExecuteIteration, Execute
<1>2. it.ins \in RepOps
  BY DEF IsIteration, Iterations
<1>3. /\ RepLast(pending')
      /\ \A field : Waiting(field, pending) = MemOf(field, it.ins)
                    /\ Waiting(field, pending') = 0
  BY <1>1, <1>2, WaitingAfter DEF TotalsInv
<1>4. ASSUME NEW field \in Fields
      PROVE  FieldOK(field)'
  <2>1. /\ Total(slow.memOps, field) \in Nat /\ Total(slow'.memOps, field) \in Nat
        /\ Total(slow'.memOps, field) <= Total(slow.memOps, field) + MemOf(field, it.ins)
    BY <1>1, <1>4, IterationCounts
  <2>2. /\ totalMemoryOps[field] \in Nat /\ StillDue(field, due, block) \in Nat
        /\ Total(slow.memOps, field) + MemOf(field, it.ins)
             <= totalMemoryOps[field] + StillDue(field, due, block)
    BY <1>3, <1>4 DEF TotalsInv, FieldOK
  <2>3. MemOf(field, it.ins) \in Nat
    BY <1>2, <1>4, MemOfIs
  <2>4. Total(slow'.memOps, field) + 0 <= totalMemoryOps[field] + StillDue(field, due, block)
    BY <2>1, <2>2, <2>3
  <2> QED  BY <1>1, <1>3, <2>1, <2>2, <2>4 DEF FieldOK
<1> QED  BY <1>3, <1>4 DEF TotalsInv

(***************************************************************************)
(* The initial state, without any operation.                               *)
(***************************************************************************)
LEMMA InitTotals == CountInit => TotalsInv
<1> SUFFICES ASSUME CountInit PROVE TotalsInv
  OBVIOUS
<1>1. /\ pending = <<>> /\ due = {} /\ slow = NewCountReps
      /\ totalMemoryOps = [reads |-> 0, writes |-> 0]
  BY DEF CountInit, Init
<1>2. RepLast(pending)
  BY <1>1 DEF RepLast
<1>3. ASSUME NEW field \in Fields
      PROVE  FieldOK(field)
  <2> DEFINE f == [op \in RepOps |-> slow.memOps[op][field]]
  <2>1. DOMAIN f = RepOps /\ \A op \in RepOps : f[op] = 0
    BY <1>1, <1>3 DEF NewCountReps, Fields
  <2>2. Total(slow.memOps, field) = SumFunction(f)
    BY DEF Total
  <2>3. Numbers(f, RepOps)
    <3>1. IsFiniteSet(RepOps)
      BY CountSuiteAssumption
    <3> HIDE DEF f
    <3> QED  BY <2>1, <3>1 DEF Numbers
  <2> HIDE DEF f
  <2>4. SumFunction(f) = SumOf(f, RepOps)
    BY <2>1, SumFunctionIs
  <2>5. SumOf(f, RepOps) = 0
    BY <2>1, <2>3, SumOfZeros
  <2>6. /\ totalMemoryOps[field] = 0 /\ Waiting(field, pending) = 0
        /\ StillDue(field, due, block) = 0
    BY <1>1, <1>3 DEF Fields, Waiting, StillDue
  <2> QED  BY <2>2, <2>4, <2>5, <2>6 DEF FieldOK
<1> QED  BY <1>2, <1>3 DEF TotalsInv

(***************************************************************************)
(* The invariant holds in every state.                                     *)
(***************************************************************************)
LEMMA TotalsInvariant == CountSpec => []TotalsInv
<1>1. TotalsInv /\ RepInv /\ CountInv /\ [CountNext]_<<vars, countVars>> => TotalsInv'
  <2> SUFFICES ASSUME TotalsInv, RepInv, CountInv, [CountNext]_<<vars, countVars>>
               PROVE  TotalsInv'
    OBVIOUS
  <2>1. ASSUME NEW bbl \in Blocks, CountEnterBlock(bbl) PROVE TotalsInv'
    BY <2>1, EnterBlockKeepsTotals
  <2>2. ASSUME UNCHANGED <<pending, slow, totalMemoryOps, block>>,
               "countreps" \in due' <=> "countreps" \in due
        PROVE  TotalsInv'
    BY <2>2 DEF TotalsInv, FieldOK, StillDue
  <2>3. CASE CountAnalyse
    BY <2>2, <2>3 DEF CountAnalyse, Analyse, countVars
  <2>4. CASE Inscount2Anywhere
    BY <2>2, <2>4 DEF Inscount2Anywhere, vars
  <2>5. CASE InstrumentTraceAnywhere
    BY <2>5, TraceKeepsTotals
  <2>6. CASE ExecutePlain
    BY <2>6, PlainKeepsTotals
  <2>7. ASSUME NEW ins \in RepOps, StartRep(ins) PROVE TotalsInv'
    <3>1. PICK count \in RepCounts, df \in BOOLEAN :
            ExecuteIteration(FirstIteration(ins, count, df))
      BY <2>7 DEF StartRep
    <3>2. IsIteration(FirstIteration(ins, count, df))
      BY FirstIsIteration DEF CountInv
    <3> QED  BY <3>1, <3>2, IterationKeepsTotals DEF RepInv
  <2>8. CASE ContinueRep
    BY <2>8, IterationKeepsTotals DEF ContinueRep, RepInv
  <2>9. CASE UNCHANGED <<vars, countVars>>
    BY <2>2, <2>9 DEF vars, countVars
  <2> QED
    BY <2>1, <2>3, <2>4, <2>5, <2>6, <2>7, <2>8, <2>9 DEF CountNext
<1> QED  BY <1>1, InitTotals, RepInvariant, CountInvariant, PTL DEF CountSpec

(***************************************************************************)
(* What is counted without -slow is no more than what is counted with it.  *)
(***************************************************************************)
LEMMA FastCountsLess ==
  ASSUME RepInv, StatisticsAgree, iteration = NoIteration, NEW field \in Fields
  PROVE  Total(fast.memOps, field) \in Nat
         /\ Total(fast.memOps, field) <= Total(slow.memOps, field)
<1> DEFINE f == [op \in RepOps |-> fast.memOps[op][field]]
           g == [op \in RepOps |-> slow.memOps[op][field]]
<1>1. /\ slow \in RepTools /\ fast \in RepTools /\ lost \in Losses
      /\ IsFiniteSet(RepOps)
  BY CountSuiteAssumption DEF RepInv
<1>2. ASSUME NEW op \in RepOps
      PROVE  f[op] \in Nat /\ g[op] \in Nat /\ f[op] <= g[op]
  <2> DEFINE n == RepInfo[op][field]
             l == lost[op].repeats
  <2>1. /\ slow.memOps[op] \in [reads : Nat, writes : Nat]
        /\ fast.memOps[op] \in [reads : Nat, writes : Nat]
    BY <1>1 DEF RepTools
  <2>2. n \in Nat /\ l \in Nat
    BY <1>1, RepInfoTypes DEF Losses, Fields
  <2>3. slow.memOps[op][field] = fast.memOps[op][field] + l * n
    BY DEF StatisticsAgree, Fields
  <2>4. l * n \in Nat
    <3> HIDE DEF l, n
    <3> QED  BY <2>2
  <2>5. fast.memOps[op][field] \in Nat /\ slow.memOps[op][field] \in Nat
    BY <2>1 DEF Fields
  <2> DEFINE p == l * n
  <2>6. p \in Nat /\ slow.memOps[op][field] = fast.memOps[op][field] + p
    BY <2>3, <2>4
  <2> HIDE DEF p, n, l
  <2> QED  BY <2>5, <2>6
<1>3. Total(fast.memOps, field) = SumOf(f, RepOps) /\ Total(slow.memOps, field) = SumOf(g, RepOps)
  <2>1. /\ Total(fast.memOps, field) = SumFunction(f)
        /\ Total(slow.memOps, field) = SumFunction(g)
    BY DEF Total
  <2>2. DOMAIN f = RepOps /\ DOMAIN g = RepOps
    OBVIOUS
  <2> HIDE DEF f, g
  <2> QED  BY <2>1, <2>2, SumFunctionIs
<1> HIDE DEF f, g
<1>4. Numbers(f, RepOps) /\ Numbers(g, RepOps)
  BY <1>1, <1>2 DEF Numbers
<1>5. SumOf(f, RepOps) <= SumOf(g, RepOps)
  BY <1>2, <1>4, SumOfLess
<1>6. SumOf(f, RepOps) \in Nat
  <2>1. CASE RepOps = {}
    BY <1>4, <2>1, SumOfZeros
  <2>2. CASE RepOps # {}
    BY <1>4, <2>2, SumAtLeast
  <2> QED  BY <2>1, <2>2
<1> QED  BY <1>3, <1>5, <1>6

(***************************************************************************)
(* countreps counts the same with and without -slow once an instruction    *)
(* with REP has come to its end, but for exactly what a UINT32 cuts off    *)
(* the count register, and between two blocks either counts no more memory *)
(* operations of these instructions than of the whole program, although    *)
(* iterations are counted one by one or all at once and the program by     *)
(* blocks.                                                                 *)
(***************************************************************************)
THEOREM SlowAndFastAlwaysAgree == CountSpec => []SlowAndFastAgree
<1>1. RepInv /\ TotalsInv => SlowAndFastAgree
  <2> SUFFICES ASSUME RepInv, TotalsInv PROVE SlowAndFastAgree
    OBVIOUS
  <2>1. StatisticsAgree
    BY RepInvAgrees
  <2>2. ASSUME iteration = NoIteration, pending = <<>>, due = {}, NEW field \in Fields
        PROVE  /\ Total(slow.memOps, field) <= totalMemoryOps[field]
               /\ Total(fast.memOps, field) <= totalMemoryOps[field]
    <3>1. /\ Total(fast.memOps, field) \in Nat
          /\ Total(fast.memOps, field) <= Total(slow.memOps, field)
      BY <2>1, <2>2, FastCountsLess
    <3>2. Waiting(field, pending) = 0 /\ StillDue(field, due, block) = 0
      BY <2>2 DEF Waiting, StillDue
    <3>3. /\ totalMemoryOps[field] \in Nat /\ Total(slow.memOps, field) \in Nat
          /\ Total(slow.memOps, field) + Waiting(field, pending)
               <= totalMemoryOps[field] + StillDue(field, due, block)
      BY <2>2 DEF TotalsInv, FieldOK
    <3>4. Total(slow.memOps, field) <= totalMemoryOps[field]
      BY <3>2, <3>3
    <3> QED  BY <3>1, <3>3, <3>4
  <2> QED  BY <2>1, <2>2 DEF SlowAndFastAgree, Fields
<1> QED  BY <1>1, RepInvariant, TotalsInvariant, PTL

=============================================================================
