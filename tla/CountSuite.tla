----------------------------- MODULE CountSuite -----------------------------
(***************************************************************************)
(* The program of DependSuite, run also under the tools that count:        *)
(* inscount0 (called before every instruction), inscount1 (before every    *)
(* block), inscount2 (once somewhere in every block) and countreps, the    *)
(* latter with and without its knob -slow.                                 *)
(*                                                                         *)
(* An instruction with REP ends its block.  Pin shows its iterations to    *)
(* the tools one by one: the first in the block of the instruction, each   *)
(* further one as a block of its own.                                      *)
(***************************************************************************)
EXTENDS DependSuite, CountReps, Functions

CONSTANTS
  MemReads(_), MemWrites(_),  \* memory operands of an instruction
  RepCounts,          \* the values of the count register
  LastRepStart        \* bound: no REP starts after so many instructions

ASSUME CountSuiteAssumption ==
  /\ RepOps \subseteq Instrs /\ IsFiniteSet(RepOps)
  /\ \A bbl \in Blocks : \A i \in 1 .. Len(bbl) - 1 : bbl[i] \notin RepOps
  /\ \A ins \in RepOps : <<ins>> \in Blocks
  /\ \A ins \in Instrs : MemReads(ins) \in Nat /\ MemWrites(ins) \in Nat
  /\ \A ins \in RepOps :
       MemReads(ins) = RepInfo[ins].reads /\ MemWrites(ins) = RepInfo[ins].writes
  /\ RepCounts \subseteq Nat
  /\ LastRepStart \in Nat

VARIABLES
  icount0, icount1, icount2,  \* icount of inscount0, inscount1, inscount2
  totalCount, totalMemoryOps, \* the totals of countreps
  due,                        \* tools whose call for this block is to come
  block,                      \* the block last entered
  iteration,                  \* the next iteration of an instruction with REP
  slow, fast,                 \* countreps with and without -slow
  lost                        \* history: what the parameters of fast cut off

countVars == <<icount0, icount1, icount2, totalCount, totalMemoryOps, due,
               block, iteration, slow, fast, lost>>

AnywhereTools == {"inscount2", "countreps"}

(***************************************************************************)
(* No instruction with REP is being iterated.                              *)
(***************************************************************************)
NoIteration == [ins |-> <<>>]

CountInit ==
  /\ Init
  /\ icount0 = 0 /\ icount1 = 0 /\ icount2 = 0
  /\ totalCount = 0
  /\ totalMemoryOps = [reads |-> 0, writes |-> 0]
  /\ due = {}
  /\ block = <<>>
  /\ iteration = NoIteration
  /\ slow = NewCountReps /\ fast = NewCountReps
  /\ lost = [op \in RepOps |-> [repeats |-> 0, zeros |-> 0]]

-----------------------------------------------------------------------------
docount0(icount) == icount + 1

(***************************************************************************)
(* A faulty docount, for the mutation check: a block counts as one.        *)
(***************************************************************************)
docountBlocks(icount, c) == icount + 1

docount(icount, c) == icount + c

(***************************************************************************)
(* The block to come next: the one of a further iteration if there is one. *)
(***************************************************************************)
MayEnter(bbl) ==
  IF iteration # NoIteration THEN bbl = <<iteration.ins>>
  ELSE bbl[Len(bbl)] \in RepOps => Len(trace) <= LastRepStart

CountEnterBlock(bbl) ==
  /\ due = {}
  /\ MayEnter(bbl)
  /\ EnterBlock(bbl)
  /\ icount1' = docount(icount1, Len(bbl))
  /\ due' = AnywhereTools
  /\ block' = bbl
  /\ UNCHANGED <<icount0, icount2, totalCount, totalMemoryOps, iteration, slow, fast, lost>>

CountAnalyse == Analyse /\ UNCHANGED countVars

(***************************************************************************)
(* IPOINT_ANYWHERE: the calls of inscount2 and countreps for a block come  *)
(* at any moment between its entry and the next.  (Before the block        *)
(* executes, the tool of DependSuite that is called there goes first: the  *)
(* tools are separate programs, and their order is of no consequence.)     *)
(***************************************************************************)
Inscount2Anywhere ==
  /\ "inscount2" \in due
  /\ insts = <<>>
  /\ icount2' = docount(icount2, Len(block))
  /\ due' = due \ {"inscount2"}
  /\ UNCHANGED <<vars, icount0, icount1, totalCount, totalMemoryOps, block,
                 iteration, slow, fast, lost>>

addTotalMemops(bbl) ==
  [reads |-> totalMemoryOps.reads + SumFunction([i \in DOMAIN bbl |-> MemReads(bbl[i])]),
   writes |-> totalMemoryOps.writes + SumFunction([i \in DOMAIN bbl |-> MemWrites(bbl[i])])]

InstrumentTraceAnywhere ==
  /\ "countreps" \in due
  /\ insts = <<>>
  /\ totalCount' = docount(totalCount, Len(block))
  /\ totalMemoryOps' = addTotalMemops(block)
  /\ due' = due \ {"countreps"}
  /\ UNCHANGED <<vars, icount0, icount1, icount2, block, iteration, slow, fast, lost>>

ExecutePlain ==
  /\ Execute
  /\ Head(pending) \notin RepOps
  /\ icount0' = docount0(icount0)
  /\ UNCHANGED <<icount1, icount2, totalCount, totalMemoryOps, due, block,
                 iteration, slow, fast, lost>>

-----------------------------------------------------------------------------
(***************************************************************************)
(* The processor: what the next iteration is, one element further in the   *)
(* direction of the flag.  All operands start at the same address; they    *)
(* are told apart by their names.                                          *)
(***************************************************************************)
FirstEA == 100

FirstIteration(ins, count, df) ==
  [exec |-> [nr |-> Len(trace), ins |-> ins, count |-> count, df |-> df],
   ins |-> ins, first |-> TRUE, executing |-> count # 0, count |-> count, df |-> df,
   ea |-> [operand \in Operands |-> FirstEA]]

Following(it) ==
  LET step == IF it.df THEN -RepInfo[it.ins].size ELSE RepInfo[it.ins].size
  IN  [it EXCEPT !.first = FALSE, !.count = @ - 1,
                 !.ea = [operand \in Operands |-> @[operand] + step]]

(***************************************************************************)
(* What a UINT32 cuts off the count register, where fast counts all        *)
(* iterations at the first: repetitions that are not counted, and          *)
(* executions that are taken for empty ones.                               *)
(***************************************************************************)
Cut(count) == count - ToUINT32(count)

NotCounted(it) ==
  IF it.first /\ ~RepInfo[it.ins].conditional
  THEN [lost EXCEPT
          ![it.ins].repeats = @ + Cut(it.count),
          ![it.ins].zeros = @ + (IF it.count # 0 /\ ToUINT32(it.count) = 0 THEN 1 ELSE 0)]
  ELSE lost

ExecuteIteration(it) ==
  /\ Execute
  /\ Head(pending) = it.ins
  /\ icount0' = docount0(icount0)
  /\ slow' = InstrumentInstruction(TRUE, slow, it)
  /\ fast' = InstrumentInstruction(FALSE, fast, it)
  /\ lost' = NotCounted(it)
  /\ \/ it.count > 1 /\ iteration' = Following(it)
     \/ /\ it.count <= 1 \/ RepInfo[it.ins].conditional
        /\ iteration' = NoIteration
  /\ UNCHANGED <<icount1, icount2, totalCount, totalMemoryOps, due, block>>

StartRep(ins) ==
  /\ iteration = NoIteration
  /\ \E count \in RepCounts, df \in BOOLEAN :
       ExecuteIteration(FirstIteration(ins, count, df))

ContinueRep ==
  /\ iteration # NoIteration
  /\ ExecuteIteration(iteration)

CountNext ==
  \/ \E bbl \in Blocks : CountEnterBlock(bbl)
  \/ CountAnalyse
  \/ Inscount2Anywhere
  \/ InstrumentTraceAnywhere
  \/ ExecutePlain
  \/ \E ins \in RepOps : StartRep(ins)
  \/ ContinueRep

CountSpec == CountInit /\ [][CountNext]_<<vars, countVars>>

-----------------------------------------------------------------------------
(***************************************************************************)
(* The counters per instruction, per block and per block at any moment     *)
(* agree between two blocks, and never differ by more than the block that  *)
(* is executing: inscount1 is ahead of what has executed by exactly what   *)
(* is still to execute.                                                    *)
(***************************************************************************)
CountersAgree ==
  /\ icount0 = Len(trace)
  /\ icount1 = icount0 + Len(pending)
  /\ icount2 = icount1 - (IF "inscount2" \in due THEN Len(block) ELSE 0)
  /\ totalCount = icount1 - (IF "countreps" \in due THEN Len(block) ELSE 0)

(***************************************************************************)
(* Once an instruction with REP has come to its end, countreps has counted *)
(* the same with and without -slow, however many iterations there were and *)
(* whichever way they went, but for what the 32-bit parameters cut off the *)
(* count register: without -slow that many repetitions, reads and writes   *)
(* are missing, and an execution of which nothing is left counts as empty. *)
(* Between two blocks neither has counted more memory operations than      *)
(* there were in the whole program.                                        *)
(***************************************************************************)
StatisticsAgree ==
  iteration = NoIteration => \A op \in RepOps :
    /\ slow.stats[op].count = fast.stats[op].count
    /\ slow.stats[op].repeatedCount = fast.stats[op].repeatedCount + lost[op].repeats
    /\ slow.stats[op].zeroLength = fast.stats[op].zeroLength - lost[op].zeros
    /\ slow.memOps[op].reads =
         fast.memOps[op].reads + lost[op].repeats * RepInfo[op].reads
    /\ slow.memOps[op].writes =
         fast.memOps[op].writes + lost[op].repeats * RepInfo[op].writes

Total(ops, field) == SumFunction([op \in RepOps |-> ops[op][field]])

SlowAndFastAgree ==
  /\ StatisticsAgree
  /\ iteration = NoIteration /\ pending = <<>> /\ due = {} =>
       \A tool \in {slow, fast}, field \in {"reads", "writes"} :
         Total(tool.memOps, field) <= totalMemoryOps[field]

(***************************************************************************)
(* How far above the block accessed an execution is logged by computeEA.   *)
(***************************************************************************)
Displacement(exec) ==
  LET size == RepInfo[exec.ins].size
  IN  IF exec.df /\ ~RepInfo[exec.ins].conditional
      THEN size * exec.count - ToUINT32(size * ToUINT32(exec.count)) ELSE 0

Replaced(entries) == {<<e[1], e[2] - Displacement(e[1])>> : e \in entries}

(***************************************************************************)
(* The bytes logged at once are those the iterations access one by one, in *)
(* either direction, but for the displacement where the length of a block  *)
(* does not fit in 32 bits.  Of every operand that is logged at once -slow *)
(* logs the first iteration at least.  Further iterations are missing only *)
(* when the limit of the log is reached, and only of the last execution    *)
(* that is logged.                                                         *)
(***************************************************************************)
LogsAgree ==
  iteration = NoIteration =>
    /\ slow.logged = fast.logged
    /\ \A operand \in Operands :
         LET logged == Replaced(fast.log[operand])
         IN  /\ slow.log[operand] \subseteq logged
             /\ \A e \in logged : \E d \in slow.log[operand] : d[1] = e[1]
             /\ \A e \in logged \ slow.log[operand] :
                  /\ fast.logged >= memoryOpsToLog
                  /\ \A other \in Operands : \A d \in fast.log[other] :
                       d[1].nr <= e[1].nr

=============================================================================
