------------------------------ MODULE CountReps ------------------------------
(***************************************************************************)
(* The analysis routines of countreps.cpp for instructions with a REP      *)
(* prefix, which the processor iterates.  Pin calls a routine before every *)
(* iteration.  Where the number of iterations is in the count register     *)
(* from the start the tool counts all of them at the first; with the knob  *)
(* -slow, and for the instructions that may stop early, it counts each.    *)
(*                                                                         *)
(* An iteration is the record of what Pin passes: the instruction (ins),   *)
(* whether it is the first, whether it executes at all (not if the count   *)
(* register was 0), the count register, the direction flag and the         *)
(* address of each operand. The count register has 64 bits and most        *)
(* parameters of the routines 32, UIntWidth here.                          *)
(*                                                                         *)
(* All iterations of one execution of an instruction carry the same label  *)
(* (exec), which the tool does not see: the number of the execution, its   *)
(* instruction, the count register before it and the direction flag.       *)
(***************************************************************************)
EXTENDS Integers

CONSTANTS
  RepInfo,            \* per instruction with REP: [conditional, reads, writes, size]
  memoryOpsToLog,     \* operands whose addresses are logged, 1000 in the code
  UIntWidth           \* bits of a UINT32, 32 in the code

(***************************************************************************)
(* In the table of the code only CMPS, which may stop early, has two reads.*)
(***************************************************************************)
ASSUME CountRepsAssumption ==
  /\ RepInfo \in [DOMAIN RepInfo -> [conditional : BOOLEAN, reads : 0 .. 2,
                                     writes : 0 .. 1, size : Nat \ {0}]]
  /\ \A op \in DOMAIN RepInfo : RepInfo[op].conditional \/ RepInfo[op].reads <= 1
  /\ memoryOpsToLog \in Nat
  /\ UIntWidth \in Nat \ {0, 1}

ToUINT32(n) == n % 2 ^ UIntWidth

RepOps == DOMAIN RepInfo

Operands == {"Read ", "Read2", "Write"}

(***************************************************************************)
(* The state of the tool: the statistics and the memory operations of each *)
(* instruction, and the bytes that were logged as accessed by an operand,  *)
(* each with the execution its line is about.                              *)
(***************************************************************************)
NewCountReps ==
  [stats |-> [op \in RepOps |-> [count |-> 0, repeatedCount |-> 0, zeroLength |-> 0]],
   memOps |-> [op \in RepOps |-> [reads |-> 0, writes |-> 0]],
   logged |-> 0,
   log |-> [operand \in Operands |-> {}]]

(***************************************************************************)
(* CMPS and SCAS may stop before the count register is 0.                  *)
(***************************************************************************)
takesConditionalRep(slow, op) == slow \/ RepInfo[op].conditional

(***************************************************************************)
(* Whether the routines are called at this iteration, and the number of    *)
(* iterations they are told of.                                            *)
(***************************************************************************)
IsCalled(slow, it) == takesConditionalRep(slow, it.ins) \/ it.first

RepCount(slow, it) ==
  IF takesConditionalRep(slow, it.ins) THEN IF it.executing THEN 1 ELSE 0
                                       ELSE it.count

(***************************************************************************)
(* A faulty addCount, for the mutation check: every call counts as a       *)
(* start.                                                                  *)
(***************************************************************************)
addCountAlwaysFirst(stats, first, repCount) ==
  [count |-> stats.count + 1,
   repeatedCount |-> stats.repeatedCount + ToUINT32(repCount),
   zeroLength |-> stats.zeroLength + (IF ToUINT32(repCount) = 0 THEN 1 ELSE 0)]

addCount(stats, first, repCount) ==
  [count |-> stats.count + (IF first THEN 1 ELSE 0),
   repeatedCount |-> stats.repeatedCount + ToUINT32(repCount),
   zeroLength |-> stats.zeroLength + (IF ToUINT32(repCount) = 0 THEN 1 ELSE 0)]

addMemops(ops, repeats, readsPerRep, writesPerRep) ==
  [reads |-> ops.reads + ToUINT32(ToUINT32(repeats) * readsPerRep),
   writes |-> ops.writes + ToUINT32(ToUINT32(repeats) * writesPerRep)]

(***************************************************************************)
(* The lowest address of count elements of which firstEA is the first      *)
(* accessed: with the direction flag set the addresses go down.  The       *)
(* length of the block is a product of 32 bits.  The faulty one, for the   *)
(* mutation check, is one element too low.                                 *)
(***************************************************************************)
computeEAOneTooLow(firstEA, df, count, elementSize) ==
  IF df THEN firstEA - ToUINT32(elementSize * ToUINT32(count)) ELSE firstEA

computeEA(firstEA, df, count, elementSize) ==
  IF df THEN firstEA - ToUINT32(elementSize * ToUINT32(count)) + elementSize
        ELSE firstEA

(***************************************************************************)
(* The length of the logged block is a product of 64 bits.  Called         *)
(* iteration by iteration the routine gets a flag that is clear.           *)
(***************************************************************************)
logMemoryAddress(slow, tool, it, operand, firstEA) ==
  LET op == RepInfo[it.ins]
      count == RepCount(slow, it)
      df == it.df /\ ~takesConditionalRep(slow, it.ins)
      ea == computeEA(firstEA, df, count, op.size)
  IN  IF tool.logged < memoryOpsToLog /\ count # 0
      THEN [tool EXCEPT
              !.log[operand] = @ \cup ({it.exec} \X (ea .. ea + op.size * count - 1)),
              !.logged = @ + (IF it.first THEN 1 ELSE 0)]
      ELSE tool

(***************************************************************************)
(* All routines that are inserted before an instruction with REP, in the   *)
(* order of their insertion.                                               *)
(***************************************************************************)
WithCounts(slow, tool, it) ==
  [tool EXCEPT
     !.stats[it.ins] = addCount(@, it.first, RepCount(slow, it)),
     !.memOps[it.ins] = addMemops(@, RepCount(slow, it),
                          RepInfo[it.ins].reads, RepInfo[it.ins].writes)]

WithOperand(slow, tool, it, operand, present) ==
  IF present THEN logMemoryAddress(slow, tool, it, operand, it.ea[operand])
             ELSE tool

InstrumentInstruction(slow, tool, it) ==
  LET op == RepInfo[it.ins]
      counted == WithCounts(slow, tool, it)
      read == WithOperand(slow, counted, it, "Read ", op.reads > 0)
      read2 == WithOperand(slow, read, it, "Read2", op.reads > 1)
  IN  IF IsCalled(slow, it)
      THEN WithOperand(slow, read2, it, "Write", op.writes > 0)
      ELSE tool

=============================================================================
