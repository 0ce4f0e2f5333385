--------------------------- MODULE InsDependDist ---------------------------
(***************************************************************************)
(* The analysis routine of insDependDist.cpp, and the body of the loop in  *)
(* that of insDependDist2.cpp: a histogram of how many instructions lie    *)
(* between the writing of a register and its reading.                      *)
(*                                                                         *)
(* An instruction is the record of the registers it reads and writes;      *)
(* Instruction() and Trace() collect each register once.                   *)
(*                                                                         *)
(* The array has maxSize counters.  What lies around it is no part of the  *)
(* tool's state: an increment there only leaves its index in outside.      *)
(***************************************************************************)
EXTENDS Integers, FiniteSets

CONSTANTS
  Regs,               \* the registers the program uses
  Instrs,             \* the instructions it is made of
  maxSize,            \* the value of the knob -s
  IntWidth            \* the width of INT32: 32 in the code

ASSUME InsDependAssumption ==
  /\ Instrs \subseteq [read : SUBSET Regs, write : SUBSET Regs]
  /\ IsFiniteSet(Regs)
  /\ maxSize \in Nat \ {0}
  /\ IntWidth \in Nat \ {0}

VARIABLES
  insPointer,         \* the number of the current instruction
  lastInsPointer,     \* the instruction that wrote a register last, or 0
  insDependDistance,  \* how often each distance was met
  outside             \* indices outside the array that were incremented

toolVars == <<insPointer, lastInsPointer, insDependDistance, outside>>

INT32 == -(2 ^ (IntWidth - 1)) .. 2 ^ (IntWidth - 1) - 1

(***************************************************************************)
(* Sums and differences of INT32 wrap around, as the build computes them.  *)
(***************************************************************************)
Wrap(n) == ((n + 2 ^ (IntWidth - 1)) % 2 ^ IntWidth) - 2 ^ (IntWidth - 1)

Indices == 0 .. maxSize - 1

ToolInit ==
  /\ insPointer = 0
  /\ lastInsPointer = [r \in Regs |-> 0]
  /\ insDependDistance = [d \in Indices |-> 0]
  /\ outside = {}

(***************************************************************************)
(* Task B for the instruction with number now: it is the last writer of    *)
(* the registers it writes.                                                *)
(***************************************************************************)
Written(ins, now) ==
  [r \in Regs |-> IF r \in ins.write THEN now ELSE lastInsPointer[r]]

(***************************************************************************)
(* Task A: the registers read that were written before, when last[r] is    *)
(* the last writer of r, are counted at their distance unless it exceeds   *)
(* maxSize.                                                                *)
(***************************************************************************)
Count(ins, now, last) ==
  LET distance(r) == Wrap(now - last[r])
      counted == {r \in ins.read : last[r] > 0 /\ distance(r) <= maxSize}
  IN  /\ insDependDistance' =
           [d \in Indices |-> insDependDistance[d]
                                + Cardinality({r \in counted : distance(r) = d})]
      /\ outside' = outside \cup ({distance(r) : r \in counted} \ Indices)

(***************************************************************************)
(* A faulty routine, for the mutation check, with B before A: the mistake  *)
(* the comment in the code warns of.                                       *)
(***************************************************************************)
updateWritesFirst(ins) ==
  LET now == Wrap(insPointer + 1)
  IN  /\ insPointer' = now
      /\ Count(ins, now, Written(ins, now))
      /\ lastInsPointer' = Written(ins, now)

updateInsDependDistance(ins) ==
  LET now == Wrap(insPointer + 1)
  IN  /\ insPointer' = now
      /\ Count(ins, now, lastInsPointer)
      /\ lastInsPointer' = Written(ins, now)

ToolTypeOK ==
  /\ insPointer \in INT32
  /\ lastInsPointer \in [Regs -> INT32]
  /\ insDependDistance \in [Indices -> Nat]
  /\ outside \subseteq INT32

=============================================================================
