---------------------------- MODULE DependSuite ----------------------------
(***************************************************************************)
(* A program run under insDependDist.cpp and, for comparison, under        *)
(* insDependDist2.cpp.                                                     *)
(*                                                                         *)
(* The first tool is called before every instruction.  The second is       *)
(* called once before every basic block, with the list of the block's      *)
(* instructions, and goes through all of them before the first executes.   *)
(***************************************************************************)
EXTENDS InsDependDist, Sequences

CONSTANTS
  Blocks,             \* the basic blocks of the program
  MaxIns              \* bound on the number of instructions executed

ASSUME DependSuiteAssumption ==
  /\ Blocks \subseteq Seq(Instrs) \ {<<>>}
  /\ MaxIns \in Nat

VARIABLES
  insPointer2, lastInsPointer2, insDependDistance2, outside2,
  insts,              \* instructions the second tool has yet to go through
  pending,            \* instructions of the block yet to be executed
  trace               \* instructions executed, for the reference definition

PerBlock == INSTANCE InsDependDist WITH
  insPointer <- insPointer2, lastInsPointer <- lastInsPointer2,
  insDependDistance <- insDependDistance2, outside <- outside2

perBlockVars ==
  <<insPointer2, lastInsPointer2, insDependDistance2, outside2>>

vars == <<toolVars, perBlockVars, insts, pending, trace>>

Init ==
  /\ ToolInit
  /\ PerBlock!ToolInit
  /\ insts = <<>>
  /\ pending = <<>>
  /\ trace = <<>>

EnterBlock(bbl) ==
  /\ pending = <<>>
  /\ Len(trace) + Len(bbl) <= MaxIns
  /\ insts' = bbl
  /\ pending' = bbl
  /\ UNCHANGED <<toolVars, perBlockVars, trace>>

(***************************************************************************)
(* A faulty loop, for the mutation check: one instruction number for the   *)
(* whole block.                                                            *)
(***************************************************************************)
AnalyseWithBlockNumber ==
  /\ insts # <<>>
  /\ LET now == IF insts = pending THEN PerBlock!Wrap(insPointer2 + 1)
                ELSE insPointer2
     IN  /\ insPointer2' = now
         /\ PerBlock!Count(Head(insts), now, lastInsPointer2)
         /\ lastInsPointer2' = PerBlock!Written(Head(insts), now)
  /\ insts' = Tail(insts)
  /\ UNCHANGED <<toolVars, pending, trace>>

(***************************************************************************)
(* One turn of the loop over the instructions of the block.                *)
(***************************************************************************)
Analyse ==
  /\ insts # <<>>
  /\ PerBlock!updateInsDependDistance(Head(insts))
  /\ insts' = Tail(insts)
  /\ UNCHANGED <<toolVars, pending, trace>>

(***************************************************************************)
(* A faulty program run, for the mutation check: the call of the second    *)
(* tool is not inserted before the block, so the block may begin first.    *)
(***************************************************************************)
ExecuteAnyTime ==
  /\ pending # <<>>
  /\ updateInsDependDistance(Head(pending))
  /\ pending' = Tail(pending)
  /\ trace' = Append(trace, Head(pending))
  /\ UNCHANGED <<perBlockVars, insts>>

(***************************************************************************)
(* The next instruction of the block executes, after the call of the first *)
(* tool before it.                                                         *)
(***************************************************************************)
Execute ==
  /\ insts = <<>>
  /\ pending # <<>>
  /\ updateInsDependDistance(Head(pending))
  /\ pending' = Tail(pending)
  /\ trace' = Append(trace, Head(pending))
  /\ UNCHANGED <<perBlockVars, insts>>

Next ==
  \/ \E bbl \in Blocks : EnterBlock(bbl)
  \/ Analyse
  \/ Execute

Spec == Init /\ [][Next]_vars

-----------------------------------------------------------------------------
(***************************************************************************)
(* Both tools have their types; a block is analysed before it executes.    *)
(***************************************************************************)
TypeOK ==
  /\ ToolTypeOK
  /\ PerBlock!ToolTypeOK
  /\ pending \in Seq(Instrs)
  /\ trace \in Seq(Instrs)
  /\ insts # <<>> => \E n \in 0 .. Len(pending) :
                       insts = SubSeq(pending, n + 1, Len(pending))

(***************************************************************************)
(* The definition the histogram is to compute: the register r is read by   *)
(* instruction j, was written by j - d, and by none between.               *)
(***************************************************************************)
DependsAt(j, r, d) ==
  /\ d < j
  /\ r \in trace[j].read
  /\ r \in trace[j - d].write
  /\ \A k \in j - d + 1 .. j - 1 : r \notin trace[k].write

Dependences(d) ==
  Cardinality({at \in (DOMAIN trace) \X Regs : DependsAt(at[1], at[2], d)})

(***************************************************************************)
(* While the instruction counter has not wrapped, the histogram counts     *)
(* every dependence once, at its distance; in particular no instruction    *)
(* depends on itself when it writes a register it reads.                   *)
(***************************************************************************)
HistogramIsTrue ==
  Len(trace) < 2 ^ (IntWidth - 1)
    => \A d \in Indices :
         insDependDistance[d] = IF d = 0 THEN 0 ELSE Dependences(d)

(***************************************************************************)
(* Between two blocks the tools have computed the same (lab1.md:412 says   *)
(* so of the measured distances), also when the counter has wrapped; and   *)
(* the second is never behind the first.                                   *)
(***************************************************************************)
ToolsAgree ==
  /\ pending = <<>> =>
       /\ insPointer2 = insPointer
       /\ lastInsPointer2 = lastInsPointer
       /\ insDependDistance2 = insDependDistance
       /\ outside2 = outside
  /\ insts = <<>> =>
       \A d \in Indices : insDependDistance[d] <= insDependDistance2[d]

(***************************************************************************)
(* The array has one counter for each distance up to the maximum distance  *)
(* of the knob (insDependDist.cpp:36, 147): no other memory is counted up. *)
(***************************************************************************)
InsideArray == outside = {} /\ outside2 = {}

=============================================================================
