----------------------------- MODULE MCPinTools -----------------------------
(***************************************************************************)
(* A run of Pin with a tool for programs of several threads: either        *)
(* stack-debugger, or the tools of ThreadSuite.  The variables of what is  *)
(* not run keep their initial values.                                      *)
(***************************************************************************)
EXTENDS StackDebugger, ThreadSuite

VARIABLE tool

MCInit ==
  /\ Init
  /\ SuiteInit
  /\ tool \in {"stack-debugger", "suite"}
  /\ tool = "suite" => BreakOnSize = 0
  /\ tool = "stack-debugger" => KnobDoWriteToOutputFile

MCNext ==
  \/ tool = "stack-debugger" /\ Next /\ UNCHANGED <<suiteVars, tool>>
  \/ tool = "suite" /\ SuiteNext /\ UNCHANGED <<vars, tool>>

MCSpec == MCInit /\ [][MCNext]_<<vars, suiteVars, tool>> /\ Fairness

(***************************************************************************)
(* A copy of one element from address 1 to address 0, which the tools do   *)
(* not print; an update in place; and an instruction with an operand the   *)
(* tools do not know how to treat.                                         *)
(***************************************************************************)
MemOp(ea, read, written) == [ea |-> ea, read |-> read, written |-> written]

Copy == [standard |-> TRUE, memOps |-> <<MemOp(1, TRUE, FALSE), MemOp(0, FALSE, TRUE)>>]
Update == [standard |-> TRUE, memOps |-> <<MemOp(2, TRUE, TRUE)>>]
Unknown == [standard |-> FALSE, memOps |-> <<MemOp(3, TRUE, FALSE)>>]

MCBlocks == {<<Update, Copy>>, <<Unknown>>}
=============================================================================
