--------------------------- MODULE MCDependSuite ---------------------------
(***************************************************************************)
(* A program of two registers, a histogram of three distances and a        *)
(* counter of four bits, which wraps after seven instructions.             *)
(***************************************************************************)
EXTENDS DependSuite

CONSTANTS a, b        \* the registers

MCRegs == {a, b}

(***************************************************************************)
(* Load a; copy a to b; add b to a, which reads what it writes; store      *)
(* both.                                                                   *)
(***************************************************************************)
load == [read |-> {}, write |-> {a}]
copy == [read |-> {a}, write |-> {b}]
add == [read |-> {a, b}, write |-> {a}]
store == [read |-> {a, b}, write |-> {}]

MCInstrs == {load, copy, add, store}

MCBlocks == {<<load>>, <<copy>>, <<add, store>>, <<store, add, copy>>}

=============================================================================
