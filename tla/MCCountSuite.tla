---------------------------- MODULE MCCountSuite ----------------------------
(***************************************************************************)
(* The program of MCDependSuite with two instructions more that have a REP *)
(* prefix: one like MOVS, whose iterations the count register determines,  *)
(* and one like CMPS, which may stop early.                                *)
(***************************************************************************)
EXTENDS CountSuite, MCDependSuite

movs == [read |-> {a, b}, write |-> {a, b}]
cmps == [read |-> {a, b}, write |-> {b}]

RepInstrs == MCInstrs \cup {movs, cmps}

RepBlocks == MCBlocks \cup {<<movs>>, <<cmps>>}

MCRepInfo ==
  [ins \in {movs, cmps} |->
     IF ins = movs
     THEN [conditional |-> FALSE, reads |-> 1, writes |-> 1, size |-> 2]
     ELSE [conditional |-> TRUE, reads |-> 2, writes |-> 0, size |-> 1]]

MCMemReads(ins) == CASE ins \in {load, movs} -> 1 [] ins = cmps -> 2 [] OTHER -> 0

MCMemWrites(ins) == IF ins \in {store, movs} THEN 1 ELSE 0

=============================================================================
