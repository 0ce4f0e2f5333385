------------------------------ MODULE ShiftReg ------------------------------
(***************************************************************************)
(* History registers and the hashes of the branch predictors.              *)
(*                                                                         *)
(* Addresses, targets, histories and tags are words as in Words: the sets  *)
(* of their one-bits, {} for 0.  Widths are at most 30 here; from 32 on    *)
(* the masks (1 << width) - 1 of the code are undefined shifts of an int.  *)
(***************************************************************************)
EXTENDS Words, FiniteSets

Widths == 0 .. 30

truncate(val, bits) == {i \in val : i < bits}

(***************************************************************************)
(* The register after shiftIn(b): bit 0 is the latest outcome.             *)
(***************************************************************************)
shiftIn(wid, val, b) ==
  truncate({i + 1 : i \in val} \cup (IF b THEN {0} ELSE {}), wid)

(***************************************************************************)
(* HashMethods.  fold_xor cuts the address into pieces of the given number *)
(* of bits and combines them by exclusive or: bit j is set when an odd     *)
(* number of pieces have it.                                               *)
(***************************************************************************)
fold_bits(h, m) ==
  {j \in 0 .. m - 1 : Cardinality({i \in h : i % m = j}) % 2 = 1}

fold_xor(bits, addr, history) == Xor(fold_bits(addr, bits), history)

hash_xor(addr, history) == Xor(addr, history)

=============================================================================
