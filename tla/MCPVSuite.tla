----------------------------- MODULE MCPVSuite -----------------------------
(***************************************************************************)
(* Caches of two ways of four rows.                                        *)
(*                                                                         *)
(* With blocks of 2^4 bytes, bits 4 and 5 of an address are the index,     *)
(* bits 6 and 7 are dropped, and the tag starts at bit 8; the pages differ *)
(* in the bits from 12 on.  All the addresses are of row {0}.  Pages {13}  *)
(* and {28} share a frame; {4, 6} differs from {4} in a dropped bit only.  *)
(*                                                                         *)
(* With blocks of 2^10 bytes, offset and index fill the page offset to its *)
(* last bit: bits 10 and 11 are the index, bits 12 and 13 are dropped.  The *)
(* addresses are of the rows {0} and {1}.  Pages {12} and {27} share a     *)
(* frame, and bit 12, the first above the index, tells them apart.  Three  *)
(* lines of row {0}, in either kind of address, are one more than its ways. *)
(***************************************************************************)
EXTENDS PVSuite

MCEAs == {{4}, {4, 6}, {4, 12}, {4, 13}, {4, 28}}

MCWholePageEAs ==
  {{10}, {10, 12}, {10, 27}, {10, 28}, {11}, {11, 28}}

=============================================================================
