-------------------------- MODULE MCCapacitySuite --------------------------
(***************************************************************************)
(* Caches of two and of four blocks of 16 bytes and a program that         *)
(* accesses five memory blocks.                                            *)
(***************************************************************************)
EXTENDS CapacitySuite

(***************************************************************************)
(* Blocks 0 to 3 and 5 (0 and 2, 1 and 3 share a place in the small direct *)
(* mapped cache, 1 and 5 in the large one too).  Block 1 is met under two  *)
(* addresses, one of them unaligned and above the 32 bits.                 *)
(***************************************************************************)
MCEAs == {{}, {4}, {1, 4, 40}, {5}, {4, 5}, {4, 6}}

=============================================================================
