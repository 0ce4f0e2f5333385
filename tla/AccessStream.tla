---------------------------- MODULE AccessStream ----------------------------
(***************************************************************************)
(* The stream of memory accesses all models of the tool are shown, and     *)
(* what an ideal observer remembers of it.                                 *)
(*                                                                         *)
(* Pin calls readCache or writeCache with the effective address of each    *)
(* access, a 64-bit number; the parameter mem_addr is 32 bits wide, and    *)
(* the routine clears its two low bits.                                    *)
(***************************************************************************)
EXTENDS Words

CONSTANTS
  EAs,                \* effective addresses the program accesses
  block_log_size      \* logarithm of the block size the observer uses

ASSUME StreamAssumption ==
  /\ EAs \subseteq SUBSET (0 .. 63)
  /\ block_log_size \in Nat

mem_addr(ea) == Shl(Shr(ea \cap Bits, 2), 2)

MemAddrs == {mem_addr(ea) : ea \in EAs}

block(addr) == Shr(addr, block_log_size)

(***************************************************************************)
(* since[b] is the set of the other blocks accessed after the last access  *)
(* to block b; its domain is the set of the blocks accessed at all.        *)
(***************************************************************************)
VARIABLE since

StreamInit == since = [b \in {} |-> {}]

Observe(b) ==
  since' = [c \in DOMAIN since \cup {b} |->
              IF c = b THEN {} ELSE since[c] \cup {b}]

(***************************************************************************)
(* The block accessed last.                                                *)
(***************************************************************************)
LastBlock == CHOOSE b \in DOMAIN since : since[b] = {}

=============================================================================
