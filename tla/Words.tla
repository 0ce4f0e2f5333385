------------------------------- MODULE Words -------------------------------
(***************************************************************************)
(* The 32-bit unsigned words (UINT32) the cache models compute with.       *)
(*                                                                         *)
(* A word is the set of its one-bits, bit 0 the least significant: the     *)
(* masks and shifts of the code are then set expressions, equality of      *)
(* words is equality of sets, and no number exceeds what TLC can hold.     *)
(* Bits shifted or carried out of bit 31 are lost, as in C++.              *)
(***************************************************************************)
EXTENDS Naturals

Bits == 0 .. 31

Word == SUBSET Bits

(***************************************************************************)
(* ~w, w << k, w >> k, a ^ b and the mask (1 << k) - 1.                     *)
(* a & b and a | b are \cap and \cup.                                      *)
(***************************************************************************)
Not(w) == Bits \ w

Shl(w, k) == {i + k : i \in {j \in w : j + k \in Bits}}

Shr(w, k) == {i - k : i \in {j \in w : j >= k}}

Xor(a, b) == (a \ b) \cup (b \ a)

LowMask(k) == {i \in Bits : i < k}

(***************************************************************************)
(* a + b modulo 2^32.  The carry into bit i is set when some lower bit     *)
(* generates one (set in both words) and every bit between passes it on    *)
(* (set in at least one).                                                  *)
(***************************************************************************)
Carry(a, b, i) ==
  \E j \in a \cap b : j < i /\ \A k \in Bits : j < k /\ k < i => k \in a \cup b

Add(a, b) == {i \in Bits : i \in Xor(a, b) <=> ~Carry(a, b, i)}

=============================================================================
