----------------------------- MODULE LinkedLRU -----------------------------
(***************************************************************************)
(* class LinkedLRU: the queue of block numbers that FullAssoCache and      *)
(* LRURepl keep, least recently updated first.  The vector replace_queue   *)
(* is a function from the positions 1 .. count to the blocks 0 .. count-1. *)
(***************************************************************************)
EXTENDS Naturals

CONSTANT count        \* the size the constructor is given

Blocks == 0 .. count - 1

Positions == 1 .. count

(***************************************************************************)
(* The constructor fills the queue with 0, 1, ..., count-1.                *)
(***************************************************************************)
InitQueue == [i \in Positions |-> i - 1]

Front(q) == q[1]

Position(q, b) == CHOOSE i \in Positions : q[i] = b

(***************************************************************************)
(* A faulty update, for the mutation check: it erases the front, as if b   *)
(* were always the block just taken from there.                            *)
(***************************************************************************)
UpdateErasesFront(q, b) ==
  [i \in Positions |-> IF i < count THEN q[i + 1] ELSE b]

(***************************************************************************)
(* update(b): find b, erase it (the elements behind it move up by one) and *)
(* append it.  The code reports an error when b is not in the queue;       *)
(* IsPermutation says that it always is.                                   *)
(***************************************************************************)
Update(q, b) ==
  [i \in Positions |-> IF i < Position(q, b) THEN q[i]
                       ELSE IF i < count THEN q[i + 1] ELSE b]

(***************************************************************************)
(* Every block is in the queue exactly once.                               *)
(***************************************************************************)
IsPermutation(q) ==
  /\ q \in [Positions -> Blocks]
  /\ \A i, j \in Positions : q[i] = q[j] => i = j
  /\ \A b \in Blocks : \E i \in Positions : q[i] = b

=============================================================================
