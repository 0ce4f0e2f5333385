----------------------------- MODULE ReplaceAlgo -----------------------------
(***************************************************************************)
(* The replacement algorithms a row of a set-associative cache may be      *)
(* given: the subclasses of ReplaceAlgo.  Each keeps a state of its own    *)
(* kind; select(true) answers the way to replace and advances the state.   *)
(* The cache model never calls select(false).                              *)
(***************************************************************************)
EXTENDS Naturals

CONSTANT total        \* the number of ways to choose from

Ways == 0 .. total - 1

-----------------------------------------------------------------------------
(***************************************************************************)
(* LRURepl: a LinkedLRU whose front is selected and moved to the back.     *)
(***************************************************************************)
LRU == INSTANCE LinkedLRU WITH count <- total

LRUSelect(queue) ==
  [way |-> LRU!Front(queue), next |-> LRU!Update(queue, LRU!Front(queue))]

-----------------------------------------------------------------------------
(***************************************************************************)
(* FIFORepl: a counter that wraps at total.  The faulty ones, for the      *)
(* mutation check, never wrap or wrap one way early.                       *)
(***************************************************************************)
FIFOSelectNeverWraps(cnt) == [way |-> cnt, next |-> cnt + 1]

FIFOSelectWrapsEarly(cnt) ==
  [way |-> cnt, next |-> IF cnt + 1 >= total - 1 THEN 0 ELSE cnt + 1]

FIFOSelect(cnt) ==
  [way |-> cnt, next |-> IF cnt + 1 = total THEN 0 ELSE cnt + 1]

-----------------------------------------------------------------------------
(***************************************************************************)
(* PLRURepl: total - 1 bits, the inner nodes of a binary tree in heap      *)
(* order (the children of n are 2n+1 and 2n+2) whose nodes from total - 1  *)
(* on are the ways.  select walks from node 0 to a way, left where the bit *)
(* is 0, and flips every bit it passes.                                    *)
(***************************************************************************)
InnerNodes == 0 .. total - 2

Nodes == 0 .. 2 * total - 2

PLRUPath(bits) ==
  LET onPath[n \in Nodes] ==
        \/ n = 0
        \/ LET parent == (n - 1) \div 2
           IN  onPath[parent] /\ n = 2 * parent + bits[parent] + 1
  IN  {n \in Nodes : onPath[n]}

(***************************************************************************)
(* A faulty select, for the mutation check: only the root is flipped.      *)
(***************************************************************************)
PLRUSelectFlipsRoot(bits) ==
  LET leaf == CHOOSE n \in PLRUPath(bits) : n \notin InnerNodes
  IN  [way  |-> leaf - (total - 1),
       next |-> [n \in InnerNodes |-> IF n = 0 THEN 1 - bits[n] ELSE bits[n]]]

PLRUSelect(bits) ==
  LET path == PLRUPath(bits)
      leaf == CHOOSE n \in path : n \notin InnerNodes
  IN  [way  |-> leaf - (total - 1),
       next |-> [n \in InnerNodes |-> IF n \in path THEN 1 - bits[n]
                                                    ELSE bits[n]]]

-----------------------------------------------------------------------------
(***************************************************************************)
(* The state a new object of a class starts in, and the selections it may  *)
(* make from a state: RandomRepl keeps no state and answers rand() % total *)
(* (so does a cache that was given no replacement algorithm).              *)
(***************************************************************************)
InitialState(kind) ==
  CASE kind = "LRURepl"    -> LRU!InitQueue
    [] kind = "FIFORepl"   -> 0
    [] kind = "PLRURepl"   -> [n \in InnerNodes |-> 0]
    [] kind = "RandomRepl" -> 0

Selections(kind, state) ==
  CASE kind = "LRURepl"    -> {LRUSelect(state)}
    [] kind = "FIFORepl"   -> {FIFOSelect(state)}
    [] kind = "PLRURepl"   -> {PLRUSelect(state)}
    [] kind = "RandomRepl" -> [way : Ways, next : {state}]

States(kind) ==
  CASE kind = "LRURepl"    -> [LRU!Positions -> Ways]
    [] kind = "FIFORepl"   -> Ways
    [] kind = "PLRURepl"   -> [InnerNodes -> {0, 1}]
    [] kind = "RandomRepl" -> {0}

=============================================================================
