---------------------------- MODULE ReplaceOrder ----------------------------
(***************************************************************************)
(* The replacement objects of one row in three caches that are compared    *)
(* (TEST_ALGO in main()): a LRURepl, a FIFORepl and a PLRURepl, asked      *)
(* again and again for the way to replace.  total, the number of ways, is  *)
(* fixed when the objects are constructed.                                 *)
(*                                                                         *)
(* The LRURepl and the FIFORepl are asked at the same moments: PVSuite     *)
(* checks that a cache with LRURepl misses as one with first-in first-out  *)
(* replacement does.  The PLRURepl is asked when its own cache misses.     *)
(***************************************************************************)
EXTENDS Naturals

CONSTANT MaxTotal     \* bound on the number of ways

ASSUME MaxTotalAssumption == MaxTotal \in Nat \ {0}

VARIABLES
  total,              \* the number of ways
  lru, fifo, plru,    \* the states of the three objects
  lruWaits, plruWaits \* selections since a way was last selected

vars == <<total, lru, fifo, plru, lruWaits, plruWaits>>

R == INSTANCE ReplaceAlgo

Init ==
  /\ total \in 1 .. MaxTotal
  /\ lru = R!InitialState("LRURepl")
  /\ fifo = R!InitialState("FIFORepl")
  /\ plru = R!InitialState("PLRURepl")
  /\ lruWaits = [w \in R!Ways |-> 0]
  /\ plruWaits = [w \in R!Ways |-> 0]

Waits(waits, way) ==
  [w \in R!Ways |-> IF w = way THEN 0 ELSE waits[w] + 1]

SelectLRUAndFIFO ==
  \E l \in R!Selections("LRURepl", lru), f \in R!Selections("FIFORepl", fifo) :
    /\ lru' = l.next
    /\ fifo' = f.next
    /\ lruWaits' = Waits(lruWaits, l.way)
    /\ UNCHANGED <<total, plru, plruWaits>>

SelectPLRU ==
  \E s \in R!Selections("PLRURepl", plru) :
    /\ plru' = s.next
    /\ plruWaits' = Waits(plruWaits, s.way)
    /\ UNCHANGED <<total, lru, fifo, lruWaits>>

Next == SelectLRUAndFIFO \/ SelectPLRU

Spec == Init /\ [][Next]_vars

-----------------------------------------------------------------------------
(***************************************************************************)
(* The objects are in states of their classes: FIFORepl's counter never    *)
(* reaches total, and no way's waiting time is negative.                   *)
(***************************************************************************)
TypeOK ==
  /\ total \in 1 .. MaxTotal
  /\ lru \in R!States("LRURepl")
  /\ fifo \in R!States("FIFORepl")
  /\ plru \in R!States("PLRURepl")
  /\ lruWaits \in [R!Ways -> Nat]
  /\ plruWaits \in [R!Ways -> Nat]

(***************************************************************************)
(* LRURepl and FIFORepl always select the same way: only select moves a    *)
(* way in the queue, so the queue is the ways in circular order from the   *)
(* counter on.                                                             *)
(***************************************************************************)
LRUReplIsFIFORepl ==
  \A i \in 1 .. total : lru[i] = (fifo + i - 1) % total

(***************************************************************************)
(* Every way has its turn.  In a row of 2^k ways each of LRURepl and       *)
(* PLRURepl selects every way once in 2^k selections; when the number of   *)
(* ways is no power of two, PLRURepl favours the ways nearer to the root   *)
(* of its tree but comes to each within the next power of two.             *)
(***************************************************************************)
RoundOf(n) ==
  CHOOSE m \in n .. 2 * n : /\ \E k \in 0 .. n : m = 2 ^ k
                            /\ \A j \in n .. m - 1 : \A k \in 0 .. n : j # 2 ^ k

NoWayStarves ==
  \A w \in R!Ways :
    /\ lruWaits[w] < total
    /\ plruWaits[w] < RoundOf(total)

=============================================================================
