-------------------------- MODULE FullAssoCacheLRU --------------------------
(***************************************************************************)
(* FullAssoCache implements LRUStack: the valid blocks, in the order of    *)
(* the replacement queue, are the stack.                                   *)
(*                                                                         *)
(* The state of the cache does not show which tag a hit was for.  The      *)
(* history variable accessed does, so that the abstract cache must hit and *)
(* move the same tag and not just some tag.                                *)
(***************************************************************************)
EXTENDS FullAssoCache

VARIABLE accessed     \* <<the tag accessed last>>, <<>> before the first access

ObservedInit == Init /\ accessed = <<>>

Observed(addr) == accessed' = <<getTag(addr)>>

ObservedNext ==
  \E addr \in Addrs :
    \/ readReq(addr) /\ Observed(addr)
    \/ writeReq(addr) /\ Observed(addr)

ObservedSpec == ObservedInit /\ [][ObservedNext]_<<vars, accessed>>

(***************************************************************************)
(* The number of free blocks; they are the front of the queue              *)
(* (FreeBlocksFirst).                                                      *)
(***************************************************************************)
FreeCount ==
  CHOOSE f \in 0 .. block_num :
    \A i \in LRU!Positions : m_valids[replace_queue[i]] <=> i > f

StackOfQueue ==
  [i \in 1 .. block_num - FreeCount |-> m_tags[replace_queue[FreeCount + i]]]

Stack == INSTANCE LRUStack WITH
           capacity <- block_num, stack <- StackOfQueue

(***************************************************************************)
(* Every request hits exactly when the stack says so, and moves, loads and *)
(* evicts the tag the stack moves, loads and evicts: the queue of blocks,  *)
(* the scan for a match and the overwriting of the front block together    *)
(* are least-recently-used replacement.                                    *)
(***************************************************************************)
ImplementsLRUStack == Stack!Spec

=============================================================================
