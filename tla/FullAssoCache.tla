--------------------------- MODULE FullAssoCache ---------------------------
(***************************************************************************)
(* class FullAssoCache of labs/src/cacheModel.cpp: a fully associative     *)
(* cache of block_num blocks whose replacement queue is a LinkedLRU.       *)
(*                                                                         *)
(* The blocks live in the arrays m_valids and m_tags of the member inner,  *)
(* a LinearCache of which nothing else is used; replace_queue is the       *)
(* member lru.  The constructor clears m_valids and leaves m_tags          *)
(* uninitialised, so a behaviour may start with any StaleTags in it.       *)
(***************************************************************************)
EXTENDS CacheModel, Words

CONSTANTS
  block_num,          \* number of blocks (a power of two in every lab run)
  m_blksz_log,        \* logarithm of the block size in bytes
  Addrs,              \* the addresses the program accesses
  StaleTags           \* what the memory of m_tags may hold before

ASSUME FullAssoAssumption ==
  /\ block_num \in Nat \ {0}
  /\ m_blksz_log \in Nat
  /\ Addrs \subseteq Word
  /\ StaleTags \subseteq Word

VARIABLES m_valids, m_tags, replace_queue

vars == <<m_valids, m_tags, replace_queue, counters>>

LRU == INSTANCE LinkedLRU WITH count <- block_num

Blocks == LRU!Blocks

getTag(addr) == Shr(addr, m_blksz_log)

Tags == {getTag(a) : a \in Addrs}

Init ==
  /\ m_valids = [b \in Blocks |-> FALSE]
  /\ m_tags \in [Blocks -> StaleTags]
  /\ replace_queue = LRU!InitQueue
  /\ CountersInit

(***************************************************************************)
(* Faulty variants, for the mutation check: a scan that stops one block    *)
(* early, a hit and a miss that do not renew the block.                    *)
(***************************************************************************)
MatchesButLast(tag) ==
  {b \in Blocks : b < block_num - 1 /\ m_valids[b] /\ m_tags[b] = tag}

AccessHitNoRenewal(addr) ==
  /\ \E b \in Blocks : m_valids[b] /\ m_tags[b] = getTag(addr)
  /\ UNCHANGED <<m_valids, m_tags, replace_queue>>

AccessMissNoRenewal(addr) ==
  LET victim == LRU!Front(replace_queue) IN
  /\ \A b \in Blocks : ~(m_valids[b] /\ m_tags[b] = getTag(addr))
  /\ m_valids' = [m_valids EXCEPT ![victim] = TRUE]
  /\ m_tags' = [m_tags EXCEPT ![victim] = getTag(addr)]
  /\ UNCHANGED replace_queue

(***************************************************************************)
(* lookup: the valid blocks holding the tag; the code returns the first.   *)
(***************************************************************************)
Matches(tag) == {b \in Blocks : m_valids[b] /\ m_tags[b] = tag}

FirstMatch(tag) ==
  CHOOSE b \in Matches(tag) : \A c \in Matches(tag) : b <= c

updateReplaceQ(b) == replace_queue' = LRU!Update(replace_queue, b)

(***************************************************************************)
(* The two ways access() returns: a hit only moves the block to the back   *)
(* of the queue; a miss overwrites the block at the front, valid or not,   *)
(* and then moves that one.                                                *)
(***************************************************************************)
AccessHit(addr) ==
  /\ Matches(getTag(addr)) # {}
  /\ updateReplaceQ(FirstMatch(getTag(addr)))
  /\ UNCHANGED <<m_valids, m_tags>>

AccessMiss(addr) ==
  LET victim == LRU!Front(replace_queue) IN
  /\ Matches(getTag(addr)) = {}
  /\ m_valids' = [m_valids EXCEPT ![victim] = TRUE]
  /\ m_tags' = [m_tags EXCEPT ![victim] = getTag(addr)]
  /\ updateReplaceQ(victim)

readReq(addr) ==
  \/ AccessHit(addr) /\ CountRead(TRUE)
  \/ AccessMiss(addr) /\ CountRead(FALSE)

writeReq(addr) ==
  \/ AccessHit(addr) /\ CountWrite(TRUE)
  \/ AccessMiss(addr) /\ CountWrite(FALSE)

Next == \E addr \in Addrs : readReq(addr) \/ writeReq(addr)

Spec == Init /\ [][Next]_vars

-----------------------------------------------------------------------------
(***************************************************************************)
(* The arrays hold flags and words, the queue holds blocks, and the        *)
(* counters are bounded by the requests.                                   *)
(***************************************************************************)
TypeOK ==
  /\ m_valids \in [Blocks -> BOOLEAN]
  /\ m_tags \in [Blocks -> Word]
  /\ replace_queue \in [LRU!Positions -> Blocks]
  /\ CountersTypeOK

(***************************************************************************)
(* The queue holds every block exactly once: find() in LinkedLRU::update   *)
(* never fails and no block is lost to replacement or offered twice,       *)
(* however hits and misses alternate.                                      *)
(***************************************************************************)
QueueIsPermutation == LRU!IsPermutation(replace_queue)

(***************************************************************************)
(* The blocks never filled are the front of the queue.  access() never     *)
(* looks for a free block: that it does not throw a block out while        *)
(* another is free depends on this order.                                  *)
(***************************************************************************)
FreeBlocksFirst ==
  \A i, j \in LRU!Positions :
    i < j /\ m_valids[replace_queue[i]] => m_valids[replace_queue[j]]

(***************************************************************************)
(* A tag is cached in at most one block, so the block whose queue entry a  *)
(* hit renews is the only one with the tag.                                *)
(***************************************************************************)
UniqueTags ==
  \A b, c \in Blocks :
    m_valids[b] /\ m_valids[c] /\ m_tags[b] = m_tags[c] => b = c

(***************************************************************************)
(* The misses counted by readReq and writeReq are the blocks loaded: while *)
(* a block is free, exactly one per valid block; never fewer.              *)
(***************************************************************************)
ValidBlocks == {b \in Blocks : m_valids[b]}

Misses == Requests - Hits

MissesFillBlocks ==
  \/ ValidBlocks = 0 .. Misses - 1
  \/ ValidBlocks = Blocks /\ Misses >= block_num

(***************************************************************************)
(* A step that replaces the tag of a valid block happens only when no      *)
(* block is free.                                                          *)
(***************************************************************************)
EvictOnlyWhenFull ==
  [][(\E b \in Blocks : m_valids[b] /\ m_tags'[b] # m_tags[b])
        => ValidBlocks = Blocks]_vars

(***************************************************************************)
(* The inductive invariant.  That free blocks stay in front needs the      *)
(* queue to be a permutation: update must take away the very block it      *)
(* appends.                                                                *)
(***************************************************************************)
IInv ==
  /\ TypeOK
  /\ QueueIsPermutation
  /\ FreeBlocksFirst
  /\ UniqueTags

=============================================================================
