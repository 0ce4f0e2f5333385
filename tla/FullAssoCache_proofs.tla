------------------------ MODULE FullAssoCache_proofs ------------------------
(***************************************************************************)
(* Proofs about FullAssoCache, for every number of blocks, block size, set *)
(* of addresses and length of the run, and that it implements LRUStack.    *)
(***************************************************************************)
EXTENDS FullAssoCacheLRU, FiniteSetTheorems, SequenceTheorems, TLAPS

USE MaxReqsAssumption, FullAssoAssumption

-----------------------------------------------------------------------------
(***************************************************************************)
(* The replacement queue.                                                  *)
(***************************************************************************)

(***************************************************************************)
(* In a queue that holds every block once, every block has a position and  *)
(* the block at that position is the block.                                *)
(***************************************************************************)
LEMMA PositionOfBlock ==
  ASSUME NEW q, LRU!IsPermutation(q),
         NEW i \in LRU!Positions
  PROVE  LRU!Position(q, q[i]) = i
BY DEF LRU!IsPermutation, LRU!Position, LRU!Positions, LRU!Blocks

(***************************************************************************)
(* LinkedLRU::update moves the block at position p to the back and the     *)
(* blocks behind it up by one.                                             *)
(***************************************************************************)
LEMMA UpdateAtPosition ==
  ASSUME NEW q, LRU!IsPermutation(q),
         NEW p \in LRU!Positions
  PROVE  LRU!Update(q, q[p]) =
           [i \in LRU!Positions |-> IF i < p THEN q[i]
                                    ELSE IF i < block_num THEN q[i + 1]
                                    ELSE q[p]]
BY PositionOfBlock DEF LRU!Update

(***************************************************************************)
(* LinkedLRU::update neither loses a block nor duplicates one.             *)
(***************************************************************************)
LEMMA UpdateIsPermutation ==
  ASSUME NEW q, LRU!IsPermutation(q),
         NEW p \in LRU!Positions
  PROVE  LRU!IsPermutation(LRU!Update(q, q[p]))
<1> DEFINE u == LRU!Update(q, q[p])
<1>1. q \in [1 .. block_num -> LRU!Blocks] /\ p \in 1 .. block_num
  BY DEF LRU!IsPermutation, LRU!Positions
<1>2. u = [i \in 1 .. block_num |-> IF i < p THEN q[i]
                                  ELSE IF i < block_num THEN q[i + 1]
                                  ELSE q[p]]
  BY UpdateAtPosition DEF LRU!Positions
<1> HIDE DEF u
<1>3. u \in [1 .. block_num -> LRU!Blocks]
  <2> SUFFICES ASSUME NEW i \in 1 .. block_num
               PROVE  u[i] \in LRU!Blocks
    BY <1>2
  <2>1. i < block_num => i + 1 \in 1 .. block_num
    OBVIOUS
  <2> QED  BY <2>1, <1>1, <1>2
<1>4. \A i, j \in 1 .. block_num : u[i] = u[j] => i = j
  <2> SUFFICES ASSUME NEW i \in 1 .. block_num, NEW j \in 1 .. block_num,
                      u[i] = u[j]
               PROVE  i = j
    OBVIOUS
  <2>1. \A k, l \in 1 .. block_num : q[k] = q[l] => k = l
    BY DEF LRU!IsPermutation, LRU!Positions
  <2>2. \A k \in 1 .. block_num : k < block_num => k + 1 \in 1 .. block_num
    OBVIOUS
  <2> QED  BY <2>1, <2>2, <1>1, <1>2
<1>5. ASSUME NEW b \in LRU!Blocks
      PROVE  \E i \in 1 .. block_num : u[i] = b
  <2>1. PICK k \in 1 .. block_num : q[k] = b
    BY DEF LRU!IsPermutation, LRU!Positions
  <2>2. CASE k < p
    BY <2>1, <2>2, <1>1, <1>2
  <2>3. CASE k = p
    <3>1. u[block_num] = q[p]
      BY <1>1, <1>2
    <3> QED  BY <3>1, <2>1, <2>3
  <2>4. CASE k > p
    <3>1. k - 1 \in 1 .. block_num /\ ~(k - 1 < p) /\ k - 1 < block_num
          /\ k - 1 + 1 = k
      BY <1>1, <2>4
    <3>2. u[k - 1] = q[k - 1 + 1]
      BY <3>1, <1>2
    <3> QED  BY <3>1, <3>2, <2>1
  <2> QED  BY <1>1, <2>2, <2>3, <2>4
<1> QED  BY <1>3, <1>4, <1>5 DEF LRU!IsPermutation, LRU!Positions, u

-----------------------------------------------------------------------------
(***************************************************************************)
(* The tag of an address is a word.                                        *)
(***************************************************************************)
LEMMA TagIsWord ==
  ASSUME NEW addr \in Addrs
  PROVE  getTag(addr) \in Word
BY DEF getTag, Shr, Word, Bits

(***************************************************************************)
(* A hit finds its block: FirstMatch is a valid block with the tag.        *)
(***************************************************************************)
LEMMA FirstMatchMatches ==
  ASSUME TypeOK, UniqueTags, NEW tag, Matches(tag) # {}
  PROVE  /\ FirstMatch(tag) \in Blocks
         /\ m_valids[FirstMatch(tag)]
         /\ m_tags[FirstMatch(tag)] = tag
<1>1. PICK b \in Matches(tag) : TRUE
  OBVIOUS
<1>2. \A c \in Matches(tag) : c = b
  BY <1>1 DEF Matches, UniqueTags
<1>3. \A c \in Matches(tag) : b <= c
  BY <1>1, <1>2 DEF Matches, Blocks, LRU!Blocks
<1>4. FirstMatch(tag) \in Matches(tag)
  BY <1>1, <1>3 DEF FirstMatch
<1> QED  BY <1>4 DEF Matches

-----------------------------------------------------------------------------
(***************************************************************************)
(* The counters keep their type: a request counts at most one hit.         *)
(***************************************************************************)
LEMMA CountersPreserved ==
  ASSUME CountersTypeOK, NEW hit \in BOOLEAN,
         CountRead(hit) \/ CountWrite(hit)
  PROVE  CountersTypeOK'
BY DEF CountersTypeOK, CountRead, CountWrite, One, Requests

(***************************************************************************)
(* What the inductive invariant says of the cache itself, its counters     *)
(* left out.                                                               *)
(***************************************************************************)
CacheIInv ==
  /\ m_valids \in [Blocks -> BOOLEAN]
  /\ m_tags \in [Blocks -> Word]
  /\ QueueIsPermutation
  /\ FreeBlocksFirst
  /\ UniqueTags

(***************************************************************************)
(* A hit moves a valid block to the back of the queue; the free blocks     *)
(* stay in front of the valid ones.                                        *)
(***************************************************************************)
LEMMA HitPreserves ==
  ASSUME IInv, NEW addr \in Addrs, AccessHit(addr)
  PROVE  CacheIInv'
<1> DEFINE blk == FirstMatch(getTag(addr))
           n == block_num
           q == replace_queue
<1>1. blk \in Blocks /\ m_valids[blk]
  BY FirstMatchMatches DEF IInv, AccessHit
<1> HIDE DEF blk
<1>2. q' = LRU!Update(q, blk) /\ UNCHANGED <<m_valids, m_tags>>
  BY DEF AccessHit, updateReplaceQ, blk
<1>3. LRU!IsPermutation(q)
  BY DEF IInv, QueueIsPermutation
<1>4. PICK p \in LRU!Positions : q[p] = blk
  BY <1>1, <1>3 DEF LRU!IsPermutation, Blocks
<1>5. q' = [i \in LRU!Positions |-> IF i < p THEN q[i]
                                   ELSE IF i < n THEN q[i + 1] ELSE blk]
  <2>1. LRU!Update(q, q[p]) =
          [i \in LRU!Positions |-> IF i < p THEN q[i]
                                   ELSE IF i < n THEN q[i + 1] ELSE q[p]]
    BY <1>3, UpdateAtPosition
  <2> QED  BY <1>2, <1>4, <2>1
<1>6. QueueIsPermutation'
  BY <1>2, <1>3, <1>4, UpdateIsPermutation DEF QueueIsPermutation
<1>7. FreeBlocksFirst'
  <2> SUFFICES ASSUME NEW i \in LRU!Positions, NEW j \in LRU!Positions,
                      i < j, m_valids[q'[i]]
               PROVE  m_valids[q'[j]]
    BY <1>2 DEF FreeBlocksFirst
  <2>1. \A k, l \in LRU!Positions :
          k < l /\ m_valids[q[k]] => m_valids[q[l]]
    BY DEF IInv, FreeBlocksFirst
  <2>2. i \in 1 .. n /\ j \in 1 .. n /\ p \in 1 .. n
    BY <1>4 DEF LRU!Positions
  <2>3. \A k \in 1 .. n : k < n => k + 1 \in LRU!Positions
    BY DEF LRU!Positions
  <2>4. CASE j = n
    BY <1>1, <1>5, <2>2, <2>4
  <2>5. CASE j < n /\ j < p
    BY <1>5, <2>1, <2>2, <2>5
  <2>6. CASE j < n /\ ~(j < p) /\ i < p
    BY <1>5, <2>1, <2>2, <2>3, <2>6
  <2>7. CASE j < n /\ ~(j < p) /\ ~(i < p)
    BY <1>5, <2>1, <2>2, <2>3, <2>7
  <2> QED  BY <2>2, <2>4, <2>5, <2>6, <2>7
<1>8. UniqueTags'
  BY <1>2 DEF IInv, UniqueTags
<1> QED  BY <1>2, <1>6, <1>7, <1>8 DEF CacheIInv, IInv, TypeOK

(***************************************************************************)
(* A miss fills the block at the front of the queue and moves it to the    *)
(* back.  The tag is in no other valid block, or it would have been a hit. *)
(***************************************************************************)
LEMMA MissPreserves ==
  ASSUME IInv, NEW addr \in Addrs, AccessMiss(addr)
  PROVE  CacheIInv'
<1> DEFINE n == block_num
           q == replace_queue
           victim == q[1]
<1>1. /\ 1 \in LRU!Positions
      /\ victim \in Blocks
  BY DEF IInv, TypeOK, LRU!Positions
<1>2. /\ m_valids' = [m_valids EXCEPT ![victim] = TRUE]
      /\ m_tags' = [m_tags EXCEPT ![victim] = getTag(addr)]
      /\ q' = LRU!Update(q, victim)
  BY DEF AccessMiss, updateReplaceQ, LRU!Front
<1>3. LRU!IsPermutation(q)
  BY DEF IInv, QueueIsPermutation
<1>4. q' = [i \in LRU!Positions |-> IF i < n THEN q[i + 1] ELSE victim]
  <2>1. LRU!Update(q, q[1]) =
          [i \in LRU!Positions |-> IF i < 1 THEN q[i]
                                   ELSE IF i < n THEN q[i + 1] ELSE q[1]]
    BY <1>1, <1>3, UpdateAtPosition
  <2> QED  BY <1>2, <2>1 DEF LRU!Positions
<1>5. m_valids' \in [Blocks -> BOOLEAN] /\ m_tags' \in [Blocks -> Word]
  BY <1>1, <1>2, TagIsWord DEF IInv, TypeOK
<1>6. QueueIsPermutation'
  BY <1>1, <1>2, <1>3, UpdateIsPermutation DEF QueueIsPermutation
<1>7. FreeBlocksFirst'
  <2> SUFFICES ASSUME NEW i \in LRU!Positions, NEW j \in LRU!Positions,
                      i < j, m_valids'[q'[i]]
               PROVE  m_valids'[q'[j]]
    BY DEF FreeBlocksFirst
  <2>1. i \in 1 .. n /\ j \in 1 .. n /\ i < n /\ i + 1 \in LRU!Positions
    BY DEF LRU!Positions
  <2>2. q'[i] = q[i + 1] /\ q[i + 1] # victim
    BY <1>1, <1>3, <1>4, <2>1 DEF LRU!IsPermutation
  <2>3. m_valids[q[i + 1]]
    BY <1>2, <2>1, <2>2 DEF IInv, TypeOK
  <2>4. CASE j = n
    <3>1. q'[j] = victim
      BY <1>4, <2>1, <2>4
    <3> QED  BY <1>1, <1>2, <3>1 DEF IInv, TypeOK
  <2>5. CASE j < n
    <3>1. j + 1 \in LRU!Positions /\ q'[j] = q[j + 1]
      BY <1>4, <2>1, <2>5 DEF LRU!Positions
    <3>2. m_valids[q[j + 1]]
      BY <2>1, <2>3, <3>1 DEF IInv, FreeBlocksFirst, LRU!Positions
    <3> QED  BY <1>2, <3>1, <3>2 DEF IInv, TypeOK
  <2> QED  BY <2>1, <2>4, <2>5
<1>8. UniqueTags'
  <2>1. \A b \in Blocks : ~(m_valids[b] /\ m_tags[b] = getTag(addr))
    BY DEF AccessMiss, Matches
  <2> QED  BY <1>1, <1>2, <2>1 DEF IInv, TypeOK, UniqueTags
<1> QED  BY <1>5, <1>6, <1>7, <1>8 DEF CacheIInv

-----------------------------------------------------------------------------
(***************************************************************************)
(* The initial state satisfies the inductive invariant: the queue counts   *)
(* up and no block is valid.                                               *)
(***************************************************************************)
LEMMA InitIInv == Init => IInv
<1> SUFFICES ASSUME Init
             PROVE  IInv
  OBVIOUS
<1>1. replace_queue = [i \in 1 .. block_num |-> i - 1]
  BY DEF Init, LRU!InitQueue, LRU!Positions
<1>2. replace_queue \in [LRU!Positions -> Blocks]
  BY <1>1 DEF LRU!Positions, Blocks, LRU!Blocks
<1>3. TypeOK
  <2>1. CountersTypeOK
    BY DEF Init, CountersInit, CountersTypeOK, Requests
  <2>2. m_tags \in [Blocks -> Word]
    BY DEF Init
  <2> QED  BY <1>2, <2>1, <2>2 DEF Init, TypeOK
<1>4. QueueIsPermutation
  <2>1. ASSUME NEW b \in LRU!Blocks
        PROVE  \E i \in LRU!Positions : replace_queue[i] = b
    <3>1. b + 1 \in 1 .. block_num /\ replace_queue[b + 1] = b
      BY <1>1 DEF LRU!Blocks
    <3> QED  BY <3>1 DEF LRU!Positions
  <2> QED  BY <1>1, <1>2, <2>1
           DEF QueueIsPermutation, LRU!IsPermutation, LRU!Positions, Blocks
<1>5. FreeBlocksFirst /\ UniqueTags
  BY <1>2 DEF Init, FreeBlocksFirst, UniqueTags
<1> QED  BY <1>3, <1>4, <1>5 DEF IInv

(***************************************************************************)
(* Every request keeps the inductive invariant: a hit by HitPreserves, a   *)
(* miss by MissPreserves, and the counters by CountersPreserved.           *)
(***************************************************************************)
LEMMA NextIInv == IInv /\ [Next]_vars => IInv'
<1> SUFFICES ASSUME IInv, [Next]_vars
             PROVE  IInv'
  OBVIOUS
<1>1. ASSUME NEW addr \in Addrs, readReq(addr) \/ writeReq(addr)
      PROVE  IInv'
  <2>1. CacheIInv'
    BY <1>1, HitPreserves, MissPreserves DEF readReq, writeReq
  <2>2. CountersTypeOK'
    BY <1>1, CountersPreserved DEF IInv, TypeOK, readReq, writeReq
  <2>3. replace_queue' \in [LRU!Positions -> Blocks]
    BY <2>1 DEF CacheIInv, QueueIsPermutation, LRU!IsPermutation, Blocks
  <2> QED  BY <2>1, <2>2, <2>3 DEF CacheIInv, IInv, TypeOK
<1>2. CASE UNCHANGED vars
  <2>1. UNCHANGED <<m_valids, m_tags, replace_queue, m_rd_reqs, m_wr_reqs,
                    m_rd_hits, m_wr_hits>>
    BY <1>2 DEF vars, counters
  <2> QED  BY <2>1 DEF IInv, TypeOK, QueueIsPermutation, FreeBlocksFirst,
                       UniqueTags, CountersTypeOK, Requests
<1> QED  BY <1>1, <1>2 DEF Next

(***************************************************************************)
(* The inductive invariant holds of every behaviour of the cache.          *)
(***************************************************************************)
THEOREM InductiveInvariant == Spec => []IInv
BY InitIInv, NextIInv, PTL DEF Spec

(***************************************************************************)
(* Blocks, tags and queue keep their types, and no counter exceeds the     *)
(* requests it counts, in every run of the cache.                          *)
(***************************************************************************)
THEOREM TypeCorrect == Spec => []TypeOK
<1>1. IInv => TypeOK
  BY DEF IInv
<1> QED  BY <1>1, InductiveInvariant, PTL

(***************************************************************************)
(* find() in LinkedLRU::update never fails, whatever the program accesses. *)
(***************************************************************************)
THEOREM QueueAlwaysPermutation == Spec => []QueueIsPermutation
<1>1. IInv => QueueIsPermutation
  BY DEF IInv
<1> QED  BY <1>1, InductiveInvariant, PTL

(***************************************************************************)
(* No two valid blocks ever hold the same tag.                             *)
(***************************************************************************)
THEOREM TagsAlwaysUnique == Spec => []UniqueTags
<1>1. IInv => UniqueTags
  BY DEF IInv
<1> QED  BY <1>1, InductiveInvariant, PTL

(***************************************************************************)
(* No valid block is overwritten while another block is free.              *)
(***************************************************************************)
THEOREM EvictsOnlyWhenFull == Spec => EvictOnlyWhenFull
<1>1. ASSUME IInv, [Next]_vars,
             NEW b \in Blocks, m_valids[b], m_tags'[b] # m_tags[b]
      PROVE  ValidBlocks = Blocks
  <2>1. PICK addr \in Addrs : AccessMiss(addr)
    BY <1>1 DEF Next, vars, readReq, writeReq, AccessHit
  <2>2. b = replace_queue[1]
    BY <1>1, <2>1 DEF AccessMiss, LRU!Front, IInv, TypeOK, LRU!Positions
  <2>3. ASSUME NEW c \in Blocks
        PROVE  m_valids[c]
    <3>1. PICK i \in LRU!Positions : replace_queue[i] = c
      BY <1>1 DEF Blocks, IInv, QueueIsPermutation, LRU!IsPermutation
    <3>2. 1 \in LRU!Positions /\ (i = 1 \/ 1 < i)
      BY DEF LRU!Positions
    <3> QED  BY <1>1, <2>2, <3>1, <3>2 DEF IInv, FreeBlocksFirst
  <2> QED  BY <2>3 DEF ValidBlocks
<1>2. IInv /\ [Next]_vars
        => [(\E b \in Blocks : m_valids[b] /\ m_tags'[b] # m_tags[b])
              => ValidBlocks = Blocks]_vars
  BY <1>1
<1> QED  BY <1>2, InductiveInvariant, PTL DEF Spec, EvictOnlyWhenFull

-----------------------------------------------------------------------------
(***************************************************************************)
(* That blocks fill in the order of their numbers: the free blocks, in     *)
(* front of the queue, are still in the order the constructor gave them.   *)
(***************************************************************************)
FreeBlocksInOrder ==
  \A i \in LRU!Positions :
    i <= block_num - Misses => replace_queue[i] = Misses + i - 1

FillInv == IInv /\ MissesFillBlocks /\ FreeBlocksInOrder

(***************************************************************************)
(* The counters are numbers, and a request is a hit or a miss.             *)
(***************************************************************************)
LEMMA MissesCounted ==
  ASSUME CountersTypeOK
  PROVE  /\ Misses \in Nat
         /\ CountRead(TRUE) \/ CountWrite(TRUE) => Misses' = Misses
         /\ CountRead(FALSE) \/ CountWrite(FALSE) => Misses' = Misses + 1
BY DEF CountersTypeOK, Misses, Requests, Hits, CountRead, CountWrite, One

(***************************************************************************)
(* The free blocks are as many positions as misses are wanting.            *)
(***************************************************************************)
LEMMA ValidByPosition ==
  ASSUME FillInv, NEW i \in LRU!Positions
  PROVE  m_valids[replace_queue[i]] <=> i > block_num - Misses
<1>1. /\ Misses \in Nat
      /\ i \in 1 .. block_num
      /\ replace_queue[i] \in 0 .. block_num - 1
  BY MissesCounted DEF FillInv, IInv, TypeOK, LRU!Positions, Blocks, LRU!Blocks
<1>2. \A b \in 0 .. block_num - 1 : m_valids[b] <=> b < Misses
  BY <1>1 DEF FillInv, MissesFillBlocks, ValidBlocks, Blocks, LRU!Blocks
<1>3. CASE i <= block_num - Misses
  BY <1>1, <1>2, <1>3 DEF FillInv, FreeBlocksInOrder
<1>4. CASE i > block_num - Misses
  <2>1. CASE Misses >= block_num
    BY <1>1, <1>2, <1>4, <2>1
  <2>2. CASE Misses < block_num /\ replace_queue[i] >= Misses
    <3> DEFINE j == replace_queue[i] - Misses + 1
    <3>1. j \in LRU!Positions /\ j <= block_num - Misses /\ j # i
      BY <1>1, <1>4, <2>2 DEF LRU!Positions
    <3>2. replace_queue[j] = replace_queue[i]
      BY <1>1, <3>1 DEF FillInv, FreeBlocksInOrder
    <3> QED  BY <3>1, <3>2 DEF FillInv, IInv, QueueIsPermutation, LRU!IsPermutation
  <2>3. CASE replace_queue[i] < Misses
    BY <1>1, <1>2, <1>4, <2>3
  <2> QED  BY <1>1, <2>1, <2>2, <2>3
<1> QED  BY <1>1, <1>3, <1>4

(***************************************************************************)
(* A hit leaves the free blocks alone: the block it moves is behind them.  *)
(***************************************************************************)
LEMMA HitFills ==
  ASSUME FillInv, NEW addr \in Addrs, AccessHit(addr), Misses' = Misses
  PROVE  MissesFillBlocks' /\ FreeBlocksInOrder'
<1> DEFINE blk == FirstMatch(getTag(addr))
           q == replace_queue
<1>1. blk \in Blocks /\ m_valids[blk]
  BY FirstMatchMatches DEF FillInv, IInv, AccessHit
<1> HIDE DEF blk
<1>2. q' = LRU!Update(q, blk) /\ UNCHANGED m_valids
  BY DEF AccessHit, updateReplaceQ, blk
<1>3. LRU!IsPermutation(q)
  BY DEF FillInv, IInv, QueueIsPermutation
<1>4. PICK p \in LRU!Positions : q[p] = blk
  BY <1>1, <1>3 DEF LRU!IsPermutation, Blocks
<1>5. p > block_num - Misses
  BY <1>1, <1>4, ValidByPosition
<1>6. Misses \in Nat
  BY MissesCounted DEF FillInv, IInv, TypeOK
<1>7. \A i \in LRU!Positions : i < p => q'[i] = q[i]
  <2>1. LRU!Update(q, q[p]) =
          [i \in LRU!Positions |-> IF i < p THEN q[i]
                                   ELSE IF i < block_num THEN q[i + 1] ELSE q[p]]
    BY <1>3, UpdateAtPosition
  <2> QED  BY <1>2, <1>4, <2>1
<1>8. FreeBlocksInOrder'
  BY <1>5, <1>6, <1>7 DEF FillInv, FreeBlocksInOrder, LRU!Positions
<1>9. MissesFillBlocks'
  BY <1>2 DEF FillInv, MissesFillBlocks, ValidBlocks
<1> QED  BY <1>8, <1>9

(***************************************************************************)
(* A miss takes the front of the queue, which is the next free block while *)
(* there is one.                                                           *)
(***************************************************************************)
LEMMA MissFills ==
  ASSUME FillInv, NEW addr \in Addrs, AccessMiss(addr), Misses' = Misses + 1
  PROVE  MissesFillBlocks' /\ FreeBlocksInOrder'
<1> DEFINE n == block_num
           q == replace_queue
           victim == q[1]
<1>1. /\ 1 \in LRU!Positions
      /\ victim \in 0 .. n - 1
      /\ Misses \in Nat
  BY MissesCounted DEF FillInv, IInv, TypeOK, LRU!Positions, Blocks, LRU!Blocks
<1>2. m_valids' = [m_valids EXCEPT ![victim] = TRUE] /\ q' = LRU!Update(q, victim)
  BY DEF AccessMiss, updateReplaceQ, LRU!Front
<1>3. \A i \in 1 .. n : i < n => q'[i] = q[i + 1]
  <2>1. LRU!IsPermutation(q)
    BY DEF FillInv, IInv, QueueIsPermutation
  <2>2. LRU!Update(q, q[1]) =
          [i \in LRU!Positions |-> IF i < 1 THEN q[i]
                                   ELSE IF i < n THEN q[i + 1] ELSE q[1]]
    BY <1>1, <2>1, UpdateAtPosition
  <2> QED  BY <1>2, <2>2 DEF LRU!Positions
<1>4. \A i \in 1 .. n : i <= n - Misses => q[i] = Misses + i - 1
  BY DEF FillInv, FreeBlocksInOrder, LRU!Positions
<1>5. FreeBlocksInOrder'
  <2> SUFFICES ASSUME NEW i \in 1 .. n, i <= n - (Misses + 1)
               PROVE  q'[i] = Misses + 1 + i - 1
    BY DEF FreeBlocksInOrder, LRU!Positions
  <2>1. i < n /\ i + 1 \in 1 .. n /\ i + 1 <= n - Misses
    BY <1>1
  <2> QED  BY <1>1, <1>3, <1>4, <2>1
<1>6. MissesFillBlocks'
  <2>1. ValidBlocks' = ValidBlocks \cup {victim}
    BY <1>1, <1>2 DEF FillInv, IInv, TypeOK, ValidBlocks, Blocks, LRU!Blocks
  <2>2. CASE ValidBlocks = 0 .. Misses - 1 /\ Misses < n
    <3>1. victim = Misses
      BY <1>1, <1>4, <2>2
    <3>2. ValidBlocks' = 0 .. Misses
      BY <1>1, <2>1, <2>2, <3>1
    <3> QED  BY <1>1, <3>2 DEF MissesFillBlocks
  <2>3. CASE ValidBlocks = Blocks /\ Misses >= n
    BY <1>1, <2>1, <2>3 DEF MissesFillBlocks, Blocks, LRU!Blocks
  <2>4. CASE ValidBlocks = 0 .. Misses - 1 /\ Misses >= n
    <3>1. 0 .. Misses - 1 \subseteq 0 .. n - 1
      BY <2>4 DEF ValidBlocks, Blocks, LRU!Blocks
    <3>2. ValidBlocks = Blocks
      BY <1>1, <2>4, <3>1 DEF Blocks, LRU!Blocks
    <3> QED  BY <2>3, <2>4, <3>2
  <2> QED  BY <1>1, <2>2, <2>3, <2>4 DEF FillInv, MissesFillBlocks
<1> QED  BY <1>5, <1>6

(***************************************************************************)
(* The strengthened invariant holds at first and is kept.                  *)
(***************************************************************************)
LEMMA InitFillInv == Init => FillInv
<1>1. Init => Misses = 0
  BY DEF Init, CountersInit, Misses, Requests, Hits
<1>2. Init => MissesFillBlocks /\ FreeBlocksInOrder
  BY <1>1 DEF Init, MissesFillBlocks, ValidBlocks, FreeBlocksInOrder,
              LRU!InitQueue, LRU!Positions
<1> QED  BY <1>2, InitIInv DEF FillInv

(***************************************************************************)
(* Every request keeps the invariant: a hit moves no block between the     *)
(* free and the filled ones, a miss fills the block it finds.              *)
(***************************************************************************)
LEMMA NextFillInv == FillInv /\ [Next]_vars => FillInv'
<1> SUFFICES ASSUME FillInv, [Next]_vars
             PROVE  FillInv'
  OBVIOUS
<1>1. IInv'
  BY NextIInv DEF FillInv
<1>2. ASSUME NEW addr \in Addrs, readReq(addr) \/ writeReq(addr)
      PROVE  MissesFillBlocks' /\ FreeBlocksInOrder'
  <2>1. CountersTypeOK
    BY DEF FillInv, IInv, TypeOK
  <2>2. CASE AccessHit(addr) /\ (CountRead(TRUE) \/ CountWrite(TRUE))
    BY <2>1, <2>2, MissesCounted, HitFills
  <2>3. CASE AccessMiss(addr) /\ (CountRead(FALSE) \/ CountWrite(FALSE))
    BY <2>1, <2>3, MissesCounted, MissFills
  <2> QED  BY <1>2, <2>2, <2>3 DEF readReq, writeReq
<1>3. CASE UNCHANGED vars
  BY <1>1, <1>3 DEF vars, counters, FillInv, MissesFillBlocks, ValidBlocks, Misses,
              Requests, Hits, FreeBlocksInOrder
<1> QED  BY <1>1, <1>2, <1>3 DEF FillInv, Next

(***************************************************************************)
(* The misses counted are the blocks filled, as long as a block is free.   *)
(***************************************************************************)
THEOREM MissesAlwaysFillBlocks == Spec => []MissesFillBlocks
<1>1. FillInv => MissesFillBlocks
  BY DEF FillInv
<1> QED  BY <1>1, InitFillInv, NextFillInv, PTL DEF Spec

-----------------------------------------------------------------------------
(***************************************************************************)
(* FullAssoCacheLRU: the cache implements LRUStack.                        *)
(***************************************************************************)

(***************************************************************************)
(* Moving the element at position p to the end, position by position, is   *)
(* cutting it out and appending it.                                        *)
(***************************************************************************)
LEMMA CutAndAppend ==
  ASSUME NEW S, NEW s \in Seq(S), NEW t \in Seq(S), NEW p \in 1 .. Len(s),
         Len(t) = Len(s),
         \A i \in 1 .. Len(s) :
           t[i] = IF i < p THEN s[i] ELSE IF i < Len(s) THEN s[i + 1] ELSE s[p]
  PROVE  t = Append(SubSeq(s, 1, p - 1) \o SubSeq(s, p + 1, Len(s)), s[p])
<1> DEFINE n == Len(s)
           a == SubSeq(s, 1, p - 1)
           b == SubSeq(s, p + 1, n)
           c == a \o b
<1>1. n \in Nat /\ p \in Nat /\ 1 <= p /\ p <= n
  BY LenProperties
<1>2. a \in Seq(S) /\ Len(a) = p - 1 /\ \A i \in 1 .. p - 1 : a[i] = s[i]
  BY <1>1
<1>3. b \in Seq(S) /\ Len(b) = n - p /\ \A i \in 1 .. n - p : b[i] = s[p + i]
  BY <1>1
<1> HIDE DEF a, b
<1>4. /\ c \in Seq(S) /\ Len(c) = n - 1
      /\ \A i \in 1 .. n - 1 : c[i] = IF i < p THEN s[i] ELSE s[i + 1]
  <2>1. c \in Seq(S) /\ Len(c) = Len(a) + Len(b)
    BY <1>2, <1>3, ConcatProperties
  <2>2. ASSUME NEW i \in 1 .. n - 1
        PROVE  c[i] = IF i < p THEN s[i] ELSE s[i + 1]
    <3>1. c[i] = IF i <= Len(a) THEN a[i] ELSE b[i - Len(a)]
      BY <1>1, <1>2, <1>3, ConcatProperties
    <3>2. CASE i < p
      BY <1>1, <1>2, <3>1, <3>2
    <3>3. CASE i >= p
      <4>1. i - (p - 1) \in 1 .. n - p /\ p + (i - (p - 1)) = i + 1
        BY <1>1, <3>3
      <4> QED  BY <1>1, <1>2, <1>3, <3>1, <3>3, <4>1
    <3> HIDE DEF c
    <3> QED  BY <1>1, <3>2, <3>3
  <2>3. Len(c) = n - 1
    <3>1. Len(a) = p - 1 /\ Len(b) = n - p
      BY <1>2, <1>3
    <3> HIDE DEF c
    <3> QED  BY <1>1, <2>1, <3>1
  <2> HIDE DEF c
  <2> QED  BY <2>1, <2>2, <2>3
<1> HIDE DEF c
<1>5. s[p] \in S
  BY ElementOfSeq
<1>6. /\ Append(c, s[p]) \in Seq(S) /\ Len(Append(c, s[p])) = n
      /\ \A i \in 1 .. n : Append(c, s[p])[i] = IF i < n THEN c[i] ELSE s[p]
  BY <1>1, <1>4, <1>5, AppendProperties
<1>7. \A i \in 1 .. n : t[i] = Append(c, s[p])[i]
  BY <1>1, <1>4, <1>6
<1> QED  BY <1>1, <1>6, <1>7, SeqEqual DEF a, b, c

(***************************************************************************)
(* The number of free blocks, computed from the misses.                    *)
(***************************************************************************)
Wanting == IF Misses < block_num THEN block_num - Misses ELSE 0

(***************************************************************************)
(* Every miss has filled a block while there was a free one.               *)
(***************************************************************************)
LEMMA FreeCountIsWanting ==
  ASSUME FillInv
  PROVE  FreeCount = Wanting /\ Wanting \in 0 .. block_num
<1>1. Misses \in Nat /\ Wanting \in 0 .. block_num
  BY MissesCounted DEF FillInv, IInv, TypeOK, Wanting
<1>2. \A i \in LRU!Positions : m_valids[replace_queue[i]] <=> i > Wanting
  BY <1>1, ValidByPosition DEF Wanting, LRU!Positions
<1> HIDE DEF Wanting
<1>3. ASSUME NEW f \in 0 .. block_num,
             \A i \in LRU!Positions : m_valids[replace_queue[i]] <=> i > f
      PROVE  f = Wanting
  <2>1. CASE f < Wanting
    <3>1. Wanting \in LRU!Positions
      BY <1>1, <2>1 DEF LRU!Positions
    <3> QED  BY <1>1, <1>2, <1>3, <2>1, <3>1
  <2>2. CASE Wanting < f
    <3>1. f \in LRU!Positions
      BY <1>1, <2>2 DEF LRU!Positions
    <3> QED  BY <1>1, <1>2, <1>3, <2>2, <3>1
  <2> QED  BY <1>1, <2>1, <2>2
<1> QED  BY <1>1, <1>2, <1>3 DEF FreeCount

(***************************************************************************)
(* The stack is the sequence of the tags of the valid blocks.              *)
(***************************************************************************)
StackIsTail ==
  /\ Wanting \in 0 .. block_num
  /\ StackOfQueue \in Seq(Word)
  /\ Len(StackOfQueue) = block_num - Wanting
  /\ \A i \in 1 .. block_num - Wanting :
       /\ Wanting + i \in LRU!Positions
       /\ StackOfQueue[i] = m_tags[replace_queue[Wanting + i]]
       /\ m_valids[replace_queue[Wanting + i]]

(***************************************************************************)
(* Under the invariant the stack of the refinement is the filled tail of   *)
(* the queue, a sequence of tags.                                          *)
(***************************************************************************)
LEMMA StackIsSeq == FillInv => StackIsTail
<1> SUFFICES ASSUME FillInv
             PROVE  StackIsTail
  OBVIOUS
<1>1. FreeCount = Wanting /\ Wanting \in 0 .. block_num /\ Misses \in Nat
  BY FreeCountIsWanting, MissesCounted DEF FillInv, IInv, TypeOK
<1>2. ASSUME NEW i \in 1 .. block_num - Wanting
      PROVE  /\ Wanting + i \in LRU!Positions
             /\ m_valids[replace_queue[Wanting + i]]
             /\ m_tags[replace_queue[Wanting + i]] \in Word
  <2>1. Wanting + i \in LRU!Positions /\ Wanting + i > block_num - Misses
    BY <1>1 DEF LRU!Positions, Wanting
  <2>2. replace_queue[Wanting + i] \in Blocks
    BY <2>1 DEF FillInv, IInv, TypeOK
  <2> QED  BY <2>1, <2>2, ValidByPosition DEF FillInv, IInv, TypeOK
<1>3. block_num - Wanting \in Nat
  BY <1>1
<1>4. StackOfQueue = [i \in 1 .. block_num - Wanting |->
                        m_tags[replace_queue[Wanting + i]]]
  BY <1>1 DEF StackOfQueue
<1>5. StackOfQueue \in Seq(Word) /\ Len(StackOfQueue) = block_num - Wanting
  BY <1>2, <1>3, <1>4, IsASeq
<1> QED  BY <1>1, <1>2, <1>4, <1>5 DEF StackIsTail

(***************************************************************************)
(* A hit moves the tag it is for to the end of the stack.                  *)
(***************************************************************************)
LEMMA HitReuses ==
  ASSUME FillInv, StackIsTail, StackIsTail',
         NEW addr \in Addrs, AccessHit(addr), Observed(addr), Misses' = Misses
  PROVE  Stack!Reuse(getTag(addr))
<1> DEFINE blk == FirstMatch(getTag(addr))
           q == replace_queue
           s == StackOfQueue
           n == block_num
           m == block_num - Wanting
<1>1. blk \in Blocks /\ m_valids[blk] /\ m_tags[blk] = getTag(addr)
  BY FirstMatchMatches DEF FillInv, IInv, AccessHit
<1> HIDE DEF blk
<1>2. q' = LRU!Update(q, blk) /\ m_tags' = m_tags /\ Wanting' = Wanting
  BY DEF AccessHit, updateReplaceQ, blk, Wanting
<1>3. LRU!IsPermutation(q)
  BY DEF FillInv, IInv, QueueIsPermutation
<1>4. PICK p \in LRU!Positions : q[p] = blk
  BY <1>1, <1>3 DEF LRU!IsPermutation, Blocks
<1>5. Wanting \in 0 .. n /\ p \in Wanting + 1 .. n
  <2>1. p > n - Misses /\ Misses \in Nat
    BY <1>1, <1>4, ValidByPosition, MissesCounted DEF FillInv, IInv, TypeOK
  <2> QED  BY <2>1 DEF Wanting, LRU!Positions
<1>6. \A i \in LRU!Positions :
        q'[i] = IF i < p THEN q[i] ELSE IF i < n THEN q[i + 1] ELSE q[p]
  <2>1. LRU!Update(q, q[p]) =
          [i \in LRU!Positions |-> IF i < p THEN q[i]
                                   ELSE IF i < n THEN q[i + 1] ELSE q[p]]
    BY <1>3, UpdateAtPosition
  <2> QED  BY <1>2, <1>4, <2>1
<1>7. /\ s \in Seq(Word) /\ Len(s) = m
      /\ \A i \in 1 .. m : s[i] = m_tags[q[Wanting + i]]
  BY DEF StackIsTail
<1>8. /\ s' \in Seq(Word) /\ Len(s') = m
      /\ \A i \in 1 .. m : s'[i] = m_tags[q'[Wanting + i]]
  BY <1>2 DEF StackIsTail
<1> DEFINE k == p - Wanting
<1>9. k \in 1 .. m /\ s[k] = getTag(addr)
  BY <1>1, <1>4, <1>5, <1>7
<1>10. ASSUME NEW i \in 1 .. m
       PROVE  s'[i] = IF i < k THEN s[i] ELSE IF i < m THEN s[i + 1] ELSE s[k]
  <2>1. Wanting + i \in LRU!Positions
    BY <1>5 DEF LRU!Positions
  <2>2. CASE i < k
    <3>1. q'[Wanting + i] = q[Wanting + i]
      BY <1>5, <1>6, <2>1, <2>2
    <3> QED  BY <1>7, <1>8, <2>2, <3>1
  <2>3. CASE i >= k /\ i < m
    <3>1. i + 1 \in 1 .. m /\ Wanting + (i + 1) = (Wanting + i) + 1
      BY <1>5, <2>3
    <3>2. q'[Wanting + i] = q[(Wanting + i) + 1]
      BY <1>5, <1>6, <2>1, <2>3
    <3> QED  BY <1>5, <1>7, <1>8, <2>3, <3>1, <3>2
  <2>4. CASE i >= k /\ i = m
    <3>1. q'[Wanting + i] = q[p]
      BY <1>5, <1>6, <2>1, <2>4
    <3> QED  BY <1>1, <1>4, <1>5, <1>8, <1>9, <2>4, <3>1
  <2> QED  BY <1>5, <2>2, <2>3, <2>4
<1>11. s' = Append(SubSeq(s, 1, k - 1) \o SubSeq(s, k + 1, Len(s)), s[k])
  <2>1. /\ s \in Seq(Word) /\ s' \in Seq(Word) /\ Len(s') = Len(s)
        /\ k \in 1 .. Len(s)
        /\ \A i \in 1 .. Len(s) :
             s'[i] = IF i < k THEN s[i] ELSE IF i < Len(s) THEN s[i + 1] ELSE s[k]
    BY <1>7, <1>8, <1>9, <1>10
  <2> HIDE DEF s, k
  <2> QED  BY <2>1, CutAndAppend
<1>12. DOMAIN s = 1 .. m
  BY <1>7, LenProperties
<1> QED  BY <1>9, <1>11, <1>12 DEF Stack!Reuse, Stack!Without, Observed

(***************************************************************************)
(* A miss pushes its tag, and the least recent one goes when no block is   *)
(* free.                                                                   *)
(***************************************************************************)
LEMMA MissLoads ==
  ASSUME FillInv, StackIsTail, StackIsTail',
         NEW addr \in Addrs, AccessMiss(addr), Observed(addr), Misses' = Misses + 1
  PROVE  Stack!Load(getTag(addr))
<1> DEFINE n == block_num
           q == replace_queue
           s == StackOfQueue
           m == n - Wanting
           tag == getTag(addr)
<1>1. /\ 1 \in LRU!Positions /\ n \in Nat /\ n >= 1
      /\ Misses \in Nat /\ Wanting \in 0 .. n
      /\ Wanting' = IF Wanting > 0 THEN Wanting - 1 ELSE 0
  BY MissesCounted DEF FillInv, IInv, TypeOK, LRU!Positions, Wanting
<1>2. m_tags' = [m_tags EXCEPT ![q[1]] = tag] /\ q' = LRU!Update(q, q[1])
  BY DEF AccessMiss, updateReplaceQ, LRU!Front
<1>3. \A i \in LRU!Positions : q'[i] = IF i < n THEN q[i + 1] ELSE q[1]
  <2>1. LRU!IsPermutation(q)
    BY DEF FillInv, IInv, QueueIsPermutation
  <2>2. LRU!Update(q, q[1]) =
          [i \in LRU!Positions |-> IF i < 1 THEN q[i]
                                   ELSE IF i < n THEN q[i + 1] ELSE q[1]]
    BY <1>1, <2>1, UpdateAtPosition
  <2> QED  BY <1>2, <2>2 DEF LRU!Positions
<1>4. \A i \in LRU!Positions :
        i < n => m_tags'[q'[i]] = m_tags[q[i + 1]]
  <2> SUFFICES ASSUME NEW i \in LRU!Positions, i < n
               PROVE  m_tags'[q'[i]] = m_tags[q[i + 1]]
    OBVIOUS
  <2>1. i + 1 \in LRU!Positions /\ i + 1 # 1
    BY DEF LRU!Positions
  <2>2. q[i + 1] \in Blocks /\ q[i + 1] # q[1]
    BY <1>1, <2>1 DEF FillInv, IInv, TypeOK, QueueIsPermutation, LRU!IsPermutation
  <2> QED  BY <1>2, <1>3, <2>2 DEF FillInv, IInv, TypeOK
<1>5. n \in LRU!Positions /\ m_tags'[q'[n]] = tag
  BY <1>1, <1>2, <1>3 DEF FillInv, IInv, TypeOK, LRU!Positions
<1>6. /\ s \in Seq(Word) /\ Len(s) = m
      /\ \A i \in 1 .. m : s[i] = m_tags[q[Wanting + i]]
      /\ \A i \in 1 .. m : m_valids[q[Wanting + i]] /\ Wanting + i \in LRU!Positions
  BY DEF StackIsTail
<1>7. /\ s' \in Seq(Word) /\ Len(s') = n - Wanting'
      /\ \A i \in 1 .. n - Wanting' : s'[i] = m_tags'[q'[Wanting' + i]]
  BY DEF StackIsTail
<1>8. tag \notin Stack!Held
  <2> SUFFICES ASSUME NEW i \in DOMAIN s, s[i] = tag
               PROVE  FALSE
    BY DEF Stack!Held
  <2>1. i \in 1 .. m
    BY <1>6, LenProperties
  <2>2. q[Wanting + i] \in Blocks
    BY <1>6, <2>1 DEF FillInv, IInv, TypeOK
  <2> QED  BY <1>6, <2>1, <2>2 DEF AccessMiss, Matches
<1>9. tag \in Word
  BY TagIsWord
<1> HIDE DEF s, tag
<1>10. CASE Wanting > 0
  <2> DEFINE u == Append(s, tag)
  <2>1. /\ u \in Seq(Word) /\ Len(u) = m + 1
        /\ \A i \in 1 .. m : u[i] = s[i]
        /\ u[m + 1] = tag
    BY <1>6, <1>9, AppendProperties
  <2> HIDE DEF u
  <2>2. n - Wanting' = m + 1 /\ Wanting' = Wanting - 1
    BY <1>1, <1>10
  <2>3. ASSUME NEW i \in 1 .. m + 1
        PROVE  s'[i] = u[i]
    <3>1. CASE i = m + 1
      BY <1>1, <1>5, <1>7, <2>1, <2>2, <3>1
    <3>2. CASE i \in 1 .. m
      <4>1. Wanting' + i \in LRU!Positions /\ Wanting' + i < n
            /\ (Wanting' + i) + 1 = Wanting + i
        BY <1>1, <2>2, <3>2 DEF LRU!Positions
      <4>2. s'[i] = m_tags'[q'[Wanting' + i]]
        BY <1>7, <2>2
      <4>3. m_tags'[q'[Wanting' + i]] = m_tags[q[Wanting + i]]
        BY <1>4, <4>1
      <4> QED  BY <1>6, <2>1, <3>2, <4>2, <4>3
    <3> QED  BY <1>1, <3>1, <3>2
  <2>4. s' = u
    BY <1>7, <2>1, <2>2, <2>3, SeqEqual
  <2>5. Len(s) < n
    BY <1>1, <1>6, <1>10
  <2> QED  BY <1>8, <2>4, <2>5 DEF Stack!Load, Observed, s, tag, u
<1>11. CASE Wanting = 0
  <2> DEFINE t == Tail(s)
             u == Append(t, tag)
  <2>1. Len(s) = n /\ n - Wanting' = n /\ Wanting' = 0 /\ s # <<>>
    BY <1>1, <1>6, <1>11, EmptySeq
  <2>2. /\ t \in Seq(Word) /\ Len(t) = n - 1
        /\ \A i \in 1 .. n - 1 : t[i] = s[i + 1]
    BY <1>6, <2>1, HeadTailProperties
  <2> HIDE DEF t
  <2>3. /\ u \in Seq(Word) /\ Len(u) = n
        /\ \A i \in 1 .. n - 1 : u[i] = t[i]
        /\ u[n] = tag
    BY <1>1, <1>9, <2>2, AppendProperties
  <2> HIDE DEF u
  <2>4. ASSUME NEW i \in 1 .. n
        PROVE  s'[i] = u[i]
    <3>1. CASE i = n
      BY <1>1, <1>5, <1>7, <2>1, <2>3, <3>1
    <3>2. CASE i \in 1 .. n - 1
      <4>1. i \in LRU!Positions /\ i < n /\ i + 1 \in 1 .. m
            /\ Wanting' + i = i /\ Wanting + (i + 1) = i + 1
        BY <1>1, <1>11, <2>1, <3>2 DEF LRU!Positions
      <4>2. s'[i] = m_tags'[q'[i]] /\ s[i + 1] = m_tags[q[i + 1]]
        BY <1>6, <1>7, <2>1, <4>1
      <4> QED  BY <1>4, <2>2, <2>3, <3>2, <4>1, <4>2
    <3> QED  BY <1>1, <3>1, <3>2
  <2>5. s' = u
    BY <1>7, <2>1, <2>3, <2>4, SeqEqual
  <2> QED  BY <1>1, <1>8, <2>1, <2>5 DEF Stack!Load, Observed, s, t, u, tag
<1> QED  BY <1>1, <1>10, <1>11

(***************************************************************************)
(* The cache implements least-recently-used replacement: a request hits,   *)
(* loads and evicts exactly as the stack of the tags accessed last does,   *)
(* for every number of blocks and every program.                           *)
(***************************************************************************)
THEOREM LRUStackImplemented == ObservedSpec => ImplementsLRUStack
<1>1. ObservedInit => FillInv /\ Stack!Init
  <2> SUFFICES ASSUME ObservedInit
               PROVE  FillInv /\ Stack!Init
    OBVIOUS
  <2>1. FillInv
    BY InitFillInv DEF ObservedInit
  <2>2. Misses = 0
    BY DEF ObservedInit, Init, CountersInit, Misses, Requests, Hits
  <2>3. Len(StackOfQueue) = 0 /\ StackOfQueue \in Seq(Word)
    BY <2>1, <2>2, StackIsSeq DEF StackIsTail, Wanting
  <2>4. StackOfQueue = <<>>
    BY <2>3, EmptySeq
  <2> QED  BY <2>1, <2>4 DEF ObservedInit, Init, CountersInit, Stack!Init, Stack!CountersInit
<1>2. FillInv /\ [ObservedNext]_<<vars, accessed>> => FillInv'
  BY NextFillInv DEF ObservedNext, Next, vars
<1>3. StackIsTail /\ StackIsTail' /\ FillInv /\ [ObservedNext]_<<vars, accessed>>
        => [Stack!Next]_<<StackOfQueue, accessed, Stack!counters>>
  <2> SUFFICES ASSUME StackIsTail, StackIsTail', FillInv,
                      [ObservedNext]_<<vars, accessed>>
               PROVE  [Stack!Next]_<<StackOfQueue, accessed, Stack!counters>>
    OBVIOUS
  <2>1. CountersTypeOK
    BY DEF FillInv, IInv, TypeOK
  <2>2. ASSUME NEW addr \in Addrs, readReq(addr) \/ writeReq(addr), Observed(addr)
        PROVE  Stack!Next
    <3>1. getTag(addr) \in Tags
      BY DEF Tags
    <3>2. CASE AccessHit(addr) /\ (CountRead(TRUE) \/ CountWrite(TRUE))
      <4>1. Stack!Reuse(getTag(addr))
        BY <2>1, <2>2, <3>2, MissesCounted, HitReuses
      <4>2. Stack!CountRead(TRUE) \/ Stack!CountWrite(TRUE)
        BY <3>2 DEF CountRead, CountWrite, Stack!CountRead, Stack!CountWrite,
                    Requests, Stack!Requests, One, Stack!One
      <4> QED  BY <3>1, <4>1, <4>2 DEF Stack!Next
    <3>3. CASE AccessMiss(addr) /\ (CountRead(FALSE) \/ CountWrite(FALSE))
      <4>1. Stack!Load(getTag(addr))
        BY <2>1, <2>2, <3>3, MissesCounted, MissLoads
      <4>2. Stack!CountRead(FALSE) \/ Stack!CountWrite(FALSE)
        BY <3>3 DEF CountRead, CountWrite, Stack!CountRead, Stack!CountWrite,
                    Requests, Stack!Requests, One, Stack!One
      <4> QED  BY <3>1, <4>1, <4>2 DEF Stack!Next
    <3> QED  BY <2>2, <3>2, <3>3 DEF readReq, writeReq
  <2>3. CASE UNCHANGED <<vars, accessed>>
    <3>1. FreeCount' = FreeCount
      BY <2>3 DEF vars, FreeCount
    <3> QED  BY <2>3, <3>1 DEF vars, counters, Stack!counters, StackOfQueue
  <2> QED  BY <2>2, <2>3 DEF ObservedNext
<1> QED
  BY <1>1, <1>2, <1>3, StackIsSeq, PTL
  DEF ObservedSpec, ImplementsLRUStack, Stack!Spec

-----------------------------------------------------------------------------
(***************************************************************************)
(* What an observer of the tags accessed knows of the blocks, whatever the *)
(* tags are: for each tag seen, the other tags seen after it.              *)
(***************************************************************************)
SeenAfter(seen, tag) ==
  [t \in DOMAIN seen \cup {tag} |-> IF t = tag THEN {} ELSE seen[t] \cup {tag}]

(***************************************************************************)
(* valid and held are the flags and the tags in the order of a queue of n. *)
(* What follows a tag in the queue is what was seen after it; a tag seen   *)
(* that is not held was followed by n others.                              *)
(***************************************************************************)
Recency(n, valid, held, seen) ==
  /\ \A i \in 1 .. n :
       valid[i] => /\ held[i] \in DOMAIN seen
                   /\ seen[held[i]] = {held[j] : j \in i + 1 .. n}
  /\ \A t \in DOMAIN seen :
       (\A i \in 1 .. n : ~(valid[i] /\ held[i] = t))
         => \A i \in 1 .. n : valid[i] /\ held[i] \in seen[t]

(***************************************************************************)
(* Moving a tag to the back of the queue, from where it is or from the     *)
(* front when it is not held, keeps that.                                  *)
(***************************************************************************)
LEMMA RenewalKeepsRecency ==
  ASSUME NEW n \in Nat, NEW p \in 1 .. n, NEW tag,
         NEW valid, NEW held, NEW seen, NEW valid2, NEW held2,
         \A i, j \in 1 .. n : i < j /\ valid[i] => valid[j],
         \A i, j \in 1 .. n : valid[i] /\ valid[j] /\ held[i] = held[j] => i = j,
         \/ valid[p] /\ held[p] = tag
         \/ p = 1 /\ \A i \in 1 .. n : ~(valid[i] /\ held[i] = tag),
         \A i \in 1 .. n :
           IF i < p THEN (valid2[i] <=> valid[i]) /\ held2[i] = held[i]
           ELSE IF i < n THEN (valid2[i] <=> valid[i + 1]) /\ held2[i] = held[i + 1]
           ELSE valid2[i] /\ held2[i] = tag,
         Recency(n, valid, held, seen)
  PROVE  Recency(n, valid2, held2, SeenAfter(seen, tag))
<1> DEFINE seen2 == SeenAfter(seen, tag)
<1>1. /\ tag \in DOMAIN seen2 /\ seen2[tag] = {}
      /\ \A t \in DOMAIN seen : t \in DOMAIN seen2
                                 /\ (t # tag => seen2[t] = seen[t] \cup {tag})
      /\ \A t \in DOMAIN seen2 : t = tag \/ t \in DOMAIN seen
  BY DEF SeenAfter
<1> HIDE DEF seen2
<1>2. valid2[n] /\ held2[n] = tag
  OBVIOUS
<1>3. ASSUME NEW i \in 1 .. n, valid2[i]
      PROVE  held2[i] \in DOMAIN seen2 /\ seen2[held2[i]] = {held2[j] : j \in i + 1 .. n}
  <2>1. CASE i < p
    <3>1. valid[i] /\ held[i] = held2[i] /\ valid[p] /\ held[p] = tag
      BY <1>3, <2>1
    <3>2. held[i] # tag
      BY <2>1, <3>1
    <3>3. held[i] \in DOMAIN seen /\ seen[held[i]] = {held[j] : j \in i + 1 .. n}
      BY <3>1 DEF Recency
    <3>4. tag \in {held[j] : j \in i + 1 .. n}
      BY <2>1, <3>1
    <3>5. {held2[j] : j \in i + 1 .. n} = {held[j] : j \in i + 1 .. n}
      <4>1. ASSUME NEW j \in i + 1 .. n
            PROVE  held2[j] \in {held[k] : k \in i + 1 .. n}
        <5>1. CASE j < p
          BY <5>1
        <5>2. CASE j >= p /\ j < n
          <6>1. j + 1 \in i + 1 .. n /\ held2[j] = held[j + 1]
            BY <5>2
          <6> QED  BY <6>1
        <5>3. CASE j >= p /\ j = n
          BY <1>2, <3>4, <5>3
        <5> QED  BY <5>1, <5>2, <5>3
      <4>2. ASSUME NEW j \in i + 1 .. n
            PROVE  held[j] \in {held2[k] : k \in i + 1 .. n}
        <5>1. CASE j < p
          BY <5>1
        <5>2. CASE j = p
          <6>1. n \in i + 1 .. n /\ held2[n] = held[j]
            BY <1>2, <3>1, <5>2
          <6> QED  BY <6>1
        <5>3. CASE j > p
          <6>1. j - 1 \in i + 1 .. n /\ held2[j - 1] = held[j]
            BY <2>1, <5>3
          <6> QED  BY <6>1
        <5> QED  BY <5>1, <5>2, <5>3
      <4> QED  BY <4>1, <4>2
    <3>6. seen2[held[i]] = seen[held[i]] \cup {tag}
      BY <1>1, <3>2, <3>3
    <3>7. seen2[held[i]] = {held2[j] : j \in i + 1 .. n}
      BY <3>3, <3>4, <3>5, <3>6
    <3> QED  BY <1>1, <3>1, <3>3, <3>7
  <2>2. CASE i >= p /\ i < n
    <3>1. i + 1 \in 1 .. n /\ valid[i + 1] /\ held2[i] = held[i + 1]
      BY <1>3, <2>2
    <3>2. held[i + 1] # tag
      BY <2>2, <3>1
    <3>3. /\ held[i + 1] \in DOMAIN seen
          /\ seen[held[i + 1]] = {held[j] : j \in (i + 1) + 1 .. n}
      BY <3>1 DEF Recency
    <3>4. {held2[j] : j \in i + 1 .. n} = {held[j] : j \in (i + 1) + 1 .. n} \cup {tag}
      <4>1. ASSUME NEW j \in i + 1 .. n
            PROVE  held2[j] \in {held[k] : k \in (i + 1) + 1 .. n} \cup {tag}
        <5>1. CASE j < n
          <6>1. j + 1 \in (i + 1) + 1 .. n /\ held2[j] = held[j + 1]
            BY <2>2, <5>1
          <6> QED  BY <6>1
        <5>2. CASE j = n
          BY <1>2, <5>2
        <5> QED  BY <5>1, <5>2
      <4>2. ASSUME NEW j \in (i + 1) + 1 .. n
            PROVE  held[j] \in {held2[k] : k \in i + 1 .. n}
        <5>1. j - 1 \in i + 1 .. n /\ held2[j - 1] = held[j]
          BY <2>2
        <5> QED  BY <5>1
      <4>3. n \in i + 1 .. n
        BY <2>2
      <4> QED  BY <1>2, <4>1, <4>2, <4>3
    <3> QED  BY <1>1, <3>1, <3>2, <3>3, <3>4
  <2>3. CASE i = n
    <3>1. i + 1 .. n = {}
      BY <2>3
    <3> QED  BY <1>1, <1>2, <2>3, <3>1
  <2> QED  BY <2>1, <2>2, <2>3
<1>4. ASSUME NEW t \in DOMAIN seen2,
             \A i \in 1 .. n : ~(valid2[i] /\ held2[i] = t),
             NEW i \in 1 .. n
      PROVE  valid2[i] /\ held2[i] \in seen2[t]
  <2>1. t # tag /\ t \in DOMAIN seen /\ seen2[t] = seen[t] \cup {tag}
    BY <1>1, <1>2, <1>4
  <2>2. \A j \in 1 .. n : j # p => ~(valid[j] /\ held[j] = t)
    <3> SUFFICES ASSUME NEW j \in 1 .. n, j # p, valid[j], held[j] = t
                 PROVE  FALSE
      OBVIOUS
    <3>1. CASE j < p
      BY <1>4, <3>1
    <3>2. CASE j > p
      <4>1. j - 1 \in 1 .. n /\ j - 1 >= p /\ j - 1 < n /\ (j - 1) + 1 = j
        BY <3>2
      <4>2. valid2[j - 1] /\ held2[j - 1] = t
        BY <4>1
      <4> QED  BY <1>4, <4>1, <4>2
    <3> QED  BY <3>1, <3>2
  <2>3. \A j \in 1 .. n : j # p => valid[j] /\ held[j] \in seen[t]
    <3>1. CASE valid[p] /\ held[p] = t
      <4>1. p = 1
        BY <2>1, <3>1
      <4>2. seen[t] = {held[j] : j \in 1 + 1 .. n}
        BY <3>1, <4>1 DEF Recency
      <4> QED  BY <3>1, <4>1, <4>2
    <3>2. CASE ~(valid[p] /\ held[p] = t)
      BY <2>1, <2>2, <3>2 DEF Recency
    <3> QED  BY <3>1, <3>2
  <2>4. CASE i < p
    BY <2>1, <2>3, <2>4
  <2>5. CASE i >= p /\ i < n
    <3>1. i + 1 \in 1 .. n /\ i + 1 # p
      BY <2>5
    <3> QED  BY <2>1, <2>3, <2>5, <3>1
  <2>6. CASE i = n
    BY <1>2, <2>1, <2>6
  <2> QED  BY <2>4, <2>5, <2>6
<1> QED  BY <1>3, <1>4 DEF Recency, seen2

(***************************************************************************)
(* The flags and tags of the cache in the order of its queue, and an       *)
(* observer that has seen finitely many tags.                              *)
(***************************************************************************)
QueueRecency(seen) ==
  Recency(block_num,
          [i \in LRU!Positions |-> m_valids[replace_queue[i]]],
          [i \in LRU!Positions |-> m_tags[replace_queue[i]]],
          seen)

SeenTypeOK(seen) ==
  IsFiniteSet(DOMAIN seen) /\ \A t \in DOMAIN seen : seen[t] \subseteq DOMAIN seen

(***************************************************************************)
(* The observer's record of the tags seen keeps its type.                  *)
(***************************************************************************)
LEMMA SeenAfterTypeOK ==
  ASSUME NEW seen, SeenTypeOK(seen), NEW tag
  PROVE  SeenTypeOK(SeenAfter(seen, tag))
<1>1. DOMAIN SeenAfter(seen, tag) = DOMAIN seen \cup {tag}
  BY DEF SeenAfter
<1>2. IsFiniteSet(DOMAIN seen \cup {tag})
  BY FS_AddElement DEF SeenTypeOK
<1> QED  BY <1>1, <1>2 DEF SeenTypeOK, SeenAfter

(***************************************************************************)
(* Every access, hit or miss, renews its tag in the queue.                 *)
(***************************************************************************)
LEMMA AccessKeepsRecency ==
  ASSUME IInv, NEW addr \in Addrs, AccessHit(addr) \/ AccessMiss(addr),
         NEW seen, QueueRecency(seen)
  PROVE  QueueRecency(SeenAfter(seen, getTag(addr)))'
<1> DEFINE n == block_num
           q == replace_queue
           tag == getTag(addr)
           valid == [i \in LRU!Positions |-> m_valids[q[i]]]
           held == [i \in LRU!Positions |-> m_tags[q[i]]]
<1>1. LRU!IsPermutation(q) /\ LRU!Positions = 1 .. n /\ n \in Nat
  BY DEF IInv, QueueIsPermutation, LRU!Positions
<1>2. /\ \A i, j \in 1 .. n : i < j /\ valid[i] => valid[j]
      /\ \A i, j \in 1 .. n : valid[i] /\ valid[j] /\ held[i] = held[j] => i = j
  BY <1>1 DEF IInv, TypeOK, FreeBlocksFirst, UniqueTags, LRU!IsPermutation
<1>3. PICK p \in 1 .. n :
        /\ \/ valid[p] /\ held[p] = tag
           \/ p = 1 /\ \A i \in 1 .. n : ~(valid[i] /\ held[i] = tag)
        /\ q' = LRU!Update(q, q[p])
        /\ m_valids'[q[p]] /\ m_tags'[q[p]] = tag
        /\ \A b \in Blocks : b # q[p] => /\ m_valids'[b] <=> m_valids[b]
                                         /\ m_tags'[b] = m_tags[b]
  <2>1. CASE AccessHit(addr)
    <3> DEFINE blk == FirstMatch(tag)
    <3>1. blk \in Blocks /\ m_valids[blk] /\ m_tags[blk] = tag
      BY <2>1, FirstMatchMatches DEF IInv, AccessHit
    <3>2. q' = LRU!Update(q, blk) /\ UNCHANGED <<m_valids, m_tags>>
      BY <2>1 DEF AccessHit, updateReplaceQ
    <3> HIDE DEF blk
    <3>3. PICK p \in 1 .. n : q[p] = blk
      BY <1>1, <3>1 DEF LRU!IsPermutation, Blocks
    <3> QED  BY <1>1, <3>1, <3>2, <3>3
  <2>2. CASE AccessMiss(addr)
    <3>1. 1 \in 1 .. n /\ q[1] \in Blocks
      BY <1>1 DEF IInv, TypeOK
    <3>2. \A i \in 1 .. n : ~(valid[i] /\ held[i] = tag)
      BY <1>1, <2>2 DEF AccessMiss, Matches, IInv, TypeOK
    <3>3. /\ m_valids' = [m_valids EXCEPT ![q[1]] = TRUE]
          /\ m_tags' = [m_tags EXCEPT ![q[1]] = tag]
          /\ q' = LRU!Update(q, q[1])
      BY <2>2 DEF AccessMiss, updateReplaceQ, LRU!Front
    <3> HIDE DEF valid, held
    <3> QED  BY <3>1, <3>2, <3>3 DEF IInv, TypeOK
  <2> QED  BY <2>1, <2>2
<1>4. \A i \in 1 .. n :
        q'[i] = IF i < p THEN q[i] ELSE IF i < n THEN q[i + 1] ELSE q[p]
  <2>1. LRU!Update(q, q[p]) =
          [i \in LRU!Positions |-> IF i < p THEN q[i]
                                   ELSE IF i < n THEN q[i + 1] ELSE q[p]]
    BY <1>1, UpdateAtPosition
  <2> QED  BY <1>1, <1>3, <2>1
<1>5. \A i \in 1 .. n : i # p => /\ q[i] \in Blocks
                                 /\ m_valids'[q[i]] <=> m_valids[q[i]]
                                 /\ m_tags'[q[i]] = m_tags[q[i]]
  BY <1>1, <1>3 DEF LRU!IsPermutation, Blocks
<1>6. ASSUME NEW i \in 1 .. n
      PROVE  IF i < p THEN (valid'[i] <=> valid[i]) /\ held'[i] = held[i]
             ELSE IF i < n THEN (valid'[i] <=> valid[i + 1]) /\ held'[i] = held[i + 1]
             ELSE valid'[i] /\ held'[i] = tag
  <2>1. (valid'[i] <=> m_valids'[q'[i]]) /\ held'[i] = m_tags'[q'[i]]
    BY <1>1
  <2>2. \A j \in 1 .. n : (valid[j] <=> m_valids[q[j]]) /\ held[j] = m_tags[q[j]]
    BY <1>1
  <2> HIDE DEF valid, held
  <2>3. CASE i < p
    <3>1. q'[i] = q[i] /\ i # p
      BY <1>4, <2>3
    <3>2. (m_valids'[q[i]] <=> m_valids[q[i]]) /\ m_tags'[q[i]] = m_tags[q[i]]
      BY <1>5, <3>1
    <3>3. (valid'[i] <=> m_valids'[q[i]]) /\ held'[i] = m_tags'[q[i]]
      BY <2>1, <3>1
    <3>4. (valid[i] <=> m_valids[q[i]]) /\ held[i] = m_tags[q[i]]
      BY <2>2, <3>1
    <3>5. (valid'[i] <=> valid[i]) /\ held'[i] = held[i]
      BY <3>2, <3>3, <3>4
    <3> QED  BY <2>3, <3>5
  <2>4. CASE i >= p /\ i < n
    <3>1. q'[i] = q[i + 1] /\ i + 1 # p /\ i + 1 \in 1 .. n
      BY <1>4, <2>4
    <3>2. (m_valids'[q[i + 1]] <=> m_valids[q[i + 1]]) /\ m_tags'[q[i + 1]] = m_tags[q[i + 1]]
      BY <1>5, <3>1
    <3>3. (valid'[i] <=> m_valids'[q[i + 1]]) /\ held'[i] = m_tags'[q[i + 1]]
      BY <2>1, <3>1
    <3>4. (valid[i + 1] <=> m_valids[q[i + 1]]) /\ held[i + 1] = m_tags[q[i + 1]]
      BY <2>2, <3>1
    <3>5. (valid'[i] <=> valid[i + 1]) /\ held'[i] = held[i + 1]
      BY <3>2, <3>3, <3>4
    <3> QED  BY <2>4, <3>5
  <2>5. CASE i >= p /\ i = n
    <3>1. q'[i] = q[p]
      BY <1>4, <2>5
    <3> QED  BY <1>3, <2>1, <2>5, <3>1
  <2> QED  BY <2>3, <2>4, <2>5
<1>7. Recency(n, valid, held, seen)
  BY DEF QueueRecency
<1> HIDE DEF valid, held, tag
<1>8. Recency(n, valid', held', SeenAfter(seen, tag))
  BY <1>1, <1>2, <1>3, <1>6, <1>7, RenewalKeepsRecency
<1> QED  BY <1>8 DEF QueueRecency, valid, held, tag

(***************************************************************************)
(* Then the cache holds exactly the tags after which fewer than block_num  *)
(* others were seen.                                                       *)
(***************************************************************************)
LEMMA RecencyIsExact ==
  ASSUME IInv, NEW seen, SeenTypeOK(seen), QueueRecency(seen)
  PROVE  {m_tags[b] : b \in ValidBlocks} =
           {t \in DOMAIN seen : Cardinality(seen[t]) < block_num}
<1> DEFINE n == block_num
           valid == [i \in LRU!Positions |-> m_valids[replace_queue[i]]]
           held == [i \in LRU!Positions |-> m_tags[replace_queue[i]]]
           Held == {m_tags[b] : b \in ValidBlocks}
<1>1. LRU!IsPermutation(replace_queue) /\ LRU!Positions = 1 .. n /\ n \in Nat /\ n > 0
  BY DEF IInv, QueueIsPermutation, LRU!Positions
<1>2. \A t : t \in Held <=> \E i \in 1 .. n : valid[i] /\ held[i] = t
  <2>1. \A i \in 1 .. n : replace_queue[i] \in Blocks
    BY <1>1 DEF LRU!IsPermutation, Blocks
  <2>2. \A b \in Blocks : \E i \in 1 .. n : replace_queue[i] = b
    BY <1>1 DEF LRU!IsPermutation, Blocks
  <2> QED  BY <1>1, <2>1, <2>2 DEF ValidBlocks
<1>3. \A i, j \in 1 .. n : valid[i] /\ valid[j] /\ held[i] = held[j] => i = j
  BY <1>1 DEF IInv, TypeOK, UniqueTags, LRU!IsPermutation
<1>4. Recency(n, valid, held, seen)
  BY DEF QueueRecency
<1> HIDE DEF valid, held, Held
<1>5. ASSUME NEW i \in 1 .. n, valid[i]
      PROVE  held[i] \in DOMAIN seen /\ Cardinality(seen[held[i]]) < n
  <2>1. held[i] \in DOMAIN seen /\ seen[held[i]] = {held[j] : j \in i + 1 .. n}
    BY <1>4, <1>5 DEF Recency
  <2> DEFINE f == [j \in i + 1 .. n |-> held[j]]
  <2>2. f \in Surjection(i + 1 .. n, seen[held[i]])
    BY <2>1 DEF Surjection
  <2>3. IsFiniteSet(i + 1 .. n) /\ Cardinality(i + 1 .. n) < n
    <3>1. i + 1 \in Int /\ n \in Int
      BY <1>1
    <3>2. IsFiniteSet(i + 1 .. n) /\ Cardinality(i + 1 .. n) =
            IF i + 1 > n THEN 0 ELSE n - (i + 1) + 1
      BY <3>1, FS_Interval
    <3>3. CASE i + 1 > n
      BY <1>1, <3>2, <3>3
    <3>4. CASE ~(i + 1 > n)
      BY <1>1, <3>2, <3>4
    <3> QED  BY <3>3, <3>4
  <2>4. Cardinality(seen[held[i]]) \in Nat
    BY <2>2, <2>3, FS_Surjection, FS_CardinalityType
  <2>5. Cardinality(i + 1 .. n) \in Nat
    BY <2>3, FS_CardinalityType
  <2>6. Cardinality(seen[held[i]]) <= Cardinality(i + 1 .. n)
    BY <2>2, <2>3, FS_Surjection
  <2> QED  BY <1>1, <2>1, <2>3, <2>4, <2>5, <2>6
<1>6. ASSUME NEW t \in DOMAIN seen, Cardinality(seen[t]) < n
      PROVE  \E i \in 1 .. n : valid[i] /\ held[i] = t
  <2> SUFFICES ASSUME \A i \in 1 .. n : ~(valid[i] /\ held[i] = t)
               PROVE  FALSE
    OBVIOUS
  <2>1. \A i \in 1 .. n : valid[i] /\ held[i] \in seen[t]
    BY <1>4 DEF Recency
  <2> DEFINE f == [i \in 1 .. n |-> held[i]]
  <2>2. f \in Injection(1 .. n, seen[t])
    BY <1>3, <2>1 DEF Injection, IsInjective
  <2>3. IsFiniteSet(seen[t])
    BY FS_Subset DEF SeenTypeOK
  <2>4. Cardinality(1 .. n) <= Cardinality(seen[t])
    BY <2>2, <2>3, FS_Injection
  <2>5. Cardinality(1 .. n) = n
    BY <1>1, FS_Interval
  <2>6. Cardinality(seen[t]) \in Nat
    BY <2>3, FS_CardinalityType
  <2> QED  BY <1>1, <1>6, <2>4, <2>5, <2>6
<1>7. Held = {t \in DOMAIN seen : Cardinality(seen[t]) < n}
  BY <1>2, <1>5, <1>6
<1> QED  BY <1>7 DEF Held

=============================================================================
