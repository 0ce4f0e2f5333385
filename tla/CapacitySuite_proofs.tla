------------------------ MODULE CapacitySuite_proofs ------------------------
(***************************************************************************)
(* Proofs about CapacitySuite, for every size of the caches and of their   *)
(* blocks and every program: what each of the four models holds, and that  *)
(* the larger of two models of a kind holds all the smaller one does.      *)
(***************************************************************************)
EXTENDS CapacitySuite, FiniteSetTheorems, TLAPS

USE CapacityAssumption, StreamAssumption

-----------------------------------------------------------------------------
(***************************************************************************)
(* Sizes: a power of two is a positive number and grows with its exponent; *)
(* it is the number of subsets of a set.                                   *)
(***************************************************************************)
LEMMA PowersOfTwo ==
  ASSUME NEW k \in Nat, NEW l \in Nat, k <= l
  PROVE  2 ^ k \in Nat \ {0} /\ 2 ^ k <= 2 ^ l
<1>1. /\ IsFiniteSet(1 .. k) /\ Cardinality(1 .. k) = k
      /\ IsFiniteSet(1 .. l) /\ Cardinality(1 .. l) = l
  BY FS_Interval
<1>2. /\ IsFiniteSet(SUBSET (1 .. k)) /\ Cardinality(SUBSET (1 .. k)) = 2 ^ k
      /\ IsFiniteSet(SUBSET (1 .. l)) /\ Cardinality(SUBSET (1 .. l)) = 2 ^ l
  BY <1>1, FS_SUBSET
<1> DEFINE K == SUBSET (1 .. k)
           L == SUBSET (1 .. l)
<1>3. K \subseteq L /\ {} \in K
  <2>1. 1 .. k \subseteq 1 .. l
    OBVIOUS
  <2> QED  BY <2>1
<1> HIDE DEF K, L
<1>4. /\ IsFiniteSet(K) /\ Cardinality(K) = 2 ^ k
      /\ IsFiniteSet(L) /\ Cardinality(L) = 2 ^ l
  BY <1>2 DEF K, L
<1>5. Cardinality(K) <= Cardinality(L)
  BY <1>3, <1>4, FS_Subset
<1>6. Cardinality(K) \in Nat /\ Cardinality(K) # 0
  BY <1>3, <1>4, FS_EmptySet, FS_CardinalityType
<1> QED  BY <1>4, <1>5, <1>6

(***************************************************************************)
(* The components, each with the facts proved about it: the memory         *)
(* addresses are words, and so are the blocks they lie in.                 *)
(***************************************************************************)
LEMMA MemAddrsAreWords == MemAddrs \subseteq Word
<1>1. \A w, k : Shl(w, k) \subseteq Bits
  BY DEF Shl
<1> QED  BY <1>1 DEF MemAddrs, mem_addr, Word

FS == INSTANCE FullAssoCache_proofs WITH
  block_num <- 2 ^ small_log, m_blksz_log <- block_log_size,
  Addrs <- MemAddrs, StaleTags <- {{}}, accessed <- <<>>,
  m_valids <- fs_valids, m_tags <- fs_tags, replace_queue <- fs_queue,
  m_rd_hits <- fs_rd_hits, m_wr_hits <- fs_wr_hits

FL == INSTANCE FullAssoCache_proofs WITH
  block_num <- 2 ^ large_log, m_blksz_log <- block_log_size,
  Addrs <- MemAddrs, StaleTags <- {{}}, accessed <- <<>>,
  m_valids <- fl_valids, m_tags <- fl_tags, replace_queue <- fl_queue,
  m_rd_hits <- fl_rd_hits, m_wr_hits <- fl_wr_hits

(***************************************************************************)
(* The assumptions of FullAssoCache hold at the sizes of the suite.        *)
(***************************************************************************)
LEMMA FullSizes ==
  /\ FS!MaxReqsAssumption /\ FS!FullAssoAssumption
  /\ FL!MaxReqsAssumption /\ FL!FullAssoAssumption
<1>1. {{}} \subseteq Word
  BY DEF Word
<1>2. 2 ^ small_log \in Nat \ {0} /\ 2 ^ large_log \in Nat \ {0}
  BY PowersOfTwo
<1> QED
  BY <1>1, <1>2, MemAddrsAreWords
  DEF FS!MaxReqsAssumption, FS!FullAssoAssumption, FS!Word, FS!Bits,
      FL!MaxReqsAssumption, FL!FullAssoAssumption, FL!Word, FL!Bits, Word, Bits

(***************************************************************************)
(* Cardinalities mean the same in the components.                          *)
(***************************************************************************)
LEMMA SameSizes ==
  \A S : /\ FS!IsFiniteSet(S) <=> IsFiniteSet(S)
         /\ FS!Cardinality(S) = Cardinality(S)
         /\ FL!IsFiniteSet(S) <=> IsFiniteSet(S)
         /\ FL!Cardinality(S) = Cardinality(S)
<1>1. \A S : (FS!IsFiniteSet(S) <=> IsFiniteSet(S))
  BY DEF FS!IsFiniteSet, IsFiniteSet
<1>2. \A S : (FL!IsFiniteSet(S) <=> IsFiniteSet(S))
  BY DEF FL!IsFiniteSet, IsFiniteSet
<1>3. \A S : FS!Cardinality(S) = Cardinality(S)
  BY DEF FS!Cardinality, Cardinality
<1>4. \A S : FL!Cardinality(S) = Cardinality(S)
  BY DEF FL!Cardinality, Cardinality
<1> QED  BY <1>1, <1>2, <1>3, <1>4

-----------------------------------------------------------------------------
(***************************************************************************)
(* Direct mapped caches, of 2 ^ log blocks.  A valid place holds a block   *)
(* of its index after which no other of that index was seen; the place of  *)
(* a block that was seen holds it or one that was seen after it.           *)
(***************************************************************************)
Places(log) == SUBSET (0 .. log - 1)

LatestInPlace(log, valids, tags, seen) ==
  /\ \A x \in Places(log) : valids[x] =>
       /\ tags[x] \in DOMAIN seen
       /\ tags[x] \cap LowMask(log) = x
       /\ \A c \in seen[tags[x]] : c \cap LowMask(log) # x
  /\ \A b \in DOMAIN seen : b \cap LowMask(log) \in Places(log) =>
       /\ valids[b \cap LowMask(log)]
       /\ \/ tags[b \cap LowMask(log)] = b
          \/ tags[b \cap LowMask(log)] \in seen[b]

(***************************************************************************)
(* The index of a word in a power of two places is one of the places.      *)
(***************************************************************************)
LEMMA IndexIsPlace ==
  ASSUME NEW log \in Nat, NEW w
  PROVE  w \cap LowMask(log) \in Places(log)
BY DEF LowMask, Places, Bits

(***************************************************************************)
(* An access leaves its block in its place, whether it hits or misses.     *)
(***************************************************************************)
LEMMA PlacingKeepsLatest ==
  ASSUME NEW log \in Nat, NEW b, NEW valids, NEW tags, NEW seen,
         NEW valids2, NEW tags2,
         LatestInPlace(log, valids, tags, seen),
         valids2[b \cap LowMask(log)] /\ tags2[b \cap LowMask(log)] = b,
         \A x \in Places(log) : x # b \cap LowMask(log) =>
           (valids2[x] <=> valids[x]) /\ tags2[x] = tags[x]
  PROVE  LatestInPlace(log, valids2, tags2, FS!SeenAfter(seen, b))
<1> DEFINE mask == LowMask(log)
           seen2 == FS!SeenAfter(seen, b)
<1>1. /\ b \in DOMAIN seen2 /\ seen2[b] = {}
      /\ \A c \in DOMAIN seen : c \in DOMAIN seen2
                                 /\ (c # b => seen2[c] = seen[c] \cup {b})
      /\ \A c \in DOMAIN seen2 : c = b \/ c \in DOMAIN seen
  BY DEF FS!SeenAfter
<1> HIDE DEF seen2
<1>2. ASSUME NEW x \in Places(log), valids2[x]
      PROVE  /\ tags2[x] \in DOMAIN seen2
             /\ tags2[x] \cap mask = x
             /\ \A c \in seen2[tags2[x]] : c \cap mask # x
  <2>1. CASE x = b \cap mask
    BY <1>1, <2>1
  <2>2. CASE x # b \cap mask
    <3>1. valids[x] /\ tags2[x] = tags[x]
      BY <1>2, <2>2
    <3>2. /\ tags[x] \in DOMAIN seen /\ tags[x] \cap mask = x
          /\ \A c \in seen[tags[x]] : c \cap mask # x
      BY <3>1 DEF LatestInPlace
    <3> QED  BY <1>1, <2>2, <3>1, <3>2
  <2> QED  BY <2>1, <2>2
<1>3. ASSUME NEW c \in DOMAIN seen2, c \cap mask \in Places(log)
      PROVE  /\ valids2[c \cap mask]
             /\ tags2[c \cap mask] = c \/ tags2[c \cap mask] \in seen2[c]
  <2>1. CASE c = b
    BY <2>1
  <2>2. CASE c # b /\ c \cap mask = b \cap mask
    <3>1. seen2[c] = seen[c] \cup {b}
      BY <1>1, <2>2
    <3>2. valids2[c \cap mask] /\ tags2[c \cap mask] = b
      BY <2>2
    <3> QED  BY <3>1, <3>2
  <2>3. CASE c # b /\ c \cap mask # b \cap mask
    <3>1. c \in DOMAIN seen /\ seen2[c] = seen[c] \cup {b}
      BY <1>1, <2>3
    <3>2. /\ valids[c \cap mask]
          /\ tags[c \cap mask] = c \/ tags[c \cap mask] \in seen[c]
      BY <1>3, <3>1 DEF LatestInPlace
    <3> QED  BY <1>3, <2>3, <3>1, <3>2
  <2> QED  BY <2>1, <2>2, <2>3
<1> QED  BY <1>2, <1>3 DEF LatestInPlace, seen2

(***************************************************************************)
(* Then a direct mapped cache holds the latest block of each index.        *)
(***************************************************************************)
LEMMA LatestIsExact ==
  ASSUME NEW log \in Nat, NEW valids, NEW tags, DOMAIN valids = Places(log),
         LatestInPlace(log, valids, tags, since)
  PROVE  HeldIn(valids, tags) = LatestOfIndex(log)
<1>1. ASSUME NEW b \in HeldIn(valids, tags)
      PROVE  b \in LatestOfIndex(log)
  <2>1. PICK x \in Places(log) : valids[x] /\ tags[x] = b
    BY DEF HeldIn
  <2> QED  BY <2>1 DEF LatestInPlace, LatestOfIndex
<1>2. ASSUME NEW b \in LatestOfIndex(log)
      PROVE  b \in HeldIn(valids, tags)
  <2> DEFINE x == b \cap LowMask(log)
  <2>1. x \in Places(log) /\ b \in DOMAIN since
    BY IndexIsPlace DEF LatestOfIndex
  <2>2. valids[x] /\ (tags[x] = b \/ tags[x] \in since[b])
    BY <2>1 DEF LatestInPlace
  <2>3. tags[x] \cap LowMask(log) = x
    BY <2>1, <2>2 DEF LatestInPlace
  <2>4. tags[x] = b
    BY <2>2, <2>3 DEF LatestOfIndex
  <2> QED  BY <2>1, <2>2, <2>4 DEF HeldIn
<1> QED  BY <1>1, <1>2

-----------------------------------------------------------------------------
(***************************************************************************)
(* The inductive invariant: the invariants of the two kinds of model, and  *)
(* the hits of each counter compared.                                      *)
(***************************************************************************)
HitsOrdered ==
  /\ fs_rd_hits <= fl_rd_hits /\ fs_wr_hits <= fl_wr_hits
  /\ ds_rd_hits <= dl_rd_hits /\ ds_wr_hits <= dl_wr_hits

FullInv ==
  /\ FS!IInv /\ FL!IInv
  /\ FS!SeenTypeOK(since)
  /\ FS!QueueRecency(since) /\ FL!QueueRecency(since)

DirectInv ==
  /\ DirectSmall!TypeOK /\ DirectLarge!TypeOK
  /\ LatestInPlace(small_log, ds_valids, ds_tags, since)
  /\ LatestInPlace(large_log, dl_valids, dl_tags, since)

IInv == FullInv /\ DirectInv /\ HitsOrdered

(***************************************************************************)
(* The models of the suite are the ones the facts were proved about.       *)
(***************************************************************************)
LEMMA SameFullSmall ==
  /\ FullSmall!Init <=> FS!Init
  /\ FullSmall!TypeOK <=> FS!TypeOK
  /\ \A addr : /\ FullSmall!readReq(addr) <=> FS!readReq(addr)
               /\ FullSmall!writeReq(addr) <=> FS!writeReq(addr)
<1>1. FullSmall!Init <=> FS!Init
  BY DEF FullSmall!Init, FS!Init, FullSmall!CountersInit, FS!CountersInit,
         FullSmall!LRU!InitQueue, FS!LRU!InitQueue,
         FullSmall!LRU!Positions, FS!LRU!Positions, FullSmall!LRU!Blocks,
         FS!LRU!Blocks, FullSmall!Blocks, FS!Blocks
<1>2. FullSmall!TypeOK <=> FS!TypeOK
  BY DEF FullSmall!TypeOK, FS!TypeOK, FullSmall!CountersTypeOK,
         FS!CountersTypeOK, FullSmall!Requests, FS!Requests,
         FullSmall!Word, FS!Word, FullSmall!Bits, FS!Bits,
         FullSmall!LRU!Positions, FS!LRU!Positions, FullSmall!LRU!Blocks,
         FS!LRU!Blocks, FullSmall!Blocks, FS!Blocks
<1>3. ASSUME NEW addr
      PROVE  /\ FullSmall!AccessHit(addr) <=> FS!AccessHit(addr)
             /\ FullSmall!AccessMiss(addr) <=> FS!AccessMiss(addr)
  <2>1. /\ FullSmall!getTag(addr) = FS!getTag(addr)
        /\ FullSmall!LRU!Front(fs_queue) = FS!LRU!Front(fs_queue)
        /\ \A b : FullSmall!LRU!Update(fs_queue, b) = FS!LRU!Update(fs_queue, b)
    BY DEF FullSmall!getTag, FS!getTag, FullSmall!Shr, FS!Shr,
           FullSmall!LRU!Front, FS!LRU!Front, FullSmall!LRU!Update,
           FS!LRU!Update, FullSmall!LRU!Position, FS!LRU!Position,
           FullSmall!LRU!Positions, FS!LRU!Positions
  <2>2. \A tag : /\ FullSmall!Matches(tag) = FS!Matches(tag)
                 /\ FullSmall!FirstMatch(tag) = FS!FirstMatch(tag)
    BY DEF FullSmall!Matches, FS!Matches, FullSmall!FirstMatch,
           FS!FirstMatch, FullSmall!Blocks, FS!Blocks, FullSmall!LRU!Blocks,
           FS!LRU!Blocks
  <2> QED
    BY <2>1, <2>2
    DEF FullSmall!AccessHit, FS!AccessHit, FullSmall!AccessMiss,
        FS!AccessMiss, FullSmall!updateReplaceQ, FS!updateReplaceQ,
        FullSmall!Blocks, FS!Blocks, FullSmall!LRU!Blocks, FS!LRU!Blocks
<1>4. /\ FullSmall!CountRead(TRUE) <=> FS!CountRead(TRUE)
      /\ FullSmall!CountRead(FALSE) <=> FS!CountRead(FALSE)
      /\ FullSmall!CountWrite(TRUE) <=> FS!CountWrite(TRUE)
      /\ FullSmall!CountWrite(FALSE) <=> FS!CountWrite(FALSE)
  BY DEF FullSmall!CountRead, FS!CountRead, FullSmall!CountWrite,
         FS!CountWrite, FullSmall!Requests, FS!Requests, FullSmall!One,
         FS!One
<1> QED
  BY <1>1, <1>2, <1>3, <1>4
  DEF FullSmall!readReq, FS!readReq, FullSmall!writeReq, FS!writeReq

(***************************************************************************)
(* FullLarge, written out as an instance with the suite's sizes, is FL.    *)
(***************************************************************************)
LEMMA SameFullLarge ==
  /\ FullLarge!Init <=> FL!Init
  /\ FullLarge!TypeOK <=> FL!TypeOK
  /\ \A addr : /\ FullLarge!readReq(addr) <=> FL!readReq(addr)
               /\ FullLarge!writeReq(addr) <=> FL!writeReq(addr)
<1>1. FullLarge!Init <=> FL!Init
  BY DEF FullLarge!Init, FL!Init, FullLarge!CountersInit, FL!CountersInit,
         FullLarge!LRU!InitQueue, FL!LRU!InitQueue,
         FullLarge!LRU!Positions, FL!LRU!Positions, FullLarge!LRU!Blocks,
         FL!LRU!Blocks, FullLarge!Blocks, FL!Blocks
<1>2. FullLarge!TypeOK <=> FL!TypeOK
  BY DEF FullLarge!TypeOK, FL!TypeOK, FullLarge!CountersTypeOK,
         FL!CountersTypeOK, FullLarge!Requests, FL!Requests,
         FullLarge!Word, FL!Word, FullLarge!Bits, FL!Bits,
         FullLarge!LRU!Positions, FL!LRU!Positions, FullLarge!LRU!Blocks,
         FL!LRU!Blocks, FullLarge!Blocks, FL!Blocks
<1>3. ASSUME NEW addr
      PROVE  /\ FullLarge!AccessHit(addr) <=> FL!AccessHit(addr)
             /\ FullLarge!AccessMiss(addr) <=> FL!AccessMiss(addr)
  <2>1. /\ FullLarge!getTag(addr) = FL!getTag(addr)
        /\ FullLarge!LRU!Front(fl_queue) = FL!LRU!Front(fl_queue)
        /\ \A b : FullLarge!LRU!Update(fl_queue, b) = FL!LRU!Update(fl_queue, b)
    BY DEF FullLarge!getTag, FL!getTag, FullLarge!Shr, FL!Shr,
           FullLarge!LRU!Front, FL!LRU!Front, FullLarge!LRU!Update,
           FL!LRU!Update, FullLarge!LRU!Position, FL!LRU!Position,
           FullLarge!LRU!Positions, FL!LRU!Positions
  <2>2. \A tag : /\ FullLarge!Matches(tag) = FL!Matches(tag)
                 /\ FullLarge!FirstMatch(tag) = FL!FirstMatch(tag)
    BY DEF FullLarge!Matches, FL!Matches, FullLarge!FirstMatch,
           FL!FirstMatch, FullLarge!Blocks, FL!Blocks, FullLarge!LRU!Blocks,
           FL!LRU!Blocks
  <2> QED
    BY <2>1, <2>2
    DEF FullLarge!AccessHit, FL!AccessHit, FullLarge!AccessMiss,
        FL!AccessMiss, FullLarge!updateReplaceQ, FL!updateReplaceQ,
        FullLarge!Blocks, FL!Blocks, FullLarge!LRU!Blocks, FL!LRU!Blocks
<1>4. /\ FullLarge!CountRead(TRUE) <=> FL!CountRead(TRUE)
      /\ FullLarge!CountRead(FALSE) <=> FL!CountRead(FALSE)
      /\ FullLarge!CountWrite(TRUE) <=> FL!CountWrite(TRUE)
      /\ FullLarge!CountWrite(FALSE) <=> FL!CountWrite(FALSE)
  BY DEF FullLarge!CountRead, FL!CountRead, FullLarge!CountWrite,
         FL!CountWrite, FullLarge!Requests, FL!Requests, FullLarge!One,
         FL!One
<1> QED
  BY <1>1, <1>2, <1>3, <1>4
  DEF FullLarge!readReq, FL!readReq, FullLarge!writeReq, FL!writeReq

(***************************************************************************)
(* One access of the smaller fully associative cache, and of the observer: *)
(* the invariants are kept, and a hit is an access to a block it holds.    *)
(***************************************************************************)
LEMMA FullSmallAccess ==
  ASSUME FS!IInv, FS!QueueRecency(since),
         NEW a \in MemAddrs, Observe(block(a)),
         FullSmall!readReq(a) \/ FullSmall!writeReq(a)
  PROVE  /\ FS!IInv' /\ FS!QueueRecency(since)'
         /\ FullSmall!readReq(a) => IF block(a) \in FullSmallHolds
                                    THEN FullSmall!CountRead(TRUE)
                                    ELSE FullSmall!CountRead(FALSE)
         /\ FullSmall!writeReq(a) => IF block(a) \in FullSmallHolds
                                     THEN FullSmall!CountWrite(TRUE)
                                     ELSE FullSmall!CountWrite(FALSE)
<1>1. FS!readReq(a) \/ FS!writeReq(a)
  BY SameFullSmall
<1>2. FS!IInv'
  BY <1>1, FullSizes, FS!NextIInv DEF FS!Next
<1>3. FS!QueueRecency(since)'
  <2>1. \A seen : FS!QueueRecency(seen)
                   => FS!QueueRecency(FS!SeenAfter(seen, FS!getTag(a)))'
    BY <1>1, FullSizes, FS!AccessKeepsRecency DEF FS!readReq, FS!writeReq
  <2>2. since' = FS!SeenAfter(since, FS!getTag(a))
    BY DEF Observe, FS!SeenAfter, FS!getTag, FS!Shr, block, Shr
  <2> QED  BY <2>1, <2>2 DEF FS!QueueRecency
<1>4. block(a) \in FullSmallHolds <=> FullSmall!Matches(FullSmall!getTag(a)) # {}
  <2>1. block(a) = FullSmall!getTag(a)
    BY DEF block, Shr, FullSmall!getTag, FullSmall!Shr
  <2>2. DOMAIN fs_valids = FullSmall!Blocks
    BY DEF FS!IInv, FS!TypeOK, FS!Blocks, FS!LRU!Blocks,
           FullSmall!Blocks, FullSmall!LRU!Blocks
  <2> QED  BY <2>1, <2>2 DEF FullSmallHolds, HeldIn, FullSmall!Matches
<1>5. /\ FullSmall!AccessHit(a) => block(a) \in FullSmallHolds
      /\ FullSmall!AccessMiss(a) => block(a) \notin FullSmallHolds
  BY <1>4 DEF FullSmall!AccessHit, FullSmall!AccessMiss
<1> QED  BY <1>2, <1>3, <1>5 DEF FullSmall!readReq, FullSmall!writeReq

(***************************************************************************)
(* One access of the larger fully associative cache, and of the observer:  *)
(* the invariants are kept, and a hit is an access to a block it holds.    *)
(***************************************************************************)
LEMMA FullLargeAccess ==
  ASSUME FL!IInv, FL!QueueRecency(since),
         NEW a \in MemAddrs, Observe(block(a)),
         FullLarge!readReq(a) \/ FullLarge!writeReq(a)
  PROVE  /\ FL!IInv' /\ FL!QueueRecency(since)'
         /\ FullLarge!readReq(a) => IF block(a) \in FullLargeHolds
                                    THEN FullLarge!CountRead(TRUE)
                                    ELSE FullLarge!CountRead(FALSE)
         /\ FullLarge!writeReq(a) => IF block(a) \in FullLargeHolds
                                     THEN FullLarge!CountWrite(TRUE)
                                     ELSE FullLarge!CountWrite(FALSE)
<1>1. FL!readReq(a) \/ FL!writeReq(a)
  BY SameFullLarge
<1>2. FL!IInv'
  BY <1>1, FullSizes, FL!NextIInv DEF FL!Next
<1>3. FL!QueueRecency(since)'
  <2>1. \A seen : FL!QueueRecency(seen)
                   => FL!QueueRecency(FL!SeenAfter(seen, FL!getTag(a)))'
    BY <1>1, FullSizes, FL!AccessKeepsRecency DEF FL!readReq, FL!writeReq
  <2>2. since' = FL!SeenAfter(since, FL!getTag(a))
    BY DEF Observe, FL!SeenAfter, FL!getTag, FL!Shr, block, Shr
  <2> QED  BY <2>1, <2>2 DEF FL!QueueRecency
<1>4. block(a) \in FullLargeHolds <=> FullLarge!Matches(FullLarge!getTag(a)) # {}
  <2>1. block(a) = FullLarge!getTag(a)
    BY DEF block, Shr, FullLarge!getTag, FullLarge!Shr
  <2>2. DOMAIN fl_valids = FullLarge!Blocks
    BY DEF FL!IInv, FL!TypeOK, FL!Blocks, FL!LRU!Blocks,
           FullLarge!Blocks, FullLarge!LRU!Blocks
  <2> QED  BY <2>1, <2>2 DEF FullLargeHolds, HeldIn, FullLarge!Matches
<1>5. /\ FullLarge!AccessHit(a) => block(a) \in FullLargeHolds
      /\ FullLarge!AccessMiss(a) => block(a) \notin FullLargeHolds
  BY <1>4 DEF FullLarge!AccessHit, FullLarge!AccessMiss
<1> QED  BY <1>2, <1>3, <1>5 DEF FullLarge!readReq, FullLarge!writeReq

(***************************************************************************)
(* The same of the small direct mapped cache.                              *)
(***************************************************************************)
LEMMA DirectSmallAccess ==
  ASSUME DirectSmall!TypeOK, LatestInPlace(small_log, ds_valids, ds_tags, since),
         NEW a \in MemAddrs, Observe(block(a)),
         DirectSmall!readReq(a) \/ DirectSmall!writeReq(a)
  PROVE  /\ DirectSmall!TypeOK'
         /\ LatestInPlace(small_log, ds_valids, ds_tags, since)'
         /\ DirectSmall!readReq(a) => IF block(a) \in DirectSmallHolds
                                      THEN DirectSmall!CountRead(TRUE)
                                      ELSE DirectSmall!CountRead(FALSE)
         /\ DirectSmall!writeReq(a) => IF block(a) \in DirectSmallHolds
                                       THEN DirectSmall!CountWrite(TRUE)
                                       ELSE DirectSmall!CountWrite(FALSE)
<1> DEFINE x == block(a) \cap LowMask(small_log)
<1>1. DirectSmall!getTag(a) = block(a) /\ DirectSmall!getIndex(a) = x
  BY DEF DirectSmall!getTag, DirectSmall!getIndex, DirectSmall!Shr, DirectSmall!LowMask, DirectSmall!Bits,
         block, Shr, LowMask, Bits
<1>2. x \in DirectSmall!Blocks /\ DirectSmall!Blocks = Places(small_log)
  BY IndexIsPlace DEF DirectSmall!Blocks, Places
<1>3. block(a) \in DirectSmall!Word
  BY DEF block, Shr, DirectSmall!Word, DirectSmall!Bits, MemAddrs, mem_addr, Shl, Bits
<1> HIDE DEF x
<1>4. /\ ds_valids' \in [DirectSmall!Blocks -> BOOLEAN] /\ ds_tags' \in [DirectSmall!Blocks -> DirectSmall!Word]
      /\ ds_valids'[x] /\ ds_tags'[x] = block(a)
      /\ \A y \in Places(small_log) : y # x =>
           (ds_valids'[y] <=> ds_valids[y]) /\ ds_tags'[y] = ds_tags[y]
  <2>1. CASE DirectSmall!AccessHit(a)
    BY <1>1, <1>2, <2>1 DEF DirectSmall!AccessHit, DirectSmall!lookup, DirectSmall!TypeOK
  <2>2. CASE DirectSmall!AccessMiss(a)
    BY <1>1, <1>2, <1>3, <2>2 DEF DirectSmall!AccessMiss, DirectSmall!TypeOK
  <2> QED  BY <2>1, <2>2 DEF DirectSmall!readReq, DirectSmall!writeReq
<1>5. DirectSmall!CountersTypeOK'
  BY DEF DirectSmall!readReq, DirectSmall!writeReq, DirectSmall!CountRead, DirectSmall!CountWrite,
         DirectSmall!One, DirectSmall!TypeOK, DirectSmall!CountersTypeOK, DirectSmall!Requests
<1>6. LatestInPlace(small_log, ds_valids, ds_tags, since)'
  <2>1. since' = FS!SeenAfter(since, block(a))
    BY DEF Observe, FS!SeenAfter
  <2>2. LatestInPlace(small_log, ds_valids', ds_tags',
                      FS!SeenAfter(since, block(a)))
    <3>1. /\ ds_valids'[block(a) \cap LowMask(small_log)]
          /\ ds_tags'[block(a) \cap LowMask(small_log)] = block(a)
          /\ \A y \in Places(small_log) : y # block(a) \cap LowMask(small_log) =>
               (ds_valids'[y] <=> ds_valids[y]) /\ ds_tags'[y] = ds_tags[y]
      BY <1>4 DEF x
    <3> QED  BY <3>1, PlacingKeepsLatest
  <2> QED  BY <2>1, <2>2
<1>7. block(a) \in DirectSmallHolds <=> DirectSmall!lookup(a)
  <2>1. DirectSmall!lookup(a) <=> ds_valids[x] /\ ds_tags[x] = block(a)
    BY <1>1 DEF DirectSmall!lookup
  <2>2. ASSUME NEW y \in DOMAIN ds_valids, ds_valids[y], ds_tags[y] = block(a)
        PROVE  y = x
    BY <1>2, <2>2 DEF DirectSmall!TypeOK, LatestInPlace, x
  <2> QED  BY <1>2, <2>1, <2>2 DEF DirectSmallHolds, HeldIn, DirectSmall!TypeOK
<1> QED
  BY <1>4, <1>5, <1>6, <1>7
  DEF DirectSmall!readReq, DirectSmall!writeReq, DirectSmall!AccessHit, DirectSmall!AccessMiss, DirectSmall!TypeOK

(***************************************************************************)
(* The same of the large direct mapped cache.                              *)
(***************************************************************************)
LEMMA DirectLargeAccess ==
  ASSUME DirectLarge!TypeOK, LatestInPlace(large_log, dl_valids, dl_tags, since),
         NEW a \in MemAddrs, Observe(block(a)),
         DirectLarge!readReq(a) \/ DirectLarge!writeReq(a)
  PROVE  /\ DirectLarge!TypeOK'
         /\ LatestInPlace(large_log, dl_valids, dl_tags, since)'
         /\ DirectLarge!readReq(a) => IF block(a) \in DirectLargeHolds
                                      THEN DirectLarge!CountRead(TRUE)
                                      ELSE DirectLarge!CountRead(FALSE)
         /\ DirectLarge!writeReq(a) => IF block(a) \in DirectLargeHolds
                                       THEN DirectLarge!CountWrite(TRUE)
                                       ELSE DirectLarge!CountWrite(FALSE)
<1> DEFINE x == block(a) \cap LowMask(large_log)
<1>1. DirectLarge!getTag(a) = block(a) /\ DirectLarge!getIndex(a) = x
  BY DEF DirectLarge!getTag, DirectLarge!getIndex, DirectLarge!Shr, DirectLarge!LowMask, DirectLarge!Bits,
         block, Shr, LowMask, Bits
<1>2. x \in DirectLarge!Blocks /\ DirectLarge!Blocks = Places(large_log)
  BY IndexIsPlace DEF DirectLarge!Blocks, Places
<1>3. block(a) \in DirectLarge!Word
  BY DEF block, Shr, DirectLarge!Word, DirectLarge!Bits, MemAddrs, mem_addr, Shl, Bits
<1> HIDE DEF x
<1>4. /\ dl_valids' \in [DirectLarge!Blocks -> BOOLEAN] /\ dl_tags' \in [DirectLarge!Blocks -> DirectLarge!Word]
      /\ dl_valids'[x] /\ dl_tags'[x] = block(a)
      /\ \A y \in Places(large_log) : y # x =>
           (dl_valids'[y] <=> dl_valids[y]) /\ dl_tags'[y] = dl_tags[y]
  <2>1. CASE DirectLarge!AccessHit(a)
    BY <1>1, <1>2, <2>1 DEF DirectLarge!AccessHit, DirectLarge!lookup, DirectLarge!TypeOK
  <2>2. CASE DirectLarge!AccessMiss(a)
    BY <1>1, <1>2, <1>3, <2>2 DEF DirectLarge!AccessMiss, DirectLarge!TypeOK
  <2> QED  BY <2>1, <2>2 DEF DirectLarge!readReq, DirectLarge!writeReq
<1>5. DirectLarge!CountersTypeOK'
  BY DEF DirectLarge!readReq, DirectLarge!writeReq, DirectLarge!CountRead, DirectLarge!CountWrite,
         DirectLarge!One, DirectLarge!TypeOK, DirectLarge!CountersTypeOK, DirectLarge!Requests
<1>6. LatestInPlace(large_log, dl_valids, dl_tags, since)'
  <2>1. since' = FS!SeenAfter(since, block(a))
    BY DEF Observe, FS!SeenAfter
  <2>2. LatestInPlace(large_log, dl_valids', dl_tags',
                      FS!SeenAfter(since, block(a)))
    <3>1. /\ dl_valids'[block(a) \cap LowMask(large_log)]
          /\ dl_tags'[block(a) \cap LowMask(large_log)] = block(a)
          /\ \A y \in Places(large_log) : y # block(a) \cap LowMask(large_log) =>
               (dl_valids'[y] <=> dl_valids[y]) /\ dl_tags'[y] = dl_tags[y]
      BY <1>4 DEF x
    <3> QED  BY <3>1, PlacingKeepsLatest
  <2> QED  BY <2>1, <2>2
<1>7. block(a) \in DirectLargeHolds <=> DirectLarge!lookup(a)
  <2>1. DirectLarge!lookup(a) <=> dl_valids[x] /\ dl_tags[x] = block(a)
    BY <1>1 DEF DirectLarge!lookup
  <2>2. ASSUME NEW y \in DOMAIN dl_valids, dl_valids[y], dl_tags[y] = block(a)
        PROVE  y = x
    BY <1>2, <2>2 DEF DirectLarge!TypeOK, LatestInPlace, x
  <2> QED  BY <1>2, <2>1, <2>2 DEF DirectLargeHolds, HeldIn, DirectLarge!TypeOK
<1> QED
  BY <1>4, <1>5, <1>6, <1>7
  DEF DirectLarge!readReq, DirectLarge!writeReq, DirectLarge!AccessHit, DirectLarge!AccessMiss, DirectLarge!TypeOK

-----------------------------------------------------------------------------
(***************************************************************************)
(* What the four models hold, from the invariants of each.                 *)
(***************************************************************************)
LEMMA FullIsRecent == FullInv => FullHoldsRecent
<1> SUFFICES ASSUME FullInv
             PROVE  FullHoldsRecent
  OBVIOUS
<1>1. {fs_tags[b] : b \in FS!ValidBlocks} = RecentlyUsed(2 ^ small_log)
  BY FullSizes, SameSizes, FS!RecencyIsExact DEF FullInv, RecentlyUsed
<1>2. {fl_tags[b] : b \in FL!ValidBlocks} = RecentlyUsed(2 ^ large_log)
  <2>1. FL!SeenTypeOK(since)
    BY SameSizes DEF FullInv, FS!SeenTypeOK, FL!SeenTypeOK
  <2> QED  BY <2>1, FullSizes, SameSizes, FL!RecencyIsExact DEF FullInv, RecentlyUsed
<1>3. DOMAIN fs_valids = FS!Blocks /\ DOMAIN fl_valids = FL!Blocks
  BY DEF FullInv, FS!IInv, FS!TypeOK, FL!IInv, FL!TypeOK
<1> QED
  BY <1>1, <1>2, <1>3 DEF FullHoldsRecent, FullSmallHolds, FullLargeHolds,
                          HeldIn, FS!ValidBlocks, FL!ValidBlocks

(***************************************************************************)
(* The invariant of the direct mapped caches says DirectHoldsLatest.       *)
(***************************************************************************)
LEMMA DirectIsLatest == DirectInv => DirectHoldsLatest
<1> SUFFICES ASSUME DirectInv
             PROVE  DirectHoldsLatest
  OBVIOUS
<1>1. DOMAIN ds_valids = Places(small_log) /\ DOMAIN dl_valids = Places(large_log)
  BY DEF DirectInv, DirectSmall!TypeOK, DirectLarge!TypeOK, Places,
         DirectSmall!Blocks, DirectLarge!Blocks
<1> QED
  BY <1>1, LatestIsExact
  DEF DirectInv, DirectHoldsLatest, DirectSmallHolds, DirectLargeHolds

(***************************************************************************)
(* What was recent or latest for the smaller cache is so for the larger.   *)
(***************************************************************************)
LEMMA HoldingsIncluded ==
  ASSUME FullInv, DirectInv
  PROVE  /\ FullSmallHolds \subseteq FullLargeHolds
         /\ DirectSmallHolds \subseteq DirectLargeHolds
<1>1. RecentlyUsed(2 ^ small_log) \subseteq RecentlyUsed(2 ^ large_log)
  <2> SUFFICES ASSUME NEW b \in DOMAIN since,
                      Cardinality(since[b]) < 2 ^ small_log
               PROVE  Cardinality(since[b]) < 2 ^ large_log
    BY DEF RecentlyUsed
  <2>1. Cardinality(since[b]) \in Nat
    BY SameSizes, FS_Subset, FS_CardinalityType DEF FullInv, FS!SeenTypeOK
  <2>2. /\ 2 ^ small_log \in Nat /\ 2 ^ large_log \in Nat
        /\ 2 ^ small_log <= 2 ^ large_log
    BY PowersOfTwo
  <2> QED  BY <2>1, <2>2
<1>2. LatestOfIndex(small_log) \subseteq LatestOfIndex(large_log)
  <2> SUFFICES ASSUME NEW b \in LatestOfIndex(small_log), NEW c \in since[b],
                      c \cap LowMask(large_log) = b \cap LowMask(large_log)
               PROVE  FALSE
    BY DEF LatestOfIndex
  <2>1. LowMask(small_log) \subseteq LowMask(large_log)
    BY DEF LowMask, Bits
  <2>2. c \cap LowMask(small_log) = b \cap LowMask(small_log)
    BY <2>1
  <2> QED  BY <2>2 DEF LatestOfIndex
<1> QED
  BY <1>1, <1>2, FullIsRecent, DirectIsLatest DEF FullHoldsRecent, DirectHoldsLatest

-----------------------------------------------------------------------------
(***************************************************************************)
(* No access has been seen and no block is valid at first.                 *)
(***************************************************************************)
LEMMA InitIInv == Init => IInv
<1> SUFFICES ASSUME Init
             PROVE  IInv
  OBVIOUS
<1>1. DOMAIN since = {}
  BY DEF Init, StreamInit
<1>2. FS!Init /\ FL!Init
  BY SameFullSmall, SameFullLarge DEF Init
<1>3. FS!IInv /\ FL!IInv
  BY <1>2, FullSizes, FS!InitIInv, FL!InitIInv
<1>4. FS!QueueRecency(since)
  <2>1. \A i \in FS!LRU!Positions : fs_queue[i] \in FS!Blocks
    BY <1>3 DEF FS!IInv, FS!TypeOK
  <2> QED
    BY <1>1, <1>2, <2>1
    DEF FS!Init, FS!QueueRecency, FS!Recency, FS!LRU!Positions
<1>5. FL!QueueRecency(since)
  <2>1. \A i \in FL!LRU!Positions : fl_queue[i] \in FL!Blocks
    BY <1>3 DEF FL!IInv, FL!TypeOK
  <2> QED
    BY <1>1, <1>2, <2>1
    DEF FL!Init, FL!QueueRecency, FL!Recency, FL!LRU!Positions
<1>6. FS!SeenTypeOK(since)
  BY <1>1, SameSizes, FS_EmptySet DEF FS!SeenTypeOK
<1>7. LatestInPlace(small_log, ds_valids, ds_tags, since) /\ DirectSmall!TypeOK
  BY <1>1 DEF Init, DirectSmall!Init, DirectSmall!Blocks, DirectSmall!TypeOK,
              DirectSmall!CountersInit, DirectSmall!CountersTypeOK,
              DirectSmall!Requests, DirectSmall!Word, LatestInPlace, Places
<1>8. LatestInPlace(large_log, dl_valids, dl_tags, since) /\ DirectLarge!TypeOK
  BY <1>1 DEF Init, DirectLarge!Init, DirectLarge!Blocks, DirectLarge!TypeOK,
              DirectLarge!CountersInit, DirectLarge!CountersTypeOK,
              DirectLarge!Requests, DirectLarge!Word, LatestInPlace, Places
<1>9. HitsOrdered
  BY DEF Init, HitsOrdered, FullSmall!Init, FullSmall!CountersInit,
         FullLarge!Init, FullLarge!CountersInit, DirectSmall!Init,
         DirectSmall!CountersInit, DirectLarge!Init, DirectLarge!CountersInit
<1> QED
  BY <1>3, <1>4, <1>5, <1>6, <1>7, <1>8, <1>9 DEF IInv, FullInv, DirectInv

(***************************************************************************)
(* Every access keeps the invariants of the four models, and when the      *)
(* smaller of a kind hits then so does the larger, which holds as much.    *)
(***************************************************************************)
LEMMA NextIInv == IInv /\ [Next]_vars => IInv'
<1> SUFFICES ASSUME IInv, [Next]_vars
             PROVE  IInv'
  OBVIOUS
<1>1. ASSUME NEW ea \in EAs, readCache(ea) \/ writeCache(ea)
      PROVE  IInv'
  <2> DEFINE a == mem_addr(ea)
  <2>1. a \in MemAddrs
    BY DEF MemAddrs
  <2>2. /\ Observe(block(a))
        /\ \/ /\ DirectSmall!readReq(a) /\ DirectLarge!readReq(a)
              /\ FullSmall!readReq(a) /\ FullLarge!readReq(a)
           \/ /\ DirectSmall!writeReq(a) /\ DirectLarge!writeReq(a)
              /\ FullSmall!writeReq(a) /\ FullLarge!writeReq(a)
    BY <1>1 DEF readCache, writeCache
  <2> HIDE DEF a
  <2>3. FS!SeenTypeOK(since)'
    <3>1. \A seen : FS!SeenTypeOK(seen) => FS!SeenTypeOK(FS!SeenAfter(seen, block(a)))
      BY FullSizes, FS!SeenAfterTypeOK
    <3>2. since' = FS!SeenAfter(since, block(a))
      BY <2>2 DEF Observe, FS!SeenAfter
    <3> QED  BY <3>1, <3>2 DEF IInv, FullInv, FS!SeenTypeOK
  <2>4. FS!IInv' /\ FS!QueueRecency(since)'
    BY <2>1, <2>2, FullSmallAccess DEF IInv, FullInv
  <2>5. FL!IInv' /\ FL!QueueRecency(since)'
    BY <2>1, <2>2, FullLargeAccess DEF IInv, FullInv
  <2>6. DirectSmall!TypeOK' /\ LatestInPlace(small_log, ds_valids, ds_tags, since)'
    BY <2>1, <2>2, DirectSmallAccess DEF IInv, DirectInv
  <2>7. DirectLarge!TypeOK' /\ LatestInPlace(large_log, dl_valids, dl_tags, since)'
    BY <2>1, <2>2, DirectLargeAccess DEF IInv, DirectInv
  <2>8. /\ block(a) \in FullSmallHolds => block(a) \in FullLargeHolds
        /\ block(a) \in DirectSmallHolds => block(a) \in DirectLargeHolds
    BY HoldingsIncluded DEF IInv
  <2>9. HitsOrdered'
    <3>1. /\ fs_rd_hits \in Nat /\ fl_rd_hits \in Nat
          /\ fs_wr_hits \in Nat /\ fl_wr_hits \in Nat
      BY DEF IInv, FullInv, FS!IInv, FS!TypeOK, FS!CountersTypeOK,
             FL!IInv, FL!TypeOK, FL!CountersTypeOK
    <3>2. /\ ds_rd_hits \in Nat /\ dl_rd_hits \in Nat
          /\ ds_wr_hits \in Nat /\ dl_wr_hits \in Nat
      BY DEF IInv, DirectInv, DirectSmall!TypeOK, DirectSmall!CountersTypeOK,
             DirectLarge!TypeOK, DirectLarge!CountersTypeOK
    <3>3. fs_rd_hits' <= fl_rd_hits' /\ fs_wr_hits' <= fl_wr_hits'
      BY <2>1, <2>2, <2>8, <3>1, FullSmallAccess, FullLargeAccess
      DEF IInv, FullInv, HitsOrdered, FullSmall!CountRead, FullSmall!CountWrite,
          FullSmall!One, FullLarge!CountRead, FullLarge!CountWrite, FullLarge!One
    <3>4. ds_rd_hits' <= dl_rd_hits' /\ ds_wr_hits' <= dl_wr_hits'
      BY <2>1, <2>2, <2>8, <3>2, DirectSmallAccess, DirectLargeAccess
      DEF IInv, DirectInv, HitsOrdered, DirectSmall!CountRead,
          DirectSmall!CountWrite, DirectSmall!One, DirectLarge!CountRead,
          DirectLarge!CountWrite, DirectLarge!One
    <3> QED  BY <3>3, <3>4 DEF HitsOrdered
  <2> QED
    BY <2>3, <2>4, <2>5, <2>6, <2>7, <2>9 DEF IInv, FullInv, DirectInv
<1>2. CASE UNCHANGED vars
  <2>1. UNCHANGED <<since, ds_valids, ds_tags, ds_rd_hits, ds_wr_hits,
                    dl_valids, dl_tags, dl_rd_hits, dl_wr_hits>>
    BY <1>2 DEF vars, DirectSmall!vars, DirectSmall!counters,
                DirectLarge!vars, DirectLarge!counters
  <2>2. UNCHANGED <<fs_valids, fs_tags, fs_queue, fs_rd_hits, fs_wr_hits,
                    fl_valids, fl_tags, fl_queue, fl_rd_hits, fl_wr_hits>>
    BY <1>2 DEF vars, FullSmall!vars, FullSmall!counters,
                FullLarge!vars, FullLarge!counters
  <2>3. UNCHANGED <<m_rd_reqs, m_wr_reqs>>
    BY <1>2 DEF vars, DirectSmall!vars, DirectSmall!counters
  <2>4. FS!IInv' /\ FL!IInv'
    <3>1. UNCHANGED FS!vars /\ UNCHANGED FL!vars
      BY <2>2, <2>3 DEF FS!vars, FS!counters, FL!vars, FL!counters
    <3> QED  BY <3>1, FullSizes, FS!NextIInv, FL!NextIInv DEF IInv, FullInv
  <2>5. /\ FS!SeenTypeOK(since)'
        /\ FS!QueueRecency(since)' /\ FL!QueueRecency(since)'
    BY <2>1, <2>2 DEF IInv, FullInv, FS!SeenTypeOK, FS!QueueRecency, FL!QueueRecency
  <2>6. DirectInv'
    BY <2>1, <2>3 DEF IInv, DirectInv, DirectSmall!TypeOK, DirectLarge!TypeOK,
         DirectSmall!CountersTypeOK, DirectLarge!CountersTypeOK,
         DirectSmall!Requests, DirectLarge!Requests
  <2>7. HitsOrdered'
    BY <2>1, <2>2 DEF IInv, HitsOrdered
  <2> QED  BY <2>4, <2>5, <2>6, <2>7 DEF IInv, FullInv
<1> QED  BY <1>1, <1>2 DEF Next

(***************************************************************************)
(* The four models keep their types, for every program.                    *)
(***************************************************************************)
THEOREM TypeCorrect == Spec => []TypeOK
<1>1. IInv => TypeOK
  BY SameFullSmall, SameFullLarge
  DEF IInv, FullInv, DirectInv, FS!IInv, FL!IInv, TypeOK
<1> QED  BY <1>1, InitIInv, NextIInv, PTL DEF Spec

(***************************************************************************)
(* A fully associative cache of n blocks holds exactly the n blocks        *)
(* accessed last: the queue of LinkedLRU is recency, for every n.          *)
(***************************************************************************)
THEOREM FullAlwaysHoldsRecent == Spec => []FullHoldsRecent
<1>1. IInv => FullHoldsRecent
  BY FullIsRecent DEF IInv
<1> QED  BY <1>1, InitIInv, NextIInv, PTL DEF Spec

(***************************************************************************)
(* A direct mapped cache holds exactly the latest block of every index.    *)
(***************************************************************************)
THEOREM DirectAlwaysHoldsLatest == Spec => []DirectHoldsLatest
<1>1. IInv => DirectHoldsLatest
  BY DirectIsLatest DEF IInv
<1> QED  BY <1>1, InitIInv, NextIInv, PTL DEF Spec

(***************************************************************************)
(* More blocks never hurt: the larger cache of a kind holds all that the   *)
(* smaller one holds and has hit at least as often.                        *)
(***************************************************************************)
THEOREM LargerAlwaysIncludesSmaller == Spec => []LargerIncludesSmaller
<1>1. ASSUME IInv
      PROVE  LargerIncludesSmaller
  <2>1. /\ fs_rd_hits \in Nat /\ fl_rd_hits \in Nat
        /\ fs_wr_hits \in Nat /\ fl_wr_hits \in Nat
    BY <1>1 DEF IInv, FullInv, FS!IInv, FS!TypeOK, FS!CountersTypeOK,
                FL!IInv, FL!TypeOK, FL!CountersTypeOK
  <2>2. /\ ds_rd_hits \in Nat /\ dl_rd_hits \in Nat
        /\ ds_wr_hits \in Nat /\ dl_wr_hits \in Nat
    BY <1>1 DEF IInv, DirectInv, DirectSmall!TypeOK, DirectSmall!CountersTypeOK,
                DirectLarge!TypeOK, DirectLarge!CountersTypeOK
  <2>3. FullSmall!Hits <= FullLarge!Hits /\ DirectSmall!Hits <= DirectLarge!Hits
    BY <1>1, <2>1, <2>2 DEF IInv, HitsOrdered, FullSmall!Hits, FullLarge!Hits,
                            DirectSmall!Hits, DirectLarge!Hits
  <2> QED  BY <1>1, <2>3, HoldingsIncluded DEF IInv, LargerIncludesSmaller
<1> QED  BY <1>1, InitIInv, NextIInv, PTL DEF Spec

=============================================================================
