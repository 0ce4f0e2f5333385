---------------------------- MODULE CapacitySuite ----------------------------
(***************************************************************************)
(* The tool with direct mapped and fully associative caches of two sizes,  *)
(* as main() builds them for TEST_CAPACITY: every access of the program is *)
(* shown to all four models, one after the other, before the next.         *)
(*                                                                         *)
(* The four models count the same requests, so they share the variables    *)
(* of the request counters; each has its own hits.                         *)
(***************************************************************************)
EXTENDS AccessStream, FiniteSets

CONSTANTS
  MaxReqs,            \* bound on the number of accesses
  small_log,          \* logarithm of the number of blocks of the small caches
  large_log           \* and of the large ones

ASSUME CapacityAssumption ==
  /\ MaxReqs \in Nat
  /\ small_log \in Nat /\ large_log \in Nat /\ small_log <= large_log

VARIABLES
  m_rd_reqs, m_wr_reqs,
  ds_valids, ds_tags, ds_rd_hits, ds_wr_hits,
  dl_valids, dl_tags, dl_rd_hits, dl_wr_hits,
  fs_valids, fs_tags, fs_queue, fs_rd_hits, fs_wr_hits,
  fl_valids, fl_tags, fl_queue, fl_rd_hits, fl_wr_hits

DirectSmall == INSTANCE LinearCache WITH
  block_log <- small_log, m_blksz_log <- block_log_size,
  Addrs <- MemAddrs, StaleTags <- {{}},
  m_valids <- ds_valids, m_tags <- ds_tags,
  m_rd_hits <- ds_rd_hits, m_wr_hits <- ds_wr_hits

DirectLarge == INSTANCE LinearCache WITH
  block_log <- large_log, m_blksz_log <- block_log_size,
  Addrs <- MemAddrs, StaleTags <- {{}},
  m_valids <- dl_valids, m_tags <- dl_tags,
  m_rd_hits <- dl_rd_hits, m_wr_hits <- dl_wr_hits

FullSmall == INSTANCE FullAssoCache WITH
  block_num <- 2 ^ small_log, m_blksz_log <- block_log_size,
  Addrs <- MemAddrs, StaleTags <- {{}},
  m_valids <- fs_valids, m_tags <- fs_tags, replace_queue <- fs_queue,
  m_rd_hits <- fs_rd_hits, m_wr_hits <- fs_wr_hits

FullLarge == INSTANCE FullAssoCache WITH
  block_num <- 2 ^ large_log, m_blksz_log <- block_log_size,
  Addrs <- MemAddrs, StaleTags <- {{}},
  m_valids <- fl_valids, m_tags <- fl_tags, replace_queue <- fl_queue,
  m_rd_hits <- fl_rd_hits, m_wr_hits <- fl_wr_hits

vars == <<since, DirectSmall!vars, DirectLarge!vars, FullSmall!vars,
          FullLarge!vars>>

Init ==
  /\ StreamInit
  /\ DirectSmall!Init /\ DirectLarge!Init
  /\ FullSmall!Init /\ FullLarge!Init

readCache(ea) ==
  /\ Observe(block(mem_addr(ea)))
  /\ DirectSmall!readReq(mem_addr(ea)) /\ DirectLarge!readReq(mem_addr(ea))
  /\ FullSmall!readReq(mem_addr(ea)) /\ FullLarge!readReq(mem_addr(ea))

writeCache(ea) ==
  /\ Observe(block(mem_addr(ea)))
  /\ DirectSmall!writeReq(mem_addr(ea)) /\ DirectLarge!writeReq(mem_addr(ea))
  /\ FullSmall!writeReq(mem_addr(ea)) /\ FullLarge!writeReq(mem_addr(ea))

Next == \E ea \in EAs : readCache(ea) \/ writeCache(ea)

Spec == Init /\ [][Next]_vars

-----------------------------------------------------------------------------
(***************************************************************************)
(* The four models have their types.                                       *)
(***************************************************************************)
TypeOK ==
  /\ DirectSmall!TypeOK /\ DirectLarge!TypeOK
  /\ FullSmall!TypeOK /\ FullLarge!TypeOK

(***************************************************************************)
(* The set of blocks a model holds; a tag of these models is a block.      *)
(***************************************************************************)
HeldIn(valids, tags) == {tags[b] : b \in {c \in DOMAIN valids : valids[c]}}

DirectSmallHolds == HeldIn(ds_valids, ds_tags)
DirectLargeHolds == HeldIn(dl_valids, dl_tags)
FullSmallHolds == HeldIn(fs_valids, fs_tags)
FullLargeHolds == HeldIn(fl_valids, fl_tags)

(***************************************************************************)
(* A fully associative cache of n blocks holds exactly the n blocks        *)
(* accessed last: those after whose last access fewer than n other blocks  *)
(* were accessed.                                                          *)
(***************************************************************************)
RecentlyUsed(n) == {b \in DOMAIN since : Cardinality(since[b]) < n}

FullHoldsRecent ==
  /\ FullSmallHolds = RecentlyUsed(2 ^ small_log)
  /\ FullLargeHolds = RecentlyUsed(2 ^ large_log)

(***************************************************************************)
(* A direct mapped cache holds a block exactly when no other block of the  *)
(* same index was accessed after it.                                       *)
(***************************************************************************)
LatestOfIndex(log) ==
  {b \in DOMAIN since :
     \A c \in since[b] : c \cap LowMask(log) # b \cap LowMask(log)}

DirectHoldsLatest ==
  /\ DirectSmallHolds = LatestOfIndex(small_log)
  /\ DirectLargeHolds = LatestOfIndex(large_log)

(***************************************************************************)
(* More blocks never hurt: at every moment a larger cache of the same kind *)
(* holds all a smaller one holds, and has hit at least as often.           *)
(***************************************************************************)
LargerIncludesSmaller ==
  /\ FullSmallHolds \subseteq FullLargeHolds
  /\ DirectSmallHolds \subseteq DirectLargeHolds
  /\ FullSmall!Hits <= FullLarge!Hits
  /\ DirectSmall!Hits <= DirectLarge!Hits

=============================================================================
