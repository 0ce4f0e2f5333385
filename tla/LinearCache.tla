----------------------------- MODULE LinearCache -----------------------------
(***************************************************************************)
(* class LinearCache, also called DirectMappingCache: each memory block    *)
(* has one place, the block of the cache its low tag bits name.            *)
(*                                                                         *)
(* The code masks the tag with m_block_num - 1; every cache the tool       *)
(* builds has a power of two of blocks, 2^block_log here, and a block      *)
(* number is a word below that.                                            *)
(***************************************************************************)
EXTENDS CacheModel, Words

CONSTANTS
  block_log,          \* logarithm of m_block_num, a natural number
  m_blksz_log,        \* logarithm of the block size in bytes, too
  Addrs,              \* the addresses the program accesses, words
  StaleTags           \* the words the memory of m_tags may hold before

VARIABLES m_valids, m_tags

vars == <<m_valids, m_tags, counters>>

Blocks == SUBSET (0 .. block_log - 1)

getTag(addr) == Shr(addr, m_blksz_log)

(***************************************************************************)
(* A faulty index, for the mutation check: the high bits of the block      *)
(* instead of the low ones.                                                *)
(***************************************************************************)
getIndexHigh(addr) == Shr(getTag(addr), 1) \cap LowMask(block_log)

getIndex(addr) == getTag(addr) \cap LowMask(block_log)

Init ==
  /\ m_valids = [b \in Blocks |-> FALSE]
  /\ m_tags \in [Blocks -> StaleTags]
  /\ CountersInit

lookup(addr) ==
  m_valids[getIndex(addr)] /\ m_tags[getIndex(addr)] = getTag(addr)

AccessHit(addr) ==
  /\ lookup(addr)
  /\ UNCHANGED <<m_valids, m_tags>>

AccessMiss(addr) ==
  /\ ~lookup(addr)
  /\ m_valids' = [m_valids EXCEPT ![getIndex(addr)] = TRUE]
  /\ m_tags' = [m_tags EXCEPT ![getIndex(addr)] = getTag(addr)]

readReq(addr) ==
  \/ AccessHit(addr) /\ CountRead(TRUE)
  \/ AccessMiss(addr) /\ CountRead(FALSE)

writeReq(addr) ==
  \/ AccessHit(addr) /\ CountWrite(TRUE)
  \/ AccessMiss(addr) /\ CountWrite(FALSE)

Next == \E addr \in Addrs : readReq(addr) \/ writeReq(addr)

Spec == Init /\ [][Next]_vars

-----------------------------------------------------------------------------
(***************************************************************************)
(* Flags, words and bounded counters.                                      *)
(***************************************************************************)
TypeOK ==
  /\ m_valids \in [Blocks -> BOOLEAN]
  /\ m_tags \in [Blocks -> Word]
  /\ CountersTypeOK

=============================================================================
