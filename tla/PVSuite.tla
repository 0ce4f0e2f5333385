------------------------------ MODULE PVSuite ------------------------------
(***************************************************************************)
(* The tool with set-associative caches that differ in where the address   *)
(* is translated, as main() builds them for TEST_PV: VIVT uses the virtual *)
(* address, PIPT the physical one, VIPT the virtual one for the index and  *)
(* the physical one for the tag.  VIVT has random replacement here, the    *)
(* other two LRURepl.                                                      *)
(*                                                                         *)
(* The three models count the same requests, so they share the variables   *)
(* of the request counters; each has its own hits.                         *)
(***************************************************************************)
EXTENDS AccessStream, AddressTranslation, FiniteSets, Sequences

CONSTANTS
  MaxReqs,            \* bound on the number of accesses
  m_sets_log,         \* logarithm of the number of rows of a way
  m_asso              \* number of ways

(***************************************************************************)
(* Offset and index of a block fit in the page offset, as in every cache   *)
(* the tool builds (at most 8 and 4 bits, or 6 and 5, of 12).              *)
(***************************************************************************)
ASSUME PVAssumption ==
  /\ MaxReqs \in Nat
  /\ m_asso \in Nat \ {0}
  /\ m_sets_log \in Nat /\ m_asso <= m_sets_log
  /\ block_log_size + m_asso <= PAGE_SIZE_LOG

VARIABLES
  m_rd_reqs, m_wr_reqs,
  vv_valids, vv_tags, vv_replace, vv_rd_hits, vv_wr_hits,
  pp_valids, pp_tags, pp_replace, pp_rd_hits, pp_wr_hits,
  vp_valids, vp_tags, vp_replace, vp_rd_hits, vp_wr_hits

Physical == [a \in MemAddrs |-> get_phy_addr(a)]

VIVT == INSTANCE SetAssoCache WITH
  m_blksz_log <- block_log_size, phy_index <- FALSE, phy_tag <- FALSE,
  kind <- "RandomRepl", Addrs <- MemAddrs, physical <- Physical,
  StaleTags <- {{}},
  m_valids <- vv_valids, m_tags <- vv_tags, replace <- vv_replace,
  m_rd_hits <- vv_rd_hits, m_wr_hits <- vv_wr_hits

PIPT == INSTANCE SetAssoCache WITH
  m_blksz_log <- block_log_size, phy_index <- TRUE, phy_tag <- TRUE,
  kind <- "LRURepl", Addrs <- MemAddrs, physical <- Physical,
  StaleTags <- {{}},
  m_valids <- pp_valids, m_tags <- pp_tags, replace <- pp_replace,
  m_rd_hits <- pp_rd_hits, m_wr_hits <- pp_wr_hits

VIPT == INSTANCE SetAssoCache WITH
  m_blksz_log <- block_log_size, phy_index <- FALSE, phy_tag <- TRUE,
  kind <- "LRURepl", Addrs <- MemAddrs, physical <- Physical,
  StaleTags <- {{}},
  m_valids <- vp_valids, m_tags <- vp_tags, replace <- vp_replace,
  m_rd_hits <- vp_rd_hits, m_wr_hits <- vp_wr_hits

vars == <<since, VIVT!vars, PIPT!vars, VIPT!vars>>

Init == StreamInit /\ VIVT!Init /\ PIPT!Init /\ VIPT!Init

readCache(ea) ==
  /\ Observe(block(mem_addr(ea)))
  /\ VIVT!readReq(mem_addr(ea))
  /\ PIPT!readReq(mem_addr(ea))
  /\ VIPT!readReq(mem_addr(ea))

writeCache(ea) ==
  /\ Observe(block(mem_addr(ea)))
  /\ VIVT!writeReq(mem_addr(ea))
  /\ PIPT!writeReq(mem_addr(ea))
  /\ VIPT!writeReq(mem_addr(ea))

Next == \E ea \in EAs : readCache(ea) \/ writeCache(ea)

Spec == Init /\ [][Next]_vars

-----------------------------------------------------------------------------
(***************************************************************************)
(* The three models have their types.                                      *)
(***************************************************************************)
TypeOK == VIVT!TypeOK /\ PIPT!TypeOK /\ VIPT!TypeOK

(***************************************************************************)
(* In every row of every cache a tag is valid in at most one way: lookup   *)
(* and the filling of a row agree on which way holds a line.               *)
(***************************************************************************)
UniqueTags ==
  VIVT!UniqueTagsInRow /\ PIPT!UniqueTagsInRow /\ VIPT!UniqueTagsInRow

(***************************************************************************)
(* Ways fill in order and no replacement object is asked before its row is *)
(* full; LRUReplImplementsFIFO rests on it.                                *)
(***************************************************************************)
FilledInOrder ==
  VIVT!FilledInOrder /\ PIPT!FilledInOrder /\ VIPT!FilledInOrder

(***************************************************************************)
(* While offset and index fit in the page offset, indexing by the virtual  *)
(* address is indexing by the physical one: VIPT and PIPT hold the same    *)
(* tags in the same places and hit on the same accesses, always.           *)
(***************************************************************************)
VIPTEqualsPIPT ==
  /\ vp_valids = pp_valids
  /\ vp_tags = pp_tags
  /\ vp_replace = pp_replace
  /\ vp_rd_hits = pp_rd_hits
  /\ vp_wr_hits = pp_wr_hits

(***************************************************************************)
(* LRURepl moves a way to the back of its queue when the way is selected   *)
(* and not when it hits: a cache with LRURepl implements first-in          *)
(* first-out replacement.  A row is the tags of the valid ways, the one    *)
(* loaded longest ago first: the order of its queue, which starts with way *)
(* 0 and is not asked before every way is filled, so that the valid ways   *)
(* are its front.  The observer tells which line each access was for, so   *)
(* the abstract row must hit or load that very line.                       *)
(***************************************************************************)
LoadedInRow(r) ==
  [i \in {j \in 1 .. m_asso : pp_valids[pp_replace[r][j]][r]} |->
     pp_tags[pp_replace[r][i]][r]]

Line(a) == <<PIPT!RowOf(a), PIPT!TagOf(a)>>

AccessedLines == {Line(a) : a \in MemAddrs}

AccessedRows == {line[1] : line \in AccessedLines}

LastLine ==
  IF DOMAIN since = {} THEN <<>>
  ELSE Line(CHOOSE a \in MemAddrs : block(a) = LastBlock)

FIFO == INSTANCE FIFORows WITH
  asso <- m_asso,
  Lines <- AccessedLines,
  accessed <- LastLine,
  rows <- [r \in AccessedRows |-> LoadedInRow(r)],
  m_rd_hits <- pp_rd_hits, m_wr_hits <- pp_wr_hits

LRUReplImplementsFIFO == FIFO!Spec

(***************************************************************************)
(* cacheModel.cpp:451 and lab3.md divide an address into tag, set index    *)
(* and block offset with nothing between them, so that a hit is an access  *)
(* to a block that was loaded: a request may only hit when its block was   *)
(* accessed before.                                                        *)
(***************************************************************************)
HitsWereLoaded ==
  [][VIVT!Hits' > VIVT!Hits => LastBlock' \in DOMAIN since]_vars

(***************************************************************************)
(* cacheModel.cpp:475 says of access() that it updates the queue on a hit, *)
(* and lab3.md calls the replacement of LRURepl least recently used: a     *)
(* line stays cached as long as fewer than m_asso other lines of its row   *)
(* were accessed after it.                                                 *)
(***************************************************************************)
LinesSince(a) ==
  {Line(c) : c \in {d \in MemAddrs : block(d) \in since[block(a)]}} \ {Line(a)}

LRUKeepsRecent ==
  \A a \in MemAddrs :
    /\ block(a) \in DOMAIN since
    /\ Cardinality({l \in LinesSince(a) : l[1] = Line(a)[1]}) < m_asso
    => PIPT!lookup(a)

(***************************************************************************)
(* The physical memory has 2^PHY_MEM_SIZE_LOG bytes (cacheModel.cpp:19):   *)
(* every access is translated to an address below that.                    *)
(***************************************************************************)
TranslatedIntoMemory ==
  \A b \in DOMAIN since : \A a \in MemAddrs :
    block(a) = b => get_phy_addr(a) \subseteq LowMask(PHY_MEM_SIZE_LOG)

=============================================================================
