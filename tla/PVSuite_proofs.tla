--------------------------- MODULE PVSuite_proofs ---------------------------
(***************************************************************************)
(* Proofs about the translation and the set-associative caches, for every  *)
(* program, number of ways and rows, and block size for which offset and   *)
(* index fit in the page offset: the virtually indexed and the physically  *)
(* indexed cache are the same cache, no cache holds a tag twice in a row,  *)
(* rows fill in order, and the cache with LRURepl refines one with first-  *)
(* in first-out replacement.                                              *)
(***************************************************************************)
EXTENDS PVSuite, FiniteSetTheorems, SequenceTheorems, TLAPS

(***************************************************************************)
(* A right shift of a word is a word.                                      *)
(***************************************************************************)
LEMMA ShrIsWord ==
  ASSUME NEW w \in Word, NEW k \in Nat
  PROVE  Shr(w, k) \in Word
BY DEF Shr, Word, Bits

(***************************************************************************)
(* Shl drops what leaves bit 31.                                           *)
(***************************************************************************)
LEMMA ShlIsWord ==
  ASSUME NEW w \in Word, NEW k \in Nat
  PROVE  Shl(w, k) \in Word
BY DEF Shl, Word, Bits

(***************************************************************************)
(* Add drops the carry out of bit 31.                                      *)
(***************************************************************************)
LEMMA AddIsWord ==
  ASSUME NEW a, NEW b
  PROVE  Add(a, b) \in Word
BY DEF Add, Word

(***************************************************************************)
(* Bit i of a word shifted right by k is bit i + k of the word.            *)
(***************************************************************************)
LEMMA ShrBit ==
  ASSUME NEW w \in Word, NEW k \in Nat, NEW i \in Nat
  PROVE  i \in Shr(w, k) <=> i + k \in w
<1>1. ASSUME i \in Shr(w, k)
      PROVE  i + k \in w
  <2>1. PICK j \in w : j >= k /\ i = j - k
    BY <1>1 DEF Shr
  <2>2. j \in Nat
    BY DEF Word, Bits
  <2> QED  BY <2>1, <2>2
<1>2. ASSUME i + k \in w
      PROVE  i \in Shr(w, k)
  <2>1. i + k >= k /\ i = (i + k) - k
    OBVIOUS
  <2> QED  BY <1>2, <2>1 DEF Shr
<1> QED  BY <1>1, <1>2

(***************************************************************************)
(* A left shift by k leaves the k low bits clear.                          *)
(***************************************************************************)
LEMMA ShlBits ==
  ASSUME NEW w \in Word, NEW k \in Nat, NEW i \in Shl(w, k)
  PROVE  i \in Bits /\ i >= k
BY DEF Shl, Word, Bits

(***************************************************************************)
(* When two words have no bit in common below k, no carry reaches a bit    *)
(* up to k: the low bits of the sum are those of the two words together.   *)
(***************************************************************************)
LEMMA AddWithoutCarry ==
  ASSUME NEW a \in Word, NEW b \in Word, NEW k \in Nat,
         \A i \in a \cap b : i >= k
  PROVE  Add(a, b) \cap LowMask(k) = (a \cup b) \cap LowMask(k)
<1>1. ASSUME NEW i \in Bits, i < k
      PROVE  ~Carry(a, b, i)
  BY <1>1 DEF Carry, Word, Bits
<1>2. ASSUME NEW i \in Bits, i < k
      PROVE  i \in Xor(a, b) <=> i \in a \cup b
  BY <1>2 DEF Xor, Word, Bits
<1>3. ASSUME NEW i \in Bits, i < k
      PROVE  i \in Add(a, b) <=> i \in a \cup b
  BY <1>1, <1>2, <1>3 DEF Add
<1> QED  BY <1>3 DEF Add, LowMask, Word

-----------------------------------------------------------------------------
(***************************************************************************)
(* get_phy_addr keeps the page offset of every address, whatever the hash  *)
(* of the page number is.                                                  *)
(***************************************************************************)
THEOREM TranslationKeepsOffset ==
  ASSUME NEW a \in Word
  PROVE  get_page_offset(get_phy_addr(a)) = get_page_offset(a)
<1> DEFINE frame == get_phy_page_no(get_vir_page_no(a))
           high == Shl(frame, PAGE_SIZE_LOG)
           low == get_page_offset(a)
<1>1. frame \in Word
  BY AddIsWord DEF get_phy_page_no, Word
<1>2. high \in Word /\ \A i \in high : i >= PAGE_SIZE_LOG
  BY <1>1, ShlIsWord, ShlBits DEF PAGE_SIZE_LOG
<1>3. low \in Word /\ \A i \in low : i < PAGE_SIZE_LOG
  BY DEF get_page_offset, LowMask, Word
<1>4. \A i \in high \cap low : i >= PAGE_SIZE_LOG
  BY <1>2
<1>5. Add(high, low) \cap LowMask(PAGE_SIZE_LOG)
        = (high \cup low) \cap LowMask(PAGE_SIZE_LOG)
  BY <1>2, <1>3, <1>4, AddWithoutCarry DEF PAGE_SIZE_LOG
<1>6. high \cap LowMask(PAGE_SIZE_LOG) = {}
  BY <1>2 DEF LowMask, Word, Bits, PAGE_SIZE_LOG
<1> QED  BY <1>3, <1>5, <1>6 DEF get_phy_addr, get_page_offset

(***************************************************************************)
(* A translated address is a 32-bit word again, so it can index and tag a  *)
(* cache as a virtual address can.                                         *)
(***************************************************************************)
THEOREM TranslationIsWord ==
  ASSUME NEW a \in Word
  PROVE  get_phy_addr(a) \in Word
BY AddIsWord DEF get_phy_addr

-----------------------------------------------------------------------------
USE StreamAssumption, PVAssumption

(***************************************************************************)
(* The addresses the models see, and their translations, are words.        *)
(***************************************************************************)
LEMMA AddressesAreWords ==
  ASSUME NEW a \in MemAddrs
  PROVE  a \in Word /\ Physical[a] = get_phy_addr(a) /\ Physical[a] \in Word
<1>1. PICK ea \in EAs : a = Shl(Shr(ea \cap Bits, 2), 2)
  BY DEF MemAddrs, mem_addr
<1>2. ea \cap Bits \in Word
  BY DEF Word
<1>3. a \in Word
  BY <1>1, <1>2, ShrIsWord, ShlIsWord
<1> QED  BY <1>3, TranslationIsWord DEF Physical

(***************************************************************************)
(* An address and its translation have the same row: the bits of the index *)
(* lie in the page offset, which the translation keeps.                    *)
(***************************************************************************)
LEMMA SameRow ==
  ASSUME NEW a \in MemAddrs
  PROVE  VIPT!RowOf(a) = PIPT!RowOf(a)
<1> DEFINE p == Physical[a]
<1>1. a \in Word /\ p \in Word
  BY AddressesAreWords
<1>2. \A j \in Nat : j < PAGE_SIZE_LOG => (j \in a <=> j \in p)
  <2>1. get_page_offset(p) = get_page_offset(a)
    BY <1>1, AddressesAreWords, TranslationKeepsOffset
  <2>2. \A j \in a \cup p : j \in Bits
    BY <1>1 DEF Word
  <2> QED  BY <2>1, <2>2 DEF get_page_offset, LowMask
<1> HIDE DEF p
<1>3. ASSUME NEW i \in Bits, i < m_asso
      PROVE  i \in Shr(a, block_log_size) <=> i \in Shr(p, block_log_size)
  <2>1. i \in Nat /\ i + block_log_size \in Nat
        /\ i + block_log_size < PAGE_SIZE_LOG
    BY <1>3 DEF Bits, PAGE_SIZE_LOG
  <2>2. i + block_log_size \in a <=> i + block_log_size \in p
    BY <1>2, <2>1
  <2>3. i \in Shr(a, block_log_size) <=> i + block_log_size \in a
    BY <1>1, <2>1, ShrBit
  <2>4. i \in Shr(p, block_log_size) <=> i + block_log_size \in p
    BY <1>1, <2>1, ShrBit
  <2> QED  BY <2>2, <2>3, <2>4
<1>4. Shr(a, block_log_size) \cap LowMask(m_asso)
        = Shr(p, block_log_size) \cap LowMask(m_asso)
  BY <1>3 DEF LowMask
<1>5. VIPT!RowOf(a) = Shr(a, block_log_size) \cap LowMask(m_asso)
  BY DEF VIPT!RowOf, VIPT!getSetIndex, VIPT!Shr, VIPT!LowMask, VIPT!Bits,
         Shr, LowMask, Bits
<1>6. PIPT!RowOf(a) = Shr(p, block_log_size) \cap LowMask(m_asso)
  BY DEF PIPT!RowOf, PIPT!getSetIndex, PIPT!Shr, PIPT!LowMask, PIPT!Bits,
         Shr, LowMask, Bits, p
<1> QED  BY <1>4, <1>5, <1>6

(***************************************************************************)
(* VIPT and PIPT both take the tag from the translated address.            *)
(***************************************************************************)
LEMMA SameTag ==
  ASSUME NEW a \in MemAddrs
  PROVE  VIPT!TagOf(a) = PIPT!TagOf(a)
BY DEF VIPT!TagOf, PIPT!TagOf, VIPT!getTag, PIPT!getTag, VIPT!Shr, PIPT!Shr

-----------------------------------------------------------------------------
(***************************************************************************)
(* In equal states the two caches find, or do not find, the same line.     *)
(***************************************************************************)
LEMMA SameLookup ==
  ASSUME VIPTEqualsPIPT, NEW a \in MemAddrs
  PROVE  VIPT!lookup(a) <=> PIPT!lookup(a)
BY SameRow, SameTag
DEF VIPTEqualsPIPT, VIPT!lookup, PIPT!lookup, VIPT!Ways, PIPT!Ways

(***************************************************************************)
(* From equal states, the two caches take an access to equal states: a     *)
(* fill has one way to load, and a LRURepl object one way to select.       *)
(***************************************************************************)
LEMMA SameFill ==
  ASSUME VIPTEqualsPIPT, NEW a \in MemAddrs,
         VIPT!AccessFill(a), PIPT!AccessFill(a)
  PROVE  /\ vp_valids' = pp_valids'
         /\ vp_tags' = pp_tags'
         /\ vp_replace' = pp_replace'
<1> DEFINE r == PIPT!RowOf(a)
           free == PIPT!FreeWays(r)
<1>1. VIPT!RowOf(a) = r /\ VIPT!FreeWays(r) = free
  BY SameRow DEF VIPTEqualsPIPT, VIPT!FreeWays, PIPT!FreeWays, VIPT!Ways,
                 PIPT!Ways
<1>2. PICK v \in free : (\A u \in free : v <= u) /\ VIPT!Load(v, a)
  BY <1>1 DEF VIPT!AccessFill
<1>3. PICK w \in free : (\A u \in free : w <= u) /\ PIPT!Load(w, a)
  BY DEF PIPT!AccessFill
<1>4. v = w
  <2>1. v \in Nat /\ w \in Nat /\ v <= w /\ w <= v
    BY <1>2, <1>3 DEF PIPT!FreeWays, PIPT!Ways
  <2> QED  BY <2>1
<1>5. UNCHANGED vp_replace /\ UNCHANGED pp_replace
  BY DEF VIPT!AccessFill, PIPT!AccessFill
<1> QED  BY <1>1, <1>2, <1>3, <1>4, <1>5, SameTag
         DEF VIPTEqualsPIPT, VIPT!Load, PIPT!Load

(***************************************************************************)
(* In a full row the two LRURepl objects are in the same state and select  *)
(* the same way.                                                           *)
(***************************************************************************)
LEMMA SameReplace ==
  ASSUME VIPTEqualsPIPT, NEW a \in MemAddrs,
         VIPT!AccessReplace(a), PIPT!AccessReplace(a)
  PROVE  /\ vp_valids' = pp_valids'
         /\ vp_tags' = pp_tags'
         /\ vp_replace' = pp_replace'
<1> DEFINE r == PIPT!RowOf(a)
           s == PIPT!R!LRUSelect(pp_replace[r])
<1>1. VIPT!RowOf(a) = r
  BY SameRow
<1>2. /\ PIPT!Load(s.way, a)
      /\ pp_replace' = [pp_replace EXCEPT ![r] = s.next]
  BY DEF PIPT!AccessReplace, PIPT!R!Selections
<1>3. VIPT!R!LRUSelect(vp_replace[r]) = s
  BY DEF VIPTEqualsPIPT, VIPT!R!LRUSelect, PIPT!R!LRUSelect,
         VIPT!R!LRU!Front, PIPT!R!LRU!Front,
         VIPT!R!LRU!Update, PIPT!R!LRU!Update,
         VIPT!R!LRU!Position, PIPT!R!LRU!Position,
         VIPT!R!LRU!Positions, PIPT!R!LRU!Positions
<1>4. /\ VIPT!Load(s.way, a)
      /\ vp_replace' = [vp_replace EXCEPT ![r] = s.next]
  BY <1>1, <1>3 DEF VIPT!AccessReplace, VIPT!R!Selections
<1> HIDE DEF s
<1> QED  BY <1>1, <1>2, <1>4, SameTag
         DEF VIPTEqualsPIPT, VIPT!Load, PIPT!Load

(***************************************************************************)
(* Shown the same request, the two caches hit or miss together and stay    *)
(* equal.                                                                  *)
(***************************************************************************)
LEMMA SameAccess ==
  ASSUME VIPTEqualsPIPT, NEW a \in MemAddrs,
         \/ VIPT!readReq(a) /\ PIPT!readReq(a)
         \/ VIPT!writeReq(a) /\ PIPT!writeReq(a)
  PROVE  VIPTEqualsPIPT'
<1>1. CASE VIPT!lookup(a)
  <2>1. PIPT!lookup(a)
    BY <1>1, SameLookup
  <2>2. ~VIPT!AccessMiss(a) /\ ~PIPT!AccessMiss(a)
    BY <1>1, <2>1 DEF VIPT!AccessMiss, VIPT!AccessFill, VIPT!AccessReplace,
                      PIPT!AccessMiss, PIPT!AccessFill, PIPT!AccessReplace
  <2>3. VIPT!AccessHit(a) /\ PIPT!AccessHit(a)
    BY <2>2 DEF VIPT!readReq, PIPT!readReq, VIPT!writeReq, PIPT!writeReq
  <2>4. vp_rd_hits' = pp_rd_hits' /\ vp_wr_hits' = pp_wr_hits'
    BY <2>2 DEF VIPTEqualsPIPT, VIPT!readReq, PIPT!readReq, VIPT!writeReq,
                PIPT!writeReq, VIPT!CountRead, PIPT!CountRead,
                VIPT!CountWrite, PIPT!CountWrite, VIPT!One, PIPT!One
  <2> QED  BY <2>3, <2>4 DEF VIPTEqualsPIPT, VIPT!AccessHit, PIPT!AccessHit
<1>2. CASE ~VIPT!lookup(a)
  <2>1. ~PIPT!lookup(a)
    BY <1>2, SameLookup
  <2>2. ~VIPT!AccessHit(a) /\ ~PIPT!AccessHit(a)
    BY <1>2, <2>1 DEF VIPT!AccessHit, PIPT!AccessHit
  <2>3. VIPT!AccessMiss(a) /\ PIPT!AccessMiss(a)
    BY <2>2 DEF VIPT!readReq, PIPT!readReq, VIPT!writeReq, PIPT!writeReq
  <2>4. vp_rd_hits' = pp_rd_hits' /\ vp_wr_hits' = pp_wr_hits'
    BY <2>2 DEF VIPTEqualsPIPT, VIPT!readReq, PIPT!readReq, VIPT!writeReq,
                PIPT!writeReq, VIPT!CountRead, PIPT!CountRead,
                VIPT!CountWrite, PIPT!CountWrite, VIPT!One, PIPT!One
  <2>5. VIPT!FreeWays(VIPT!RowOf(a)) = PIPT!FreeWays(PIPT!RowOf(a))
    BY SameRow DEF VIPTEqualsPIPT, VIPT!FreeWays, PIPT!FreeWays, VIPT!Ways,
                   PIPT!Ways
  <2>6. \/ VIPT!AccessFill(a) /\ PIPT!AccessFill(a)
        \/ VIPT!AccessReplace(a) /\ PIPT!AccessReplace(a)
    BY <2>3, <2>5 DEF VIPT!AccessMiss, PIPT!AccessMiss, VIPT!AccessFill,
                      PIPT!AccessFill, VIPT!AccessReplace,
                      PIPT!AccessReplace
  <2> QED  BY <2>4, <2>6, SameFill, SameReplace DEF VIPTEqualsPIPT
<1> QED  BY <1>1, <1>2

-----------------------------------------------------------------------------
(***************************************************************************)
(* The two caches start equal, and every step of the suite keeps them so.  *)
(***************************************************************************)
LEMMA InitEqual == Init => VIPTEqualsPIPT
<1> SUFFICES ASSUME Init
             PROVE  VIPTEqualsPIPT
  OBVIOUS
<1> DEFINE zero == [w \in PIPT!Ways |-> [r \in PIPT!Rows |-> {}]]
<1>1. \A tags \in [PIPT!Ways -> [PIPT!Rows -> {{}}]] : tags = zero
  OBVIOUS
<1>2. VIPT!Ways = PIPT!Ways /\ VIPT!Rows = PIPT!Rows
  BY DEF VIPT!Ways, PIPT!Ways, VIPT!Rows, PIPT!Rows
<1>3. vp_tags = zero /\ pp_tags = zero
  BY <1>1, <1>2 DEF Init, VIPT!Init, PIPT!Init
<1>4. vp_replace = pp_replace
  BY <1>2 DEF Init, VIPT!Init, PIPT!Init, VIPT!R!InitialState,
              PIPT!R!InitialState, VIPT!R!LRU!InitQueue,
              PIPT!R!LRU!InitQueue, VIPT!R!LRU!Positions,
              PIPT!R!LRU!Positions
<1> QED  BY <1>2, <1>3, <1>4
         DEF Init, VIPT!Init, PIPT!Init, VIPTEqualsPIPT,
             VIPT!CountersInit, PIPT!CountersInit

(***************************************************************************)
(* Every request keeps the two caches equal.                               *)
(***************************************************************************)
LEMMA NextEqual == VIPTEqualsPIPT /\ [Next]_vars => VIPTEqualsPIPT'
<1> SUFFICES ASSUME VIPTEqualsPIPT, [Next]_vars
             PROVE  VIPTEqualsPIPT'
  OBVIOUS
<1>1. ASSUME NEW ea \in EAs, readCache(ea) \/ writeCache(ea)
      PROVE  VIPTEqualsPIPT'
  <2>1. mem_addr(ea) \in MemAddrs
    BY DEF MemAddrs
  <2> QED  BY <1>1, <2>1, SameAccess DEF readCache, writeCache
<1>2. CASE UNCHANGED vars
  BY <1>2 DEF vars, PIPT!vars, PIPT!counters, VIPT!vars, VIPT!counters,
              VIPTEqualsPIPT
<1> QED  BY <1>1, <1>2 DEF Next

(***************************************************************************)
(* VIPT and PIPT agree in the whole run of every program.  The equality is *)
(* inductive by itself.                                                    *)
(***************************************************************************)
THEOREM VIPTAlwaysEqualsPIPT == Spec => []VIPTEqualsPIPT
BY InitEqual, NextEqual, PTL DEF Spec

-----------------------------------------------------------------------------
(***************************************************************************)
(* The rows of a set-associative cache, of whichever class: their types,   *)
(* each tag in one way at most, and the ways filled in order.              *)
(***************************************************************************)
Ways == 0 .. m_asso - 1

Rows == SUBSET (0 .. m_sets_log - 1)

RowsInv(valids, tags) ==
  /\ valids \in [Ways -> [Rows -> BOOLEAN]]
  /\ tags \in [Ways -> [Rows -> Word]]
  /\ \A r \in Rows : \A v, w \in Ways :
       valids[v][r] /\ valids[w][r] /\ tags[v][r] = tags[w][r] => v = w
  /\ \A r \in Rows : \A v, w \in Ways : v < w /\ valids[w][r] => valids[v][r]

(***************************************************************************)
(* A place for a new tag: its row holds the tag in no way, and the ways    *)
(* below w are filled.  Loaded is what a load does to the two arrays.      *)
(***************************************************************************)
NewInRow(valids, tags, w, r, tag) ==
  /\ w \in Ways /\ r \in Rows /\ tag \in Word
  /\ \A v \in Ways : ~(valids[v][r] /\ tags[v][r] = tag)
  /\ \A v \in Ways : v < w => valids[v][r]

Loaded(valids, tags, valids2, tags2, w, r, tag) ==
  /\ valids2 = [valids EXCEPT ![w][r] = TRUE]
  /\ tags2 = [tags EXCEPT ![w][r] = tag]

(***************************************************************************)
(* Loading a tag that is in no way of its row, into a way below which all  *)
(* are filled, keeps that.                                                 *)
(***************************************************************************)
LEMMA LoadKeepsRows ==
  ASSUME NEW valids, NEW tags, NEW valids2, NEW tags2, NEW w, NEW r, NEW tag,
         RowsInv(valids, tags),
         NewInRow(valids, tags, w, r, tag),
         Loaded(valids, tags, valids2, tags2, w, r, tag)
  PROVE  RowsInv(valids2, tags2)
<1> USE DEF NewInRow, Loaded
<1>1. /\ valids2 \in [Ways -> [Rows -> BOOLEAN]]
      /\ tags2 \in [Ways -> [Rows -> Word]]
  BY DEF RowsInv
<1>2. /\ valids2[w][r] /\ tags2[w][r] = tag
      /\ \A v \in Ways : \A s \in Rows : v # w \/ s # r =>
           (valids2[v][s] <=> valids[v][s]) /\ tags2[v][s] = tags[v][s]
  BY DEF RowsInv
<1>3. ASSUME NEW s \in Rows, NEW u \in Ways, NEW v \in Ways,
             valids2[u][s], valids2[v][s], tags2[u][s] = tags2[v][s]
      PROVE  u = v
  <2>1. CASE s # r \/ (u # w /\ v # w)
    BY <1>2, <1>3, <2>1 DEF RowsInv
  <2>2. CASE s = r /\ u = w
    BY <1>2, <1>3, <2>2
  <2>3. CASE s = r /\ v = w
    BY <1>2, <1>3, <2>3
  <2> QED  BY <2>1, <2>2, <2>3
<1>4. ASSUME NEW s \in Rows, NEW u \in Ways, NEW v \in Ways,
             u < v, valids2[v][s]
      PROVE  valids2[u][s]
  <2>1. CASE s # r \/ (u # w /\ v # w)
    BY <1>2, <1>4, <2>1 DEF RowsInv
  <2>2. CASE s = r /\ u = w
    BY <1>2, <2>2
  <2>3. CASE s = r /\ v = w /\ u # w
    BY <1>2, <1>4, <2>3
  <2> QED  BY <2>1, <2>2, <2>3
<1> QED  BY <1>1, <1>3, <1>4 DEF RowsInv

(***************************************************************************)
(* The row and the tag of an address are in range: an index of m_asso bits *)
(* fits in m_sets_log.                                                     *)
(***************************************************************************)
LEMMA RowsAndTags ==
  ASSUME NEW a \in MemAddrs
  PROVE  /\ VIVT!RowOf(a) \in Rows /\ VIVT!TagOf(a) \in Word
         /\ PIPT!RowOf(a) \in Rows /\ PIPT!TagOf(a) \in Word
<1> DEFINE p == Physical[a]
           dropped == block_log_size + m_asso + m_sets_log
<1>1. a \in Word /\ p \in Word /\ dropped \in Nat
  BY AddressesAreWords
<1>2. /\ VIVT!RowOf(a) = Shr(a, block_log_size) \cap LowMask(m_asso)
      /\ VIVT!TagOf(a) = Shr(a, dropped)
  BY DEF VIVT!RowOf, VIVT!TagOf, VIVT!getSetIndex, VIVT!getTag, VIVT!Shr,
         VIVT!LowMask, VIVT!Bits, Shr, LowMask, Bits
<1>3. /\ PIPT!RowOf(a) = Shr(p, block_log_size) \cap LowMask(m_asso)
      /\ PIPT!TagOf(a) = Shr(p, dropped)
  BY DEF PIPT!RowOf, PIPT!TagOf, PIPT!getSetIndex, PIPT!getTag, PIPT!Shr,
         PIPT!LowMask, PIPT!Bits, Shr, LowMask, Bits
<1>4. \A w : w \cap LowMask(m_asso) \in Rows
  BY DEF Bits, LowMask, Rows
<1> HIDE DEF p, dropped
<1> QED  BY <1>1, <1>2, <1>3, <1>4, ShrIsWord

-----------------------------------------------------------------------------
(***************************************************************************)
(* VIVT: a random way of a full row may be replaced.                       *)
(***************************************************************************)
VIVTInv ==
  /\ RowsInv(vv_valids, vv_tags)
  /\ vv_replace \in [Rows -> {0}]
  /\ VIVT!CountersTypeOK

(***************************************************************************)
(* A request keeps the invariant of VIVT.                                  *)
(***************************************************************************)
LEMMA VIVTAccess ==
  ASSUME VIVTInv, NEW a \in MemAddrs, VIVT!readReq(a) \/ VIVT!writeReq(a)
  PROVE  VIVTInv'
<1> DEFINE r == VIVT!RowOf(a)
           tag == VIVT!TagOf(a)
<1>1. r \in Rows /\ tag \in Word
  BY RowsAndTags
<1>2. VIVT!CountersTypeOK'
  BY DEF VIVTInv, VIVT!readReq, VIVT!writeReq, VIVT!CountRead, VIVT!CountWrite,
         VIVT!One, VIVT!CountersTypeOK, VIVT!Requests
<1>3. ASSUME ~VIVT!lookup(a), NEW w \in Ways, VIVT!Load(w, a),
             \A v \in Ways : v < w => vv_valids[v][r]
      PROVE  RowsInv(vv_valids, vv_tags)'
  <2>1. NewInRow(vv_valids, vv_tags, w, r, tag)
    BY <1>1, <1>3 DEF VIVT!lookup, VIVT!Ways, Ways, NewInRow
  <2>2. Loaded(vv_valids, vv_tags, vv_valids', vv_tags', w, r, tag)
    BY <1>3 DEF VIVT!Load, Loaded
  <2>3. RowsInv(vv_valids, vv_tags)
    BY DEF VIVTInv
  <2> HIDE DEF r, tag
  <2>4. RowsInv(vv_valids', vv_tags')
    BY <2>1, <2>2, <2>3, LoadKeepsRows
  <2> QED  BY <2>4 DEF RowsInv
<1>4. RowsInv(vv_valids, vv_tags)' /\ vv_replace' \in [Rows -> {0}]
  <2>1. CASE VIVT!AccessHit(a)
    BY <2>1 DEF VIVT!AccessHit, VIVTInv, RowsInv
  <2>2. CASE VIVT!AccessFill(a)
    <3>1. PICK w \in VIVT!FreeWays(r) : /\ \A v \in VIVT!FreeWays(r) : w <= v
                                        /\ VIVT!Load(w, a)
      BY <2>2 DEF VIVT!AccessFill
    <3>2. w \in Ways /\ \A v \in Ways : v < w => vv_valids[v][r]
      BY <3>1 DEF VIVT!FreeWays, VIVT!Ways, Ways
    <3>3. ~VIVT!lookup(a) /\ UNCHANGED vv_replace
      BY <2>2 DEF VIVT!AccessFill
    <3> QED  BY <1>3, <3>1, <3>2, <3>3 DEF VIVTInv
  <2>3. CASE VIVT!AccessReplace(a)
    <3>1. ~VIVT!lookup(a) /\ \A v \in Ways : vv_valids[v][r]
      BY <2>3 DEF VIVT!AccessReplace, VIVT!FreeWays, VIVT!Ways, Ways
    <3>2. PICK s \in VIVT!R!Selections("RandomRepl", vv_replace[r]) :
               /\ VIVT!Load(s.way, a)
               /\ vv_replace' = [vv_replace EXCEPT ![r] = s.next]
      BY <2>3 DEF VIVT!AccessReplace
    <3>3. s.way \in Ways /\ s.next = vv_replace[r]
      BY <3>2 DEF VIVT!R!Selections, VIVT!R!Ways, Ways
    <3>4. vv_replace' \in [Rows -> {0}]
      BY <3>2, <3>3 DEF VIVTInv
    <3> QED  BY <1>3, <3>1, <3>2, <3>3, <3>4
  <2> QED  BY <2>1, <2>2, <2>3 DEF VIVT!readReq, VIVT!writeReq, VIVT!AccessMiss
<1> QED  BY <1>2, <1>4 DEF VIVTInv

-----------------------------------------------------------------------------
(***************************************************************************)
(* PIPT: the queues of the rows.  Each holds every way once, and is as it  *)
(* was constructed until its row is full.                                  *)
(***************************************************************************)
Positions == 1 .. m_asso

InitialQueue == [i \in Positions |-> i - 1]

RowQueue(q) ==
  /\ q \in [Positions -> Ways]
  /\ \A i, j \in Positions : q[i] = q[j] => i = j
  /\ \A w \in Ways : \E i \in Positions : q[i] = w

QueuesInv(valids, queues) ==
  /\ queues \in [Rows -> [Positions -> Ways]]
  /\ \A r \in Rows : RowQueue(queues[r])
  /\ \A r \in Rows :
       (\E w \in Ways : ~valids[w][r]) => queues[r] = InitialQueue

(***************************************************************************)
(* LRURepl selects the front of its queue and turns the queue by one.      *)
(***************************************************************************)
Rotated(q) == [i \in Positions |-> IF i < m_asso THEN q[i + 1] ELSE q[1]]

(***************************************************************************)
(* In a queue of distinct ways the front stands in position one only.      *)
(***************************************************************************)
LEMMA SelectRotates ==
  ASSUME NEW q, RowQueue(q)
  PROVE  PIPT!R!LRUSelect(q) = [way |-> q[1], next |-> Rotated(q)]
<1>1. 1 \in Positions
  BY DEF Positions
<1>2. PIPT!R!LRU!Position(q, q[1]) = 1
  BY <1>1 DEF RowQueue, PIPT!R!LRU!Position, PIPT!R!LRU!Positions, Positions
<1>3. PIPT!R!LRU!Update(q, q[1]) = Rotated(q)
  BY <1>2 DEF PIPT!R!LRU!Update, PIPT!R!LRU!Positions, Positions, Rotated
<1> QED  BY <1>3 DEF PIPT!R!LRUSelect, PIPT!R!LRU!Front

(***************************************************************************)
(* A turned queue holds every way once again.                              *)
(***************************************************************************)
LEMMA RotatedIsQueue ==
  ASSUME NEW q, RowQueue(q)
  PROVE  RowQueue(Rotated(q))
<1> DEFINE t == Rotated(q)
<1>1. \A i \in Positions : t[i] = IF i < m_asso THEN q[i + 1] ELSE q[1]
  BY DEF Rotated
<1>2. t \in [Positions -> Ways]
  BY DEF Rotated, RowQueue, Positions
<1> HIDE DEF t
<1>3. \A i, j \in Positions : t[i] = t[j] => i = j
  BY <1>1 DEF RowQueue, Positions
<1>4. ASSUME NEW w \in Ways
      PROVE  \E i \in Positions : t[i] = w
  <2>1. PICK j \in Positions : q[j] = w
    BY DEF RowQueue
  <2>2. CASE j = 1
    <3>1. m_asso \in Positions /\ t[m_asso] = w
      BY <1>1, <2>1, <2>2 DEF Positions
    <3> QED  BY <3>1
  <2>3. CASE j # 1
    <3>1. j - 1 \in Positions /\ t[j - 1] = w
      BY <1>1, <2>1, <2>3 DEF Positions
    <3> QED  BY <3>1
  <2> QED  BY <2>2, <2>3
<1> QED  BY <1>2, <1>3, <1>4 DEF RowQueue, t

PIPTInv ==
  /\ RowsInv(pp_valids, pp_tags)
  /\ QueuesInv(pp_valids, pp_replace)
  /\ PIPT!CountersTypeOK

(***************************************************************************)
(* A miss loads the first free way of the row or, when there is none, the  *)
(* way at the front of the row's queue.                                    *)
(***************************************************************************)
FillsWay(w, r) ==
  /\ ~pp_valids[w][r]
  /\ UNCHANGED pp_replace

ReplacesFront(w, r) ==
  /\ \A v \in Ways : pp_valids[v][r]
  /\ w = pp_replace[r][1]
  /\ pp_replace' = [pp_replace EXCEPT ![r] = Rotated(pp_replace[r])]

(***************************************************************************)
(* The line of a missed request is new in its row, and the load of either  *)
(* kind puts it into the way it says.                                      *)
(***************************************************************************)
LEMMA PIPTMiss ==
  ASSUME PIPTInv, NEW a \in MemAddrs, PIPT!AccessMiss(a)
  PROVE  \E w \in Ways :
           /\ NewInRow(pp_valids, pp_tags, w, PIPT!RowOf(a), PIPT!TagOf(a))
           /\ Loaded(pp_valids, pp_tags, pp_valids', pp_tags', w,
                     PIPT!RowOf(a), PIPT!TagOf(a))
           /\ \/ FillsWay(w, PIPT!RowOf(a))
              \/ ReplacesFront(w, PIPT!RowOf(a))
<1> DEFINE r == PIPT!RowOf(a)
           tag == PIPT!TagOf(a)
<1>1. r \in Rows /\ tag \in Word
  BY RowsAndTags
<1>2. \A v \in Ways : ~(pp_valids[v][r] /\ pp_tags[v][r] = tag)
  BY DEF PIPT!AccessMiss, PIPT!AccessFill, PIPT!AccessReplace, PIPT!lookup,
         PIPT!Ways, Ways
<1>3. \A w : PIPT!Load(w, a) =>
               Loaded(pp_valids, pp_tags, pp_valids', pp_tags', w, r, tag)
  BY DEF PIPT!Load, Loaded
<1>4. CASE PIPT!AccessFill(a)
  <2>1. PICK w \in PIPT!FreeWays(r) : /\ \A v \in PIPT!FreeWays(r) : w <= v
                                      /\ PIPT!Load(w, a)
    BY <1>4 DEF PIPT!AccessFill
  <2>2. w \in Ways /\ ~pp_valids[w][r] /\ \A v \in Ways : v < w => pp_valids[v][r]
    BY <2>1 DEF PIPT!FreeWays, PIPT!Ways, Ways
  <2>3. UNCHANGED pp_replace
    BY <1>4 DEF PIPT!AccessFill
  <2> HIDE DEF r, tag
  <2>4. NewInRow(pp_valids, pp_tags, w, r, tag) /\ FillsWay(w, r)
    BY <1>1, <1>2, <2>2, <2>3 DEF NewInRow, FillsWay
  <2> QED  BY <1>3, <2>1, <2>2, <2>4 DEF r, tag
<1>5. CASE PIPT!AccessReplace(a)
  <2> DEFINE q == pp_replace[r]
  <2>1. \A v \in Ways : pp_valids[v][r]
    BY <1>5 DEF PIPT!AccessReplace, PIPT!FreeWays, PIPT!Ways, Ways
  <2>2. PICK s \in PIPT!R!Selections("LRURepl", q) :
             PIPT!Load(s.way, a) /\ pp_replace' = [pp_replace EXCEPT ![r] = s.next]
    BY <1>5 DEF PIPT!AccessReplace
  <2>3. RowQueue(q)
    BY <1>1 DEF PIPTInv, QueuesInv
  <2> HIDE DEF q
  <2>4. s.way = q[1] /\ s.next = Rotated(q)
    BY <2>2, <2>3, SelectRotates DEF PIPT!R!Selections
  <2>5. q[1] \in Ways
    BY <2>3 DEF RowQueue, Positions
  <2> HIDE DEF r, tag
  <2>6. NewInRow(pp_valids, pp_tags, q[1], r, tag)
    BY <1>1, <1>2, <2>1, <2>5 DEF NewInRow
  <2>7. ReplacesFront(q[1], r)
    BY <2>1, <2>2, <2>4 DEF ReplacesFront, q
  <2>8. Loaded(pp_valids, pp_tags, pp_valids', pp_tags', q[1], r, tag)
    BY <1>3, <2>2, <2>4
  <2> QED  BY <2>5, <2>6, <2>7, <2>8 DEF r, tag
<1> QED  BY <1>4, <1>5 DEF PIPT!AccessMiss

(***************************************************************************)
(* A request keeps the invariant of PIPT.                                  *)
(***************************************************************************)
LEMMA PIPTAccess ==
  ASSUME PIPTInv, NEW a \in MemAddrs, PIPT!readReq(a) \/ PIPT!writeReq(a)
  PROVE  PIPTInv'
<1> DEFINE r == PIPT!RowOf(a)
           tag == PIPT!TagOf(a)
<1>1. PIPT!CountersTypeOK'
  BY DEF PIPTInv, PIPT!readReq, PIPT!writeReq, PIPT!CountRead, PIPT!CountWrite,
         PIPT!One, PIPT!CountersTypeOK, PIPT!Requests
<1>2. CASE PIPT!AccessHit(a)
  BY <1>1, <1>2 DEF PIPT!AccessHit, PIPTInv, RowsInv, QueuesInv
<1>3. CASE PIPT!AccessMiss(a)
  <2>1. PICK w \in Ways :
             /\ NewInRow(pp_valids, pp_tags, w, r, tag)
             /\ Loaded(pp_valids, pp_tags, pp_valids', pp_tags', w, r, tag)
             /\ FillsWay(w, r) \/ ReplacesFront(w, r)
    BY <1>3, PIPTMiss
  <2> HIDE DEF r, tag
  <2>2. RowsInv(pp_valids, pp_tags)
    BY DEF PIPTInv
  <2>3. RowsInv(pp_valids', pp_tags')
    BY <2>1, <2>2, LoadKeepsRows
  <2>4. r \in Rows
    BY <2>1 DEF NewInRow
  <2>5. \A v \in Ways : \A s \in Rows : pp_valids[v][s] => pp_valids'[v][s]
    BY <2>1, <2>2, <2>4 DEF Loaded, RowsInv
  <2>6. QueuesInv(pp_valids, pp_replace)
    BY DEF PIPTInv
  <2>7. QueuesInv(pp_valids', pp_replace')
    <3>1. CASE FillsWay(w, r)
      BY <2>5, <2>6, <3>1 DEF FillsWay, QueuesInv
    <3>2. CASE ReplacesFront(w, r)
      <4> DEFINE t == Rotated(pp_replace[r])
      <4>1. RowQueue(t)
        BY <2>4, <2>6, RotatedIsQueue DEF QueuesInv
      <4>2. t \in [Positions -> Ways]
        BY <4>1 DEF RowQueue
      <4> HIDE DEF t
      <4>3. pp_replace' = [pp_replace EXCEPT ![r] = t]
        BY <3>2 DEF ReplacesFront, t
      <4>4. pp_replace' \in [Rows -> [Positions -> Ways]]
        BY <2>6, <4>2, <4>3 DEF QueuesInv
      <4>5. \A s \in Rows : pp_replace'[s] = IF s = r THEN t ELSE pp_replace[s]
        BY <2>6, <4>3 DEF QueuesInv
      <4>6. \A v \in Ways : pp_valids'[v][r]
        BY <2>4, <2>5, <3>2 DEF ReplacesFront
      <4>7. \A s \in Rows : RowQueue(pp_replace'[s])
        BY <2>6, <4>1, <4>5 DEF QueuesInv
      <4>8. ASSUME NEW s \in Rows, NEW v \in Ways, ~pp_valids'[v][s]
            PROVE  pp_replace'[s] = InitialQueue
        <5>1. s # r /\ ~pp_valids[v][s]
          BY <2>5, <4>6, <4>8
        <5>2. pp_replace[s] = InitialQueue
          BY <2>6, <5>1 DEF QueuesInv
        <5> QED  BY <4>5, <5>1, <5>2
      <4> QED  BY <4>4, <4>7, <4>8 DEF QueuesInv
    <3> QED  BY <2>1, <3>1, <3>2
  <2> QED  BY <1>1, <2>3, <2>7 DEF PIPTInv, RowsInv, QueuesInv, RowQueue
<1> QED  BY <1>2, <1>3 DEF PIPT!readReq, PIPT!writeReq

-----------------------------------------------------------------------------
(***************************************************************************)
(* The three caches together: VIPT is covered by being equal to PIPT.      *)
(***************************************************************************)
IInv == VIVTInv /\ PIPTInv /\ VIPTEqualsPIPT

(***************************************************************************)
(* The caches as they are constructed, with no valid way and fresh queues, *)
(* satisfy the invariant.                                                  *)
(***************************************************************************)
LEMMA InitIInv == Init => IInv
<1> SUFFICES ASSUME Init
             PROVE  IInv
  OBVIOUS
<1>1. VIPTEqualsPIPT
  BY InitEqual
<1>2. {} \in Word
  BY DEF Word
<1>3. /\ vv_valids = [w \in Ways |-> [r \in Rows |-> FALSE]]
      /\ vv_tags \in [Ways -> [Rows -> {{}}]]
      /\ vv_replace = [r \in Rows |-> 0]
      /\ VIVT!CountersInit
  BY DEF Init, VIVT!Init, VIVT!Ways, VIVT!Rows, VIVT!R!InitialState, Ways, Rows
<1>4. /\ pp_valids = [w \in Ways |-> [r \in Rows |-> FALSE]]
      /\ pp_tags \in [Ways -> [Rows -> {{}}]]
      /\ pp_replace = [r \in Rows |-> InitialQueue]
      /\ PIPT!CountersInit
  BY DEF Init, PIPT!Init, PIPT!Ways, PIPT!Rows, PIPT!R!InitialState,
         PIPT!R!LRU!InitQueue, PIPT!R!LRU!Positions, Ways, Rows, Positions,
         InitialQueue
<1>5. ASSUME NEW valids, NEW tags,
             valids = [w \in Ways |-> [r \in Rows |-> FALSE]],
             tags \in [Ways -> [Rows -> {{}}]]
      PROVE  RowsInv(valids, tags)
  <2>1. valids \in [Ways -> [Rows -> BOOLEAN]]
    BY <1>5
  <2>2. tags \in [Ways -> [Rows -> Word]]
    BY <1>2, <1>5
  <2>3. \A w \in Ways : \A r \in Rows : ~valids[w][r]
    BY <1>5
  <2> QED  BY <2>1, <2>2, <2>3 DEF RowsInv
<1>6. VIVT!CountersTypeOK /\ PIPT!CountersTypeOK
  BY <1>3, <1>4 DEF VIVT!CountersInit, PIPT!CountersInit, VIVT!CountersTypeOK,
                    PIPT!CountersTypeOK, VIVT!Requests, PIPT!Requests
<1>7. RowQueue(InitialQueue)
  <2>1. InitialQueue \in [Positions -> Ways]
    BY DEF InitialQueue, Positions, Ways
  <2>2. \A w \in Ways : w + 1 \in Positions /\ InitialQueue[w + 1] = w
    BY DEF InitialQueue, Positions, Ways
  <2>3. \A i, j \in Positions : InitialQueue[i] = InitialQueue[j] => i = j
    BY DEF InitialQueue, Positions
  <2> QED  BY <2>1, <2>2, <2>3 DEF RowQueue
<1>8. QueuesInv(pp_valids, pp_replace)
  BY <1>4, <1>7 DEF QueuesInv, RowQueue
<1>9. vv_replace \in [Rows -> {0}]
  BY <1>3
<1>10. RowsInv(vv_valids, vv_tags) /\ RowsInv(pp_valids, pp_tags)
  BY <1>3, <1>4, <1>5
<1> QED  BY <1>1, <1>6, <1>8, <1>9, <1>10 DEF IInv, VIVTInv, PIPTInv

(***************************************************************************)
(* Every request keeps the invariant.                                      *)
(***************************************************************************)
LEMMA NextIInv == IInv /\ [Next]_vars => IInv'
<1> SUFFICES ASSUME IInv, [Next]_vars
             PROVE  IInv'
  OBVIOUS
<1>1. VIPTEqualsPIPT'
  BY NextEqual DEF IInv
<1>2. ASSUME NEW ea \in EAs, readCache(ea) \/ writeCache(ea)
      PROVE  VIVTInv' /\ PIPTInv'
  <2>1. mem_addr(ea) \in MemAddrs
    BY DEF MemAddrs
  <2> QED  BY <1>2, <2>1, VIVTAccess, PIPTAccess DEF IInv, readCache, writeCache
<1>3. CASE UNCHANGED vars
  <2>1. VIVTInv'
    BY <1>3 DEF IInv, VIVTInv, RowsInv, vars, VIVT!vars, VIVT!counters,
                VIVT!CountersTypeOK, VIVT!Requests
  <2>2. PIPTInv'
    BY <1>3 DEF IInv, PIPTInv, RowsInv, QueuesInv, RowQueue, vars, PIPT!vars,
                PIPT!counters, PIPT!CountersTypeOK, PIPT!Requests
  <2> QED  BY <1>1, <2>1, <2>2 DEF IInv
<1> QED  BY <1>1, <1>2, <1>3 DEF IInv, Next

(***************************************************************************)
(* The invariant holds in every state of every program.                    *)
(***************************************************************************)
THEOREM InductiveInvariant == Spec => []IInv
BY InitIInv, NextIInv, PTL DEF Spec

-----------------------------------------------------------------------------
(***************************************************************************)
(* The invariant of VIVT says its types.                                   *)
(***************************************************************************)
LEMMA VIVTTypes == VIVTInv => VIVT!TypeOK
BY DEF VIVTInv, RowsInv, VIVT!TypeOK, VIVT!Ways, VIVT!Rows, VIVT!Word, VIVT!Bits,
       VIVT!R!States, Ways, Rows, Word, Bits

(***************************************************************************)
(* The same of PIPT.                                                       *)
(***************************************************************************)
LEMMA PIPTTypes == PIPTInv => PIPT!TypeOK
BY DEF PIPTInv, RowsInv, QueuesInv, PIPT!TypeOK, PIPT!Ways, PIPT!Rows,
       PIPT!Word, PIPT!Bits, PIPT!R!States, PIPT!R!Ways, PIPT!R!LRU!Positions,
       Ways, Rows, Word, Bits, Positions

(***************************************************************************)
(* The same of VIPT, through its equality with PIPT.                       *)
(***************************************************************************)
LEMMA VIPTTypes == PIPT!TypeOK /\ VIPTEqualsPIPT => VIPT!TypeOK
BY DEF VIPTEqualsPIPT, VIPT!TypeOK, PIPT!TypeOK, VIPT!Ways, PIPT!Ways,
       VIPT!Rows, PIPT!Rows, VIPT!Word, PIPT!Word, VIPT!Bits, PIPT!Bits,
       VIPT!R!States, PIPT!R!States, VIPT!R!Ways, PIPT!R!Ways,
       VIPT!R!LRU!Positions, PIPT!R!LRU!Positions, VIPT!CountersTypeOK,
       PIPT!CountersTypeOK, VIPT!Requests, PIPT!Requests

(***************************************************************************)
(* The three caches always have their types: no access leaves the arrays   *)
(* of the ways, and no counter exceeds the requests it counts.             *)
(***************************************************************************)
THEOREM TypeCorrect == Spec => []TypeOK
<1>1. IInv => TypeOK
  BY VIVTTypes, PIPTTypes, VIPTTypes DEF IInv, TypeOK
<1> QED  BY <1>1, InductiveInvariant, PTL

(***************************************************************************)
(* A tag is never valid in two ways of a row, in any of the three caches:  *)
(* an access loads a tag only after lookup has missed it in every way.     *)
(***************************************************************************)
THEOREM TagsAlwaysUnique == Spec => []UniqueTags
<1>1. IInv => UniqueTags
  BY DEF IInv, VIVTInv, PIPTInv, RowsInv, VIPTEqualsPIPT, UniqueTags,
         VIVT!UniqueTagsInRow, PIPT!UniqueTagsInRow, VIPT!UniqueTagsInRow,
         VIVT!Rows, VIVT!Ways, PIPT!Rows, PIPT!Ways, VIPT!Rows, VIPT!Ways,
         Ways, Rows
<1> QED  BY <1>1, InductiveInvariant, PTL

(***************************************************************************)
(* The three parts of the invariant say FilledInOrder.                     *)
(***************************************************************************)
LEMMA FilledByInvariant == IInv => FilledInOrder
<1> SUFFICES ASSUME IInv
             PROVE  FilledInOrder
  OBVIOUS
<1>1. VIVT!FilledInOrder
  BY DEF IInv, VIVTInv, RowsInv, VIVT!FilledInOrder, VIVT!Rows, VIVT!Ways,
         VIVT!FreeWays, VIVT!R!InitialState, Ways, Rows
<1>2. PIPT!FilledInOrder
  BY DEF IInv, PIPTInv, RowsInv, QueuesInv, PIPT!FilledInOrder, PIPT!Rows,
         PIPT!Ways, PIPT!FreeWays, PIPT!R!InitialState, PIPT!R!LRU!InitQueue,
         PIPT!R!LRU!Positions, Ways, Rows, InitialQueue, Positions
<1>3. VIPT!FilledInOrder
  BY <1>2
  DEF IInv, VIPTEqualsPIPT, VIPT!FilledInOrder, PIPT!FilledInOrder, VIPT!Rows,
      PIPT!Rows, VIPT!Ways, PIPT!Ways, VIPT!FreeWays, PIPT!FreeWays,
      VIPT!R!InitialState, PIPT!R!InitialState, VIPT!R!LRU!InitQueue,
      PIPT!R!LRU!InitQueue, VIPT!R!LRU!Positions, PIPT!R!LRU!Positions
<1> QED  BY <1>1, <1>2, <1>3 DEF FilledInOrder

(***************************************************************************)
(* In the three caches the ways of a row fill in order, and its            *)
(* replacement object is as it was constructed until the last of them is   *)
(* filled.                                                                 *)
(***************************************************************************)
THEOREM AlwaysFilledInOrder == Spec => []FilledInOrder
BY FilledByInvariant, InductiveInvariant, PTL

-----------------------------------------------------------------------------
(***************************************************************************)
(* Words are equal when they have the same bits: the refinement of         *)
(* FIFORows by the cache with LRURepl starts from what an address becomes  *)
(* when it is translated.                                                  *)
(***************************************************************************)
LEMMA EqualWords ==
  ASSUME NEW u \in Word, NEW v \in Word, \A i \in Nat : i \in u <=> i \in v
  PROVE  u = v
<1>1. u \subseteq Nat /\ v \subseteq Nat
  BY DEF Word, Bits
<1>2. u \subseteq v /\ v \subseteq u
  BY <1>1
<1> QED  BY <1>2

(***************************************************************************)
(* Two words without a common bit are added without carry: the sum is both *)
(* together.                                                               *)
(***************************************************************************)
LEMMA AddDisjoint ==
  ASSUME NEW a \in Word, NEW b \in Word, a \cap b = {}
  PROVE  Add(a, b) = a \cup b
<1>1. ASSUME NEW i \in Bits
      PROVE  ~Carry(a, b, i) /\ (i \in Xor(a, b) <=> i \in a \cup b)
  BY DEF Carry, Xor
<1>2. \A i \in Bits : i \in Add(a, b) <=> i \in a \cup b
  BY <1>1 DEF Add
<1> QED  BY <1>2 DEF Add, Word

(***************************************************************************)
(* The translated address is the frame number above the page offset.       *)
(***************************************************************************)
LEMMA FrameAndOffset ==
  ASSUME NEW a \in Word
  PROVE  get_phy_addr(a) =
           Shl(get_phy_page_no(get_vir_page_no(a)), PAGE_SIZE_LOG)
             \cup get_page_offset(a)
<1> DEFINE frame == get_phy_page_no(get_vir_page_no(a))
           high == Shl(frame, PAGE_SIZE_LOG)
           low == get_page_offset(a)
<1>1. frame \in Word
  BY AddIsWord DEF get_phy_page_no, Word
<1>2. high \in Word /\ \A i \in high : i \in Nat /\ i >= PAGE_SIZE_LOG
  <2>1. high \in Word /\ \A i \in high : i \in Bits /\ i >= PAGE_SIZE_LOG
    BY <1>1, ShlIsWord, ShlBits DEF PAGE_SIZE_LOG
  <2> QED  BY <2>1 DEF Bits
<1>3. low \in Word /\ \A i \in low : i \in Nat /\ i < PAGE_SIZE_LOG
  <2>1. low \in Word /\ \A i \in low : i \in Bits /\ i < PAGE_SIZE_LOG
    BY DEF get_page_offset, LowMask, Word
  <2> QED  BY <2>1 DEF Bits
<1>4. high \cap low = {}
  BY <1>2, <1>3 DEF PAGE_SIZE_LOG
<1> HIDE DEF frame, high, low
<1>5. Add(high, low) = high \cup low
  BY <1>2, <1>3, <1>4, AddDisjoint
<1> QED  BY <1>5 DEF get_phy_addr, frame, high, low

(***************************************************************************)
(* Two addresses of one block have the same line: they differ in bits      *)
(* below block_log_size only, and so do their translations.                *)
(***************************************************************************)
LEMMA SameBits ==
  ASSUME NEW a \in Word, NEW c \in Word, NEW k \in Nat, NEW l \in Nat,
         k <= l, Shr(a, k) = Shr(c, k)
  PROVE  Shr(a, l) = Shr(c, l)
<1>1. \A j \in Nat : j + k \in a <=> j + k \in c
  <2> TAKE j \in Nat
  <2>1. j \in Shr(a, k) <=> j + k \in a
    BY ShrBit
  <2>2. j \in Shr(c, k) <=> j + k \in c
    BY ShrBit
  <2> QED  BY <2>1, <2>2
<1>2. ASSUME NEW i \in Nat
      PROVE  i \in Shr(a, l) <=> i \in Shr(c, l)
  <2>1. i \in Shr(a, l) <=> i + l \in a
    BY ShrBit
  <2>2. i \in Shr(c, l) <=> i + l \in c
    BY ShrBit
  <2>3. i + l - k \in Nat /\ (i + l - k) + k = i + l
    OBVIOUS
  <2>4. i + l \in a <=> i + l \in c
    BY <1>1, <2>3
  <2> QED  BY <2>1, <2>2, <2>4
<1>3. Shr(a, l) \in Word /\ Shr(c, l) \in Word
  BY ShrIsWord
<1> QED  BY <1>2, <1>3, EqualWords

(***************************************************************************)
(* Addresses of one block are translated to addresses of one block.        *)
(***************************************************************************)
LEMMA TranslationKeepsBlocks ==
  ASSUME NEW a \in Word, NEW c \in Word,
         Shr(a, block_log_size) = Shr(c, block_log_size)
  PROVE  Shr(get_phy_addr(a), block_log_size) =
           Shr(get_phy_addr(c), block_log_size)
<1> DEFINE k == block_log_size
           high(x) == Shl(get_phy_page_no(get_vir_page_no(x)), PAGE_SIZE_LOG)
           pa == get_phy_addr(a)
           pc == get_phy_addr(c)
<1>1. PAGE_SIZE_LOG \in Nat /\ k <= PAGE_SIZE_LOG /\ k \in Nat
  BY DEF PAGE_SIZE_LOG
<1>2. get_vir_page_no(a) = get_vir_page_no(c)
  BY <1>1, SameBits DEF get_vir_page_no
<1>3. /\ pa = high(a) \cup get_page_offset(a)
      /\ pc = high(a) \cup get_page_offset(c)
  BY <1>2, FrameAndOffset
<1>4. pa \in Word /\ pc \in Word
  BY TranslationIsWord
<1>5. ASSUME NEW j \in Nat
      PROVE  j + k \in a <=> j + k \in c
  <2>1. j \in Shr(a, k) <=> j + k \in a
    BY <1>1, ShrBit
  <2>2. j \in Shr(c, k) <=> j + k \in c
    BY <1>1, ShrBit
  <2> QED  BY <2>1, <2>2
<1>6. ASSUME NEW j \in Nat
      PROVE  j + k \in pa <=> j + k \in pc
  <2>1. j + k \in get_page_offset(a) <=> j + k \in get_page_offset(c)
    BY <1>5 DEF get_page_offset
  <2> HIDE DEF pa, pc, high
  <2> QED  BY <1>3, <2>1
<1> HIDE DEF pa, pc
<1>7. ASSUME NEW j \in Nat
      PROVE  j \in Shr(pa, k) <=> j \in Shr(pc, k)
  <2>1. j \in Shr(pa, k) <=> j + k \in pa
    BY <1>1, <1>4, ShrBit
  <2>2. j \in Shr(pc, k) <=> j + k \in pc
    BY <1>1, <1>4, ShrBit
  <2> QED  BY <1>6, <2>1, <2>2
<1>8. Shr(pa, k) \in Word /\ Shr(pc, k) \in Word
  BY <1>1, <1>4, ShrIsWord
<1>9. Shr(pa, k) = Shr(pc, k)
  BY <1>7, <1>8, EqualWords
<1> QED  BY <1>9 DEF pa, pc

(***************************************************************************)
(* Addresses of one block have one row and one tag.                        *)
(***************************************************************************)
LEMMA BlockHasOneLine ==
  ASSUME NEW a \in MemAddrs, NEW c \in MemAddrs, block(a) = block(c)
  PROVE  Line(a) = Line(c)
<1> DEFINE dropped == block_log_size + m_asso + m_sets_log
<1>1. /\ a \in Word /\ Physical[a] = get_phy_addr(a) /\ Physical[a] \in Word
      /\ c \in Word /\ Physical[c] = get_phy_addr(c) /\ Physical[c] \in Word
  BY AddressesAreWords
<1>2. Shr(Physical[a], block_log_size) = Shr(Physical[c], block_log_size)
  BY <1>1, TranslationKeepsBlocks DEF block
<1>3. dropped \in Nat /\ block_log_size <= dropped
  OBVIOUS
<1>4. Shr(Physical[a], dropped) = Shr(Physical[c], dropped)
  BY <1>1, <1>2, <1>3, SameBits
<1>5. \A x : /\ PIPT!RowOf(x) = Shr(Physical[x], block_log_size) \cap LowMask(m_asso)
             /\ PIPT!TagOf(x) = Shr(Physical[x], dropped)
  BY DEF PIPT!RowOf, PIPT!TagOf, PIPT!getSetIndex, PIPT!getTag, PIPT!Shr,
         PIPT!LowMask, PIPT!Bits, Shr, LowMask, Bits
<1> HIDE DEF dropped
<1> QED  BY <1>2, <1>4, <1>5 DEF Line

(***************************************************************************)
(* After an access the observer's last line is the line accessed.          *)
(***************************************************************************)
LEMMA LastLineIsAccessed ==
  ASSUME NEW a \in MemAddrs, Observe(block(a))
  PROVE  LastLine' = Line(a)
<1> DEFINE b == block(a)
<1>1. since' = [c \in DOMAIN since \cup {b} |->
                  IF c = b THEN {} ELSE since[c] \cup {b}]
  BY DEF Observe
<1>2. b \in DOMAIN since' /\ \A c \in DOMAIN since' : since'[c] = {} <=> c = b
  BY <1>1
<1> HIDE DEF b
<1>3. (CHOOSE c \in DOMAIN since' : since'[c] = {}) = b
  BY <1>2
<1>4. LastBlock' = b
  BY <1>3 DEF LastBlock
<1>5. LastLine' = Line(CHOOSE c \in MemAddrs : block(c) = b)
  <2>1. DOMAIN since' # {}
    BY <1>2
  <2> QED  BY <1>4, <2>1 DEF LastLine, Line, PIPT!RowOf, PIPT!TagOf
<1> DEFINE c == CHOOSE c \in MemAddrs : block(c) = b
<1>6. c \in MemAddrs /\ block(c) = block(a)
  BY DEF b
<1> HIDE DEF c
<1>7. Line(c) = Line(a)
  BY <1>6, BlockHasOneLine
<1> QED  BY <1>5, <1>7 DEF c

(***************************************************************************)
(* Flags that fill in order are set below a count and clear from it on.    *)
(***************************************************************************)
LEMMA FilledIsPrefix ==
  ASSUME NEW S \in SUBSET Ways, \A v, w \in Ways : v < w /\ w \in S => v \in S
  PROVE  \E k \in 0 .. m_asso : \A w \in Ways : w \in S <=> w < k
<1> DEFINE k == Cardinality(S)
<1>1. /\ IsFiniteSet(Ways) /\ Cardinality(Ways) = m_asso
      /\ \A j \in Ways : /\ IsFiniteSet(0 .. j) /\ Cardinality(0 .. j) = j + 1
                         /\ IsFiniteSet(0 .. j - 1) /\ Cardinality(0 .. j - 1) = j
  <2>1. IsFiniteSet(0 .. m_asso - 1) /\ Cardinality(0 .. m_asso - 1) = m_asso
    BY FS_Interval
  <2>2. ASSUME NEW j \in Ways
        PROVE  /\ IsFiniteSet(0 .. j) /\ Cardinality(0 .. j) = j + 1
               /\ IsFiniteSet(0 .. j - 1) /\ Cardinality(0 .. j - 1) = j
    <3>1. j \in Int /\ j - 1 \in Int /\ 0 \in Int /\ j >= 0
      BY DEF Ways
    <3>2. IsFiniteSet(0 .. j) /\ Cardinality(0 .. j) = IF 0 > j THEN 0 ELSE j - 0 + 1
      BY ONLY <3>1, FS_Interval
    <3>3. /\ IsFiniteSet(0 .. j - 1)
          /\ Cardinality(0 .. j - 1) = IF 0 > j - 1 THEN 0 ELSE j - 1 - 0 + 1
      BY ONLY <3>1, FS_Interval
    <3> QED  BY <3>1, <3>2, <3>3
  <2> QED  BY <2>1, <2>2 DEF Ways
<1>2. IsFiniteSet(S) /\ k \in Nat /\ k <= m_asso
  BY <1>1, FS_Subset, FS_CardinalityType
<1>3. ASSUME NEW w \in S
      PROVE  w < k
  <2>1. w \in Ways /\ w \in Nat
    BY DEF Ways
  <2>2. 0 .. w \in SUBSET S
    BY <2>1 DEF Ways
  <2>3. Cardinality(0 .. w) <= k
    BY <1>2, <2>2, FS_Subset
  <2> QED  BY <1>1, <1>2, <2>1, <2>3
<1>4. ASSUME NEW w \in Ways, w \notin S
      PROVE  ~(w < k)
  <2>1. w \in Nat
    BY DEF Ways
  <2>2. S \in SUBSET (0 .. w - 1)
    <3> SUFFICES ASSUME NEW v \in S
                 PROVE  v \in 0 .. w - 1
      OBVIOUS
    <3>1. v \in Nat /\ v \in Ways /\ v # w /\ ~(w < v)
      BY <1>4 DEF Ways
    <3> QED  BY <2>1, <3>1
  <2>3. k <= Cardinality(0 .. w - 1)
    BY <1>1, <2>2, FS_Subset
  <2> QED  BY <1>1, <1>2, <2>1, <2>3
<1> HIDE DEF k
<1> QED  BY <1>2, <1>3, <1>4

(***************************************************************************)
(* The row r holds k tags: those of the first k ways of its queue.         *)
(***************************************************************************)
RowHolds(k, r) ==
  /\ k \in 0 .. m_asso
  /\ \A i \in Positions : pp_valids[pp_replace[r][i]][r] <=> i <= k
  /\ k < m_asso => pp_replace[r] = InitialQueue
  /\ LoadedInRow(r) \in Seq(Word)
  /\ Len(LoadedInRow(r)) = k
  /\ \A i \in 1 .. k : LoadedInRow(r)[i] = pp_tags[pp_replace[r][i]][r]

RowsAreQueues == \A r \in Rows : \E k : RowHolds(k, r)

(***************************************************************************)
(* Every row holds the tags of a front of its queue.                       *)
(***************************************************************************)
LEMMA RowsAreSeqs == PIPTInv => RowsAreQueues
<1> SUFFICES ASSUME PIPTInv, NEW r \in Rows
             PROVE  \E k : RowHolds(k, r)
  BY DEF RowsAreQueues
<1> DEFINE q == pp_replace[r]
           S == {w \in Ways : pp_valids[w][r]}
<1>1. RowQueue(q) /\ ((\E w \in Ways : ~pp_valids[w][r]) => q = InitialQueue)
  BY DEF PIPTInv, QueuesInv
<1>2. \A v, w \in Ways : v < w /\ w \in S => v \in S
  BY DEF PIPTInv, RowsInv
<1>3. PICK k \in 0 .. m_asso : \A w \in Ways : w \in S <=> w < k
  BY <1>2, FilledIsPrefix
<1>4. \A i \in Positions : q[i] \in Ways /\ pp_tags[q[i]][r] \in Word
  BY <1>1 DEF RowQueue, PIPTInv, RowsInv
<1>5. k < m_asso => q = InitialQueue
  <2>1. k < m_asso => k \in Ways /\ k \notin S
    BY <1>3 DEF Ways
  <2> QED  BY <1>1, <2>1
<1>6. \A i \in Positions : pp_valids[q[i]][r] <=> i <= k
  <2>1. CASE k < m_asso
    BY <1>3, <1>5, <2>1 DEF InitialQueue, Positions, Ways
  <2>2. CASE k = m_asso
    BY <1>3, <1>4, <2>2 DEF Positions, Ways
  <2> QED  BY <1>3, <2>1, <2>2
<1>7. {j \in 1 .. m_asso : pp_valids[q[j]][r]} = 1 .. k
  BY <1>3, <1>6 DEF Positions
<1> DEFINE row == [i \in 1 .. k |-> pp_tags[q[i]][r]]
<1>8. LoadedInRow(r) = row
  BY <1>7 DEF LoadedInRow
<1>9. k \in Nat /\ \A i \in 1 .. k : pp_tags[q[i]][r] \in Word
  BY <1>3, <1>4 DEF Positions
<1>10. row \in Seq(Word) /\ Len(row) = k
  BY <1>9, IsASeq
<1>11. \A i \in 1 .. k : row[i] = pp_tags[q[i]][r]
  OBVIOUS
<1> HIDE DEF row
<1> QED  BY <1>3, <1>5, <1>6, <1>8, <1>10, <1>11 DEF RowHolds

(***************************************************************************)
(* The row holds a tag exactly when lookup finds it in a way.              *)
(***************************************************************************)
LEMMA HoldsIsLookup ==
  ASSUME PIPTInv, RowsAreQueues, NEW a \in MemAddrs
  PROVE  /\ PIPT!RowOf(a) \in Rows /\ PIPT!RowOf(a) \in AccessedRows
         /\ FIFO!Holds(PIPT!RowOf(a), PIPT!TagOf(a)) <=> PIPT!lookup(a)
<1> DEFINE r == PIPT!RowOf(a)
           tag == PIPT!TagOf(a)
           q == pp_replace[r]
<1>1. r \in Rows
  BY RowsAndTags
<1>2. r \in AccessedRows
  <2>1. Line(a) \in AccessedLines /\ Line(a)[1] = r
    BY DEF AccessedLines, Line
  <2> QED  BY <2>1 DEF AccessedRows
<1>3. RowQueue(q)
  BY <1>1 DEF PIPTInv, QueuesInv
<1>4. PICK k : RowHolds(k, r)
  BY <1>1 DEF RowsAreQueues
<1>5. DOMAIN LoadedInRow(r) = 1 .. k
  BY <1>4, LenProperties DEF RowHolds
<1>6. FIFO!Holds(r, tag) <=> \E i \in 1 .. k : LoadedInRow(r)[i] = tag
  BY <1>2, <1>5 DEF FIFO!Holds
<1>7. PIPT!lookup(a) <=> \E w \in Ways : pp_valids[w][r] /\ pp_tags[w][r] = tag
  BY DEF PIPT!lookup, PIPT!Ways, Ways
<1> HIDE DEF r, tag, q
<1>8. ASSUME NEW i \in 1 .. k, LoadedInRow(r)[i] = tag
      PROVE  \E w \in Ways : pp_valids[w][r] /\ pp_tags[w][r] = tag
  <2>1. i \in Positions /\ i <= k
    BY <1>4, <1>8 DEF RowHolds, Positions
  <2>2. q[i] \in Ways
    BY <1>3, <2>1 DEF RowQueue
  <2> QED  BY <1>4, <1>8, <2>1, <2>2 DEF RowHolds, q
<1>9. ASSUME NEW w \in Ways, pp_valids[w][r], pp_tags[w][r] = tag
      PROVE  \E i \in 1 .. k : LoadedInRow(r)[i] = tag
  <2>1. PICK i \in Positions : q[i] = w
    BY <1>3 DEF RowQueue
  <2>2. i \in 1 .. k
    BY <1>4, <1>9, <2>1 DEF RowHolds, Positions, q
  <2> QED  BY <1>4, <1>9, <2>1, <2>2 DEF RowHolds, q
<1>10. FIFO!Holds(r, tag) <=> PIPT!lookup(a)
  BY <1>6, <1>7, <1>8, <1>9
<1> QED  BY <1>1, <1>2, <1>10 DEF r, tag

(***************************************************************************)
(* A miss leaves the other rows as they are.                               *)
(***************************************************************************)
LEMMA OtherRowsKept ==
  ASSUME PIPTInv, NEW w \in Ways, NEW r \in Rows, NEW tag, NEW s \in Rows,
         s # r, Loaded(pp_valids, pp_tags, pp_valids', pp_tags', w, r, tag),
         FillsWay(w, r) \/ ReplacesFront(w, r)
  PROVE  LoadedInRow(s)' = LoadedInRow(s)
<1>1. pp_replace'[s] = pp_replace[s]
  BY DEF PIPTInv, QueuesInv, FillsWay, ReplacesFront
<1>2. \A v \in Ways : /\ pp_valids'[v][s] = pp_valids[v][s]
                      /\ pp_tags'[v][s] = pp_tags[v][s]
  BY DEF PIPTInv, RowsInv, Loaded
<1>3. \A j \in 1 .. m_asso : pp_replace[s][j] \in Ways
  BY DEF PIPTInv, QueuesInv, RowQueue, Positions
<1>4. {j \in 1 .. m_asso : pp_valids'[pp_replace'[s][j]][s]}
        = {j \in 1 .. m_asso : pp_valids[pp_replace[s][j]][s]}
  BY <1>1, <1>2, <1>3
<1>5. \A i \in {j \in 1 .. m_asso : pp_valids[pp_replace[s][j]][s]} :
        pp_tags'[pp_replace'[s][i]][s] = pp_tags[pp_replace[s][i]][s]
  BY <1>1, <1>2, <1>3
<1> QED  BY <1>4, <1>5 DEF LoadedInRow

(***************************************************************************)
(* A miss on a row that is not full appends the tag to the row.            *)
(***************************************************************************)
LEMMA FillAppends ==
  ASSUME PIPTInv, PIPTInv', RowsAreQueues, RowsAreQueues',
         NEW w \in Ways, NEW r \in Rows, NEW tag \in Word,
         NewInRow(pp_valids, pp_tags, w, r, tag),
         Loaded(pp_valids, pp_tags, pp_valids', pp_tags', w, r, tag),
         FillsWay(w, r)
  PROVE  /\ Len(LoadedInRow(r)) < m_asso
         /\ LoadedInRow(r)' = Append(LoadedInRow(r), tag)
<1> DEFINE s == LoadedInRow(r)
           t == Append(s, tag)
<1>1. PICK k : RowHolds(k, r)
  BY DEF RowsAreQueues
<1>2. PICK l : RowHolds(l, r)'
  BY DEF RowsAreQueues
<1>3. k < m_asso /\ k \in Nat
  <2>1. RowQueue(pp_replace[r])
    BY DEF PIPTInv, QueuesInv
  <2>2. PICK i \in Positions : pp_replace[r][i] = w
    BY <2>1 DEF RowQueue
  <2>3. ~(i <= k)
    BY <1>1, <2>2 DEF RowHolds, FillsWay
  <2> QED  BY <1>1, <2>3 DEF RowHolds, Positions
<1>4. pp_replace[r] = InitialQueue /\ pp_replace'[r] = InitialQueue
  BY <1>1, <1>3 DEF RowHolds, FillsWay
<1>5. \A i \in Positions : InitialQueue[i] = i - 1 /\ i - 1 \in Ways
  BY DEF InitialQueue, Positions, Ways
<1>6. \A v \in Ways : pp_valids[v][r] <=> v < k
  <2> TAKE v \in Ways
  <2>1. v + 1 \in Positions /\ InitialQueue[v + 1] = v
    BY <1>5 DEF Positions, Ways
  <2>2. pp_valids[v][r] <=> v + 1 <= k
    BY <1>1, <1>4, <2>1 DEF RowHolds
  <2>3. v \in Nat /\ k \in Nat
    BY <1>3 DEF Ways
  <2> QED  BY <2>2, <2>3
<1>7. w = k
  <2>1. ~(w < k)
    BY <1>6 DEF FillsWay
  <2>2. ~(k < w)
    <3>1. k < w => k \in Ways
      BY <1>3 DEF Ways
    <3> QED  BY <1>3, <1>6, <3>1 DEF NewInRow
  <2> QED  BY <1>3, <2>1, <2>2 DEF Ways
<1>8. \A v \in Ways : /\ pp_valids'[v][r] <=> v < k + 1
                      /\ pp_tags'[v][r] = IF v = k THEN tag ELSE pp_tags[v][r]
  <2> TAKE v \in Ways
  <2>1. pp_valids'[v][r] <=> v = w \/ pp_valids[v][r]
    BY DEF PIPTInv, RowsInv, Loaded
  <2>2. pp_tags'[v][r] = IF v = w THEN tag ELSE pp_tags[v][r]
    BY DEF PIPTInv, RowsInv, Loaded
  <2>3. v \in Nat
    BY DEF Ways
  <2> QED  BY <1>3, <1>6, <1>7, <2>1, <2>2, <2>3
<1>9. l = k + 1
  <2>1. \A i \in Positions : i <= l <=> i - 1 < k + 1
    BY <1>2, <1>4, <1>5, <1>8 DEF RowHolds
  <2>2. l \in Nat /\ l <= m_asso
    BY <1>2 DEF RowHolds
  <2>3. k + 1 \in Positions /\ (k + 1) - 1 < k + 1
    BY <1>3 DEF Positions
  <2>4. k + 1 <= l
    BY <2>1, <2>3
  <2>5. l \in Positions
    BY <1>3, <2>2, <2>4 DEF Positions
  <2> QED  BY <1>3, <2>1, <2>2, <2>4, <2>5
<1>10. /\ s \in Seq(Word) /\ Len(s) = k
       /\ \A i \in 1 .. k : s[i] = pp_tags[i - 1][r]
  <2>1. /\ s \in Seq(Word) /\ Len(s) = k
        /\ \A i \in 1 .. k : s[i] = pp_tags[InitialQueue[i]][r]
    BY <1>1, <1>4 DEF RowHolds
  <2>2. \A i \in 1 .. k : i \in Positions
    BY <1>3 DEF Positions
  <2> QED  BY <1>5, <2>1, <2>2
<1>11. /\ s' \in Seq(Word) /\ Len(s') = k + 1
       /\ \A i \in 1 .. k + 1 : s'[i] = pp_tags'[i - 1][r]
  <2>1. /\ s' \in Seq(Word) /\ Len(s') = l
        /\ \A i \in 1 .. l : s'[i] = pp_tags'[InitialQueue[i]][r]
    BY <1>2, <1>4 DEF RowHolds
  <2>2. \A i \in 1 .. k + 1 : i \in Positions
    BY <1>3 DEF Positions
  <2> QED  BY <1>5, <1>9, <2>1, <2>2
<1> HIDE DEF s
<1>12. /\ t \in Seq(Word) /\ Len(t) = k + 1
       /\ \A i \in 1 .. k : t[i] = s[i]
       /\ t[k + 1] = tag
  BY <1>10, AppendProperties
<1> HIDE DEF t
<1>13. ASSUME NEW i \in 1 .. k + 1
       PROVE  s'[i] = t[i]
  <2>1. i - 1 \in Ways /\ i \in Nat
    BY <1>3 DEF Ways
  <2>2. CASE i = k + 1
    BY <1>3, <1>8, <1>11, <1>12, <2>1, <2>2
  <2>3. CASE i \in 1 .. k
    <3>1. i - 1 # k
      BY <1>3, <2>3
    <3> QED  BY <1>8, <1>10, <1>11, <1>12, <2>1, <2>3, <3>1
  <2> QED  BY <1>3, <2>2, <2>3
<1>14. s' = t
  BY <1>11, <1>12, <1>13, SeqEqual
<1> QED  BY <1>3, <1>10, <1>14 DEF s, t

(***************************************************************************)
(* A miss on a full row drops the tag loaded first and appends the new one. *)
(***************************************************************************)
LEMMA ReplaceAppends ==
  ASSUME PIPTInv, PIPTInv', RowsAreQueues, RowsAreQueues',
         NEW w \in Ways, NEW r \in Rows, NEW tag \in Word,
         Loaded(pp_valids, pp_tags, pp_valids', pp_tags', w, r, tag),
         ReplacesFront(w, r)
  PROVE  /\ ~(Len(LoadedInRow(r)) < m_asso)
         /\ LoadedInRow(r)' = Append(Tail(LoadedInRow(r)), tag)
<1> DEFINE n == m_asso
           q == pp_replace[r]
           s == LoadedInRow(r)
           u == Tail(s)
           t == Append(u, tag)
<1>1. PICK k : RowHolds(k, r)
  BY DEF RowsAreQueues
<1>2. PICK l : RowHolds(l, r)'
  BY DEF RowsAreQueues
<1>3. n \in Positions /\ n \in Nat /\ n >= 1 /\ 1 \in Positions
  BY DEF Positions
<1>4. RowQueue(q) /\ RowQueue(pp_replace'[r])
  BY DEF PIPTInv, QueuesInv
<1>5. \A v \in Ways : pp_valids[v][r] /\ pp_valids'[v][r]
  BY DEF ReplacesFront, PIPTInv, RowsInv, Loaded
<1>6. k = n /\ l = n
  <2>1. q[n] \in Ways /\ pp_replace'[r][n] \in Ways
    BY <1>3, <1>4 DEF RowQueue
  <2>2. n <= k /\ n <= l
    BY <1>1, <1>2, <1>3, <1>5, <2>1 DEF RowHolds
  <2> QED  BY <1>1, <1>2, <2>2 DEF RowHolds
<1>7. \A i \in Positions : pp_replace'[r][i] = IF i < n THEN q[i + 1] ELSE q[1]
  <2>1. pp_replace'[r] = Rotated(q)
    BY DEF ReplacesFront, PIPTInv, QueuesInv
  <2> QED  BY <2>1 DEF Rotated
<1>8. \A v \in Ways : pp_tags'[v][r] = IF v = q[1] THEN tag ELSE pp_tags[v][r]
  BY DEF ReplacesFront, PIPTInv, RowsInv, Loaded
<1>9. /\ s \in Seq(Word) /\ Len(s) = n
      /\ \A i \in 1 .. n : s[i] = pp_tags[q[i]][r]
  BY <1>1, <1>6 DEF RowHolds
<1>10. /\ s' \in Seq(Word) /\ Len(s') = n
       /\ \A i \in 1 .. n : s'[i] = pp_tags'[pp_replace'[r][i]][r]
  BY <1>2, <1>6 DEF RowHolds
<1> HIDE DEF s, q
<1>11. s # <<>>
  BY <1>3, <1>9, EmptySeq
<1>12. /\ u \in Seq(Word) /\ Len(u) = n - 1
       /\ \A i \in 1 .. n - 1 : u[i] = s[i + 1]
  BY <1>9, <1>11, HeadTailProperties
<1> HIDE DEF u
<1>13. /\ t \in Seq(Word) /\ Len(t) = n
       /\ \A i \in 1 .. n - 1 : t[i] = u[i]
       /\ t[n] = tag
  BY <1>3, <1>12, AppendProperties
<1> HIDE DEF t
<1>14. ASSUME NEW i \in 1 .. n
       PROVE  s'[i] = t[i]
  <2>1. CASE i = n
    <3>1. pp_replace'[r][n] = q[1] /\ q[1] \in Ways
      BY <1>3, <1>4, <1>7 DEF RowQueue
    <3> QED  BY <1>3, <1>8, <1>10, <1>13, <2>1, <3>1
  <2>2. CASE i \in 1 .. n - 1
    <3>1. i \in Positions /\ i + 1 \in Positions /\ i < n /\ i + 1 \in 1 .. n /\ i + 1 # 1
      BY <1>3, <2>2 DEF Positions
    <3>2. pp_replace'[r][i] = q[i + 1] /\ q[i + 1] \in Ways /\ q[i + 1] # q[1]
      BY <1>3, <1>4, <1>7, <3>1 DEF RowQueue
    <3>3. s'[i] = pp_tags[q[i + 1]][r]
      BY <1>8, <1>10, <3>2
    <3> QED  BY <1>9, <1>12, <1>13, <2>2, <3>1, <3>3
  <2> QED  BY <1>3, <2>1, <2>2
<1>15. s' = t
  BY <1>10, <1>13, <1>14, SeqEqual
<1> QED  BY <1>3, <1>9, <1>15 DEF s, t, u

(***************************************************************************)
(* The step of the observed cache: a hit is a hit of the abstract rows, a  *)
(* miss one of their loads.                                                *)
(***************************************************************************)
LEMMA AccessIsFIFO ==
  ASSUME PIPTInv, PIPTInv', RowsAreQueues, RowsAreQueues',
         NEW a \in MemAddrs, Observe(block(a)), PIPT!readReq(a) \/ PIPT!writeReq(a)
  PROVE  FIFO!Next
<1> DEFINE r == PIPT!RowOf(a)
           tag == PIPT!TagOf(a)
<1>1. r \in Rows /\ r \in AccessedRows /\ (FIFO!Holds(r, tag) <=> PIPT!lookup(a))
  BY HoldsIsLookup
<1>2. tag \in Word
  BY RowsAndTags
<1>3. LastLine' = <<r, tag>>
  BY LastLineIsAccessed DEF Line
<1>4. Line(a) \in AccessedLines /\ Line(a)[1] = r /\ Line(a)[2] = tag
  BY DEF AccessedLines, Line
<1>5. \A hit \in BOOLEAN : /\ PIPT!CountRead(hit) => FIFO!CountRead(hit)
                           /\ PIPT!CountWrite(hit) => FIFO!CountWrite(hit)
  BY DEF PIPT!CountRead, PIPT!CountWrite, FIFO!CountRead, FIFO!CountWrite,
         PIPT!Requests, FIFO!Requests, PIPT!One, FIFO!One
<1>6. CASE PIPT!AccessHit(a) /\ (PIPT!CountRead(TRUE) \/ PIPT!CountWrite(TRUE))
  <2>1. \A s : LoadedInRow(s)' = LoadedInRow(s)
    BY <1>6 DEF PIPT!AccessHit, LoadedInRow
  <2>2. PIPT!lookup(a)
    BY <1>6 DEF PIPT!AccessHit
  <2>3. FIFO!Hit(r, tag)
    BY <1>1, <1>3, <2>1, <2>2 DEF FIFO!Hit
  <2> HIDE DEF r, tag
  <2>4. FIFO!CountRead(TRUE) \/ FIFO!CountWrite(TRUE)
    BY <1>5, <1>6
  <2> QED  BY <1>4, <2>3, <2>4 DEF FIFO!Next
<1>7. CASE PIPT!AccessMiss(a) /\ (PIPT!CountRead(FALSE) \/ PIPT!CountWrite(FALSE))
  <2>1. PICK w \in Ways :
             /\ NewInRow(pp_valids, pp_tags, w, r, tag)
             /\ Loaded(pp_valids, pp_tags, pp_valids', pp_tags', w, r, tag)
             /\ FillsWay(w, r) \/ ReplacesFront(w, r)
    BY <1>7, PIPTMiss
  <2>2. ~PIPT!lookup(a)
    BY <1>7 DEF PIPT!AccessMiss, PIPT!AccessFill, PIPT!AccessReplace
  <2> HIDE DEF r, tag
  <2> DEFINE row == LoadedInRow(r)
             longer == Append(IF Len(row) < m_asso THEN row ELSE Tail(row), tag)
  <2>3. row' = longer
    BY <1>1, <1>2, <2>1, FillAppends, ReplaceAppends
  <2> HIDE DEF row, longer
  <2>4. \A s \in AccessedRows : s \in Rows
    BY RowsAndTags DEF AccessedRows, AccessedLines, Line
  <2>5. \A s \in AccessedRows : s # r => LoadedInRow(s)' = LoadedInRow(s)
    BY <1>1, <2>1, <2>4, OtherRowsKept
  <2>6. [s \in AccessedRows |-> LoadedInRow(s)]' =
          [[s \in AccessedRows |-> LoadedInRow(s)] EXCEPT ![r] = longer]
    BY <1>1, <2>3, <2>5 DEF row, AccessedRows, AccessedLines, Line,
                            PIPT!RowOf, PIPT!TagOf
  <2>7. FIFO!Load(r, tag)
    BY <1>1, <1>3, <2>2, <2>6 DEF FIFO!Load, longer, row
  <2>8. FIFO!CountRead(FALSE) \/ FIFO!CountWrite(FALSE)
    BY <1>5, <1>7
  <2> QED  BY <1>4, <2>7, <2>8 DEF FIFO!Next
<1> QED  BY <1>6, <1>7 DEF PIPT!readReq, PIPT!writeReq

(***************************************************************************)
(* A cache with LRURepl has first-in first-out replacement: every request  *)
(* hits, loads and drops the lines that FIFORows does, for every number of *)
(* ways and rows, every block size and every program.                      *)
(***************************************************************************)
THEOREM FIFOImplemented == Spec => LRUReplImplementsFIFO
<1>1. Init /\ RowsAreQueues => FIFO!Init
  <2> SUFFICES ASSUME Init, RowsAreQueues
               PROVE  FIFO!Init
    OBVIOUS
  <2>1. \A w \in Ways : \A r \in Rows : ~pp_valids[w][r]
    BY DEF Init, PIPT!Init, PIPT!Ways, PIPT!Rows, Ways, Rows
  <2>2. PIPTInv
    BY InitIInv DEF IInv
  <2>3. ASSUME NEW r \in Rows
        PROVE  LoadedInRow(r) = <<>>
    <3>1. PICK k : RowHolds(k, r)
      BY DEF RowsAreQueues
    <3>2. RowQueue(pp_replace[r])
      BY <2>2 DEF PIPTInv, QueuesInv
    <3>3. \A i \in Positions : ~(i <= k)
      BY <2>1, <3>1, <3>2 DEF RowHolds, RowQueue
    <3>4. k = 0
      BY <3>1, <3>3 DEF RowHolds, Positions
    <3> QED  BY <3>1, <3>4, EmptySeq DEF RowHolds
  <2>4. \A r \in AccessedRows : r \in Rows
    BY RowsAndTags DEF AccessedRows, AccessedLines, Line
  <2>5. LastLine = <<>>
    BY DEF Init, StreamInit, LastLine
  <2>6. FIFO!CountersInit
    BY DEF Init, PIPT!Init, PIPT!CountersInit, FIFO!CountersInit
  <2> QED  BY <2>3, <2>4, <2>5, <2>6 DEF FIFO!Init, AccessedRows
<1>2. /\ PIPTInv /\ PIPTInv' /\ RowsAreQueues /\ RowsAreQueues'
      /\ [Next]_vars
      => [FIFO!Next]_<<[r \in AccessedRows |-> LoadedInRow(r)], LastLine,
                       FIFO!counters>>
  <2> SUFFICES ASSUME PIPTInv, PIPTInv', RowsAreQueues, RowsAreQueues', [Next]_vars
               PROVE  [FIFO!Next]_<<[r \in AccessedRows |-> LoadedInRow(r)],
                                    LastLine, FIFO!counters>>
    OBVIOUS
  <2>1. ASSUME NEW ea \in EAs, readCache(ea) \/ writeCache(ea)
        PROVE  FIFO!Next
    <3>1. mem_addr(ea) \in MemAddrs
      BY DEF MemAddrs
    <3> QED  BY <2>1, <3>1, AccessIsFIFO DEF readCache, writeCache
  <2>2. CASE UNCHANGED vars
    <3>1. \A r : LoadedInRow(r)' = LoadedInRow(r)
      BY <2>2 DEF vars, PIPT!vars, LoadedInRow
    <3>2. LastLine' = LastLine
      BY <2>2 DEF vars, LastLine, LastBlock, Line, PIPT!RowOf, PIPT!TagOf
    <3> QED  BY <2>2, <3>1, <3>2 DEF vars, PIPT!vars, PIPT!counters,
                 FIFO!counters, AccessedRows, AccessedLines, Line
  <2> QED  BY <2>1, <2>2 DEF Next
<1>3. IInv => PIPTInv /\ RowsAreQueues
  BY RowsAreSeqs DEF IInv
<1> QED
  BY <1>1, <1>2, <1>3, InductiveInvariant, PTL
  DEF Spec, LRUReplImplementsFIFO, FIFO!Spec

=============================================================================
