---------------------------- MODULE SetAssoCache ----------------------------
(***************************************************************************)
(* class SetAssoCache and its subclasses VIVT, PIPT and VIPT: m_asso ways  *)
(* (the vector sets, one LinearCache each) of 2^m_sets_log rows, and one   *)
(* replacement object per row.                                             *)
(*                                                                         *)
(* A row number is a word below 2^m_sets_log.  The suites that build these *)
(* caches assume 0 < m_asso <= m_sets_log, which holds of every cache of   *)
(* the tool; without it getSetIndex would leave the arrays of the ways.    *)
(***************************************************************************)
EXTENDS CacheModel, Words

CONSTANTS
  m_sets_log,         \* logarithm of the number of rows of a way
  m_blksz_log,        \* logarithm of the block size in bytes
  m_asso,             \* number of ways
  phy_index,          \* is the index taken from the physical address?
  phy_tag,            \* is the tag?
  kind,               \* the class of the replacement objects
  Addrs,              \* the addresses the program accesses
  physical,           \* physical[a]: what get_phy_addr answers for a
  StaleTags           \* what the memory of m_tags may hold before

R == INSTANCE ReplaceAlgo WITH total <- m_asso

VARIABLES m_valids, m_tags, replace

vars == <<m_valids, m_tags, replace, counters>>

Ways == 0 .. m_asso - 1

Rows == SUBSET (0 .. m_sets_log - 1)

(***************************************************************************)
(* The tag leaves out m_blksz_log + m_asso + m_sets_log bits, the index    *)
(* holds the m_asso bits above the offset: the m_sets_log bits between     *)
(* them are in neither.                                                    *)
(***************************************************************************)
getTag(addr) == Shr(addr, m_blksz_log + m_asso + m_sets_log)

(***************************************************************************)
(* A faulty index, for the mutation check: it leaves out one bit too many. *)
(***************************************************************************)
getSetIndexOneHigh(addr) == Shr(addr, m_blksz_log + 1) \cap LowMask(m_asso)

getSetIndex(addr) == Shr(addr, m_blksz_log) \cap LowMask(m_asso)

TagOf(addr) == getTag(IF phy_tag THEN physical[addr] ELSE addr)

RowOf(addr) == getSetIndex(IF phy_index THEN physical[addr] ELSE addr)

Init ==
  /\ m_valids = [w \in Ways |-> [r \in Rows |-> FALSE]]
  /\ m_tags \in [Ways -> [Rows -> StaleTags]]
  /\ replace = [r \in Rows |-> R!InitialState(kind)]
  /\ CountersInit

(***************************************************************************)
(* A faulty lookup, for the mutation check: it stops one way early.        *)
(***************************************************************************)
lookupButLast(addr) ==
  \E w \in Ways : /\ w < m_asso - 1
                  /\ m_valids[w][RowOf(addr)]
                  /\ m_tags[w][RowOf(addr)] = TagOf(addr)

lookup(addr) ==
  \E w \in Ways : /\ m_valids[w][RowOf(addr)]
                  /\ m_tags[w][RowOf(addr)] = TagOf(addr)

FreeWays(r) == {w \in Ways : ~m_valids[w][r]}

Load(w, addr) ==
  /\ m_valids' = [m_valids EXCEPT ![w][RowOf(addr)] = TRUE]
  /\ m_tags' = [m_tags EXCEPT ![w][RowOf(addr)] = TagOf(addr)]

(***************************************************************************)
(* Faulty accesses, for the mutation check: a fill that does not stop at   *)
(* the first free way, a replacement that asks the object of row 0.        *)
(***************************************************************************)
AccessFillAnyWay(addr) ==
  /\ ~lookup(addr)
  /\ \E w \in FreeWays(RowOf(addr)) : Load(w, addr)
  /\ UNCHANGED replace

AccessReplaceRowZero(addr) ==
  /\ ~lookup(addr)
  /\ FreeWays(RowOf(addr)) = {}
  /\ \E s \in R!Selections(kind, replace[{}]) :
       /\ Load(s.way, addr)
       /\ replace' = [replace EXCEPT ![{}] = s.next]

(***************************************************************************)
(* access(): a hit changes nothing, not even the replacement object; a     *)
(* miss loads the first way that is free in the row and, when none is, the *)
(* way the row's replacement object selects.                               *)
(***************************************************************************)
AccessHit(addr) ==
  /\ lookup(addr)
  /\ UNCHANGED <<m_valids, m_tags, replace>>

AccessFill(addr) ==
  /\ ~lookup(addr)
  /\ \E w \in FreeWays(RowOf(addr)) :
       /\ \A v \in FreeWays(RowOf(addr)) : w <= v
       /\ Load(w, addr)
  /\ UNCHANGED replace

AccessReplace(addr) ==
  /\ ~lookup(addr)
  /\ FreeWays(RowOf(addr)) = {}
  /\ \E s \in R!Selections(kind, replace[RowOf(addr)]) :
       /\ Load(s.way, addr)
       /\ replace' = [replace EXCEPT ![RowOf(addr)] = s.next]

AccessMiss(addr) == AccessFill(addr) \/ AccessReplace(addr)

readReq(addr) ==
  \/ AccessHit(addr) /\ CountRead(TRUE)
  \/ AccessMiss(addr) /\ CountRead(FALSE)

writeReq(addr) ==
  \/ AccessHit(addr) /\ CountWrite(TRUE)
  \/ AccessMiss(addr) /\ CountWrite(FALSE)

Next == \E addr \in Addrs : readReq(addr) \/ writeReq(addr)

Spec == Init /\ [][Next]_vars

-----------------------------------------------------------------------------
(***************************************************************************)
(* Flags, words, replacement objects in a state of their class, and        *)
(* bounded counters.                                                       *)
(***************************************************************************)
TypeOK ==
  /\ m_valids \in [Ways -> [Rows -> BOOLEAN]]
  /\ m_tags \in [Ways -> [Rows -> Word]]
  /\ replace \in [Rows -> R!States(kind)]
  /\ CountersTypeOK

(***************************************************************************)
(* In a row, a tag is valid in at most one way.                            *)
(***************************************************************************)
UniqueTagsInRow ==
  \A r \in Rows : \A v, w \in Ways :
    m_valids[v][r] /\ m_valids[w][r] /\ m_tags[v][r] = m_tags[w][r] => v = w

(***************************************************************************)
(* The ways of a row are filled in order, and the replacement object of a  *)
(* row is not asked before its last way is filled: the order in which the  *)
(* objects then choose is the order in which the ways were filled.         *)
(***************************************************************************)
FilledInOrder ==
  \A r \in Rows :
    /\ \A v, w \in Ways : v < w /\ m_valids[w][r] => m_valids[v][r]
    /\ FreeWays(r) # {} => replace[r] = R!InitialState(kind)

=============================================================================
