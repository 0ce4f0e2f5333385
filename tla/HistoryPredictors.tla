-------------------------- MODULE HistoryPredictors --------------------------
(***************************************************************************)
(* BHTPredictor and its subclass GlobalHistoryPredictor.                   *)
(*                                                                         *)
(* A predictor is the record of its members.  entries is a function from   *)
(* the words of entries_log bits to the entries of the table; m_ghr is the *)
(* history register, {} for ever in a BHTPredictor, which has none.  A     *)
(* prediction is a word: 0 for not taken, 1 for taken, or a target.        *)
(***************************************************************************)
EXTENDS SaturatingCnt, ShiftReg

NOT_TAKEN == {}
TAKEN == {0}

(***************************************************************************)
(* BHTEntry, without the member valid, which no live statement uses.       *)
(***************************************************************************)
BHTEntry(scnt_width) == [cnt |-> InitVal(scnt_width), target |-> {}, tag |-> {}]

Indices(p) == SUBSET (0 .. p.entries_log - 1)

NewBHTPredictor(entries_log, scnt_width, predict_address) ==
  [class |-> "BHTPredictor", entries_log |-> entries_log,
   scnt_width |-> scnt_width, predict_address |-> predict_address,
   ghr_width |-> 0, hash_bits |-> 0, m_ghr |-> {},
   entries |-> [i \in SUBSET (0 .. entries_log - 1) |-> BHTEntry(scnt_width)]]

NewGlobalHistoryPredictor(hash_bits, ghr_width, entries_log, scnt_width, predict_address) ==
  [NewBHTPredictor(entries_log, scnt_width, predict_address) EXCEPT
     !.class = "GlobalHistoryPredictor",
     !.ghr_width = ghr_width, !.hash_bits = hash_bits]

-----------------------------------------------------------------------------
(***************************************************************************)
(* The index of an address: two alignment bits dropped, or the folded      *)
(* address combined with the history.                                      *)
(***************************************************************************)
BHTIndex(p, addr) == truncate(Shr(addr, 2), p.entries_log)

HistoryIndex(p, addr) ==
  truncate(fold_xor(p.hash_bits, addr, p.m_ghr), p.entries_log)

getTagFromAddr(p, addr) ==
  IF p.class = "BHTPredictor" THEN BHTIndex(p, addr) ELSE HistoryIndex(p, addr)

getEntryFromAddr(p, addr) == p.entries[getTagFromAddr(p, addr)]

predict(p, addr) ==
  LET entry == getEntryFromAddr(p, addr)
  IN  IF ~isTaken(p.scnt_width, entry.cnt) THEN NOT_TAKEN
      ELSE IF p.predict_address /\ entry.target # {} THEN entry.target
      ELSE TAKEN

(***************************************************************************)
(* The entry of a branch learns its outcome, and its target if taken.      *)
(***************************************************************************)
Trained(p, entry, takenActually, target) ==
  IF takenActually
  THEN [entry EXCEPT !.cnt = increase(p.scnt_width, @), !.target = target]
  ELSE [entry EXCEPT !.cnt = decrease(p.scnt_width, @)]

BHTUpdate(p, takenActually, addr, target) ==
  [p EXCEPT !.entries[BHTIndex(p, addr)] =
     Trained(p, @, takenActually, target)]

ShiftedGHR(p, takenActually) ==
  [p EXCEPT !.m_ghr = shiftIn(p.ghr_width, @, takenActually)]

(***************************************************************************)
(* A faulty update, for the mutation check: the history is shifted before  *)
(* the entry is looked up.                                                 *)
(***************************************************************************)
HistoryUpdateShiftsFirst(p, takenActually, addr, target) ==
  LET shifted == ShiftedGHR(p, takenActually)
  IN  [shifted EXCEPT !.entries[HistoryIndex(shifted, addr)] =
         Trained(p, @, takenActually, target)]

HistoryUpdate(p, takenActually, addr, target) ==
  ShiftedGHR([p EXCEPT !.entries[HistoryIndex(p, addr)] =
                Trained(p, @, takenActually, target)], takenActually)

update(p, takenActually, addr, target) ==
  IF p.class = "BHTPredictor"
  THEN BHTUpdate(p, takenActually, addr, target)
  ELSE HistoryUpdate(p, takenActually, addr, target)

=============================================================================
