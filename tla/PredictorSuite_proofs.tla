----------------------- MODULE PredictorSuite_proofs -----------------------
(***************************************************************************)
(* What predictors hold of the branches they were shown, whatever          *)
(* predictors are built and however long the program runs.                 *)
(*                                                                         *)
(* The inductive invariant, SuiteInv, says of every predictor of the list  *)
(* what the trace makes of it: the histories are the last outcomes, the    *)
(* counter and the target of an entry are what the branches that indexed   *)
(* it make of them, a tag has an owner among the branches that TAGE        *)
(* mispredicted, the select-history register counts the votes, and the     *)
(* results count the outcomes.  All of it is stated of a trace t and its   *)
(* continuation u by a branch b, so that no lemma but the last speaks of   *)
(* the variables.                                                          *)
(***************************************************************************)
EXTENDS PredictorSuite, FiniteSetTheorems, WellFoundedInduction, TLAPS

-----------------------------------------------------------------------------
(***************************************************************************)
(* Counters. A counter of wid bits stays in its range, in UINT8.           *)
(***************************************************************************)
Counts(wid) == 0 .. 2 ^ wid - 1

(***************************************************************************)
(* The ranges of all widths a UINT8 has.                                   *)
(***************************************************************************)
LEMMA PowersOfTwo ==
  /\ 2 ^ 1 = 2 /\ 2 ^ 2 = 4 /\ 2 ^ 3 = 8 /\ 2 ^ 4 = 16
  /\ 2 ^ 5 = 32 /\ 2 ^ 6 = 64 /\ 2 ^ 7 = 128 /\ 2 ^ 8 = 256
OBVIOUS

(***************************************************************************)
(* Half a range and a range.                                               *)
(***************************************************************************)
LEMMA RangeOfCounter ==
  ASSUME NEW wid \in 1 .. 8
  PROVE  /\ 2 ^ wid \in 2 .. 256 /\ 2 ^ wid \div 2 \in 1 .. 128
         /\ 2 ^ wid = 2 * (2 ^ wid \div 2)
         /\ 2 ^ (wid - 1) = 2 ^ wid \div 2
         /\ wid > 1 => 2 ^ wid \div 2 >= 2
<1>1. wid \in {1, 2, 3, 4, 5, 6, 7, 8}
  OBVIOUS
<1>2. 2 ^ 0 = 1
  OBVIOUS
<1>3. CASE wid = 1
  BY <1>2, <1>3, PowersOfTwo
<1>4. CASE wid = 2
  BY <1>4, PowersOfTwo
<1>5. CASE wid = 3
  BY <1>5, PowersOfTwo
<1>6. CASE wid = 4
  BY <1>6, PowersOfTwo
<1>7. CASE wid = 5
  BY <1>7, PowersOfTwo
<1>8. CASE wid = 6
  BY <1>8, PowersOfTwo
<1>9. CASE wid = 7
  BY <1>9, PowersOfTwo
<1>10. CASE wid = 8
  BY <1>10, PowersOfTwo
<1> QED  BY <1>1, <1>3, <1>4, <1>5, <1>6, <1>7, <1>8, <1>9, <1>10

(***************************************************************************)
(* increase and decrease move by one and stop at the ends of the range;    *)
(* the upper half predicts taken.                                          *)
(***************************************************************************)
LEMMA CountersSaturate ==
  ASSUME NEW wid \in 1 .. 8, NEW c \in Counts(wid)
  PROVE  /\ InitVal(wid) \in Counts(wid)
         /\ increase(wid, c) \in Counts(wid) /\ decrease(wid, c) \in Counts(wid)
         /\ \/ c = 2 ^ wid - 1 /\ increase(wid, c) = c
            \/ increase(wid, c) = c + 1
         /\ \/ c = 0 /\ decrease(wid, c) = c
            \/ decrease(wid, c) = c - 1
         /\ isTaken(wid, c) <=> c >= 2 ^ wid \div 2
<1> DEFINE all == 2 ^ wid
           half == 2 ^ wid \div 2
<1>1. all \in 2 .. 256 /\ half \in 1 .. 128 /\ all = 2 * half /\ c \in 0 .. all - 1
  BY RangeOfCounter DEF Counts
<1>2. /\ InitVal(wid) = half % 256
      /\ increase(wid, c) = IF c < all - 1 THEN (c + 1) % 256 ELSE c
      /\ decrease(wid, c) = IF c > 0 THEN c - 1 ELSE c
      /\ isTaken(wid, c) <=> c > half - 1
      /\ Counts(wid) = 0 .. all - 1
  BY DEF InitVal, increase, decrease, isTaken, UINT8, Counts
<1> HIDE DEF all, half
<1>3. InitVal(wid) \in Counts(wid)
  BY <1>1, <1>2
<1>4. /\ increase(wid, c) \in Counts(wid)
      /\ \/ c = all - 1 /\ increase(wid, c) = c
         \/ increase(wid, c) = c + 1
  <2>1. CASE c < all - 1
    <3>1. (c + 1) % 256 = c + 1
      BY <1>1, <2>1
    <3> QED  BY <1>1, <1>2, <2>1, <3>1
  <2>2. CASE ~(c < all - 1)
    BY <1>1, <1>2, <2>2
  <2> QED  BY <2>1, <2>2
<1>5. /\ decrease(wid, c) \in Counts(wid)
      /\ \/ c = 0 /\ decrease(wid, c) = c
         \/ decrease(wid, c) = c - 1
  BY <1>1, <1>2
<1>6. isTaken(wid, c) <=> c >= half
  BY <1>1, <1>2
<1> QED  BY <1>3, <1>4, <1>5, <1>6 DEF all, half

-----------------------------------------------------------------------------
(***************************************************************************)
(* The shape of a table, and what its updates do not change.               *)
(***************************************************************************)
Entries(wid) == [cnt : Counts(wid), target : SUBSET Nat, tag : SUBSET Nat]

TableShape(p) ==
  /\ DOMAIN p = {"class", "entries_log", "scnt_width", "predict_address",
                 "ghr_width", "hash_bits", "m_ghr", "entries"}
  /\ p.class \in SimplePredictors
  /\ p.scnt_width \in 1 .. 8
  /\ p.predict_address \in BOOLEAN
  /\ p.entries_log \in Nat /\ p.ghr_width \in Nat /\ p.hash_bits \in Nat
  /\ p.class = "BHTPredictor" => p.ghr_width = 0
  /\ p.entries \in [Indices(p) -> Entries(p.scnt_width)]

SameMake(p, q) ==
  /\ DOMAIN q = DOMAIN p
  /\ q.class = p.class /\ q.entries_log = p.entries_log
  /\ q.scnt_width = p.scnt_width /\ q.predict_address = p.predict_address
  /\ q.ghr_width = p.ghr_width /\ q.hash_bits = p.hash_bits

(***************************************************************************)
(* The constructors make tables of this shape with an empty history.       *)
(***************************************************************************)
LEMMA NewTableShape ==
  ASSUME NEW p, IsNewTable(p)
  PROVE  /\ TableShape(p) /\ p.m_ghr = {}
         /\ p.ghr_width > 0 => p.class = "GlobalHistoryPredictor"
         /\ \A e \in Indices(p) : p.entries[e] = BHTEntry(p.scnt_width)
<1> DEFINE w == p.scnt_width
           B == NewBHTPredictor(p.entries_log, w, p.predict_address)
           G == NewGlobalHistoryPredictor(p.hash_bits, p.ghr_width, p.entries_log,
                                          w, p.predict_address)
<1>1. BHTEntry(w) \in Entries(w)
  <2>1. w \in 1 .. 8
    BY DEF IsNewTable
  <2>3. 0 \in Counts(w)
    <3>1. 2 ^ w \in 2 .. 256
      BY <2>1, RangeOfCounter
    <3> HIDE DEF w
    <3> QED  BY <3>1 DEF Counts
  <2>2. InitVal(w) \in Counts(w)
    BY <2>1, <2>3, CountersSaturate
  <2> QED  BY <2>2 DEF BHTEntry, Entries
<1>2. ASSUME p = B
      PROVE  /\ DOMAIN p = {"class", "entries_log", "scnt_width", "predict_address",
                            "ghr_width", "hash_bits", "m_ghr", "entries"}
             /\ p.class = "BHTPredictor" /\ p.m_ghr = {}
             /\ p.ghr_width = 0 /\ p.hash_bits = 0
             /\ p.entries = [i \in Indices(p) |-> BHTEntry(w)]
  BY <1>2 DEF NewBHTPredictor, Indices
<1>3. ASSUME p = G, p.ghr_width \in Widths
      PROVE  /\ DOMAIN p = {"class", "entries_log", "scnt_width", "predict_address",
                            "ghr_width", "hash_bits", "m_ghr", "entries"}
             /\ p.class = "GlobalHistoryPredictor" /\ p.m_ghr = {}
             /\ p.entries = [i \in Indices(p) |-> BHTEntry(w)]
  BY <1>3 DEF NewGlobalHistoryPredictor, NewBHTPredictor, Indices
<1>4. w \in 1 .. 8 /\ p.predict_address \in BOOLEAN /\ p.entries_log \in Nat
      /\ (p = B \/ (p = G /\ p.ghr_width \in Widths /\ p.hash_bits \in Widths))
  BY DEF IsNewTable
<1> HIDE DEF w, B, G
<1>5. \A n \in Widths : n \in Nat
  BY DEF Widths
<1>6. CASE p = B
  BY <1>1, <1>2, <1>4, <1>6 DEF TableShape, SimplePredictors, w
<1>7. CASE p = G /\ p.ghr_width \in Widths /\ p.hash_bits \in Widths
  BY <1>1, <1>3, <1>4, <1>5, <1>7 DEF TableShape, SimplePredictors, w
<1> QED  BY <1>4, <1>6, <1>7

(***************************************************************************)
(* An index is a word of entries_log bits, whatever the address.           *)
(***************************************************************************)
LEMMA IndexIsIndex ==
  ASSUME NEW p, NEW addr \in SUBSET Nat, p.m_ghr \in SUBSET Nat, p.hash_bits \in Nat,
         p.entries_log \in Nat
  PROVE  BHTIndex(p, addr) \in Indices(p) /\ HistoryIndex(p, addr) \in Indices(p)
<1>1. Shr(addr, 2) \subseteq Nat
  BY DEF Shr
<1>2. fold_xor(p.hash_bits, addr, p.m_ghr) \subseteq Nat
  BY DEF fold_xor, Xor, fold_bits
<1>3. ASSUME NEW s \in SUBSET Nat
      PROVE  truncate(s, p.entries_log) \in Indices(p)
  <2>1. ASSUME NEW i \in truncate(s, p.entries_log)
        PROVE  i \in 0 .. p.entries_log - 1
    <3>1. i \in s /\ i < p.entries_log
      BY DEF truncate
    <3> QED  BY <3>1
  <2> QED  BY <2>1 DEF Indices
<1> QED  BY <1>1, <1>2, <1>3 DEF BHTIndex, HistoryIndex

-----------------------------------------------------------------------------
(***************************************************************************)
(* Traces. What the observer notes of a branch, and a trace u that is the  *)
(* trace t and one branch b more.                                          *)
(***************************************************************************)
IsBranch(b) ==
  /\ b.pc \in SUBSET Nat
  /\ b.taken \in BOOLEAN
  /\ b.target \in (SUBSET Nat) \ {NOT_TAKEN, TAKEN}

IsTrace(t) == \E S : t \in Seq(S) /\ \A b \in S : IsBranch(b)

OneMore(t, u, b) ==
  /\ Len(t) \in Nat /\ Len(u) = Len(t) + 1
  /\ DOMAIN t = 1 .. Len(t) /\ DOMAIN u = 1 .. Len(t) + 1
  /\ \A k \in 1 .. Len(t) : u[k] = t[k] /\ IsBranch(t[k])
  /\ u[Len(t) + 1] = b /\ IsBranch(b)

(***************************************************************************)
(* Append makes such a trace.                                              *)
(***************************************************************************)
LEMMA TraceGrows ==
  ASSUME NEW t, IsTrace(t), NEW b, IsBranch(b)
  PROVE  IsTrace(Append(t, b)) /\ OneMore(t, Append(t, b), b)
<1>1. PICK S : t \in Seq(S) /\ \A x \in S : IsBranch(x)
  BY DEF IsTrace
<1> DEFINE U == S \cup {b}
           u == Append(t, b)
<1>2. t \in Seq(U) /\ b \in U /\ \A x \in U : IsBranch(x)
  <2>1. t \in Seq(U)
    BY <1>1
  <2> QED  BY <1>1, <2>1
<1> HIDE DEF U
<1>3. /\ u \in Seq(U) /\ Len(t) \in Nat /\ Len(u) = Len(t) + 1
      /\ DOMAIN t = 1 .. Len(t) /\ DOMAIN u = 1 .. Len(t) + 1
      /\ u[Len(t) + 1] = b /\ \A k \in 1 .. Len(t) : u[k] = t[k]
  BY <1>2
<1>4. \A k \in 1 .. Len(t) : IsBranch(t[k])
  <2> TAKE k \in 1 .. Len(t)
  <2>1. t[k] \in U
    BY <1>2
  <2> QED  BY <1>2, <2>1
<1> HIDE DEF u
<1>5. IsTrace(u)
  BY <1>2, <1>3 DEF IsTrace
<1>6. OneMore(t, u, b)
  BY <1>3, <1>4 DEF OneMore
<1> QED  BY <1>5, <1>6 DEF u

(***************************************************************************)
(* The last wid outcomes before branch n + 1 of a trace.                   *)
(***************************************************************************)
HistoryIn(t, wid, n) == {j \in 0 .. wid - 1 : j < n /\ t[n - j].taken}

(***************************************************************************)
(* The histories of the past are not changed.                              *)
(***************************************************************************)
LEMMA HistoryKept ==
  ASSUME NEW t, NEW u, NEW b, OneMore(t, u, b), NEW wid \in Nat, NEW n \in 0 .. Len(t)
  PROVE  HistoryIn(u, wid, n) = HistoryIn(t, wid, n)
<1>1. ASSUME NEW j \in 0 .. wid - 1, j < n
      PROVE  u[n - j] = t[n - j]
  <2>1. n - j \in 1 .. Len(t)
    BY <1>1 DEF OneMore
  <2> QED  BY <2>1 DEF OneMore
<1> QED  BY <1>1 DEF HistoryIn

(***************************************************************************)
(* ShiftReg's shiftIn of the outcome is the history after the branch.      *)
(***************************************************************************)
LEMMA ShiftInIsHistory ==
  ASSUME NEW t, NEW u, NEW b, OneMore(t, u, b), NEW wid \in Nat
  PROVE  shiftIn(wid, HistoryIn(t, wid, Len(t)), b.taken)
           = HistoryIn(u, wid, Len(u))
<1> DEFINE n == Len(t)
<1>1. n \in Nat /\ Len(u) = n + 1 /\ u[n + 1] = b
  BY DEF OneMore
<1>2. ASSUME NEW j \in 1 .. wid - 1, j < n + 1
      PROVE  u[n + 1 - j] = t[n - (j - 1)]
  <2>1. n + 1 - j = n - (j - 1) /\ n - (j - 1) \in 1 .. n
    BY <1>1, <1>2
  <2> QED
    BY <2>1 DEF OneMore
<1>3. HistoryIn(u, wid, n + 1) = {j \in 0 .. wid - 1 : j < n + 1 /\ u[n + 1 - j].taken}
  BY <1>1 DEF HistoryIn
<1>4. ASSUME NEW j PROVE j \in shiftIn(wid, HistoryIn(t, wid, n), b.taken)
                          <=> j \in HistoryIn(u, wid, n + 1)
  <2>1. CASE j = 0
    <3>1. j \in shiftIn(wid, HistoryIn(t, wid, n), b.taken) <=> wid > 0 /\ b.taken
      BY <2>1 DEF shiftIn, truncate, HistoryIn
    <3>2. j \in HistoryIn(u, wid, n + 1) <=> wid > 0 /\ b.taken
      BY <2>1, <1>1, <1>3
    <3> QED
      BY <3>1, <3>2
  <2>2. CASE j \in 1 .. wid - 1
    <3>1. j \in shiftIn(wid, HistoryIn(t, wid, n), b.taken)
            <=> j - 1 < n /\ t[n - (j - 1)].taken
      BY <2>2, <1>1 DEF shiftIn, truncate, HistoryIn
    <3>2. j \in HistoryIn(u, wid, n + 1) <=> j < n + 1 /\ u[n + 1 - j].taken
      BY <2>2, <1>3
    <3> QED
      BY <2>2, <3>1, <3>2, <1>1, <1>2
  <2>3. CASE j \notin 0 .. wid - 1
    BY <2>3, <1>3 DEF shiftIn, truncate, HistoryIn
  <2> QED
    BY <2>1, <2>2, <2>3
<1>5. shiftIn(wid, HistoryIn(t, wid, n), b.taken) = HistoryIn(u, wid, n + 1)
  BY <1>4 DEF shiftIn, truncate, HistoryIn
<1> QED
  BY <1>1, <1>5

-----------------------------------------------------------------------------
(***************************************************************************)
(* A table and the trace it was shown.                                     *)
(***************************************************************************)
TableOK(p, t) == TableShape(p) /\ p.m_ghr = HistoryIn(t, p.ghr_width, Len(t))

(***************************************************************************)
(* The table's index of a branch.                                          *)
(***************************************************************************)
LEMMA IndexOfBranch ==
  ASSUME NEW p, NEW t, TableOK(p, t), NEW b, IsBranch(b)
  PROVE  /\ getTagFromAddr(p, b.pc) \in Indices(p)
         /\ p.m_ghr \subseteq 0 .. p.ghr_width - 1
<1>1. p.m_ghr \subseteq 0 .. p.ghr_width - 1
  BY DEF TableOK, HistoryIn
<1>2. p.m_ghr \in SUBSET Nat /\ b.pc \in SUBSET Nat
      /\ p.hash_bits \in Nat /\ p.entries_log \in Nat
  BY <1>1 DEF IsBranch, TableOK, TableShape
<1> QED  BY <1>1, <1>2, IndexIsIndex DEF getTagFromAddr

(***************************************************************************)
(* Shifting the outcome in makes the history that of the longer trace.     *)
(***************************************************************************)
LEMMA ShiftedFollows ==
  ASSUME NEW t, NEW u, NEW b, OneMore(t, u, b), NEW p, TableOK(p, t)
  PROVE  LET q == ShiftedGHR(p, b.taken)
         IN  TableOK(q, u) /\ SameMake(p, q) /\ q.entries = p.entries
<1> DEFINE q == ShiftedGHR(p, b.taken)
<1>1. /\ DOMAIN q = DOMAIN p
      /\ q.class = p.class /\ q.entries_log = p.entries_log
      /\ q.scnt_width = p.scnt_width /\ q.predict_address = p.predict_address
      /\ q.ghr_width = p.ghr_width /\ q.hash_bits = p.hash_bits
      /\ q.entries = p.entries
      /\ q.m_ghr = shiftIn(p.ghr_width, p.m_ghr, b.taken)
  BY DEF ShiftedGHR, TableOK, TableShape
<1>2. q.m_ghr = HistoryIn(u, p.ghr_width, Len(u))
  BY <1>1, ShiftInIsHistory DEF TableOK, TableShape
<1> HIDE DEF q
<1>3. SameMake(p, q) /\ Indices(q) = Indices(p)
  BY <1>1 DEF SameMake, Indices
<1>4. TableShape(q)
  BY <1>1, <1>3 DEF TableOK, TableShape
<1>5. TableOK(q, u) /\ SameMake(p, q) /\ q.entries = p.entries
  BY <1>1, <1>2, <1>3, <1>4 DEF TableOK
<1> QED  BY <1>5 DEF q

(***************************************************************************)
(* A table in which an entry is changed is a table of the same make.       *)
(***************************************************************************)
Rewritten(p, q, e, entry) ==
  /\ SameMake(p, q) /\ TableShape(q)
  /\ q.m_ghr = p.m_ghr
  /\ q.entries[e] = entry
  /\ \A x \in Indices(p) : x # e => q.entries[x] = p.entries[x]

(***************************************************************************)
(* Writing an entry does that.                                             *)
(***************************************************************************)
LEMMA EntryRewritten ==
  ASSUME NEW p, TableShape(p), NEW e \in Indices(p), NEW entry \in Entries(p.scnt_width)
  PROVE  Rewritten(p, [p EXCEPT !.entries[e] = entry], e, entry)
<1> DEFINE q == [p EXCEPT !.entries[e] = entry]
<1>1. /\ DOMAIN q = DOMAIN p
      /\ q.class = p.class /\ q.entries_log = p.entries_log
      /\ q.scnt_width = p.scnt_width /\ q.predict_address = p.predict_address
      /\ q.ghr_width = p.ghr_width /\ q.hash_bits = p.hash_bits
      /\ q.m_ghr = p.m_ghr
      /\ q.entries = [p.entries EXCEPT ![e] = entry]
  BY DEF TableShape
<1> HIDE DEF q
<1>2. SameMake(p, q) /\ Indices(q) = Indices(p)
  BY <1>1 DEF SameMake, Indices
<1>3. /\ q.entries \in [Indices(p) -> Entries(p.scnt_width)]
      /\ q.entries[e] = entry
      /\ \A x \in Indices(p) : x # e => q.entries[x] = p.entries[x]
  BY <1>1 DEF TableShape
<1>4. TableShape(q)
  BY <1>1, <1>2, <1>3 DEF TableShape
<1>5. Rewritten(p, q, e, entry)
  BY <1>1, <1>2, <1>3, <1>4 DEF Rewritten
<1> QED  BY <1>5 DEF q

(***************************************************************************)
(* What an entry learns: its counter moves towards the outcome, its target *)
(* is that of a branch taken, its tag is kept.                             *)
(***************************************************************************)
LEMMA TrainedEntry ==
  ASSUME NEW p, TableShape(p), NEW entry \in Entries(p.scnt_width),
         NEW taken \in BOOLEAN, NEW target \in SUBSET Nat
  PROVE  LET learnt == Trained(p, entry, taken, target)
         IN  /\ learnt \in Entries(p.scnt_width)
             /\ learnt.tag = entry.tag
             /\ taken => /\ learnt.cnt = increase(p.scnt_width, entry.cnt)
                         /\ learnt.target = target
             /\ ~taken => /\ learnt.cnt = decrease(p.scnt_width, entry.cnt)
                          /\ learnt.target = entry.target
<1> DEFINE w == p.scnt_width
           up == increase(w, entry.cnt)
           down == decrease(w, entry.cnt)
<1>1. w \in 1 .. 8 /\ entry.cnt \in Counts(w)
  BY DEF TableShape, Entries
<1> HIDE DEF w
<1>2. up \in Counts(w) /\ down \in Counts(w)
  BY <1>1, CountersSaturate
<1>3. entry = [cnt |-> entry.cnt, target |-> entry.target, tag |-> entry.tag]
      /\ entry.tag \in SUBSET Nat /\ entry.target \in SUBSET Nat
  BY DEF Entries
<1> HIDE DEF up, down
<1>4. CASE taken
  <2> DEFINE learnt == Trained(p, entry, taken, target)
  <2>1. learnt = [entry EXCEPT !.cnt = up, !.target = target]
    BY <1>4 DEF Trained, up, w
  <2>2. learnt = [cnt |-> up, target |-> target, tag |-> entry.tag]
    BY <1>3, <2>1
  <2> HIDE DEF learnt
  <2>3. /\ learnt.cnt = up /\ learnt.target = target /\ learnt.tag = entry.tag
        /\ learnt \in Entries(w)
    BY <1>2, <1>3, <2>2 DEF Entries
  <2> QED  BY <1>4, <2>3 DEF w, up, learnt
<1>5. CASE ~taken
  <2> DEFINE learnt == Trained(p, entry, taken, target)
  <2>1. learnt = [entry EXCEPT !.cnt = down]
    BY <1>5 DEF Trained, down, w
  <2>2. learnt = [cnt |-> down, target |-> entry.target, tag |-> entry.tag]
    BY <1>3, <2>1
  <2> HIDE DEF learnt
  <2>3. /\ learnt.cnt = down /\ learnt.target = entry.target /\ learnt.tag = entry.tag
        /\ learnt \in Entries(w)
    BY <1>2, <1>3, <2>2 DEF Entries
  <2> QED  BY <1>5, <2>3 DEF w, down, learnt
<1> QED  BY <1>4, <1>5

(***************************************************************************)
(* update: the entry of the branch learns, the others stay, and the        *)
(* history follows; a BHTPredictor's is empty for ever.                    *)
(***************************************************************************)
UpdatedTable(p, q, u, b) ==
  LET e == getTagFromAddr(p, b.pc)
  IN  /\ TableOK(q, u) /\ SameMake(p, q)
      /\ e \in Indices(p)
      /\ q.entries[e] = Trained(p, p.entries[e], b.taken, b.target)
      /\ \A x \in Indices(p) : x # e => q.entries[x] = p.entries[x]

(***************************************************************************)
(* Of a table of either class.                                             *)
(***************************************************************************)
LEMMA UpdateFollows ==
  ASSUME NEW t, NEW u, NEW b, OneMore(t, u, b), NEW p, TableOK(p, t)
  PROVE  UpdatedTable(p, update(p, b.taken, b.pc, b.target), u, b)
<1> DEFINE e == getTagFromAddr(p, b.pc)
           entry == Trained(p, p.entries[e], b.taken, b.target)
           r == [p EXCEPT !.entries[e] = entry]
<1>1. IsBranch(b)
  BY DEF OneMore
<1>2. e \in Indices(p)
  BY <1>1, IndexOfBranch
<1>3. TableShape(p) /\ p.entries[e] \in Entries(p.scnt_width)
  BY <1>2 DEF TableOK, TableShape
<1>4. entry \in Entries(p.scnt_width)
  BY <1>1, <1>3, TrainedEntry DEF IsBranch
<1> HIDE DEF entry, e
<1>5. Rewritten(p, r, e, entry)
  BY <1>2, <1>3, <1>4, EntryRewritten
<1> HIDE DEF r
<1>6. TableOK(r, t)
  BY <1>5 DEF Rewritten, SameMake, TableOK
<1>7. CASE p.class = "BHTPredictor"
  <2>1. update(p, b.taken, b.pc, b.target) = r
    BY <1>7 DEF update, BHTUpdate, getTagFromAddr, r, e, entry
  <2>2. r.ghr_width = 0
    BY <1>5, <1>7 DEF Rewritten, SameMake, TableOK, TableShape
  <2>3. HistoryIn(u, 0, Len(u)) = {} /\ HistoryIn(t, 0, Len(t)) = {}
    BY DEF HistoryIn
  <2>4. TableOK(r, u)
    BY <1>6, <2>2, <2>3 DEF TableOK
  <2> QED  BY <1>2, <1>5, <2>1, <2>4 DEF UpdatedTable, Rewritten, e, entry
<1>8. CASE p.class # "BHTPredictor"
  <2> DEFINE q == ShiftedGHR(r, b.taken)
  <2>1. update(p, b.taken, b.pc, b.target) = q
    BY <1>8 DEF update, HistoryUpdate, getTagFromAddr, r, e, entry
  <2>2. TableOK(q, u) /\ SameMake(r, q) /\ q.entries = r.entries
    BY <1>6, ShiftedFollows
  <2> HIDE DEF q
  <2>3. SameMake(p, q)
    BY <1>5, <2>2 DEF Rewritten, SameMake
  <2> QED  BY <1>2, <1>5, <2>1, <2>2, <2>3 DEF UpdatedTable, Rewritten, e, entry
<1> QED  BY <1>7, <1>8

-----------------------------------------------------------------------------
(***************************************************************************)
(* TAGE. The shape of a TAGEPredictor, and what its steps do not change.   *)
(***************************************************************************)
TagOK(g, entry) == entry.tag \subseteq 0 .. g.tag_width - 1

TAGEShape(g) ==
  /\ DOMAIN g = {"class", "tnum", "tag_width", "rst_period", "rst_cnt", "provider",
                 "predict_provider", "predict_altpred", "T", "useful"}
  /\ g.class = "TAGEPredictor"
  /\ g.tnum \in Nat \ {0} /\ g.tag_width \in Nat
  /\ g.rst_period \in Nat \ {0} /\ g.rst_cnt \in 0 .. g.rst_period - 1
  /\ DOMAIN g.T = 0 .. g.tnum - 1 /\ DOMAIN g.useful = Tagged(g)
  /\ \A i \in DOMAIN g.T : TableShape(g.T[i])
  /\ \A i \in DOMAIN g.T : i = 0 <=> g.T[i].class = "BHTPredictor"
  /\ \A i \in Tagged(g) :
       /\ g.useful[i] \in [Indices(g.T[i]) -> 0 .. 2]
       /\ \A e \in Indices(g.T[i]) : TagOK(g, g.T[i].entries[e])

TAGEOK(g, t) == TAGEShape(g) /\ \A i \in DOMAIN g.T : TableOK(g.T[i], t)

SameStatics(g, h) ==
  /\ DOMAIN h = DOMAIN g /\ h.class = g.class
  /\ h.tnum = g.tnum /\ h.tag_width = g.tag_width /\ h.rst_period = g.rst_period

SameTables(g, h) ==
  /\ DOMAIN h.T = DOMAIN g.T
  /\ \A i \in DOMAIN g.T : SameMake(g.T[i], h.T[i])

(***************************************************************************)
(* The tagged tables are tables and have all the classes but the first.    *)
(***************************************************************************)
LEMMA TaggedTables ==
  ASSUME NEW g, TAGEShape(g)
  PROVE  /\ Tagged(g) \subseteq DOMAIN g.T /\ Tagged(g) \subseteq Nat
         /\ DOMAIN g.T \ {0} = Tagged(g)
         /\ 0 \notin Tagged(g)
         /\ \A i \in Tagged(g) : TableShape(g.T[i]) /\ g.T[i].class # "BHTPredictor"
<1>1. /\ Tagged(g) = 1 .. g.tnum - 1 /\ g.tnum \in Nat \ {0}
      /\ DOMAIN g.T = 0 .. g.tnum - 1
  BY DEF TAGEShape, Tagged
<1>2. /\ Tagged(g) \subseteq DOMAIN g.T /\ Tagged(g) \subseteq Nat
      /\ DOMAIN g.T \ {0} = Tagged(g) /\ 0 \notin Tagged(g)
  BY <1>1
<1>3. \A i \in Tagged(g) : TableShape(g.T[i]) /\ g.T[i].class # "BHTPredictor"
  BY <1>2 DEF TAGEShape
<1> QED  BY <1>2, <1>3

(***************************************************************************)
(* What a step must establish for the shape to be kept.                    *)
(***************************************************************************)
LEMMA TAGEChanged ==
  ASSUME NEW g, TAGEShape(g), NEW h, SameStatics(g, h), SameTables(g, h),
         \A i \in DOMAIN g.T : TableShape(h.T[i]),
         h.rst_cnt \in 0 .. g.rst_period - 1,
         DOMAIN h.useful = Tagged(g),
         \A i \in Tagged(g) : h.useful[i] \in [Indices(g.T[i]) -> 0 .. 2],
         \A i \in Tagged(g) : \A e \in Indices(g.T[i]) : TagOK(g, h.T[i].entries[e])
  PROVE  TAGEShape(h)
<1>1. Tagged(h) = Tagged(g) /\ Tagged(g) \subseteq DOMAIN g.T
  BY TaggedTables DEF SameStatics, Tagged
<1>2. \A i \in DOMAIN g.T : Indices(h.T[i]) = Indices(g.T[i])
                            /\ h.T[i].class = g.T[i].class
  BY DEF SameTables, SameMake, Indices
<1>3. \A entry : TagOK(g, entry) <=> TagOK(h, entry)
  BY DEF SameStatics, TagOK
<1>4. \A i \in Tagged(h) :
        /\ h.useful[i] \in [Indices(h.T[i]) -> 0 .. 2]
        /\ \A e \in Indices(h.T[i]) : TagOK(h, h.T[i].entries[e])
  BY <1>1, <1>2, <1>3
<1>5. /\ DOMAIN h = {"class", "tnum", "tag_width", "rst_period", "rst_cnt", "provider",
                     "predict_provider", "predict_altpred", "T", "useful"}
      /\ h.class = "TAGEPredictor"
      /\ h.tnum \in Nat \ {0} /\ h.tag_width \in Nat
      /\ h.rst_period \in Nat \ {0} /\ h.rst_cnt \in 0 .. h.rst_period - 1
      /\ DOMAIN h.T = 0 .. h.tnum - 1
  BY DEF TAGEShape, SameStatics, SameTables
<1>6. \A i \in DOMAIN h.T : TableShape(h.T[i])
                            /\ (i = 0 <=> h.T[i].class = "BHTPredictor")
  BY <1>2 DEF SameTables, TAGEShape
<1> QED  BY <1>1, <1>4, <1>5, <1>6 DEF TAGEShape

(***************************************************************************)
(* A step that leaves the tables alone.                                    *)
(***************************************************************************)
LEMMA TablesUntouched ==
  ASSUME NEW g, NEW t, TAGEOK(g, t), NEW h, SameStatics(g, h), h.T = g.T,
         h.rst_cnt \in 0 .. g.rst_period - 1,
         DOMAIN h.useful = Tagged(g),
         \A i \in Tagged(g) : h.useful[i] \in [Indices(g.T[i]) -> 0 .. 2]
  PROVE  TAGEOK(h, t)
<1>1. SameTables(g, h)
  BY DEF SameTables, SameMake
<1>2. TAGEShape(g)
  BY DEF TAGEOK
<1>3. \A i \in DOMAIN g.T : TableShape(h.T[i])
  BY <1>2 DEF TAGEShape
<1>4. \A i \in Tagged(g) : \A e \in Indices(g.T[i]) : TagOK(g, h.T[i].entries[e])
  BY <1>2 DEF TAGEShape
<1>5. TAGEShape(h)
  BY <1>1, <1>2, <1>3, <1>4, TAGEChanged
<1> QED  BY <1>5 DEF TAGEOK

(***************************************************************************)
(* A prediction only remembers who gave it.                                *)
(***************************************************************************)
LEMMA AskedKeeps ==
  ASSUME NEW g, NEW t, TAGEOK(g, t), NEW addr
  PROVE  LET h == TAGEPredicted(g, addr)
         IN  /\ TAGEOK(h, t) /\ SameStatics(g, h)
             /\ h.T = g.T /\ h.useful = g.useful /\ h.rst_cnt = g.rst_cnt
<1> DEFINE h == TAGEPredicted(g, addr)
<1>1. TAGEShape(g)
  BY DEF TAGEOK
<1>2. /\ DOMAIN h = DOMAIN g /\ h.class = g.class /\ h.tnum = g.tnum
      /\ h.tag_width = g.tag_width /\ h.rst_period = g.rst_period
      /\ h.T = g.T /\ h.useful = g.useful /\ h.rst_cnt = g.rst_cnt
  BY <1>1 DEF TAGEShape, TAGEPredicted
<1> HIDE DEF h
<1>3. SameStatics(g, h)
  BY <1>2 DEF SameStatics
<1>4. /\ h.rst_cnt \in 0 .. g.rst_period - 1 /\ DOMAIN h.useful = Tagged(g)
      /\ \A i \in Tagged(g) : h.useful[i] \in [Indices(g.T[i]) -> 0 .. 2]
  BY <1>1, <1>2 DEF TAGEShape
<1>5. TAGEOK(h, t)
  BY <1>2, <1>3, <1>4, TablesUntouched
<1> QED  BY <1>2, <1>3, <1>5 DEF h

(***************************************************************************)
(* A vote changes the usefulness of the provider's entry only, within its  *)
(* range.                                                                  *)
(***************************************************************************)
LEMMA VoteKeeps ==
  ASSUME NEW g, NEW t, TAGEOK(g, t), NEW right \in BOOLEAN, NEW addr
  PROVE  LET h == WithVote(g, right, addr)
         IN  /\ TAGEOK(h, t) /\ SameStatics(g, h) /\ h.T = g.T
             /\ h.provider = g.provider /\ h.rst_cnt = g.rst_cnt
             /\ \A i \in Tagged(g) : i # g.provider => h.useful[i] = g.useful[i]
<1> DEFINE h == WithVote(g, right, addr)
           p == g.provider
           e == HistoryIndex(g.T[p], addr)
           votes == p # 0 /\ g.predict_altpred # g.predict_provider
<1>1. TAGEShape(g)
  BY DEF TAGEOK
<1>2. CASE ~votes
  <2>1. h = g
    BY <1>2 DEF WithVote
  <2> QED  BY <2>1 DEF SameStatics
<1>3. CASE votes
  <2> DEFINE useful == [g.useful EXCEPT ![p] =
                          [g.useful[p] EXCEPT ![e] = UsefulVote(@, right)]]
  <2>1. h = [g EXCEPT !.useful = useful]
    BY <1>3 DEF WithVote
  <2> HIDE DEF useful
  <2>2. /\ DOMAIN h = DOMAIN g /\ h.class = g.class /\ h.tnum = g.tnum
        /\ h.tag_width = g.tag_width /\ h.rst_period = g.rst_period
        /\ h.T = g.T /\ h.useful = useful /\ h.rst_cnt = g.rst_cnt
        /\ h.provider = g.provider
    BY <1>1, <2>1 DEF TAGEShape
  <2>3. SameStatics(g, h)
    BY <2>2 DEF SameStatics
  <2>4. DOMAIN useful = Tagged(g) /\ \A i \in Tagged(g) : i # p => useful[i] = g.useful[i]
    BY <1>1 DEF TAGEShape, useful
  <2>5. \A n \in 0 .. 2 : UsefulVote(n, right) \in 0 .. 2
    BY DEF UsefulVote
  <2>6. ASSUME NEW i \in Tagged(g)
        PROVE  useful[i] \in [Indices(g.T[i]) -> 0 .. 2]
    <3>1. g.useful[i] \in [Indices(g.T[i]) -> 0 .. 2]
      BY <1>1 DEF TAGEShape
    <3>2. CASE i # p
      BY <2>4, <3>1, <3>2
    <3>3. CASE i = p
      <4>1. useful[i] = [g.useful[i] EXCEPT ![e] = UsefulVote(g.useful[i][e], right)]
        BY <1>1, <3>3 DEF TAGEShape, useful
      <4>2. e \in Indices(g.T[i]) => UsefulVote(g.useful[i][e], right) \in 0 .. 2
        BY <2>5, <3>1
      <4> HIDE DEF e
      <4> QED  BY <3>1, <4>1, <4>2
    <3> QED  BY <3>2, <3>3
  <2>7. h.rst_cnt \in 0 .. g.rst_period - 1
    BY <1>1, <2>2 DEF TAGEShape
  <2> HIDE DEF h
  <2>8. TAGEOK(h, t)
    BY <2>2, <2>3, <2>4, <2>6, <2>7, TablesUntouched
  <2> QED  BY <2>2, <2>3, <2>4, <2>8 DEF h
<1> QED  BY <1>2, <1>3

(***************************************************************************)
(* The period counter goes round; the usefulness is changed only when it   *)
(* comes to 0.                                                             *)
(***************************************************************************)
LEMMA ResetKeeps ==
  ASSUME NEW g, NEW t, TAGEOK(g, t)
  PROVE  LET h == WithReset(g)
         IN  /\ TAGEOK(h, t) /\ SameStatics(g, h) /\ h.T = g.T
             /\ h.provider = g.provider
             /\ h.rst_cnt # 0 => h.useful = g.useful
<1> DEFINE h == WithReset(g)
           useful == [i \in Tagged(g) |-> IF i < g.tnum - 1
                                          THEN [e \in DOMAIN g.useful[i] |-> 0]
                                          ELSE g.useful[i]]
<1>1. TAGEShape(g)
  BY DEF TAGEOK
<1>2. ASSUME NEW i \in Tagged(g)
      PROVE  /\ g.useful[i] \in [Indices(g.T[i]) -> 0 .. 2]
             /\ useful[i] \in [Indices(g.T[i]) -> 0 .. 2]
  <2>1. g.useful[i] \in [Indices(g.T[i]) -> 0 .. 2]
    BY <1>1 DEF TAGEShape
  <2>2. [e \in DOMAIN g.useful[i] |-> 0] \in [Indices(g.T[i]) -> 0 .. 2]
    BY <2>1
  <2>3. useful[i] = [e \in DOMAIN g.useful[i] |-> 0] \/ useful[i] = g.useful[i]
    OBVIOUS
  <2> HIDE DEF useful
  <2> QED  BY <2>1, <2>2, <2>3
<1>3. DOMAIN useful = Tagged(g) /\ DOMAIN g.useful = Tagged(g)
  BY <1>1 DEF TAGEShape
<1> HIDE DEF useful
<1>4. g.rst_cnt \in 0 .. g.rst_period - 1 /\ g.rst_period \in Nat \ {0}
  BY <1>1 DEF TAGEShape
<1>5. CASE g.rst_cnt + 1 # g.rst_period
  <2>1. h = [g EXCEPT !.rst_cnt = g.rst_cnt + 1]
    BY <1>5 DEF WithReset
  <2>2. /\ DOMAIN h = DOMAIN g /\ h.class = g.class /\ h.tnum = g.tnum
        /\ h.tag_width = g.tag_width /\ h.rst_period = g.rst_period
        /\ h.T = g.T /\ h.useful = g.useful /\ h.rst_cnt = g.rst_cnt + 1
        /\ h.provider = g.provider
    BY <1>1, <2>1 DEF TAGEShape
  <2> HIDE DEF h
  <2>3. SameStatics(g, h)
    BY <2>2 DEF SameStatics
  <2>4. h.rst_cnt \in 0 .. g.rst_period - 1
    BY <1>4, <1>5, <2>2
  <2>5. TAGEOK(h, t)
    BY <1>2, <1>3, <2>2, <2>3, <2>4, TablesUntouched
  <2> QED  BY <2>2, <2>3, <2>5 DEF h
<1>6. CASE g.rst_cnt + 1 = g.rst_period
  <2>1. h = [g EXCEPT !.rst_cnt = 0, !.useful = useful]
    BY <1>6 DEF WithReset, useful
  <2>2. /\ DOMAIN h = DOMAIN g /\ h.class = g.class /\ h.tnum = g.tnum
        /\ h.tag_width = g.tag_width /\ h.rst_period = g.rst_period
        /\ h.T = g.T /\ h.useful = useful /\ h.rst_cnt = 0
        /\ h.provider = g.provider
    BY <1>1, <2>1 DEF TAGEShape
  <2> HIDE DEF h
  <2>3. SameStatics(g, h)
    BY <2>2 DEF SameStatics
  <2>4. h.rst_cnt \in 0 .. g.rst_period - 1
    BY <1>4, <2>2
  <2>5. TAGEOK(h, t)
    BY <1>2, <1>3, <2>2, <2>3, <2>4, TablesUntouched
  <2> QED  BY <2>2, <2>3, <2>5 DEF h
<1> QED  BY <1>5, <1>6

(***************************************************************************)
(* Two fields of an entry changed.                                         *)
(***************************************************************************)
LEMMA TwoFields ==
  ASSUME NEW entry, NEW x, NEW y, NEW r,
         entry = [cnt |-> entry.cnt, target |-> entry.target, tag |-> entry.tag],
         r = [entry EXCEPT !.cnt = x, !.tag = y]
  PROVE  r = [cnt |-> x, target |-> entry.target, tag |-> y]
OBVIOUS

(***************************************************************************)
(* A replaced entry: it starts anew, with the tag of the branch.           *)
(***************************************************************************)
LEMMA FreshEntry ==
  ASSUME NEW g, NEW t, TAGEOK(g, t), NEW b, IsBranch(b), NEW i \in Tagged(g),
         NEW entry \in Entries(g.T[i].scnt_width)
  PROVE  LET fresh == [entry EXCEPT !.cnt = InitVal(g.T[i].scnt_width),
                                    !.tag = TagOf(g, i, b.pc)]
         IN  /\ fresh \in Entries(g.T[i].scnt_width)
             /\ fresh.tag = TagOf(g, i, b.pc)
             /\ TagOK(g, fresh)
<1> DEFINE w == g.T[i].scnt_width
           tag == TagOf(g, i, b.pc)
           fresh == [entry EXCEPT !.cnt = InitVal(w), !.tag = tag]
<1>1. TAGEShape(g) /\ i \in DOMAIN g.T /\ TableOK(g.T[i], t)
  BY TaggedTables DEF TAGEOK
<1>2. w \in 1 .. 8 /\ entry.cnt \in Counts(w)
  BY <1>1 DEF TableOK, TableShape, Entries
<1>3. InitVal(w) \in Counts(w)
  <2> HIDE DEF w
  <2> QED  BY <1>2, CountersSaturate
<1>4. g.T[i].m_ghr \subseteq Nat
  BY <1>1, IndexOfBranch
<1>5. Xor(b.pc, g.T[i].m_ghr) \in SUBSET Nat
  BY <1>4 DEF Xor, IsBranch
<1>6. g.tag_width \in Nat
  BY <1>1 DEF TAGEShape
<1>7. tag \subseteq 0 .. g.tag_width - 1 /\ tag \in SUBSET Nat
  <2>1. tag = truncate(Xor(b.pc, g.T[i].m_ghr), g.tag_width)
    BY DEF TagOf, hash_xor
  <2>2. \A j \in tag : j \in Nat /\ j < g.tag_width
    BY <1>5, <2>1 DEF truncate
  <2> HIDE DEF tag
  <2>3. \A j \in tag : j \in 0 .. g.tag_width - 1
    BY <1>6, <2>2
  <2> QED  BY <2>2, <2>3
<1>8. /\ entry = [cnt |-> entry.cnt, target |-> entry.target, tag |-> entry.tag]
      /\ entry.target \in SUBSET Nat
  BY DEF Entries
<1> DEFINE c == InitVal(w)
<1> HIDE DEF tag, c
<1>9. fresh = [cnt |-> c, target |-> entry.target, tag |-> tag]
  <2>1. fresh = [entry EXCEPT !.cnt = c, !.tag = tag]
    BY DEF c
  <2> HIDE DEF fresh
  <2> QED  BY <1>8, <2>1, TwoFields
<1> HIDE DEF fresh
<1>10. c \in Counts(w)
  BY <1>3 DEF c
<1>11. fresh \in Entries(w) /\ fresh.tag = tag /\ TagOK(g, fresh)
  BY <1>7, <1>8, <1>9, <1>10 DEF Entries, TagOK
<1> QED  BY <1>11 DEF fresh, tag, w

(***************************************************************************)
(* Who may own an entry after a step: its tag is kept, or it is that of    *)
(* the branch, mispredicted, which indexes the entry.                      *)
(***************************************************************************)
NewOwner(g, h, right, b, i, e) ==
  /\ ~right
  /\ e = getTagFromAddr(g.T[i], b.pc)
  /\ h.T[i].entries[e].tag = TagOf(g, i, b.pc)

SameOwner(g, h, i, e) == h.T[i].entries[e].tag = g.T[i].entries[e].tag

(***************************************************************************)
(* Replacement: entries of no use in tables beyond the provider start      *)
(* anew.                                                                   *)
(***************************************************************************)
ReplacedIn(g, h, right, b) ==
  /\ SameStatics(g, h) /\ SameTables(g, h)
  /\ h.provider = g.provider /\ h.rst_cnt = g.rst_cnt
  /\ \A i \in Tagged(g) : \A e \in Indices(g.T[i]) :
       \/ SameOwner(g, h, i, e)
       \/ NewOwner(g, h, right, b, i, e) /\ i > g.provider /\ g.useful[i][e] = 0

(***************************************************************************)
(* One table after a wrong prediction.                                     *)
(***************************************************************************)
WithNewOwner(g, i, addr) ==
  [g.T[i] EXCEPT !.entries[HistoryIndex(g.T[i], addr)] =
     [@ EXCEPT !.cnt = InitVal(g.T[i].scnt_width), !.tag = TagOf(g, i, addr)]]

IsReplaced(g, t, b, i, q) ==
  LET e == getTagFromAddr(g.T[i], b.pc)
  IN  /\ TableOK(q, t) /\ SameMake(g.T[i], q)
      /\ e = HistoryIndex(g.T[i], b.pc) /\ e \in Indices(g.T[i])
      /\ q.entries[e].tag = TagOf(g, i, b.pc) /\ TagOK(g, q.entries[e])
      /\ \A x \in Indices(g.T[i]) : x # e => q.entries[x] = g.T[i].entries[x]

(***************************************************************************)
(* The other entries of the table and its history stay.                    *)
(***************************************************************************)
LEMMA ReplacedTable ==
  ASSUME NEW g, NEW t, TAGEOK(g, t), NEW b, IsBranch(b), NEW i \in Replaced(g, b.pc)
  PROVE  IsReplaced(g, t, b, i, WithNewOwner(g, i, b.pc))
<1> DEFINE p == g.T[i]
           e == HistoryIndex(p, b.pc)
           fresh == [p.entries[e] EXCEPT !.cnt = InitVal(p.scnt_width),
                                         !.tag = TagOf(g, i, b.pc)]
           q == [p EXCEPT !.entries[e] = fresh]
<1>1. TAGEShape(g) /\ i \in Tagged(g)
  BY DEF TAGEOK, Replaced
<1>2. i \in DOMAIN g.T /\ p.class # "BHTPredictor" /\ TableShape(p)
  BY <1>1, TaggedTables
<1>3. TableOK(p, t)
  BY <1>2 DEF TAGEOK
<1>4. e = getTagFromAddr(p, b.pc) /\ e \in Indices(p)
  <2>1. e = getTagFromAddr(p, b.pc)
    BY <1>2 DEF getTagFromAddr
  <2> HIDE DEF p, e
  <2> QED  BY <1>3, <2>1, IndexOfBranch
<1>5. p.entries[e] \in Entries(p.scnt_width)
  BY <1>2, <1>4 DEF TableShape
<1>6. /\ fresh \in Entries(p.scnt_width) /\ fresh.tag = TagOf(g, i, b.pc)
      /\ TagOK(g, fresh)
  <2> HIDE DEF e
  <2> QED  BY <1>1, <1>5, FreshEntry
<1> HIDE DEF fresh, e, p
<1>7. Rewritten(p, q, e, fresh)
  BY <1>2, <1>4, <1>6, EntryRewritten
<1> HIDE DEF q
<1>8. TableOK(q, t)
  BY <1>3, <1>7 DEF Rewritten, SameMake, TableOK
<1>9. /\ TableOK(q, t) /\ SameMake(p, q)
      /\ e = getTagFromAddr(p, b.pc) /\ e \in Indices(p)
      /\ q.entries[e].tag = TagOf(g, i, b.pc) /\ TagOK(g, q.entries[e])
      /\ \A x \in Indices(p) : x # e => q.entries[x] = p.entries[x]
  BY <1>4, <1>6, <1>7, <1>8 DEF Rewritten
<1>10. WithNewOwner(g, i, b.pc) = q
  BY DEF WithNewOwner, q, fresh, e, p
<1>11. e = HistoryIndex(g.T[i], b.pc)
  BY DEF e, p
<1>12. IsReplaced(g, t, b, i, q)
  BY <1>9, <1>11 DEF IsReplaced, p
<1> QED  BY <1>10, <1>12

(***************************************************************************)
(* All tables.                                                             *)
(***************************************************************************)
LEMMA ReplacementKeeps ==
  ASSUME NEW g, NEW t, TAGEOK(g, t), NEW right \in BOOLEAN, NEW b, IsBranch(b)
  PROVE  LET h == WithReplacement(g, right, b.pc)
         IN  TAGEOK(h, t) /\ ReplacedIn(g, h, right, b)
<1> DEFINE h == WithReplacement(g, right, b.pc)
           e(i) == HistoryIndex(g.T[i], b.pc)
           q(i) == WithNewOwner(g, i, b.pc)
           useful == [i \in Tagged(g) |->
                        IF i > g.provider /\ i \notin Replaced(g, b.pc)
                        THEN [g.useful[i] EXCEPT ![e(i)] = @ - 1]
                        ELSE g.useful[i]]
<1>1. TAGEShape(g)
  BY DEF TAGEOK
<1>2. CASE right
  <2>1. h = g
    BY <1>2 DEF WithReplacement
  <2> QED
    BY <2>1 DEF ReplacedIn, SameStatics, SameTables, SameMake, SameOwner
<1>3. CASE ~right
  <2>1. ASSUME NEW i \in Replaced(g, b.pc)
        PROVE  /\ TableOK(q(i), t) /\ SameMake(g.T[i], q(i))
               /\ e(i) = getTagFromAddr(g.T[i], b.pc)
               /\ q(i).entries[e(i)].tag = TagOf(g, i, b.pc) /\ TagOK(g, q(i).entries[e(i)])
               /\ \A x \in Indices(g.T[i]) : x # e(i) => q(i).entries[x] = g.T[i].entries[x]
    BY <2>1, ReplacedTable DEF IsReplaced
  <2>2. h = [g EXCEPT !.T = [i \in DOMAIN g.T |->
                               IF i \in Replaced(g, b.pc) THEN q(i) ELSE g.T[i]],
                      !.useful = useful]
    BY <1>3 DEF WithReplacement, WithNewOwner
  <2>3. ASSUME NEW i \in Tagged(g)
        PROVE  useful[i] \in [Indices(g.T[i]) -> 0 .. 2]
    <3>1. g.useful[i] \in [Indices(g.T[i]) -> 0 .. 2]
      BY <1>1 DEF TAGEShape
    <3>2. CASE i > g.provider /\ i \notin Replaced(g, b.pc)
      <4>1. g.useful[i][e(i)] # 0
        BY <3>2 DEF Replaced
      <4>2. useful[i] = [g.useful[i] EXCEPT ![e(i)] = g.useful[i][e(i)] - 1]
        BY <3>2
      <4> HIDE DEF useful, e
      <4>3. e(i) \in Indices(g.T[i]) => g.useful[i][e(i)] - 1 \in 0 .. 2
        BY <3>1, <4>1
      <4> QED  BY <3>1, <4>2, <4>3
    <3>3. CASE ~(i > g.provider /\ i \notin Replaced(g, b.pc))
      BY <3>1, <3>3
    <3> QED  BY <3>2, <3>3
  <2>4. DOMAIN useful = Tagged(g)
    OBVIOUS
  <2> HIDE DEF q, useful
  <2>5. /\ DOMAIN h = DOMAIN g /\ h.class = g.class /\ h.tnum = g.tnum
        /\ h.tag_width = g.tag_width /\ h.rst_period = g.rst_period
        /\ h.useful = useful /\ h.rst_cnt = g.rst_cnt
        /\ h.provider = g.provider /\ DOMAIN h.T = DOMAIN g.T
        /\ \A i \in DOMAIN g.T : h.T[i] = IF i \in Replaced(g, b.pc) THEN q(i) ELSE g.T[i]
    BY <1>1, <2>2 DEF TAGEShape
  <2> HIDE DEF h
  <2>6. SameStatics(g, h)
    BY <2>5 DEF SameStatics
  <2>7. ASSUME NEW i \in DOMAIN g.T
        PROVE  TableOK(h.T[i], t) /\ SameMake(g.T[i], h.T[i])
    <3>1. CASE i \in Replaced(g, b.pc)
      BY <2>1, <2>5, <3>1
    <3>2. CASE i \notin Replaced(g, b.pc)
      BY <2>5, <3>2 DEF TAGEOK, SameMake
    <3> QED  BY <3>1, <3>2
  <2>8. ASSUME NEW i \in Tagged(g), NEW x \in Indices(g.T[i])
        PROVE  /\ TagOK(g, h.T[i].entries[x])
               /\ \/ SameOwner(g, h, i, x)
                  \/ NewOwner(g, h, right, b, i, x) /\ i > g.provider /\ g.useful[i][x] = 0
    <3>1. i \in DOMAIN g.T /\ TagOK(g, g.T[i].entries[x])
      BY <1>1, TaggedTables DEF TAGEShape
    <3>2. CASE i \notin Replaced(g, b.pc)
      BY <2>5, <3>1, <3>2 DEF SameOwner
    <3>3. CASE i \in Replaced(g, b.pc) /\ x # e(i)
      <4>1. h.T[i].entries[x] = g.T[i].entries[x]
        BY <2>1, <2>5, <3>1, <3>3
      <4> QED  BY <3>1, <4>1 DEF SameOwner
    <3>4. CASE i \in Replaced(g, b.pc) /\ x = e(i)
      <4>1. /\ h.T[i].entries[x].tag = TagOf(g, i, b.pc)
            /\ TagOK(g, h.T[i].entries[x]) /\ x = getTagFromAddr(g.T[i], b.pc)
        BY <2>1, <2>5, <3>1, <3>4
      <4>2. i > g.provider /\ g.useful[i][x] = 0
        BY <3>4 DEF Replaced
      <4> QED  BY <1>3, <4>1, <4>2 DEF NewOwner
    <3> QED  BY <3>2, <3>3, <3>4
  <2>9. TAGEShape(h)
    <3>1. SameTables(g, h) /\ \A i \in DOMAIN g.T : TableShape(h.T[i])
      BY <2>5, <2>7 DEF SameTables, TableOK
    <3>2. h.rst_cnt \in 0 .. g.rst_period - 1
      BY <1>1, <2>5 DEF TAGEShape
    <3> QED  BY <1>1, <2>3, <2>4, <2>5, <2>6, <2>8, <3>1, <3>2, TAGEChanged
  <2>10. TAGEOK(h, t)
    BY <2>5, <2>7, <2>9 DEF TAGEOK
  <2>11. ReplacedIn(g, h, right, b)
    BY <2>5, <2>6, <2>7, <2>8 DEF ReplacedIn, SameTables
  <2> QED  BY <2>10, <2>11 DEF h
<1> QED  BY <1>2, <1>3

(***************************************************************************)
(* The training: every history follows, no entry changes its owner.        *)
(***************************************************************************)
TrainedTAGE(g, h, u) ==
  /\ TAGEOK(h, u) /\ SameStatics(g, h) /\ SameTables(g, h)
  /\ h.useful = g.useful /\ h.rst_cnt = g.rst_cnt
  /\ \A i \in Tagged(g) : \A e \in Indices(g.T[i]) : SameOwner(g, h, i, e)

(***************************************************************************)
(* What the training makes of a table.                                     *)
(***************************************************************************)
TrainedTable(g, i, b) ==
  IF i = g.provider THEN update(g.T[i], b.taken, b.pc, b.target)
  ELSE IF i = 0 THEN g.T[i]
  ELSE ShiftedGHR(g.T[i], b.taken)

FollowedTable(p, q, u) ==
  /\ TableOK(q, u) /\ SameMake(p, q)
  /\ \A e \in Indices(p) : q.entries[e].tag = p.entries[e].tag

(***************************************************************************)
(* It is a table with the longer history whose entries kept their tags.    *)
(***************************************************************************)
LEMMA TableTrained ==
  ASSUME NEW t, NEW u, NEW b, OneMore(t, u, b), NEW g, TAGEOK(g, t), NEW i \in DOMAIN g.T
  PROVE  FollowedTable(g.T[i], TrainedTable(g, i, b), u)
<1> DEFINE p == g.T[i]
           q == TrainedTable(g, i, b)
<1>1. TableOK(p, t) /\ TAGEShape(g)
  BY DEF TAGEOK
<1>2. CASE i = g.provider
  <2>1. q = update(p, b.taken, b.pc, b.target)
    BY <1>2 DEF TrainedTable
  <2> HIDE DEF p, q
  <2>2. UpdatedTable(p, q, u, b)
    BY <1>1, <2>1, UpdateFollows
  <2>3. TableShape(p) /\ b.taken \in BOOLEAN /\ b.target \in SUBSET Nat
    BY <1>1 DEF TableOK, OneMore, IsBranch
  <2>4. \A e \in Indices(p) : p.entries[e] \in Entries(p.scnt_width)
    BY <2>3 DEF TableShape
  <2>5. \A e \in Indices(p) : Trained(p, p.entries[e], b.taken, b.target).tag
                                = p.entries[e].tag
    BY <2>3, <2>4, TrainedEntry
  <2>6. FollowedTable(p, q, u)
    BY <2>2, <2>5 DEF UpdatedTable, FollowedTable
  <2> QED  BY <2>6 DEF p, q
<1>3. CASE i # g.provider /\ i = 0
  <2>1. q = p /\ p.class = "BHTPredictor"
    BY <1>1, <1>3 DEF TrainedTable, TAGEShape
  <2>2. p.ghr_width = 0
    BY <1>1, <2>1 DEF TableOK, TableShape
  <2>3. HistoryIn(u, 0, Len(u)) = {} /\ HistoryIn(t, 0, Len(t)) = {}
    BY DEF HistoryIn
  <2> HIDE DEF p, q
  <2>4. TableOK(q, u)
    BY <1>1, <2>1, <2>2, <2>3 DEF TableOK
  <2>5. FollowedTable(p, q, u)
    BY <2>1, <2>4 DEF FollowedTable, SameMake
  <2> QED  BY <2>5 DEF p, q
<1>4. CASE i # g.provider /\ i # 0
  <2>1. q = ShiftedGHR(p, b.taken)
    BY <1>4 DEF TrainedTable
  <2> HIDE DEF p, q
  <2>2. TableOK(q, u) /\ SameMake(p, q) /\ q.entries = p.entries
    BY <1>1, <2>1, ShiftedFollows
  <2>3. FollowedTable(p, q, u)
    BY <2>2 DEF FollowedTable
  <2> QED  BY <2>3 DEF p, q
<1> QED  BY <1>2, <1>3, <1>4

(***************************************************************************)
(* All tables.                                                             *)
(***************************************************************************)
LEMMA TrainingFollows ==
  ASSUME NEW t, NEW u, NEW b, OneMore(t, u, b), NEW g, TAGEOK(g, t)
  PROVE  TrainedTAGE(g, WithTraining(g, b.taken, b.pc, b.target), u)
<1> DEFINE h == WithTraining(g, b.taken, b.pc, b.target)
           q(i) == TrainedTable(g, i, b)
<1>1. TAGEShape(g)
  BY DEF TAGEOK
<1>2. h = [g EXCEPT !.T = [i \in DOMAIN g.T |-> q(i)]]
  BY DEF WithTraining, TrainedTable
<1> HIDE DEF q
<1>3. /\ DOMAIN h = DOMAIN g /\ h.class = g.class /\ h.tnum = g.tnum
      /\ h.tag_width = g.tag_width /\ h.rst_period = g.rst_period
      /\ h.useful = g.useful /\ h.rst_cnt = g.rst_cnt
      /\ DOMAIN h.T = DOMAIN g.T
      /\ \A i \in DOMAIN g.T : h.T[i] = q(i)
  BY <1>1, <1>2 DEF TAGEShape
<1> HIDE DEF h
<1>4. SameStatics(g, h)
  BY <1>3 DEF SameStatics
<1>5. \A i \in DOMAIN g.T : FollowedTable(g.T[i], h.T[i], u)
  BY <1>3, TableTrained DEF q
<1>6. SameTables(g, h) /\ \A i \in DOMAIN g.T : TableShape(h.T[i])
  BY <1>3, <1>5 DEF SameTables, FollowedTable, TableOK
<1>7. \A i \in Tagged(g) : i \in DOMAIN g.T
  BY <1>1, TaggedTables
<1>8. \A i \in Tagged(g) : \A e \in Indices(g.T[i]) : SameOwner(g, h, i, e)
  BY <1>5, <1>7 DEF FollowedTable, SameOwner
<1>9. \A i \in Tagged(g) : \A e \in Indices(g.T[i]) : TagOK(g, h.T[i].entries[e])
  BY <1>1, <1>8 DEF TAGEShape, SameOwner, TagOK
<1>10. /\ h.rst_cnt \in 0 .. g.rst_period - 1 /\ DOMAIN h.useful = Tagged(g)
       /\ \A i \in Tagged(g) : h.useful[i] \in [Indices(g.T[i]) -> 0 .. 2]
  BY <1>1, <1>3 DEF TAGEShape
<1>11. TAGEShape(h)
  BY <1>1, <1>4, <1>6, <1>9, <1>10, TAGEChanged
<1>12. TAGEOK(h, u)
  BY <1>3, <1>5, <1>11 DEF TAGEOK, FollowedTable
<1>13. TrainedTAGE(g, h, u)
  BY <1>3, <1>4, <1>6, <1>8, <1>12 DEF TrainedTAGE
<1> QED  BY <1>13 DEF h

-----------------------------------------------------------------------------
(***************************************************************************)
(* A branch: a TAGEPredictor g is asked and says taken or not, and is      *)
(* updated to h.                                                           *)
(***************************************************************************)
SaysTaken(g, b) == TAGEPredicted(g, b.pc).predict_provider # NOT_TAKEN

WasRight(g, b) == SaysTaken(g, b) <=> b.taken

TAGEStep(g, h, u, b) ==
  /\ TAGEOK(h, u) /\ SameStatics(g, h) /\ SameTables(g, h)
  /\ \A i \in Tagged(g) : \A e \in Indices(g.T[i]) :
       \/ SameOwner(g, h, i, e)
       \/ NewOwner(g, h, WasRight(g, b), b, i, e) /\ (h.rst_cnt # 0 => g.useful[i][e] = 0)

(***************************************************************************)
(* Vote, reset, replacement and training, one after the other.             *)
(***************************************************************************)
LEMMA TAGEFollows ==
  ASSUME NEW t, NEW u, NEW b, OneMore(t, u, b), NEW g, TAGEOK(g, t)
  PROVE  TAGEStep(g, TAGEUpdate(TAGEPredicted(g, b.pc), b.taken, b.pc, b.target), u, b)
<1> DEFINE a == TAGEPredicted(g, b.pc)
           right == WasRight(g, b)
           v == WithVote(a, right, b.pc)
           r == WithReset(v)
           w == WithReplacement(r, right, b.pc)
           h == WithTraining(w, b.taken, b.pc, b.target)
<1>1. right \in BOOLEAN /\ IsBranch(b)
  BY DEF OneMore, WasRight
<1>2. h = TAGEUpdate(a, b.taken, b.pc, b.target)
  BY DEF TAGEUpdate, WasRight, SaysTaken
<1>3. TAGEOK(a, t) /\ SameStatics(g, a) /\ a.T = g.T /\ a.useful = g.useful
  BY AskedKeeps
<1> HIDE DEF a, right
<1>4. /\ TAGEOK(v, t) /\ SameStatics(a, v) /\ v.T = a.T /\ v.provider = a.provider
      /\ \A i \in Tagged(a) : i # a.provider => v.useful[i] = a.useful[i]
  BY <1>1, <1>3, VoteKeeps
<1> HIDE DEF v
<1>5. /\ TAGEOK(r, t) /\ SameStatics(v, r) /\ r.T = v.T /\ r.provider = v.provider
      /\ r.rst_cnt # 0 => r.useful = v.useful
  BY <1>4, ResetKeeps
<1> HIDE DEF r
<1>6. TAGEOK(w, t) /\ ReplacedIn(r, w, right, b)
  BY <1>1, <1>5, ReplacementKeeps
<1> HIDE DEF w
<1>7. TrainedTAGE(w, h, u)
  BY <1>6, TrainingFollows
<1> HIDE DEF h
<1>8. /\ SameStatics(g, r) /\ r.T = g.T /\ Tagged(r) = Tagged(g) /\ Tagged(w) = Tagged(g)
      /\ Tagged(a) = Tagged(g) /\ SameStatics(g, h) /\ r.tag_width = g.tag_width
  BY <1>3, <1>4, <1>5, <1>6, <1>7 DEF SameStatics, Tagged, ReplacedIn, TrainedTAGE
<1>9. SameTables(g, w) /\ SameTables(g, h)
  BY <1>6, <1>7, <1>8 DEF SameTables, SameMake, ReplacedIn, TrainedTAGE
<1>10. TAGEShape(g)
  BY DEF TAGEOK
<1>11. ASSUME NEW i \in Tagged(g), NEW e \in Indices(g.T[i])
       PROVE  \/ SameOwner(g, h, i, e)
              \/ NewOwner(g, h, right, b, i, e) /\ (h.rst_cnt # 0 => g.useful[i][e] = 0)
  <2>1. i \in DOMAIN g.T /\ i \in Nat
    BY <1>10, TaggedTables
  <2>2. e \in Indices(w.T[i]) /\ e \in Indices(r.T[i])
    BY <1>8, <1>9, <2>1 DEF SameTables, SameMake, Indices
  <2>3. h.T[i].entries[e].tag = w.T[i].entries[e].tag
    BY <1>7, <1>8, <2>2 DEF TrainedTAGE, SameOwner
  <2>4. CASE SameOwner(r, w, i, e)
    BY <1>8, <2>3, <2>4 DEF SameOwner
  <2>5. CASE NewOwner(r, w, right, b, i, e) /\ i > r.provider /\ r.useful[i][e] = 0
    <3>1. TagOf(r, i, b.pc) = TagOf(g, i, b.pc)
      BY <1>8 DEF TagOf
    <3>2. NewOwner(g, h, right, b, i, e)
      BY <1>8, <2>3, <2>5, <3>1 DEF NewOwner
    <3>3. i # a.provider
      BY <1>4, <1>5, <2>1, <2>5
    <3>4. h.rst_cnt = r.rst_cnt
      BY <1>6, <1>7 DEF ReplacedIn, TrainedTAGE
    <3>5. v.useful[i] = g.useful[i]
      BY <1>3, <1>4, <1>8, <3>3
    <3> QED  BY <1>5, <2>5, <3>2, <3>4, <3>5
  <2> QED  BY <1>6, <1>8, <2>2, <2>4, <2>5 DEF ReplacedIn
<1>12. TAGEStep(g, h, u, b)
  <2>1. TAGEOK(h, u)
    BY <1>7 DEF TrainedTAGE
  <2> QED  BY <1>8, <1>9, <1>11, <2>1 DEF TAGEStep, right
<1> QED  BY <1>2, <1>12 DEF a

-----------------------------------------------------------------------------
(***************************************************************************)
(* The index a branch of the trace had, and the branches of an entry.      *)
(***************************************************************************)
AtHistory(p, hist, pc) == getTagFromAddr([p EXCEPT !.m_ghr = hist], pc)

IndexIn(t, p, k) == AtHistory(p, HistoryIn(t, p.ghr_width, k - 1), t[k].pc)

BranchesIn(t, p, e) == {k \in DOMAIN t : IndexIn(t, p, k) = e}

(***************************************************************************)
(* The index depends on what SameMake compares and on the history.         *)
(***************************************************************************)
LEMMA IndexOfMake ==
  ASSUME NEW p, NEW q, TableShape(p), SameMake(p, q), NEW hist, NEW pc
  PROVE  AtHistory(q, hist, pc) = AtHistory(p, hist, pc)
<1> DEFINE r == [p EXCEPT !.m_ghr = hist]
           s == [q EXCEPT !.m_ghr = hist]
<1>1. /\ r.class = p.class /\ r.entries_log = p.entries_log
      /\ r.hash_bits = p.hash_bits /\ r.m_ghr = hist
  BY DEF TableShape
<1>2. /\ s.class = q.class /\ s.entries_log = q.entries_log
      /\ s.hash_bits = q.hash_bits /\ s.m_ghr = hist
  BY DEF TableShape, SameMake
<1> HIDE DEF r, s
<1>3. /\ s.class = r.class /\ s.entries_log = r.entries_log
      /\ s.hash_bits = r.hash_bits /\ s.m_ghr = r.m_ghr
  BY <1>1, <1>2 DEF SameMake
<1>4. getTagFromAddr(s, pc) = getTagFromAddr(r, pc)
  BY <1>3 DEF getTagFromAddr, BHTIndex, HistoryIndex
<1> QED  BY <1>4 DEF r, s, AtHistory

(***************************************************************************)
(* The history at hand gives the index at hand.                            *)
(***************************************************************************)
LEMMA IndexAtHand ==
  ASSUME NEW p, TableShape(p), NEW hist, p.m_ghr = hist, NEW pc
  PROVE  AtHistory(p, hist, pc) = getTagFromAddr(p, pc)
<1> DEFINE r == [p EXCEPT !.m_ghr = hist]
<1>1. /\ r.class = p.class /\ r.entries_log = p.entries_log
      /\ r.hash_bits = p.hash_bits /\ r.m_ghr = p.m_ghr
  BY DEF TableShape
<1> HIDE DEF r
<1>2. getTagFromAddr(r, pc) = getTagFromAddr(p, pc)
  BY <1>1 DEF getTagFromAddr, BHTIndex, HistoryIndex
<1> QED  BY <1>2 DEF r, AtHistory

(***************************************************************************)
(* A branch more does not change the indices of the branches before, and   *)
(* has itself the index it is predicted with.                              *)
(***************************************************************************)
LEMMA IndicesKept ==
  ASSUME NEW t, NEW u, NEW b, OneMore(t, u, b), NEW p, TableOK(p, t),
         NEW q, SameMake(p, q)
  PROVE  /\ \A k \in 1 .. Len(t) : IndexIn(u, q, k) = IndexIn(t, p, k)
         /\ IndexIn(u, q, Len(t) + 1) = getTagFromAddr(p, b.pc)
<1> DEFINE n == Len(t)
<1>1. n \in Nat /\ TableShape(p) /\ p.ghr_width \in Nat /\ q.ghr_width = p.ghr_width
  BY DEF OneMore, TableOK, TableShape, SameMake
<1>2. \A hist, pc : AtHistory(q, hist, pc) = AtHistory(p, hist, pc)
  BY <1>1, IndexOfMake
<1>3. ASSUME NEW k \in 1 .. n
      PROVE  IndexIn(u, q, k) = IndexIn(t, p, k)
  <2>1. k - 1 \in 0 .. n /\ u[k] = t[k]
    BY <1>1 DEF OneMore
  <2> DEFINE hist == HistoryIn(t, p.ghr_width, k - 1)
  <2>2. HistoryIn(u, p.ghr_width, k - 1) = hist
    BY <1>1, <2>1, HistoryKept
  <2>3. IndexIn(u, q, k) = AtHistory(q, hist, t[k].pc)
    BY <1>1, <2>1, <2>2 DEF IndexIn
  <2>4. IndexIn(t, p, k) = AtHistory(p, hist, t[k].pc)
    BY DEF IndexIn
  <2> HIDE DEF hist
  <2> QED  BY <1>2, <2>3, <2>4
<1>4. IndexIn(u, q, n + 1) = getTagFromAddr(p, b.pc)
  <2> DEFINE hist == HistoryIn(t, p.ghr_width, n)
  <2>1. (n + 1) - 1 = n /\ n \in 0 .. n /\ u[n + 1] = b
    BY <1>1 DEF OneMore
  <2>2. HistoryIn(u, p.ghr_width, n) = hist
    BY <1>1, <2>1, HistoryKept
  <2>3. IndexIn(u, q, n + 1) = AtHistory(q, hist, b.pc)
    BY <1>1, <2>1, <2>2 DEF IndexIn
  <2>4. p.m_ghr = hist
    BY DEF TableOK
  <2> HIDE DEF hist
  <2>5. AtHistory(q, hist, b.pc) = AtHistory(p, hist, b.pc)
    BY <1>2
  <2> QED  BY <1>1, <2>3, <2>4, <2>5, IndexAtHand
<1> QED  BY <1>3, <1>4

(***************************************************************************)
(* The branches of an entry grow by this one, or stay.                     *)
(***************************************************************************)
LEMMA BranchesGrow ==
  ASSUME NEW t, NEW u, NEW b, OneMore(t, u, b), NEW p, TableOK(p, t),
         NEW q, SameMake(p, q), NEW e
  PROVE  /\ e = getTagFromAddr(p, b.pc)
              => BranchesIn(u, q, e) = BranchesIn(t, p, e) \cup {Len(t) + 1}
         /\ e # getTagFromAddr(p, b.pc)
              => BranchesIn(u, q, e) = BranchesIn(t, p, e)
<1> DEFINE n == Len(t)
<1>1. /\ n \in Nat /\ DOMAIN t = 1 .. n /\ DOMAIN u = 1 .. n + 1
  BY DEF OneMore
<1>2. /\ \A k \in 1 .. n : IndexIn(u, q, k) = IndexIn(t, p, k)
      /\ IndexIn(u, q, n + 1) = getTagFromAddr(p, b.pc)
  BY IndicesKept
<1> HIDE DEF n
<1>3. 1 .. n + 1 = (1 .. n) \cup {n + 1}
  BY <1>1
<1>4. /\ e = getTagFromAddr(p, b.pc)
           => BranchesIn(u, q, e) = BranchesIn(t, p, e) \cup {n + 1}
      /\ e # getTagFromAddr(p, b.pc)
           => BranchesIn(u, q, e) = BranchesIn(t, p, e)
  BY <1>1, <1>2, <1>3 DEF BranchesIn
<1> QED  BY <1>4 DEF n

(***************************************************************************)
(* The branches of an entry are branches of the trace, finitely many.      *)
(***************************************************************************)
LEMMA BranchesFinite ==
  ASSUME NEW t, Len(t) \in Nat, DOMAIN t = 1 .. Len(t), NEW p, NEW e
  PROVE  /\ BranchesIn(t, p, e) \subseteq 1 .. Len(t)
         /\ BranchesIn(t, p, e) \subseteq Nat
         /\ IsFiniteSet(BranchesIn(t, p, e))
<1>1. BranchesIn(t, p, e) \subseteq 1 .. Len(t)
  BY DEF BranchesIn
<1>2. IsFiniteSet(1 .. Len(t))
  BY FS_Interval
<1>3. IsFiniteSet(BranchesIn(t, p, e))
  BY <1>1, <1>2, FS_Subset
<1> QED  BY <1>1, <1>3

-----------------------------------------------------------------------------
(***************************************************************************)
(* A saturating counter c in 0 .. max that has moved once for every number *)
(* in ks, upwards for those in ups: what it tells of the last of them.     *)
(***************************************************************************)
UpsCounted(max, c, ks, ups) ==
  \A m \in 0 .. Cardinality(ks) : Latest(ks, m) \subseteq ups => c >= m \/ c = max

DownsCounted(max, c, ks, ups) ==
  \A m \in 0 .. Cardinality(ks) : Latest(ks, m) \cap ups = {} => c + m <= max \/ c = 0

(***************************************************************************)
(* One other move after max equal ones moves it away from the end by one.  *)
(***************************************************************************)
StandsUp(max, c, ks, ups) ==
  Cardinality(ks) > max /\ Latest(ks, max + 1) \ Latest(ks, 1) \subseteq ups
    => c >= max - 1

StandsDown(max, c, ks, ups) ==
  Cardinality(ks) > max /\ (Latest(ks, max + 1) \ Latest(ks, 1)) \cap ups = {}
    => c <= 1

CounterFollows(max, c, ks, ups) ==
  /\ UpsCounted(max, c, ks, ups) /\ DownsCounted(max, c, ks, ups)
  /\ StandsUp(max, c, ks, ups) /\ StandsDown(max, c, ks, ups)

Rises(max, c, d) == (c = max /\ d = c) \/ d = c + 1

Falls(c, d) == (c = 0 /\ d = c) \/ d = c - 1

(***************************************************************************)
(* The latest of a set to which a greater number is added.                 *)
(***************************************************************************)
LEMMA LatestGrows ==
  ASSUME NEW ks \in SUBSET Nat, IsFiniteSet(ks), NEW n \in Nat, \A k \in ks : k < n,
         NEW m \in Nat
  PROVE  /\ Latest(ks \cup {n}, m + 1) = Latest(ks, m) \cup {n}
         /\ Latest(ks, 0) = {} /\ Latest(ks \cup {n}, 0) = {}
         /\ Latest(ks, m) \subseteq ks
         /\ Cardinality(ks) \in Nat /\ n \notin ks
         /\ Cardinality(ks \cup {n}) = Cardinality(ks) + 1
<1> DEFINE after(k) == {j \in ks : j > k}
           now == ks \cup {n}
           afterNow(k) == {j \in now : j > k}
<1>1. n \notin ks
  OBVIOUS
<1>2. Cardinality(ks) \in Nat /\ Cardinality(now) = Cardinality(ks) + 1
      /\ IsFiniteSet(now)
  BY <1>1, FS_CardinalityType, FS_AddElement
<1>3. ASSUME NEW k \in ks
      PROVE  /\ Cardinality(after(k)) \in Nat
             /\ Cardinality(afterNow(k)) = Cardinality(after(k)) + 1
  <2>1. afterNow(k) = after(k) \cup {n} /\ n \notin after(k)
    BY <1>1
  <2>2. IsFiniteSet(after(k))
    BY FS_Subset
  <2> HIDE DEF after, afterNow
  <2> QED  BY <2>1, <2>2, FS_CardinalityType, FS_AddElement
<1>4. Cardinality(afterNow(n)) = 0
  <2>1. \A j \in now : ~(j > n)
    OBVIOUS
  <2>2. afterNow(n) = {}
    BY <2>1
  <2> HIDE DEF afterNow
  <2> QED  BY <2>2, FS_EmptySet
<1>5. ASSUME NEW k \in now
      PROVE  Cardinality(afterNow(k)) \in Nat
  <2>1. afterNow(k) \subseteq now
    OBVIOUS
  <2> HIDE DEF afterNow, now
  <2> QED  BY <1>2, <2>1, FS_Subset, FS_CardinalityType
<1>6. /\ Latest(ks, m) = {k \in ks : Cardinality(after(k)) < m}
      /\ Latest(ks, 0) = {k \in ks : Cardinality(after(k)) < 0}
      /\ Latest(now, m + 1) = {k \in now : Cardinality(afterNow(k)) < m + 1}
      /\ Latest(now, 0) = {k \in now : Cardinality(afterNow(k)) < 0}
  BY DEF Latest
<1> HIDE DEF after, afterNow
<1>7. Latest(now, m + 1) = Latest(ks, m) \cup {n}
  <2>1. \A k \in ks : Cardinality(afterNow(k)) < m + 1 <=> Cardinality(after(k)) < m
    BY <1>3
  <2>2. Cardinality(afterNow(n)) < m + 1
    BY <1>4
  <2> QED  BY <1>6, <2>1, <2>2
<1>8. Latest(ks, 0) = {} /\ Latest(now, 0) = {}
  <2>1. \A k \in ks : ~(Cardinality(after(k)) < 0)
    BY <1>3
  <2>2. \A k \in now : ~(Cardinality(afterNow(k)) < 0)
    BY <1>5
  <2> QED  BY <1>6, <2>1, <2>2
<1>9. Latest(ks, m) \subseteq ks
  BY DEF Latest
<1> QED  BY <1>1, <1>2, <1>7, <1>8, <1>9

(***************************************************************************)
(* A counter that has not moved follows nothing.                           *)
(***************************************************************************)
LEMMA CounterStarts ==
  ASSUME NEW max \in Nat, NEW c \in 0 .. max, NEW ups
  PROVE  CounterFollows(max, c, {}, ups)
<1>1. Cardinality({}) = 0
  BY FS_EmptySet
<1>2. 0 .. Cardinality({}) = {0}
  BY <1>1
<1>3. UpsCounted(max, c, {}, ups)
  BY <1>2 DEF UpsCounted
<1>4. DownsCounted(max, c, {}, ups)
  BY <1>2 DEF DownsCounted
<1>5. StandsUp(max, c, {}, ups) /\ StandsDown(max, c, {}, ups)
  BY <1>1 DEF StandsUp, StandsDown
<1> QED  BY <1>3, <1>4, <1>5 DEF CounterFollows

(***************************************************************************)
(* A further move.                                                         *)
(***************************************************************************)
LEMMA CounterMoves ==
  ASSUME NEW max \in Nat, NEW c \in 0 .. max, NEW d \in 0 .. max,
         NEW ks \in SUBSET Nat, IsFiniteSet(ks), NEW n \in Nat, \A k \in ks : k < n,
         NEW ups, NEW ups2, \A k \in ks : k \in ups2 <=> k \in ups,
         CounterFollows(max, c, ks, ups),
         n \in ups2 => Rises(max, c, d),
         n \notin ups2 => Falls(c, d)
  PROVE  CounterFollows(max, d, ks \cup {n}, ups2)
<1> DEFINE now == ks \cup {n}
           size == Cardinality(ks)
<1>1. size \in Nat /\ Cardinality(now) = size + 1 /\ n \notin ks
      /\ Latest(ks, 0) = {} /\ Latest(now, 0) = {}
  BY LatestGrows, 0 \in Nat
<1>2. \A m \in Nat : Latest(now, m + 1) = Latest(ks, m) \cup {n} /\ Latest(ks, m) \subseteq ks
  BY LatestGrows
<1> HIDE DEF now, size
<1>3. ASSUME NEW m \in Nat
      PROVE  /\ Latest(now, m + 1) \subseteq ups2 <=> Latest(ks, m) \subseteq ups /\ n \in ups2
             /\ Latest(now, m + 1) \cap ups2 = {} <=> Latest(ks, m) \cap ups = {} /\ n \notin ups2
  BY <1>2
<1>4. UpsCounted(max, c, ks, ups) /\ DownsCounted(max, c, ks, ups)
  BY DEF CounterFollows
<1>5. \A m \in 0 .. size : Latest(ks, m) \subseteq ups => c >= m \/ c = max
  BY <1>4 DEF UpsCounted, size
<1>6. \A m \in 0 .. size : Latest(ks, m) \cap ups = {} => c + m <= max \/ c = 0
  BY <1>4 DEF DownsCounted, size
<1>7. ASSUME NEW m \in 0 .. size + 1, m # 0
      PROVE  m - 1 \in 0 .. size /\ m - 1 \in Nat /\ m = (m - 1) + 1
  BY <1>1, <1>7
<1>8. UpsCounted(max, d, now, ups2)
  <2> SUFFICES ASSUME NEW m \in 0 .. size + 1, Latest(now, m) \subseteq ups2
               PROVE  d >= m \/ d = max
    BY <1>1 DEF UpsCounted
  <2>1. CASE m = 0
    BY <2>1
  <2>2. CASE m # 0
    <3>1. m - 1 \in 0 .. size /\ m - 1 \in Nat /\ m = (m - 1) + 1
      BY <1>7, <2>2
    <3>2. Latest(ks, m - 1) \subseteq ups /\ n \in ups2
      BY <1>3, <3>1
    <3>3. c >= m - 1 \/ c = max
      BY <1>5, <3>1, <3>2
    <3> QED  BY <3>1, <3>2, <3>3 DEF Rises
  <2> QED  BY <2>1, <2>2
<1>9. DownsCounted(max, d, now, ups2)
  <2> SUFFICES ASSUME NEW m \in 0 .. size + 1, Latest(now, m) \cap ups2 = {}
               PROVE  d + m <= max \/ d = 0
    BY <1>1 DEF DownsCounted
  <2>1. CASE m = 0
    BY <2>1
  <2>2. CASE m # 0
    <3>1. m - 1 \in 0 .. size /\ m - 1 \in Nat /\ m = (m - 1) + 1
      BY <1>7, <2>2
    <3>2. Latest(ks, m - 1) \cap ups = {} /\ n \notin ups2
      BY <1>3, <3>1
    <3>3. c + (m - 1) <= max \/ c = 0
      BY <1>6, <3>1, <3>2
    <3> QED  BY <3>1, <3>2, <3>3 DEF Falls
  <2> QED  BY <2>1, <2>2
<1>10. Latest(now, max + 1) \ Latest(now, 1) = Latest(ks, max)
  <2>1. Latest(now, max + 1) = Latest(ks, max) \cup {n} /\ Latest(ks, max) \subseteq ks
    BY <1>2
  <2>2. Latest(now, 0 + 1) = Latest(ks, 0) \cup {n}
    BY <1>2, 0 \in Nat
  <2>3. Latest(now, 1) = {n}
    BY <1>1, <2>2
  <2> QED  BY <1>1, <2>1, <2>3
<1>11. \A S : S \subseteq ks => /\ (S \subseteq ups2 <=> S \subseteq ups)
                                /\ (S \cap ups2 = {} <=> S \cap ups = {})
  OBVIOUS
<1>12. c - 1 <= d /\ d <= c + 1
  BY DEF Rises, Falls
<1>13. StandsUp(max, d, now, ups2)
  <2> SUFFICES ASSUME Cardinality(now) > max, Latest(ks, max) \subseteq ups2
               PROVE  d >= max - 1
    BY <1>10 DEF StandsUp
  <2>1. max \in 0 .. size
    BY <1>1
  <2>2. Latest(ks, max) \subseteq ups
    BY <1>2, <1>11
  <2>3. c >= max \/ c = max
    BY <1>5, <2>1, <2>2
  <2> QED  BY <1>12, <2>3
<1>14. StandsDown(max, d, now, ups2)
  <2> SUFFICES ASSUME Cardinality(now) > max, Latest(ks, max) \cap ups2 = {}
               PROVE  d <= 1
    BY <1>10 DEF StandsDown
  <2>1. max \in 0 .. size
    BY <1>1
  <2>2. Latest(ks, max) \cap ups = {}
    BY <1>2, <1>11
  <2>3. c + max <= max \/ c = 0
    BY <1>6, <2>1, <2>2
  <2> QED  BY <1>12, <2>3
<1>15. CounterFollows(max, d, now, ups2)
  BY <1>8, <1>9, <1>13, <1>14 DEF CounterFollows
<1> QED  BY <1>15 DEF now

(***************************************************************************)
(* What is counted matters only as far as it is in ks.                     *)
(***************************************************************************)
LEMMA CounterStays ==
  ASSUME NEW max, NEW c, NEW ks, NEW ups, NEW ups2,
         \A k \in ks : k \in ups2 <=> k \in ups,
         CounterFollows(max, c, ks, ups)
  PROVE  CounterFollows(max, c, ks, ups2)
<1>1. \A m : Latest(ks, m) \subseteq ks
  BY DEF Latest
<1>2. \A S : S \subseteq ks => /\ (S \subseteq ups2 <=> S \subseteq ups)
                               /\ (S \cap ups2 = {} <=> S \cap ups = {})
  OBVIOUS
<1>3. UpsCounted(max, c, ks, ups2) /\ DownsCounted(max, c, ks, ups2)
  BY <1>1, <1>2 DEF CounterFollows, UpsCounted, DownsCounted
<1>4. Latest(ks, max + 1) \ Latest(ks, 1) \subseteq ks
  BY <1>1
<1>5. StandsUp(max, c, ks, ups2) /\ StandsDown(max, c, ks, ups2)
  BY <1>2, <1>4 DEF CounterFollows, StandsUp, StandsDown
<1> QED  BY <1>3, <1>5 DEF CounterFollows

-----------------------------------------------------------------------------
(***************************************************************************)
(* What an entry has learnt from a trace: its counter from the outcomes of *)
(* its branches, its target from the last of them taken.                   *)
(***************************************************************************)
TakenIn(t) == {k \in DOMAIN t : t[k].taken}

CountLearnt(t, p, e) ==
  CounterFollows(2 ^ p.scnt_width - 1, p.entries[e].cnt, BranchesIn(t, p, e), TakenIn(t))

TargetLearnt(t, p, e) ==
  LET taken == BranchesIn(t, p, e) \cap TakenIn(t)
  IN  \/ taken = {} /\ p.entries[e].target = {}
      \/ \E k \in taken : (\A j \in taken : j <= k) /\ p.entries[e].target = t[k].target

TableLearnt(t, p) ==
  \A e \in Indices(p) : CountLearnt(t, p, e) /\ TargetLearnt(t, p, e)

(***************************************************************************)
(* A new table has learnt nothing.                                         *)
(***************************************************************************)
LEMMA NewTableLearnt ==
  ASSUME NEW p, IsNewTable(p)
  PROVE  TableOK(p, <<>>) /\ TableLearnt(<<>>, p)
<1>1. /\ TableShape(p) /\ p.m_ghr = {}
      /\ \A e \in Indices(p) : p.entries[e] = BHTEntry(p.scnt_width)
  BY NewTableShape
<1>2. HistoryIn(<<>>, p.ghr_width, Len(<<>>)) = {}
  <2>1. Len(<<>>) = 0 /\ p.ghr_width \in Nat
    BY <1>1 DEF TableShape
  <2>2. \A j \in 0 .. p.ghr_width - 1 : ~(j < 0)
    BY <2>1
  <2> QED  BY <2>1, <2>2 DEF HistoryIn
<1>3. TableOK(p, <<>>)
  BY <1>1, <1>2 DEF TableOK
<1>4. \A e : BranchesIn(<<>>, p, e) = {}
  BY DEF BranchesIn
<1>5. ASSUME NEW e \in Indices(p)
      PROVE  CountLearnt(<<>>, p, e) /\ TargetLearnt(<<>>, p, e)
  <2> DEFINE max == 2 ^ p.scnt_width - 1
             c == p.entries[e].cnt
  <2>1. p.scnt_width \in 1 .. 8 /\ c \in Counts(p.scnt_width)
    BY <1>1 DEF TableShape, Entries
  <2>2. max \in Nat /\ c \in 0 .. max
    <3>1. 2 ^ p.scnt_width \in 2 .. 256
      BY <2>1, RangeOfCounter
    <3>2. c \in 0 .. max
      BY <2>1 DEF Counts
    <3> QED  BY <3>1, <3>2
  <2> HIDE DEF max, c
  <2>3. CounterFollows(max, c, {}, TakenIn(<<>>))
    BY <2>2, CounterStarts
  <2>4. CountLearnt(<<>>, p, e)
    BY <1>4, <2>3 DEF CountLearnt, max, c
  <2>5. p.entries[e].target = {}
    BY <1>1 DEF BHTEntry
  <2>6. TargetLearnt(<<>>, p, e)
    BY <1>4, <2>5 DEF TargetLearnt
  <2> QED  BY <2>4, <2>6
<1> QED  BY <1>3, <1>5 DEF TableLearnt

(***************************************************************************)
(* An entry the branch does not fall on.                                   *)
(***************************************************************************)
LEMMA OtherEntryLearns ==
  ASSUME NEW t, NEW u, NEW b, OneMore(t, u, b), NEW p, TableOK(p, t),
         NEW q, SameMake(p, q), NEW e, e # getTagFromAddr(p, b.pc),
         CountLearnt(t, p, e), TargetLearnt(t, p, e),
         q.entries[e] = p.entries[e]
  PROVE  CountLearnt(u, q, e) /\ TargetLearnt(u, q, e)
<1> DEFINE ks == BranchesIn(t, p, e)
           max == 2 ^ p.scnt_width - 1
           c == p.entries[e].cnt
<1>1. /\ Len(t) \in Nat /\ DOMAIN t = 1 .. Len(t) /\ DOMAIN u = 1 .. Len(t) + 1
      /\ \A k \in 1 .. Len(t) : u[k] = t[k]
  BY DEF OneMore
<1>2. BranchesIn(u, q, e) = ks
  BY BranchesGrow
<1>3. ks \subseteq 1 .. Len(t)
  BY <1>1, BranchesFinite
<1> HIDE DEF ks
<1>4. \A k \in ks : /\ k \in TakenIn(u) <=> k \in TakenIn(t)
                    /\ u[k] = t[k]
  BY <1>1, <1>3 DEF TakenIn
<1>5. CounterFollows(max, c, ks, TakenIn(t))
  BY DEF CountLearnt, ks
<1>6. CountLearnt(u, q, e)
  <2> HIDE DEF max, c
  <2>1. CounterFollows(max, c, ks, TakenIn(u))
    BY <1>4, <1>5, CounterStays
  <2>2. max = 2 ^ q.scnt_width - 1 /\ c = q.entries[e].cnt
    BY DEF SameMake, max, c
  <2> QED  BY <1>2, <2>1, <2>2 DEF CountLearnt
<1>7. TargetLearnt(u, q, e)
  <2>1. BranchesIn(u, q, e) \cap TakenIn(u) = ks \cap TakenIn(t)
    BY <1>2, <1>4
  <2>2. \/ ks \cap TakenIn(t) = {} /\ p.entries[e].target = {}
        \/ \E k \in ks \cap TakenIn(t) :
             (\A j \in ks \cap TakenIn(t) : j <= k) /\ p.entries[e].target = t[k].target
    BY DEF TargetLearnt, ks
  <2> QED  BY <1>4, <2>1, <2>2 DEF TargetLearnt
<1> QED  BY <1>6, <1>7

(***************************************************************************)
(* The entry the branch falls on.                                          *)
(***************************************************************************)
LEMMA EntryOfBranchLearns ==
  ASSUME NEW t, NEW u, NEW b, OneMore(t, u, b), NEW p, TableOK(p, t),
         NEW q, SameMake(p, q), NEW e \in Indices(p), e = getTagFromAddr(p, b.pc),
         CountLearnt(t, p, e), TargetLearnt(t, p, e),
         q.entries[e] = Trained(p, p.entries[e], b.taken, b.target)
  PROVE  CountLearnt(u, q, e) /\ TargetLearnt(u, q, e)
<1> DEFINE ks == BranchesIn(t, p, e)
           w == p.scnt_width
           max == 2 ^ w - 1
           c == p.entries[e].cnt
           d == q.entries[e].cnt
           n == Len(t) + 1
<1>1. /\ Len(t) \in Nat /\ DOMAIN t = 1 .. Len(t) /\ DOMAIN u = 1 .. n
      /\ \A k \in 1 .. Len(t) : u[k] = t[k]
      /\ u[n] = b /\ b.taken \in BOOLEAN /\ b.target \in SUBSET Nat
  BY DEF OneMore, IsBranch
<1>2. BranchesIn(u, q, e) = ks \cup {n}
  BY BranchesGrow
<1>3. ks \subseteq 1 .. Len(t) /\ IsFiniteSet(ks)
  BY <1>1, BranchesFinite
<1> HIDE DEF ks
<1>4. ks \in SUBSET Nat /\ n \in Nat /\ \A k \in ks : k < n
  BY <1>1, <1>3
<1>5. /\ \A k \in ks : /\ k \in TakenIn(u) <=> k \in TakenIn(t)
                       /\ u[k] = t[k]
      /\ n \in TakenIn(u) <=> b.taken
  BY <1>1, <1>3 DEF TakenIn
<1>6. TableShape(p) /\ p.entries[e] \in Entries(w) /\ w \in 1 .. 8
  BY DEF TableOK, TableShape
<1>7. /\ q.entries[e] \in Entries(w)
      /\ b.taken => /\ d = increase(w, c)
                    /\ q.entries[e].target = b.target
      /\ ~b.taken => /\ d = decrease(w, c)
                     /\ q.entries[e].target = p.entries[e].target
  <2> DEFINE entry == p.entries[e]
             learnt == Trained(p, entry, b.taken, b.target)
  <2>1. q.entries[e] = learnt /\ entry \in Entries(p.scnt_width) /\ TableShape(p)
        /\ b.taken \in BOOLEAN /\ b.target \in SUBSET Nat
    BY <1>1, <1>6
  <2> HIDE DEF entry
  <2>2. /\ learnt \in Entries(p.scnt_width)
        /\ b.taken => /\ learnt.cnt = increase(p.scnt_width, entry.cnt)
                      /\ learnt.target = b.target
        /\ ~b.taken => /\ learnt.cnt = decrease(p.scnt_width, entry.cnt)
                       /\ learnt.target = entry.target
    BY <2>1, TrainedEntry
  <2> HIDE DEF learnt
  <2> QED  BY <2>1, <2>2 DEF entry
<1>8. CountLearnt(u, q, e)
  <2>1. c \in Counts(w) /\ d \in Counts(w)
    BY <1>6, <1>7 DEF Entries
  <2>2. max \in Nat /\ c \in 0 .. max /\ d \in 0 .. max
    <3>1. 2 ^ w \in 2 .. 256
      BY <1>6, RangeOfCounter
    <3> HIDE DEF w, c, d
    <3> QED  BY <2>1, <3>1 DEF Counts
  <2>3. CounterFollows(max, c, ks, TakenIn(t))
    BY DEF CountLearnt, ks
  <2> HIDE DEF c, d
  <2>4. b.taken => Rises(max, c, d)
    <3>1. (c = 2 ^ w - 1 /\ increase(w, c) = c) \/ increase(w, c) = c + 1
      BY <1>6, <2>1, CountersSaturate
    <3> QED  BY <1>7, <3>1 DEF Rises
  <2>5. ~b.taken => Falls(c, d)
    <3>1. (c = 0 /\ decrease(w, c) = c) \/ decrease(w, c) = c - 1
      BY <1>6, <2>1, CountersSaturate
    <3> QED  BY <1>7, <3>1 DEF Falls
  <2> HIDE DEF max, n
  <2>6. CounterFollows(max, d, ks \cup {n}, TakenIn(u))
    BY <1>3, <1>4, <1>5, <2>2, <2>3, <2>4, <2>5, CounterMoves
  <2>7. max = 2 ^ q.scnt_width - 1
    BY DEF SameMake, max
  <2> QED  BY <1>2, <2>6, <2>7 DEF CountLearnt, d
<1>9. TargetLearnt(u, q, e)
  <2> DEFINE old == ks \cap TakenIn(t)
             new == BranchesIn(u, q, e) \cap TakenIn(u)
  <2>1. \/ old = {} /\ p.entries[e].target = {}
        \/ \E k \in old : (\A j \in old : j <= k) /\ p.entries[e].target = t[k].target
    BY DEF TargetLearnt, ks
  <2>2. CASE b.taken
    <3>1. n \in new
      BY <1>2, <1>5, <2>2
    <3>2. \A j \in new : j <= n
      <4>1. \A j \in new : j \in ks \/ j = n
        BY <1>2
      <4> HIDE DEF new, n
      <4>2. \A j \in ks \cup {n} : j <= n
        BY <1>4
      <4> QED  BY <4>1, <4>2
    <3>3. q.entries[e].target = u[n].target
      BY <1>1, <1>7, <2>2
    <3> HIDE DEF n
    <3> QED  BY <3>1, <3>2, <3>3 DEF TargetLearnt
  <2>3. CASE ~b.taken
    <3>1. new = old /\ q.entries[e].target = p.entries[e].target
      BY <1>2, <1>5, <1>7, <2>3
    <3>2. \A k \in old : u[k].target = t[k].target
      BY <1>5
    <3> HIDE DEF old
    <3> QED  BY <2>1, <3>1, <3>2 DEF TargetLearnt
  <2> QED  BY <1>1, <2>2, <2>3
<1> QED  BY <1>8, <1>9

(***************************************************************************)
(* A table after an update.                                                *)
(***************************************************************************)
LEMMA UpdateLearns ==
  ASSUME NEW t, NEW u, NEW b, OneMore(t, u, b), NEW p, TableOK(p, t), TableLearnt(t, p),
         NEW q, UpdatedTable(p, q, u, b)
  PROVE  TableLearnt(u, q)
<1>1. SameMake(p, q) /\ Indices(q) = Indices(p)
  BY DEF UpdatedTable, SameMake, Indices
<1>2. ASSUME NEW e \in Indices(p)
      PROVE  CountLearnt(u, q, e) /\ TargetLearnt(u, q, e)
  <2>1. CountLearnt(t, p, e) /\ TargetLearnt(t, p, e)
    BY DEF TableLearnt
  <2>2. CASE e = getTagFromAddr(p, b.pc)
    <3>1. q.entries[e] = Trained(p, p.entries[e], b.taken, b.target)
      BY <2>2 DEF UpdatedTable
    <3> QED  BY <1>1, <2>1, <2>2, <3>1, EntryOfBranchLearns
  <2>3. CASE e # getTagFromAddr(p, b.pc)
    <3>1. q.entries[e] = p.entries[e]
      BY <2>3 DEF UpdatedTable
    <3> QED  BY <1>1, <2>1, <2>3, <3>1, OtherEntryLearns
  <2> QED  BY <2>2, <2>3
<1> QED  BY <1>1, <1>2 DEF TableLearnt

-----------------------------------------------------------------------------
(***************************************************************************)
(* Tournaments: two tables, which both learn every branch, and a counter   *)
(* that moves when one of them alone was right.                            *)
(***************************************************************************)
TournamentShape(g) ==
  /\ DOMAIN g = {"class", "BPs", "gshr", "predict_addr"}
  /\ g.class = "TournamentPredictor" /\ g.predict_addr \in BOOLEAN
  /\ g.gshr \in 0 .. 3 /\ DOMAIN g.BPs = 0 .. 1

TournamentOK(g, t) ==
  /\ TournamentShape(g)
  /\ \A i \in 0 .. 1 : TableOK(g.BPs[i], t) /\ TableLearnt(t, g.BPs[i])

Right(g, i, b) == Correct(g, i, b.taken, b.pc, b.target)

TournamentStep(g, h, u, b) ==
  /\ TournamentOK(h, u) /\ h.predict_addr = g.predict_addr
  /\ ~Right(g, 0, b) /\ Right(g, 1, b) => Rises(3, g.gshr, h.gshr)
  /\ Right(g, 0, b) /\ ~Right(g, 1, b) => Falls(g.gshr, h.gshr)
  /\ (Right(g, 0, b) <=> Right(g, 1, b)) => h.gshr = g.gshr

(***************************************************************************)
(* The select-history register moves to the one that was right alone.      *)
(***************************************************************************)
LEMMA SelectHistoryMoves ==
  ASSUME NEW g, g.gshr \in 0 .. 3, NEW first \in BOOLEAN, NEW second \in BOOLEAN
  PROVE  /\ SelectHistory(g, first, second) \in 0 .. 3
         /\ ~first /\ second => Rises(3, g.gshr, SelectHistory(g, first, second))
         /\ first /\ ~second => Falls(g.gshr, SelectHistory(g, first, second))
         /\ (first <=> second) => SelectHistory(g, first, second) = g.gshr
<1> DEFINE c == g.gshr
           up == increase(gshr_width, c)
           down == decrease(gshr_width, c)
           s == SelectHistory(g, first, second)
<1>1. gshr_width \in 1 .. 8 /\ gshr_width = 2 /\ 2 ^ gshr_width = 4
  BY PowersOfTwo DEF gshr_width
<1>2. c \in Counts(gshr_width) /\ Counts(gshr_width) = 0 .. 3
  BY <1>1 DEF Counts
<1>3. /\ s = up \/ s = down \/ s = c
      /\ ~first /\ second => s = up
      /\ first /\ ~second => s = down
      /\ (first <=> second) => s = c
  BY DEF SelectHistory
<1> HIDE DEF c, up, down, s
<1>4. /\ up \in Counts(gshr_width) /\ down \in Counts(gshr_width)
      /\ (c = 3 /\ up = c) \/ up = c + 1
      /\ (c = 0 /\ down = c) \/ down = c - 1
  <2>1. /\ increase(gshr_width, c) \in Counts(gshr_width)
        /\ decrease(gshr_width, c) \in Counts(gshr_width)
        /\ (c = 2 ^ gshr_width - 1 /\ increase(gshr_width, c) = c)
             \/ increase(gshr_width, c) = c + 1
        /\ (c = 0 /\ decrease(gshr_width, c) = c) \/ decrease(gshr_width, c) = c - 1
    BY <1>1, <1>2, CountersSaturate
  <2> QED  BY <1>1, <2>1 DEF up, down
<1>5. /\ s \in 0 .. 3
      /\ ~first /\ second => Rises(3, c, s)
      /\ first /\ ~second => Falls(c, s)
      /\ (first <=> second) => s = c
  BY <1>2, <1>3, <1>4 DEF Rises, Falls
<1> QED  BY <1>5 DEF s, c

(***************************************************************************)
(* A tournament's update.                                                  *)
(***************************************************************************)
LEMMA TournamentFollows ==
  ASSUME NEW t, NEW u, NEW b, OneMore(t, u, b), NEW g, TournamentOK(g, t)
  PROVE  TournamentStep(g, TournamentUpdate(g, b.taken, b.pc, b.target), u, b)
<1> DEFINE h == TournamentUpdate(g, b.taken, b.pc, b.target)
           first == Right(g, 0, b)
           second == Right(g, 1, b)
           c == SelectHistory(g, first, second)
           q(i) == update(g.BPs[i], b.taken, b.pc, b.target)
<1>1. TournamentShape(g)
  BY DEF TournamentOK
<1>2. first \in BOOLEAN /\ second \in BOOLEAN
  BY DEF Right, Correct, DirectionCorrect
<1>3. h = [g EXCEPT !.gshr = c, !.BPs = [i \in 0 .. 1 |-> q(i)]]
  BY DEF TournamentUpdate, Right
<1> HIDE DEF first, second, c, q
<1>4. /\ DOMAIN h = DOMAIN g /\ h.class = g.class /\ h.predict_addr = g.predict_addr
      /\ h.gshr = c /\ DOMAIN h.BPs = 0 .. 1
      /\ \A i \in 0 .. 1 : h.BPs[i] = q(i)
  BY <1>1, <1>3 DEF TournamentShape
<1> HIDE DEF h
<1>5. g.gshr \in 0 .. 3
  BY <1>1 DEF TournamentShape
<1>6. /\ c \in 0 .. 3
      /\ ~first /\ second => Rises(3, g.gshr, c)
      /\ first /\ ~second => Falls(g.gshr, c)
      /\ (first <=> second) => c = g.gshr
  BY <1>2, <1>5, SelectHistoryMoves DEF c
<1>7. TournamentShape(h)
  BY <1>1, <1>4, <1>6 DEF TournamentShape
<1>8. ASSUME NEW i \in 0 .. 1
      PROVE  TableOK(h.BPs[i], u) /\ TableLearnt(u, h.BPs[i])
  <2>1. TableOK(g.BPs[i], t) /\ TableLearnt(t, g.BPs[i])
    BY DEF TournamentOK
  <2>2. UpdatedTable(g.BPs[i], q(i), u, b)
    BY <2>1, UpdateFollows DEF q
  <2>3. TableLearnt(u, q(i))
    BY <2>1, <2>2, UpdateLearns
  <2>4. TableOK(q(i), u)
    BY <2>2 DEF UpdatedTable
  <2> QED  BY <1>4, <2>3, <2>4
<1>9. TournamentOK(h, u)
  BY <1>7, <1>8 DEF TournamentOK
<1>10. TournamentStep(g, h, u, b)
  BY <1>4, <1>6, <1>9 DEF TournamentStep, first, second
<1> QED  BY <1>10 DEF h

-----------------------------------------------------------------------------
(***************************************************************************)
(* A predictor of any class and the trace it was shown.                    *)
(***************************************************************************)
PredictorOK(P, t) ==
  \/ P.class \in SimplePredictors /\ TableOK(P, t) /\ TableLearnt(t, P)
  \/ P.class = "TournamentPredictor" /\ TournamentOK(P, t)
  \/ P.class = "TAGEPredictor" /\ TAGEOK(P, t)

(***************************************************************************)
(* A branch: what predictBranch makes of a predictor.                      *)
(***************************************************************************)
Predicts(P, b) == Updated(Asked(P, b.pc), b.taken, b.pc, b.target)

PredictorStep(P, Q, u, b) ==
  /\ Q.class = P.class /\ PredictorOK(Q, u)
  /\ P.class \in SimplePredictors => UpdatedTable(P, Q, u, b)
  /\ P.class = "TournamentPredictor" => TournamentStep(P, Q, u, b)
  /\ P.class = "TAGEPredictor" => TAGEStep(P, Q, u, b)

(***************************************************************************)
(* Of a predictor of any class.                                            *)
(***************************************************************************)
LEMMA PredictorFollows ==
  ASSUME NEW t, NEW u, NEW b, OneMore(t, u, b), NEW P, PredictorOK(P, t)
  PROVE  PredictorStep(P, Predicts(P, b), u, b)
<1> DEFINE Q == Predicts(P, b)
<1>1. CASE P.class \in SimplePredictors
  <2>1. TableOK(P, t) /\ TableLearnt(t, P)
    BY <1>1 DEF PredictorOK, SimplePredictors
  <2>2. Q = update(P, b.taken, b.pc, b.target)
    BY <1>1 DEF Predicts, Asked, Updated, SimplePredictors
  <2> HIDE DEF Q
  <2>3. UpdatedTable(P, Q, u, b)
    BY <2>1, <2>2, UpdateFollows
  <2>4. TableLearnt(u, Q)
    BY <2>1, <2>3, UpdateLearns
  <2>5. TableOK(Q, u) /\ Q.class = P.class
    BY <2>3 DEF UpdatedTable, SameMake
  <2>6. PredictorStep(P, Q, u, b)
    BY <1>1, <2>3, <2>4, <2>5 DEF PredictorStep, PredictorOK, SimplePredictors
  <2> QED  BY <2>6 DEF Q
<1>2. CASE P.class = "TournamentPredictor"
  <2>1. TournamentOK(P, t)
    BY <1>2 DEF PredictorOK, SimplePredictors
  <2>2. Q = TournamentUpdate(P, b.taken, b.pc, b.target)
    BY <1>2 DEF Predicts, Asked, Updated, SimplePredictors
  <2> HIDE DEF Q
  <2>3. TournamentStep(P, Q, u, b)
    BY <2>1, <2>2, TournamentFollows
  <2>4. TournamentOK(Q, u) /\ Q.class = P.class
    BY <1>2, <2>3 DEF TournamentStep, TournamentOK, TournamentShape
  <2>5. PredictorStep(P, Q, u, b)
    BY <1>2, <2>3, <2>4 DEF PredictorStep, PredictorOK, SimplePredictors
  <2> QED  BY <2>5 DEF Q
<1>3. CASE P.class = "TAGEPredictor"
  <2>1. TAGEOK(P, t)
    BY <1>3 DEF PredictorOK, SimplePredictors
  <2>2. TAGEPredicted(P, b.pc).class = "TAGEPredictor"
    <3>1. TAGEOK(TAGEPredicted(P, b.pc), t)
      BY <2>1, AskedKeeps
    <3> QED  BY <3>1 DEF TAGEOK, TAGEShape
  <2>3. Q = TAGEUpdate(TAGEPredicted(P, b.pc), b.taken, b.pc, b.target)
    BY <1>3, <2>2 DEF Predicts, Asked, Updated, SimplePredictors
  <2> HIDE DEF Q
  <2>4. TAGEStep(P, Q, u, b)
    BY <2>1, <2>3, TAGEFollows
  <2>5. TAGEOK(Q, u) /\ Q.class = P.class
    BY <1>3, <2>4 DEF TAGEStep, SameStatics
  <2>6. PredictorStep(P, Q, u, b)
    BY <1>3, <2>4, <2>5 DEF PredictorStep, PredictorOK, SimplePredictors
  <2> QED  BY <2>6 DEF Q
<1> QED  BY <1>1, <1>2, <1>3 DEF PredictorOK

-----------------------------------------------------------------------------
(***************************************************************************)
(* The owners of TAGE's entries in the trace.                              *)
(***************************************************************************)
Missed(t, i) == {k \in DOMAIN t : ~DirectionCorrect(t[k].answers[i][1], t[k].taken)}

TagAt(t, g, p, k) ==
  truncate(Xor(t[k].pc, HistoryIn(t, p.ghr_width, k - 1)), g.tag_width)

OwnerFound(t, i, g, p, e) ==
  \/ p.entries[e].tag = {}
  \/ \E k \in BranchesIn(t, p, e) \cap Missed(t, i) : p.entries[e].tag = TagAt(t, g, p, k)

OwnersFound(t, i, g) ==
  \A j \in Tagged(g) : \A e \in Indices(g.T[j]) : OwnerFound(t, i, g, g.T[j], e)

(***************************************************************************)
(* Those of before are found again, and the new ones are the last branch.  *)
(***************************************************************************)
LEMMA OwnersStayFound ==
  ASSUME NEW t, NEW u, NEW b, OneMore(t, u, b), NEW g, TAGEOK(g, t), NEW h,
         TAGEStep(g, h, u, b), NEW i, OwnersFound(t, i, g),
         b.answers[i][1] # NOT_TAKEN <=> SaysTaken(g, b)
  PROVE  OwnersFound(u, i, h)
<1>1. /\ Len(t) \in Nat /\ DOMAIN t = 1 .. Len(t) /\ DOMAIN u = 1 .. Len(t) + 1
      /\ \A k \in 1 .. Len(t) : u[k] = t[k]
      /\ u[Len(t) + 1] = b
  BY DEF OneMore
<1>2. /\ SameStatics(g, h) /\ SameTables(g, h) /\ TAGEShape(g)
      /\ Tagged(h) = Tagged(g) /\ h.tag_width = g.tag_width
  BY DEF TAGEStep, TAGEOK, SameStatics, Tagged
<1>3. ASSUME NEW j \in Tagged(g), NEW e \in Indices(g.T[j])
      PROVE  OwnerFound(u, i, h, h.T[j], e)
  <2> DEFINE p == g.T[j]
             q == h.T[j]
             n == Len(t) + 1
  <2>1. TableOK(p, t) /\ SameMake(p, q) /\ p.class # "BHTPredictor"
    BY <1>2, TaggedTables DEF TAGEOK, SameTables
  <2>2. OwnerFound(t, i, g, p, e)
    BY DEF OwnersFound
  <2>3. /\ SameOwner(g, h, j, e)
           \/ NewOwner(g, h, WasRight(g, b), b, j, e)
    BY DEF TAGEStep
  <2>4. CASE SameOwner(g, h, j, e)
    <3>1. q.entries[e].tag = p.entries[e].tag
      BY <2>4 DEF SameOwner
    <3> HIDE DEF p, q
    <3>2. CASE p.entries[e].tag = {}
      BY <3>1, <3>2 DEF OwnerFound, q
    <3>3. CASE p.entries[e].tag # {}
      <4>1. PICK k \in BranchesIn(t, p, e) \cap Missed(t, i) :
              p.entries[e].tag = TagAt(t, g, p, k)
        BY <2>2, <3>3 DEF OwnerFound
      <4>2. k \in 1 .. Len(t) /\ k - 1 \in 0 .. Len(t)
        BY <1>1 DEF BranchesIn
      <4>3. k \in BranchesIn(u, q, e)
        BY <2>1, BranchesGrow
      <4>4. k \in Missed(u, i)
        BY <1>1, <4>2 DEF Missed
      <4>5. p.ghr_width \in Nat /\ q.ghr_width = p.ghr_width
        BY <2>1 DEF TableOK, TableShape, SameMake
      <4>6. HistoryIn(u, p.ghr_width, k - 1) = HistoryIn(t, p.ghr_width, k - 1)
        BY <4>2, <4>5, HistoryKept
      <4>7. TagAt(u, h, q, k) = TagAt(t, g, p, k)
        BY <1>1, <1>2, <4>2, <4>5, <4>6 DEF TagAt
      <4>8. k \in BranchesIn(u, q, e) \cap Missed(u, i)
            /\ q.entries[e].tag = TagAt(u, h, q, k)
        BY <3>1, <4>1, <4>3, <4>4, <4>7
      <4>9. OwnerFound(u, i, h, q, e)
        BY <4>8 DEF OwnerFound
      <4> QED  BY <4>9 DEF q
    <3> QED  BY <3>2, <3>3
  <2>5. CASE NewOwner(g, h, WasRight(g, b), b, j, e)
    <3>1. /\ ~WasRight(g, b) /\ e = getTagFromAddr(p, b.pc)
          /\ q.entries[e].tag = TagOf(g, j, b.pc)
      BY <2>5 DEF NewOwner
    <3>2. TagOf(g, j, b.pc) = truncate(Xor(b.pc, p.m_ghr), g.tag_width)
      BY DEF TagOf, hash_xor
    <3> HIDE DEF p, q
    <3>3. n \in BranchesIn(u, q, e)
      BY <2>1, <3>1, BranchesGrow
    <3>4. n \in Missed(u, i)
      BY <1>1, <3>1 DEF Missed, WasRight, DirectionCorrect
    <3>5. p.ghr_width \in Nat /\ q.ghr_width = p.ghr_width
          /\ p.m_ghr = HistoryIn(t, p.ghr_width, Len(t))
      BY <2>1 DEF TableOK, TableShape, SameMake
    <3>6. HistoryIn(u, p.ghr_width, Len(t)) = HistoryIn(t, p.ghr_width, Len(t))
      <4>1. Len(t) \in 0 .. Len(t)
        BY <1>1
      <4> QED  BY <3>5, <4>1, HistoryKept
    <3>7. n - 1 = Len(t) /\ u[n] = b
      BY <1>1
    <3>8. TagAt(u, h, q, n) = TagOf(g, j, b.pc)
      BY <1>2, <3>2, <3>5, <3>6, <3>7 DEF TagAt
    <3> HIDE DEF n
    <3>9. OwnerFound(u, i, h, q, e)
      BY <3>1, <3>3, <3>4, <3>8 DEF OwnerFound
    <3> QED  BY <3>9 DEF q
  <2> QED  BY <2>3, <2>4, <2>5
<1>4. \A j \in Tagged(g) : Indices(h.T[j]) = Indices(g.T[j])
  BY <1>2, TaggedTables DEF SameTables, SameMake, Indices
<1> QED  BY <1>2, <1>3, <1>4 DEF OwnersFound

-----------------------------------------------------------------------------
(***************************************************************************)
(* The votes of a tournament of directions in the trace.                   *)
(***************************************************************************)
SaidRight(t, i, s, k) == DirectionCorrect(t[k].answers[i][s + 1], t[k].taken)

SaidAlone(t, i, s) == {k \in DOMAIN t : SaidRight(t, i, s, k) /\ ~SaidRight(t, i, 1 - s, k)}

Votes(t, i) == SaidAlone(t, i, 0) \cup SaidAlone(t, i, 1)

ChooserFollows(t, i, g) == CounterFollows(3, g.gshr, Votes(t, i), SaidAlone(t, i, 1))

(***************************************************************************)
(* The select-history register has counted them.                           *)
(***************************************************************************)
LEMMA ChooserStaysTrue ==
  ASSUME NEW t, NEW u, NEW b, OneMore(t, u, b),
         NEW g, ~g.predict_addr, g.gshr \in 0 .. 3, NEW h, h.gshr \in 0 .. 3,
         TournamentStep(g, h, u, b), NEW i, ChooserFollows(t, i, g),
         \A s \in 0 .. 1 : b.answers[i][s + 1] = predict(g.BPs[s], b.pc)
  PROVE  ChooserFollows(u, i, h)
<1> DEFINE n == Len(t) + 1
<1>1. /\ Len(t) \in Nat /\ DOMAIN t = 1 .. Len(t) /\ DOMAIN u = 1 .. n
      /\ \A k \in 1 .. Len(t) : u[k] = t[k]
      /\ u[n] = b
  BY DEF OneMore
<1>2. 0 \in 0 .. 1 /\ 1 \in 0 .. 1 /\ 1 - 0 = 1 /\ 1 - 1 = 0
  OBVIOUS
<1>3. \A s \in 0 .. 1 : SaidRight(u, i, s, n) <=> Right(g, s, b)
  BY <1>1 DEF SaidRight, Right, Correct
<1>4. \A s \in 0 .. 1 : \A k \in 1 .. Len(t) : SaidRight(u, i, s, k) <=> SaidRight(t, i, s, k)
  BY <1>1 DEF SaidRight
<1>5. /\ \A k \in 1 .. Len(t) : k \in SaidAlone(u, i, 0) <=> k \in SaidAlone(t, i, 0)
      /\ \A k \in 1 .. Len(t) : k \in SaidAlone(u, i, 1) <=> k \in SaidAlone(t, i, 1)
      /\ n \in SaidAlone(u, i, 0) <=> Right(g, 0, b) /\ ~Right(g, 1, b)
      /\ n \in SaidAlone(u, i, 1) <=> Right(g, 1, b) /\ ~Right(g, 0, b)
  <2>1. /\ \A k \in 1 .. Len(t) : k \in DOMAIN u /\ k \in DOMAIN t
        /\ n \in DOMAIN u
    BY <1>1
  <2> HIDE DEF n
  <2> QED  BY <1>2, <1>3, <1>4, <2>1 DEF SaidAlone
<1> DEFINE ks == Votes(t, i)
           ups == SaidAlone(t, i, 1)
           ups2 == SaidAlone(u, i, 1)
<1>6. ks \subseteq 1 .. Len(t) /\ SaidAlone(u, i, 0) \subseteq 1 .. n /\ ups2 \subseteq 1 .. n
  BY <1>1 DEF Votes, SaidAlone
<1>7. IsFiniteSet(ks)
  <2>1. Len(t) \in Int /\ 1 \in Int
    BY <1>1
  <2>2. IsFiniteSet(1 .. Len(t))
    BY <2>1, FS_Interval
  <2> HIDE DEF ks
  <2> QED  BY <1>6, <2>2, FS_Subset
<1>8. CounterFollows(3, g.gshr, ks, ups)
  BY DEF ChooserFollows
<1>9. \A k \in ks : k \in ups2 <=> k \in ups
  BY <1>5, <1>6
<1>10. 1 .. n = (1 .. Len(t)) \cup {n}
  BY <1>1
<1>11. CASE Right(g, 0, b) <=> Right(g, 1, b)
  <2>1. h.gshr = g.gshr
    BY <1>11 DEF TournamentStep
  <2>2. n \notin SaidAlone(u, i, 0) /\ n \notin ups2
    BY <1>5, <1>11
  <2> HIDE DEF n
  <2>3. Votes(u, i) = ks
    BY <1>5, <1>6, <1>10, <2>2 DEF Votes
  <2> HIDE DEF ks, ups, ups2
  <2>4. CounterFollows(3, g.gshr, ks, ups2)
    BY <1>8, <1>9, CounterStays
  <2> QED  BY <2>1, <2>3, <2>4 DEF ChooserFollows, ups2
<1>12. CASE ~(Right(g, 0, b) <=> Right(g, 1, b))
  <2>1. /\ n \in ups2 => Rises(3, g.gshr, h.gshr)
        /\ n \notin ups2 => Falls(g.gshr, h.gshr)
    BY <1>5, <1>12 DEF TournamentStep
  <2>2. n \in SaidAlone(u, i, 0) \/ n \in ups2
    BY <1>5, <1>12
  <2>3. n \in Nat /\ ks \in SUBSET Nat /\ \A k \in ks : k < n
    BY <1>1, <1>6
  <2> HIDE DEF n
  <2>4. Votes(u, i) = ks \cup {n}
    BY <1>5, <1>6, <1>10, <2>2 DEF Votes
  <2> HIDE DEF ks, ups, ups2
  <2>5. 3 \in Nat
    OBVIOUS
  <2>6. CounterFollows(3, h.gshr, ks \cup {n}, ups2)
    BY <1>7, <1>8, <1>9, <2>1, <2>3, <2>5, CounterMoves
  <2> QED  BY <2>4, <2>6 DEF ChooserFollows, ups2
<1> QED  BY <1>11, <1>12

-----------------------------------------------------------------------------
(***************************************************************************)
(* The results. What the counters of a predictor have added up to.         *)
(***************************************************************************)
Results ==
  [takenPcCorrect : Nat, takenPcIncorrect : Nat, takenCorrect : Nat,
   takenIncorrect : Nat, notTakenCorrect : Nat, notTakenIncorrect : Nat]

CountsTaken(r) == r.takenCorrect + r.notTakenIncorrect
CountsNotTaken(r) == r.takenIncorrect + r.notTakenCorrect
CountsTargets(r) == r.takenPcCorrect + r.takenPcIncorrect

(***************************************************************************)
(* A prediction is counted once, by the outcome, and its target if it has  *)
(* one and the branch is taken.                                            *)
(***************************************************************************)
LEMMA CountedOnce ==
  ASSUME NEW r \in Results, NEW prediction, NEW taken \in BOOLEAN, NEW target
  PROVE  LET s == Counted(r, prediction, taken, target)
             withTarget == prediction \notin {NOT_TAKEN, TAKEN} /\ taken
         IN  /\ s \in Results
             /\ taken => /\ CountsTaken(s) = CountsTaken(r) + 1
                         /\ CountsNotTaken(s) = CountsNotTaken(r)
             /\ ~taken => /\ CountsTaken(s) = CountsTaken(r)
                          /\ CountsNotTaken(s) = CountsNotTaken(r) + 1
             /\ withTarget => CountsTargets(s) = CountsTargets(r) + 1
             /\ ~withTarget => CountsTargets(s) = CountsTargets(r)
<1> DEFINE s == Counted(r, prediction, taken, target)
           hit == prediction # NOT_TAKEN /\ taken
           a == One(hit)
           b == One(hit /\ prediction # TAKEN /\ prediction = target)
           c == One(hit /\ prediction # TAKEN /\ prediction # target)
           d == One(prediction # NOT_TAKEN /\ ~taken)
           e == One(prediction = NOT_TAKEN /\ taken)
           f == One(prediction = NOT_TAKEN /\ ~taken)
<1>1. /\ a \in Nat /\ b \in Nat /\ c \in Nat /\ d \in Nat /\ e \in Nat /\ f \in Nat
      /\ taken => a + e = 1 /\ d + f = 0
      /\ ~taken => a + e = 0 /\ d + f = 1
      /\ prediction \notin {NOT_TAKEN, TAKEN} /\ taken => b + c = 1
      /\ ~(prediction \notin {NOT_TAKEN, TAKEN} /\ taken) => b + c = 0
  BY DEF One
<1>2. s = [r EXCEPT !.takenCorrect = r.takenCorrect + a,
                    !.takenPcCorrect = r.takenPcCorrect + b,
                    !.takenPcIncorrect = r.takenPcIncorrect + c,
                    !.takenIncorrect = r.takenIncorrect + d,
                    !.notTakenIncorrect = r.notTakenIncorrect + e,
                    !.notTakenCorrect = r.notTakenCorrect + f]
  BY DEF Counted, Results
<1> HIDE DEF s, a, b, c, d, e, f
<1>3. /\ s.takenCorrect = r.takenCorrect + a
      /\ s.takenPcCorrect = r.takenPcCorrect + b
      /\ s.takenPcIncorrect = r.takenPcIncorrect + c
      /\ s.takenIncorrect = r.takenIncorrect + d
      /\ s.notTakenIncorrect = r.notTakenIncorrect + e
      /\ s.notTakenCorrect = r.notTakenCorrect + f
      /\ DOMAIN s = DOMAIN r
  BY <1>2 DEF Results
<1>4. s \in Results
  <2>1. s = [takenPcCorrect |-> s.takenPcCorrect, takenPcIncorrect |-> s.takenPcIncorrect,
             takenCorrect |-> s.takenCorrect, takenIncorrect |-> s.takenIncorrect,
             notTakenCorrect |-> s.notTakenCorrect,
             notTakenIncorrect |-> s.notTakenIncorrect]
    BY <1>2 DEF Results
  <2>2. /\ r.takenCorrect \in Nat /\ r.takenPcCorrect \in Nat /\ r.takenPcIncorrect \in Nat
        /\ r.takenIncorrect \in Nat /\ r.notTakenIncorrect \in Nat
        /\ r.notTakenCorrect \in Nat
    BY DEF Results
  <2>3. /\ s.takenCorrect \in Nat /\ s.takenPcCorrect \in Nat /\ s.takenPcIncorrect \in Nat
        /\ s.takenIncorrect \in Nat /\ s.notTakenIncorrect \in Nat
        /\ s.notTakenCorrect \in Nat
    BY <1>1, <1>3, <2>2
  <2> QED  BY <2>1, <2>3 DEF Results
<1>5. /\ r.takenCorrect \in Nat /\ r.takenPcCorrect \in Nat /\ r.takenPcIncorrect \in Nat
      /\ r.takenIncorrect \in Nat /\ r.notTakenIncorrect \in Nat
      /\ r.notTakenCorrect \in Nat
  BY DEF Results
<1>6. /\ CountsTaken(s) = CountsTaken(r) + (a + e)
      /\ CountsNotTaken(s) = CountsNotTaken(r) + (d + f)
      /\ CountsTargets(s) = CountsTargets(r) + (b + c)
  <2>1. /\ a \in Nat /\ b \in Nat /\ c \in Nat /\ d \in Nat /\ e \in Nat /\ f \in Nat
    BY <1>1
  <2>2. CountsTaken(s) = CountsTaken(r) + (a + e)
    BY <1>3, <1>5, <2>1 DEF CountsTaken
  <2>3. CountsNotTaken(s) = CountsNotTaken(r) + (d + f)
    BY <1>3, <1>5, <2>1 DEF CountsNotTaken
  <2>4. CountsTargets(s) = CountsTargets(r) + (b + c)
    BY <1>3, <1>5, <2>1 DEF CountsTargets
  <2> QED  BY <2>2, <2>3, <2>4
<1>7. CountsTaken(r) \in Nat /\ CountsNotTaken(r) \in Nat /\ CountsTargets(r) \in Nat
  BY <1>5 DEF CountsTaken, CountsNotTaken, CountsTargets
<1> QED  BY <1>1, <1>4, <1>6, <1>7 DEF s

-----------------------------------------------------------------------------
(***************************************************************************)
(* The branches taken for which a BHTPredictor had a target to predict.    *)
(***************************************************************************)
Had(t, p, k) == \E j \in TakenIn(t) : j < k /\ IndexIn(t, p, j) = IndexIn(t, p, k)

WithTarget(t, i, p) ==
  {k \in TakenIn(t) : t[k].answers[i][1] # NOT_TAKEN /\ Had(t, p, k)}

(***************************************************************************)
(* It predicts a target for those.                                         *)
(***************************************************************************)
LEMMA PredictsTarget ==
  ASSUME NEW t, NEW u, NEW b, OneMore(t, u, b), NEW p, TableOK(p, t), TableLearnt(t, p)
  PROVE  predict(p, b.pc) \notin {NOT_TAKEN, TAKEN}
           <=> /\ p.predict_address /\ predict(p, b.pc) # NOT_TAKEN
               /\ \E j \in TakenIn(t) : IndexIn(t, p, j) = getTagFromAddr(p, b.pc)
<1> DEFINE e == getTagFromAddr(p, b.pc)
           target == p.entries[e].target
           taken == BranchesIn(t, p, e) \cap TakenIn(t)
<1>1. IsBranch(b) /\ DOMAIN t = 1 .. Len(t) /\ \A k \in 1 .. Len(t) : IsBranch(t[k])
  BY DEF OneMore
<1>2. e \in Indices(p)
  BY <1>1, IndexOfBranch
<1> HIDE DEF e
<1>3. \/ taken = {} /\ target = {}
      \/ \E k \in taken : (\A j \in taken : j <= k) /\ target = t[k].target
  BY <1>2 DEF TableLearnt, TargetLearnt
<1>4. target # {} <=> \E j \in TakenIn(t) : IndexIn(t, p, j) = e
  <2>1. \A k \in taken : t[k].target # {}
    BY <1>1 DEF TakenIn, IsBranch, NOT_TAKEN
  <2>2. taken # {} <=> \E j \in TakenIn(t) : IndexIn(t, p, j) = e
    BY DEF BranchesIn, TakenIn
  <2> HIDE DEF taken, target
  <2> QED  BY <1>3, <2>1, <2>2
<1>5. target # TAKEN
  <2>1. \A k \in taken : t[k].target # TAKEN
    BY <1>1 DEF TakenIn, IsBranch
  <2>2. {} # TAKEN
    BY DEF TAKEN
  <2> HIDE DEF taken, target
  <2> QED  BY <1>3, <2>1, <2>2
<1>6. \/ predict(p, b.pc) = NOT_TAKEN
      \/ predict(p, b.pc) = target /\ p.predict_address /\ target # {}
      \/ predict(p, b.pc) = TAKEN /\ ~(p.predict_address /\ target # {})
  BY DEF predict, getEntryFromAddr, e
<1> HIDE DEF target
<1> QED  BY <1>4, <1>5, <1>6 DEF NOT_TAKEN, e

(***************************************************************************)
(* The branches taken: one more, or as many as before.                     *)
(***************************************************************************)
LEMMA TakenGrow ==
  ASSUME NEW t, NEW u, NEW b, OneMore(t, u, b)
  PROVE  /\ b.taken => TakenIn(u) = TakenIn(t) \cup {Len(t) + 1}
         /\ ~b.taken => TakenIn(u) = TakenIn(t)
         /\ TakenIn(t) \subseteq 1 .. Len(t) /\ Len(t) + 1 \notin 1 .. Len(t)
         /\ IsFiniteSet(TakenIn(t))
<1> DEFINE n == Len(t) + 1
<1>1. /\ Len(t) \in Nat /\ DOMAIN t = 1 .. Len(t) /\ DOMAIN u = 1 .. n
      /\ \A k \in 1 .. Len(t) : u[k] = t[k]
      /\ u[n] = b
  BY DEF OneMore
<1>2. 1 .. n = (1 .. Len(t)) \cup {n} /\ n \notin 1 .. Len(t)
  BY <1>1
<1>3. TakenIn(t) \subseteq 1 .. Len(t)
  BY <1>1 DEF TakenIn
<1>4. IsFiniteSet(TakenIn(t))
  <2>1. Len(t) \in Int /\ 1 \in Int
    BY <1>1
  <2>2. IsFiniteSet(1 .. Len(t))
    BY <2>1, FS_Interval
  <2> QED  BY <1>3, <2>2, FS_Subset
<1> HIDE DEF n
<1>5. b.taken => TakenIn(u) = TakenIn(t) \cup {n}
  BY <1>1, <1>2 DEF TakenIn
<1>6. ~b.taken => TakenIn(u) = TakenIn(t)
  BY <1>1, <1>2 DEF TakenIn
<1> QED  BY <1>2, <1>3, <1>4, <1>5, <1>6 DEF n

(***************************************************************************)
(* Those with a target to predict: one more if this one has.               *)
(***************************************************************************)
LEMMA WithTargetGrows ==
  ASSUME NEW t, NEW u, NEW b, OneMore(t, u, b), NEW p, TableOK(p, t), TableLearnt(t, p),
         NEW q, SameMake(p, q), NEW i, b.answers[i][1] = predict(p, b.pc),
         p.predict_address
  PROVE  LET one == predict(p, b.pc) \notin {NOT_TAKEN, TAKEN} /\ b.taken
         IN  /\ one => WithTarget(u, i, q) = WithTarget(t, i, p) \cup {Len(t) + 1}
             /\ ~one => WithTarget(u, i, q) = WithTarget(t, i, p)
<1> DEFINE n == Len(t) + 1
           one == predict(p, b.pc) \notin {NOT_TAKEN, TAKEN} /\ b.taken
<1>1. /\ Len(t) \in Nat /\ DOMAIN t = 1 .. Len(t) /\ DOMAIN u = 1 .. n
      /\ \A k \in 1 .. Len(t) : u[k] = t[k]
      /\ u[n] = b
  BY DEF OneMore
<1>2. /\ b.taken => TakenIn(u) = TakenIn(t) \cup {n}
      /\ ~b.taken => TakenIn(u) = TakenIn(t)
      /\ TakenIn(t) \subseteq 1 .. Len(t) /\ n \notin 1 .. Len(t)
  BY TakenGrow
<1>3. /\ \A k \in 1 .. Len(t) : IndexIn(u, q, k) = IndexIn(t, p, k)
      /\ IndexIn(u, q, n) = getTagFromAddr(p, b.pc)
  BY IndicesKept
<1>4. /\ \A k \in 1 .. Len(t) : ~(n < k)
      /\ \A k \in 1 .. Len(t) : k < n
  BY <1>1
<1>5. predict(p, b.pc) \notin {NOT_TAKEN, TAKEN}
        <=> /\ predict(p, b.pc) # NOT_TAKEN
            /\ \E j \in TakenIn(t) : IndexIn(t, p, j) = getTagFromAddr(p, b.pc)
  BY PredictsTarget
<1> HIDE DEF n
<1>6. ASSUME NEW k \in 1 .. Len(t)
      PROVE  Had(u, q, k) <=> Had(t, p, k)
  BY <1>2, <1>3, <1>4 DEF Had
<1>7. n \in TakenIn(u) => (Had(u, q, n)
        <=> \E j \in TakenIn(t) : IndexIn(t, p, j) = getTagFromAddr(p, b.pc))
  <2>1. \A j \in TakenIn(t) : j < n /\ IndexIn(u, q, j) = IndexIn(t, p, j)
    BY <1>2, <1>3, <1>4
  <2>2. \A j \in TakenIn(u) : j = n \/ j \in TakenIn(t)
    BY <1>2
  <2>3. \A j \in TakenIn(t) : j \in TakenIn(u)
    BY <1>2
  <2>4. ~(n < n)
    BY <1>1 DEF n
  <2> QED  BY <1>3, <2>1, <2>2, <2>3, <2>4 DEF Had
<1>8. \A k \in 1 .. Len(t) : k \in WithTarget(u, i, q) <=> k \in WithTarget(t, i, p)
  BY <1>1, <1>2, <1>6 DEF WithTarget
<1>9. n \in WithTarget(u, i, q) <=> one
  BY <1>1, <1>2, <1>5, <1>7 DEF WithTarget
<1>10. /\ WithTarget(t, i, p) \subseteq 1 .. Len(t)
       /\ WithTarget(u, i, q) \subseteq (1 .. Len(t)) \cup {n}
  BY <1>2 DEF WithTarget
<1> HIDE DEF one
<1>11. /\ one => WithTarget(u, i, q) = WithTarget(t, i, p) \cup {n}
       /\ ~one => WithTarget(u, i, q) = WithTarget(t, i, p)
  BY <1>2, <1>8, <1>9, <1>10
<1> QED  BY <1>11 DEF one, n

-----------------------------------------------------------------------------
(***************************************************************************)
(* A set of numbers that is not empty has a least.                         *)
(***************************************************************************)
LEMMA LeastNumber ==
  ASSUME NEW T \in SUBSET Nat, T # {}
  PROVE  \E n \in T : \A m \in T : n <= m
<1>1. PICK n \in T : \A m \in T : <<m, n>> \notin OpToRel(<, Nat)
  BY NatLessThanWellFounded, WFMin
<1>2. \A m \in T : ~(m < n)
  BY <1>1 DEF OpToRel
<1> QED  BY <1>2

(***************************************************************************)
(* Fini. The ranking on the way through the results rs, as a function f of *)
(* how many were ranked.                                                   *)
(***************************************************************************)
PrecisionIn(rs, i) == IF i = 0 THEN 0 ELSE rs[i].takenCorrect + rs[i].notTakenCorrect

Better(rs, f, i) ==
  IF i = 0 THEN 0
  ELSE IF PrecisionIn(rs, i) > PrecisionIn(rs, f[i - 1]) THEN i ELSE f[i - 1]

Ranks(rs, n, f) == f = [i \in 0 .. n |-> Better(rs, f, i)]

(***************************************************************************)
(* The function is defined: it is continued from one number to the next.   *)
(***************************************************************************)
LEMMA RanksContinued ==
  ASSUME NEW rs, NEW n \in Nat, NEW f, Ranks(rs, n, f)
  PROVE  \E g : Ranks(rs, n + 1, g)
<1> DEFINE last == IF PrecisionIn(rs, n + 1) > PrecisionIn(rs, f[n]) THEN n + 1 ELSE f[n]
           g == [i \in 0 .. n + 1 |-> IF i = n + 1 THEN last ELSE f[i]]
<1>1. \A i \in 0 .. n : g[i] = f[i] /\ f[i] = Better(rs, f, i)
  BY DEF Ranks
<1>2. g[n + 1] = last
  OBVIOUS
<1>3. DOMAIN g = 0 .. n + 1 /\ g = [i \in DOMAIN g |-> g[i]]
  OBVIOUS
<1> HIDE DEF g
<1>4. ASSUME NEW i \in 0 .. n + 1
      PROVE  g[i] = Better(rs, g, i)
  <2>1. CASE i = 0
    BY <1>1, <2>1 DEF Better
  <2>2. CASE i \in 1 .. n
    <3>1. i \in 0 .. n /\ i - 1 \in 0 .. n
      BY <2>2
    <3>2. g[i] = Better(rs, f, i) /\ g[i - 1] = f[i - 1]
      BY <1>1, <3>1
    <3> QED  BY <3>2 DEF Better
  <2>3. CASE i = n + 1
    <3>1. i - 1 = n /\ i # 0 /\ n \in 0 .. n
      BY <2>3
    <3>2. g[i - 1] = f[n]
      BY <1>1, <3>1
    <3> QED  BY <1>2, <2>3, <3>1, <3>2 DEF Better
  <2> QED  BY <2>1, <2>2, <2>3
<1>5. [i \in DOMAIN g |-> g[i]] = [i \in 0 .. n + 1 |-> Better(rs, g, i)]
  BY <1>3, <1>4
<1> QED  BY <1>3, <1>5 DEF Ranks

(***************************************************************************)
(* So it is for any list of results.                                       *)
(***************************************************************************)
LEMMA RanksExist ==
  ASSUME NEW rs, NEW n \in Nat
  PROVE  \E f : Ranks(rs, n, f)
<1> DEFINE Ranked(m) == \E f : Ranks(rs, m, f)
           T == {m \in Nat : ~Ranked(m)}
<1>1. Ranked(0)
  <2> DEFINE f == [i \in {0} |-> 0]
  <2>1. f = [i \in 0 .. 0 |-> Better(rs, f, i)]
    BY DEF Better
  <2> QED  BY <2>1 DEF Ranks
<1>2. \A m \in Nat : Ranked(m) => Ranked(m + 1)
  BY RanksContinued
<1> HIDE DEF Ranked
<1>3. T = {}
  <2> SUFFICES ASSUME T # {} PROVE FALSE
    OBVIOUS
  <2>1. PICK m \in T : \A x \in T : m <= x
    <3>1. T \in SUBSET Nat
      OBVIOUS
    <3> HIDE DEF T
    <3> QED  BY <3>1, LeastNumber
  <2>2. m # 0 /\ m \in Nat
    BY <1>1, <2>1
  <2>3. m - 1 \in Nat /\ m - 1 \notin T /\ m = (m - 1) + 1
    BY <2>1, <2>2
  <2>4. Ranked((m - 1) + 1)
    BY <1>2, <2>3
  <2> QED  BY <2>1, <2>3, <2>4
<1>4. Ranked(n)
  BY <1>3
<1> QED  BY <1>4 DEF Ranked

(***************************************************************************)
(* The best of the first n, the first of the equally good; 0 if all were   *)
(* wrong always.                                                           *)
(***************************************************************************)
BestOf(rs, n, x) ==
  /\ x \in 0 .. n
  /\ \A i \in 1 .. n : PrecisionIn(rs, i) <= PrecisionIn(rs, x)
  /\ \A i \in 1 .. x - 1 : PrecisionIn(rs, i) < PrecisionIn(rs, x)

(***************************************************************************)
(* The next one is better or not.                                          *)
(***************************************************************************)
LEMMA NextRanked ==
  ASSUME NEW rs, NEW n \in Nat, NEW f, f[n + 1] = Better(rs, f, n + 1),
         BestOf(rs, n, f[n]), \A i \in 0 .. n + 1 : PrecisionIn(rs, i) \in Nat
  PROVE  BestOf(rs, n + 1, f[n + 1])
<1> DEFINE P(i) == PrecisionIn(rs, i)
           x == f[n]
           y == f[n + 1]
<1>1. (n + 1) - 1 = n /\ n + 1 # 0 /\ n + 1 \in 0 .. n + 1
  OBVIOUS
<1>2. y = IF P(n + 1) > P(x) THEN n + 1 ELSE x
  BY <1>1 DEF Better
<1>3. /\ x \in 0 .. n
      /\ \A i \in 1 .. n : P(i) <= P(x)
      /\ \A i \in 1 .. x - 1 : P(i) < P(x)
  BY DEF BestOf
<1>4. \A i \in 0 .. n + 1 : P(i) \in Nat
  OBVIOUS
<1> HIDE DEF P, x, y
<1>5. \A i \in 1 .. n + 1 : i \in 1 .. n \/ i = n + 1
  OBVIOUS
<1>6. \A i \in 1 .. n : i \in 0 .. n + 1
  OBVIOUS
<1>7. P(x) \in Nat /\ P(n + 1) \in Nat /\ x \in 0 .. n + 1
  BY <1>1, <1>3, <1>4
<1>8. CASE P(n + 1) > P(x)
  <2>1. y = n + 1 /\ y - 1 = n
    BY <1>1, <1>2, <1>8
  <2>2. \A i \in 1 .. n : P(i) < P(n + 1)
    <3> TAKE i \in 1 .. n
    <3>1. P(i) \in Nat /\ P(i) <= P(x)
      BY <1>3, <1>4, <1>6
    <3> QED  BY <1>7, <1>8, <3>1
  <2>3. \A i \in 1 .. n + 1 : P(i) <= P(n + 1)
    <3> TAKE i \in 1 .. n + 1
    <3>1. P(i) \in Nat
      BY <1>4
    <3> QED  BY <1>5, <1>7, <2>2, <3>1
  <2>4. BestOf(rs, n + 1, y)
    BY <1>1, <2>1, <2>2, <2>3 DEF BestOf, P
  <2> QED  BY <2>4 DEF y
<1>9. CASE ~(P(n + 1) > P(x))
  <2>1. y = x
    BY <1>2, <1>9
  <2>2. \A i \in 1 .. n + 1 : P(i) <= P(x)
    BY <1>3, <1>5, <1>7, <1>9
  <2>3. BestOf(rs, n + 1, y)
    BY <1>3, <1>7, <2>1, <2>2 DEF BestOf, P
  <2> QED  BY <2>3 DEF y
<1> QED  BY <1>8, <1>9

(***************************************************************************)
(* So the last of the ranking is the best of all.                          *)
(***************************************************************************)
LEMMA LastRankedIsBest ==
  ASSUME NEW rs, NEW n \in Nat, NEW f, Ranks(rs, n, f),
         \A i \in 1 .. n : PrecisionIn(rs, i) \in Nat
  PROVE  BestOf(rs, n, f[n])
<1> DEFINE Ranked(m) == BestOf(rs, m, f[m])
           T == {m \in 0 .. n : ~Ranked(m)}
<1>1. \A i \in 0 .. n : f[i] = Better(rs, f, i)
  BY DEF Ranks
<1>2. \A i \in 0 .. n : PrecisionIn(rs, i) \in Nat
  BY DEF PrecisionIn
<1>3. Ranked(0)
  <2>1. f[0] = 0
    BY <1>1 DEF Better
  <2>2. BestOf(rs, 0, 0)
    BY DEF BestOf
  <2> QED  BY <2>1, <2>2
<1>4. ASSUME NEW m \in 0 .. n - 1, Ranked(m)
      PROVE  Ranked(m + 1)
  <2>1. m \in Nat /\ m + 1 \in 0 .. n
    BY <1>4
  <2>2. \A i \in 0 .. m + 1 : i \in 0 .. n
    BY <2>1
  <2>3. f[m + 1] = Better(rs, f, m + 1)
    BY <1>1, <2>1
  <2>4. \A i \in 0 .. m + 1 : PrecisionIn(rs, i) \in Nat
    BY <1>2, <2>2
  <2> QED  BY <1>4, <2>1, <2>3, <2>4, NextRanked
<1> HIDE DEF Ranked
<1>5. T = {}
  <2> SUFFICES ASSUME T # {} PROVE FALSE
    OBVIOUS
  <2>1. PICK m \in T : \A x \in T : m <= x
    <3>1. T \in SUBSET Nat
      OBVIOUS
    <3> HIDE DEF T
    <3> QED  BY <3>1, LeastNumber
  <2>2. m # 0 /\ m \in 0 .. n
    BY <1>3, <2>1
  <2>3. m - 1 \in 0 .. n - 1 /\ m - 1 \in 0 .. n /\ m - 1 \notin T /\ m = (m - 1) + 1
    BY <2>1, <2>2
  <2>4. Ranked((m - 1) + 1)
    BY <1>4, <2>3
  <2> QED  BY <2>1, <2>3, <2>4
<1>6. Ranked(n)
  <2>1. n \in 0 .. n
    OBVIOUS
  <2> QED  BY <1>5, <2>1
<1> QED  BY <1>6 DEF Ranked

(***************************************************************************)
(* What Fini names is the best of the results.                             *)
(***************************************************************************)
LEMMA FiniIsBest ==
  ASSUME Len(results) \in Nat,
         \A i \in 1 .. Len(results) : PrecisionIn(results, i) \in Nat
  PROVE  BestOf(results, Len(results), Fini)
<1> DEFINE n == Len(results)
           rank_best == CHOOSE f : Ranks(results, n, f)
<1>1. Ranks(results, n, rank_best)
  BY RanksExist
<1>2. Fini = rank_best[n]
  BY DEF Fini, Ranks, Better, PrecisionIn, Precision
<1> HIDE DEF rank_best
<1> QED  BY <1>1, <1>2, LastRankedIsBest

-----------------------------------------------------------------------------
(***************************************************************************)
(* The results of a predictor and the trace.                               *)
(***************************************************************************)
ResultsOK(t, i, P, r) ==
  /\ r \in Results
  /\ CountsTaken(r) = Cardinality(TakenIn(t))
  /\ CountsNotTaken(r) = Cardinality((DOMAIN t) \ TakenIn(t))
  /\ CountsTaken(r) + CountsNotTaken(r) = Len(t)
  /\ P.class = "BHTPredictor" =>
       CountsTargets(r) = IF P.predict_address THEN Cardinality(WithTarget(t, i, P)) ELSE 0

(***************************************************************************)
(* The branches not taken: one more, or as many as before.                 *)
(***************************************************************************)
LEMMA TakenCounted ==
  ASSUME NEW t, NEW u, NEW b, OneMore(t, u, b)
  PROVE  /\ Cardinality(TakenIn(t)) \in Nat /\ Cardinality((DOMAIN t) \ TakenIn(t)) \in Nat
         /\ b.taken =>
              /\ Cardinality(TakenIn(u)) = Cardinality(TakenIn(t)) + 1
              /\ Cardinality((DOMAIN u) \ TakenIn(u)) = Cardinality((DOMAIN t) \ TakenIn(t))
         /\ ~b.taken =>
              /\ Cardinality(TakenIn(u)) = Cardinality(TakenIn(t))
              /\ Cardinality((DOMAIN u) \ TakenIn(u))
                   = Cardinality((DOMAIN t) \ TakenIn(t)) + 1
<1> DEFINE n == Len(t) + 1
           N == 1 .. Len(t)
           A == TakenIn(t)
           B == N \ A
<1>1. Len(t) \in Nat /\ DOMAIN t = N /\ DOMAIN u = 1 .. n
  BY DEF OneMore
<1>2. 1 .. n = N \cup {n}
  BY <1>1
<1>3. /\ b.taken => TakenIn(u) = A \cup {n}
      /\ ~b.taken => TakenIn(u) = A
      /\ A \subseteq N /\ n \notin N /\ IsFiniteSet(A)
  BY TakenGrow
<1>4. IsFiniteSet(B)
  <2>1. Len(t) \in Int /\ 1 \in Int
    BY <1>1
  <2>2. IsFiniteSet(N)
    BY <2>1, FS_Interval
  <2>3. B \subseteq N
    OBVIOUS
  <2> HIDE DEF N, B
  <2> QED  BY <2>2, <2>3, FS_Subset
<1> HIDE DEF n, N, A
<1>5. n \notin A /\ n \notin B
  BY <1>3
<1>6. /\ b.taken => (DOMAIN u) \ TakenIn(u) = B
      /\ ~b.taken => (DOMAIN u) \ TakenIn(u) = B \cup {n}
  BY <1>1, <1>2, <1>3
<1>7. (DOMAIN t) \ TakenIn(t) = B
  BY <1>1 DEF A
<1> HIDE DEF B
<1>8. /\ Cardinality(A) \in Nat /\ Cardinality(B) \in Nat
      /\ Cardinality(A \cup {n}) = Cardinality(A) + 1
      /\ Cardinality(B \cup {n}) = Cardinality(B) + 1
  BY <1>3, <1>4, <1>5, FS_CardinalityType, FS_AddElement
<1> QED  BY <1>3, <1>6, <1>7, <1>8 DEF A

(***************************************************************************)
(* The results after a branch.                                             *)
(***************************************************************************)
LEMMA ResultsFollow ==
  ASSUME NEW t, NEW u, NEW b, OneMore(t, u, b), NEW P, PredictorOK(P, t),
         NEW Q, PredictorStep(P, Q, u, b), NEW i, NEW r, ResultsOK(t, i, P, r),
         NEW x, P.class = "BHTPredictor" => x = predict(P, b.pc) /\ b.answers[i][1] = x
  PROVE  ResultsOK(u, i, Q, Counted(r, x, b.taken, b.target))
<1> DEFINE s == Counted(r, x, b.taken, b.target)
           one == x \notin {NOT_TAKEN, TAKEN} /\ b.taken
           a == Cardinality(TakenIn(t))
           c == Cardinality((DOMAIN t) \ TakenIn(t))
<1>1. r \in Results /\ b.taken \in BOOLEAN /\ one \in BOOLEAN
  BY DEF ResultsOK, OneMore, IsBranch
<1>2. /\ s \in Results
      /\ b.taken => /\ CountsTaken(s) = CountsTaken(r) + 1
                    /\ CountsNotTaken(s) = CountsNotTaken(r)
      /\ ~b.taken => /\ CountsTaken(s) = CountsTaken(r)
                     /\ CountsNotTaken(s) = CountsNotTaken(r) + 1
      /\ one => CountsTargets(s) = CountsTargets(r) + 1
      /\ ~one => CountsTargets(s) = CountsTargets(r)
  BY <1>1, CountedOnce
<1>3. /\ a \in Nat /\ c \in Nat
      /\ b.taken => /\ Cardinality(TakenIn(u)) = a + 1
                    /\ Cardinality((DOMAIN u) \ TakenIn(u)) = c
      /\ ~b.taken => /\ Cardinality(TakenIn(u)) = a
                     /\ Cardinality((DOMAIN u) \ TakenIn(u)) = c + 1
  BY TakenCounted
<1>4. CountsTaken(r) = a /\ CountsNotTaken(r) = c /\ a + c = Len(t)
  BY DEF ResultsOK
<1>5. Len(u) = Len(t) + 1
  BY DEF OneMore
<1> HIDE DEF s, a, c, one
<1>6. /\ CountsTaken(s) = Cardinality(TakenIn(u))
      /\ CountsNotTaken(s) = Cardinality((DOMAIN u) \ TakenIn(u))
      /\ CountsTaken(s) + CountsNotTaken(s) = Len(u)
  BY <1>1, <1>2, <1>3, <1>4, <1>5
<1>7. ASSUME P.class = "BHTPredictor"
      PROVE  CountsTargets(s) = IF P.predict_address THEN Cardinality(WithTarget(u, i, Q)) ELSE 0
  <2>1. /\ P.class \in SimplePredictors /\ TableOK(P, t) /\ TableLearnt(t, P)
        /\ SameMake(P, Q)
    BY <1>7 DEF PredictorOK, PredictorStep, UpdatedTable, SimplePredictors
  <2>2. x = predict(P, b.pc) /\ b.answers[i][1] = predict(P, b.pc)
    BY <1>7
  <2>3. CountsTargets(r) = IF P.predict_address THEN Cardinality(WithTarget(t, i, P)) ELSE 0
    BY <1>7 DEF ResultsOK
  <2>4. CASE P.predict_address
    <3>1. /\ one => WithTarget(u, i, Q) = WithTarget(t, i, P) \cup {Len(t) + 1}
          /\ ~one => WithTarget(u, i, Q) = WithTarget(t, i, P)
      BY <2>1, <2>2, <2>4, WithTargetGrows DEF one
    <3>2. WithTarget(t, i, P) \subseteq TakenIn(t) /\ IsFiniteSet(TakenIn(t))
          /\ Len(t) + 1 \notin TakenIn(t)
      BY TakenGrow DEF WithTarget
    <3>3. IsFiniteSet(WithTarget(t, i, P)) /\ Len(t) + 1 \notin WithTarget(t, i, P)
      BY <3>2, FS_Subset
    <3>4. Cardinality(WithTarget(t, i, P) \cup {Len(t) + 1})
            = Cardinality(WithTarget(t, i, P)) + 1
      BY <3>3, FS_AddElement
    <3> QED  BY <1>1, <1>2, <2>3, <2>4, <3>1, <3>4
  <2>5. CASE ~P.predict_address
    <3>1. ~one
      BY <2>1, <2>2, <2>5, PredictsTarget DEF one
    <3> QED  BY <1>2, <2>3, <2>5, <3>1
  <2> QED  BY <2>4, <2>5
<1>8. Q.class = P.class /\ (P.class = "BHTPredictor" => Q.predict_address = P.predict_address)
  BY DEF PredictorStep, UpdatedTable, SameMake, SimplePredictors
<1>9. ResultsOK(u, i, Q, s)
  BY <1>2, <1>6, <1>7, <1>8 DEF ResultsOK
<1> QED  BY <1>9 DEF s

-----------------------------------------------------------------------------
(***************************************************************************)
(* A predictor of the list, its results and the trace.                     *)
(***************************************************************************)
Member(t, i, P, r) ==
  /\ PredictorOK(P, t) /\ ResultsOK(t, i, P, r)
  /\ P.class = "TAGEPredictor" => OwnersFound(t, i, P)
  /\ P.class = "TournamentPredictor" /\ ~P.predict_addr => ChooserFollows(t, i, P)

(***************************************************************************)
(* After a branch.                                                         *)
(***************************************************************************)
LEMMA MemberFollows ==
  ASSUME NEW t, NEW u, NEW b, OneMore(t, u, b), NEW i, NEW P, NEW r, Member(t, i, P, r),
         b.answers[i] = Answers(Asked(P, b.pc), b.pc)
  PROVE  /\ PredictorStep(P, Predicts(P, b), u, b)
         /\ Member(u, i, Predicts(P, b),
                   Counted(r, Prediction(Asked(P, b.pc), b.pc), b.taken, b.target))
<1> DEFINE A == Asked(P, b.pc)
           Q == Predicts(P, b)
           x == Prediction(A, b.pc)
           s == Counted(r, x, b.taken, b.target)
<1>1. PredictorOK(P, t) /\ ResultsOK(t, i, P, r)
  BY DEF Member
<1>2. PredictorStep(P, Q, u, b)
  BY <1>1, PredictorFollows
<1> HIDE DEF Q
<1>3. PredictorOK(Q, u) /\ Q.class = P.class
  BY <1>2 DEF PredictorStep
<1>4. P.class = "BHTPredictor" => x = predict(P, b.pc) /\ b.answers[i][1] = x
  BY DEF Asked, Prediction, Answers, SimplePredictors
<1>5. ResultsOK(u, i, Q, s)
  <2> HIDE DEF x
  <2> QED  BY <1>1, <1>2, <1>4, ResultsFollow
<1>6. ASSUME P.class = "TAGEPredictor" PROVE OwnersFound(u, i, Q)
  <2>1. TAGEOK(P, t) /\ TAGEStep(P, Q, u, b) /\ OwnersFound(t, i, P)
    BY <1>1, <1>2, <1>6 DEF PredictorOK, PredictorStep, Member, SimplePredictors
  <2>2. TAGEPredicted(P, b.pc).class = "TAGEPredictor"
    <3>1. TAGEOK(TAGEPredicted(P, b.pc), t)
      BY <2>1, AskedKeeps
    <3> QED  BY <3>1 DEF TAGEOK, TAGEShape
  <2>3. b.answers[i][1] = TAGEPredicted(P, b.pc).predict_provider
    BY <1>6, <2>2 DEF Asked, Answers, Prediction, SimplePredictors
  <2>4. b.answers[i][1] # NOT_TAKEN <=> SaysTaken(P, b)
    BY <2>3 DEF SaysTaken
  <2> QED  BY <2>1, <2>4, OwnersStayFound
<1>7. ASSUME P.class = "TournamentPredictor" /\ ~P.predict_addr
      PROVE  ChooserFollows(u, i, Q)
  <2>1. TournamentOK(P, t) /\ TournamentStep(P, Q, u, b) /\ ChooserFollows(t, i, P)
    BY <1>1, <1>2, <1>7 DEF PredictorOK, PredictorStep, Member, SimplePredictors
  <2>2. P.gshr \in 0 .. 3 /\ Q.gshr \in 0 .. 3
    BY <2>1 DEF TournamentStep, TournamentOK, TournamentShape
  <2>3. b.answers[i] = <<predict(P.BPs[0], b.pc), predict(P.BPs[1], b.pc)>>
    BY <1>7 DEF Asked, Answers
  <2>4. \A n \in 0 .. 1 : b.answers[i][n + 1] = predict(P.BPs[n], b.pc)
    <3> TAKE n \in 0 .. 1
    <3>1. n = 0 \/ n = 1
      OBVIOUS
    <3> QED  BY <2>3, <3>1
  <2> QED  BY <1>7, <2>1, <2>2, <2>4, ChooserStaysTrue
<1>8. Q.class = "TournamentPredictor" /\ ~Q.predict_addr => ~P.predict_addr
  BY <1>2, <1>3 DEF PredictorStep, TournamentStep
<1>9. Member(u, i, Q, s)
  BY <1>3, <1>5, <1>6, <1>7, <1>8 DEF Member
<1> QED  BY <1>2, <1>9 DEF Q

-----------------------------------------------------------------------------
(***************************************************************************)
(* The tables of a new TAGEPredictor have seen no branch; no entry has an  *)
(* owner, none is of use.                                                  *)
(***************************************************************************)
LEMMA NewTAGE ==
  ASSUME NEW P, IsNewTAGE(P), NEW i
  PROVE  TAGEOK(P, <<>>) /\ OwnersFound(<<>>, i, P)
<1>1. /\ P.tnum \in Nat \ {0} /\ P.tag_width \in Widths /\ P.rst_period \in Nat \ {0}
      /\ DOMAIN P.T = 0 .. P.tnum - 1
      /\ \A j \in DOMAIN P.T : IsNewTable(P.T[j])
  BY DEF IsNewTAGE
<1>2. /\ DOMAIN P = {"class", "tnum", "tag_width", "rst_period", "rst_cnt", "provider",
                     "predict_provider", "predict_altpred", "T", "useful"}
      /\ P.class = "TAGEPredictor" /\ P.rst_cnt = 0
      /\ P.useful = [j \in Tagged(P) |-> [e \in Indices(P.T[j]) |-> 0]]
  <2> DEFINE useful == [j \in Tagged(P) |-> [e \in Indices(P.T[j]) |-> 0]]
  <2>1. P = [class |-> "TAGEPredictor", tnum |-> P.tnum, tag_width |-> P.tag_width,
             rst_period |-> P.rst_period, rst_cnt |-> 0, provider |-> 0,
             predict_provider |-> NOT_TAKEN, predict_altpred |-> NOT_TAKEN, T |-> P.T,
             useful |-> useful]
    BY DEF IsNewTAGE
  <2> HIDE DEF useful
  <2>2. P.class = "TAGEPredictor" /\ P.rst_cnt = 0 /\ P.useful = useful
    BY <2>1
  <2>3. DOMAIN P = {"class", "tnum", "tag_width", "rst_period", "rst_cnt", "provider",
                    "predict_provider", "predict_altpred", "T", "useful"}
    BY <2>1
  <2> QED  BY <2>2, <2>3 DEF useful
<1>3. \A j \in DOMAIN P.T : j = 0 <=> P.T[j].class = "BHTPredictor"
  <2> TAKE j \in DOMAIN P.T
  <2>1. IF j = 0 THEN P.T[j].class = "BHTPredictor" ELSE P.T[j].ghr_width > 0
    BY DEF IsNewTAGE
  <2>2. P.T[j].ghr_width > 0 => P.T[j].class = "GlobalHistoryPredictor"
    BY <1>1, NewTableShape
  <2> QED  BY <2>1, <2>2
<1>4. \A j \in DOMAIN P.T : TableOK(P.T[j], <<>>) /\ TableShape(P.T[j])
  BY <1>1, NewTableLearnt, NewTableShape
<1>5. Tagged(P) \subseteq DOMAIN P.T
  BY <1>1 DEF Tagged
<1>6. ASSUME NEW j \in Tagged(P)
      PROVE  /\ P.useful[j] \in [Indices(P.T[j]) -> 0 .. 2]
             /\ \A e \in Indices(P.T[j]) : P.T[j].entries[e].tag = {}
  <2>1. P.useful[j] = [e \in Indices(P.T[j]) |-> 0]
    BY <1>2
  <2>2. P.useful[j] \in [Indices(P.T[j]) -> 0 .. 2]
    BY <2>1
  <2>3. IsNewTable(P.T[j])
    BY <1>1, <1>5
  <2>4. \A e \in Indices(P.T[j]) : P.T[j].entries[e] = BHTEntry(P.T[j].scnt_width)
    BY <2>3, NewTableShape
  <2> QED  BY <2>2, <2>4 DEF BHTEntry
<1>7. P.tag_width \in Nat /\ P.rst_cnt \in 0 .. P.rst_period - 1
  <2>1. \A n \in Widths : n \in Nat
    BY DEF Widths
  <2>2. P.rst_period \in Nat \ {0} /\ P.rst_cnt = 0 /\ P.tag_width \in Widths
    BY <1>1, <1>2
  <2> QED  BY <2>1, <2>2
<1>8. DOMAIN P.useful = Tagged(P)
  BY <1>2
<1>9. \A j \in Tagged(P) : \A e \in Indices(P.T[j]) : TagOK(P, P.T[j].entries[e])
  BY <1>6 DEF TagOK
<1>10. TAGEShape(P)
  BY <1>1, <1>2, <1>3, <1>4, <1>6, <1>7, <1>8, <1>9 DEF TAGEShape
<1>11. TAGEOK(P, <<>>)
  BY <1>4, <1>10 DEF TAGEOK
<1>12. OwnersFound(<<>>, i, P)
  BY <1>6 DEF OwnersFound, OwnerFound
<1> QED  BY <1>11, <1>12

(***************************************************************************)
(* A new TournamentPredictor: two new tables and the middle of the range.  *)
(***************************************************************************)
LEMMA NewTournament ==
  ASSUME NEW P, IsNewTournament(P), NEW i
  PROVE  TournamentOK(P, <<>>) /\ ChooserFollows(<<>>, i, P)
<1> DEFINE BPs == [j \in 0 .. 1 |-> IF j = 0 THEN P.BPs[0] ELSE P.BPs[1]]
<1>1. /\ P = [class |-> "TournamentPredictor", BPs |-> BPs,
              gshr |-> InitVal(gshr_width), predict_addr |-> P.predict_addr]
      /\ P.predict_addr \in BOOLEAN
      /\ \A j \in 0 .. 1 : IsNewTable(P.BPs[j])
  BY DEF IsNewTournament, NewTournamentPredictor
<1>2. DOMAIN BPs = 0 .. 1
  OBVIOUS
<1>3. InitVal(gshr_width) = 2
  BY PowersOfTwo DEF InitVal, UINT8, gshr_width
<1> HIDE DEF BPs
<1>4. /\ DOMAIN P = {"class", "BPs", "gshr", "predict_addr"}
      /\ P.class = "TournamentPredictor" /\ P.gshr = 2 /\ DOMAIN P.BPs = 0 .. 1
  BY <1>1, <1>2, <1>3
<1>5. TournamentShape(P)
  BY <1>1, <1>4 DEF TournamentShape
<1>6. \A j \in 0 .. 1 : TableOK(P.BPs[j], <<>>) /\ TableLearnt(<<>>, P.BPs[j])
  BY <1>1, NewTableLearnt
<1>7. Votes(<<>>, i) = {}
  BY DEF Votes, SaidAlone
<1>8. 3 \in Nat /\ P.gshr \in 0 .. 3
  BY <1>4
<1>9. CounterFollows(3, P.gshr, {}, SaidAlone(<<>>, i, 1))
  BY <1>8, CounterStarts
<1> QED  BY <1>5, <1>6, <1>7, <1>9 DEF TournamentOK, ChooserFollows

(***************************************************************************)
(* No results of no branches.                                              *)
(***************************************************************************)
LEMMA NoResults ==
  ASSUME NEW i, NEW P
  PROVE  ResultsOK(<<>>, i, P, NoResult)
<1>1. NoResult \in Results
  BY DEF NoResult, Results
<1>2. CountsTaken(NoResult) = 0 /\ CountsNotTaken(NoResult) = 0 /\ CountsTargets(NoResult) = 0
  BY DEF NoResult, CountsTaken, CountsNotTaken, CountsTargets
<1>3. TakenIn(<<>>) = {} /\ (DOMAIN <<>>) \ TakenIn(<<>>) = {} /\ WithTarget(<<>>, i, P) = {}
  BY DEF TakenIn, WithTarget
<1>4. Cardinality({}) = 0
  BY FS_EmptySet
<1>5. Len(<<>>) = 0
  OBVIOUS
<1>6. /\ CountsTaken(NoResult) = Cardinality(TakenIn(<<>>))
      /\ CountsNotTaken(NoResult) = Cardinality((DOMAIN <<>>) \ TakenIn(<<>>))
      /\ CountsTaken(NoResult) + CountsNotTaken(NoResult) = Len(<<>>)
      /\ CountsTargets(NoResult) = 0 /\ Cardinality(WithTarget(<<>>, i, P)) = 0
  BY <1>2, <1>3, <1>4, <1>5
<1> QED  BY <1>1, <1>6 DEF ResultsOK

(***************************************************************************)
(* What main builds.                                                       *)
(***************************************************************************)
LEMMA NewMember ==
  ASSUME NEW i \in DOMAIN Predictors
  PROVE  Member(<<>>, i, Predictors[i], NoResult)
<1> DEFINE P == Predictors[i]
<1>1. /\ P.class \in SimplePredictors => IsNewTable(P)
      /\ P.class = "TournamentPredictor" => IsNewTournament(P)
      /\ P.class = "TAGEPredictor" => IsNewTAGE(P)
      /\ \/ P.class \in SimplePredictors \/ P.class = "TournamentPredictor"
         \/ P.class = "TAGEPredictor"
  <2>1. CASE P.class \in SimplePredictors
    BY <2>1, PredictorSuiteAssumption DEF SimplePredictors
  <2>2. CASE P.class = "TournamentPredictor"
    BY <2>2, PredictorSuiteAssumption DEF SimplePredictors
  <2>3. CASE P.class = "TAGEPredictor"
    BY <2>3, PredictorSuiteAssumption DEF SimplePredictors
  <2>4. CASE P.class \notin SimplePredictors \cup {"TournamentPredictor", "TAGEPredictor"}
    BY <2>4, PredictorSuiteAssumption DEF SimplePredictors
  <2> QED  BY <2>1, <2>2, <2>3, <2>4
<1> HIDE DEF P
<1>2. ResultsOK(<<>>, i, P, NoResult)
  BY NoResults
<1>3. CASE P.class \in SimplePredictors
  <2>1. IsNewTable(P)
    BY <1>1, <1>3 DEF SimplePredictors
  <2>2. TableOK(P, <<>>) /\ TableLearnt(<<>>, P)
    BY <2>1, NewTableLearnt
  <2>3. Member(<<>>, i, P, NoResult)
    BY <1>2, <1>3, <2>2 DEF Member, PredictorOK, SimplePredictors
  <2> QED  BY <2>3 DEF P
<1>4. CASE P.class = "TournamentPredictor"
  <2>1. IsNewTournament(P)
    BY <1>1, <1>4 DEF SimplePredictors
  <2>2. TournamentOK(P, <<>>) /\ ChooserFollows(<<>>, i, P)
    BY <2>1, NewTournament
  <2>3. Member(<<>>, i, P, NoResult)
    BY <1>2, <1>4, <2>2 DEF Member, PredictorOK, SimplePredictors
  <2> QED  BY <2>3 DEF P
<1>5. CASE P.class = "TAGEPredictor"
  <2>1. IsNewTAGE(P)
    BY <1>1, <1>5 DEF SimplePredictors
  <2>2. TAGEOK(P, <<>>) /\ OwnersFound(<<>>, i, P)
    BY <2>1, NewTAGE
  <2>3. Member(<<>>, i, P, NoResult)
    BY <1>2, <1>5, <2>2 DEF Member, PredictorOK, SimplePredictors
  <2> QED  BY <2>3 DEF P
<1> QED  BY <1>1, <1>3, <1>4, <1>5

-----------------------------------------------------------------------------
(***************************************************************************)
(* The inductive invariant.                                                *)
(***************************************************************************)
SuiteInv ==
  /\ IsTrace(trace)
  /\ \E n \in Nat : DOMAIN BP = 1 .. n /\ results = [i \in 1 .. n |-> results[i]]
  /\ \A i \in DOMAIN BP : Member(trace, i, BP[i], results[i])

(***************************************************************************)
(* It holds of what main builds.                                           *)
(***************************************************************************)
LEMMA SuiteStarts == Init => SuiteInv
<1> SUFFICES ASSUME Init PROVE SuiteInv
  OBVIOUS
<1>1. IsTrace(trace)
  <2>1. trace \in Seq({})
    BY DEF Init
  <2> QED  BY <2>1 DEF IsTrace
<1>2. PICK n \in Nat : DOMAIN Predictors = 1 .. n
  <2>1. Predictors \in Seq({Predictors[i] : i \in DOMAIN Predictors})
    BY PredictorSuiteAssumption
  <2> QED  BY <2>1
<1>3. /\ DOMAIN BP = 1 .. n /\ results = [i \in 1 .. n |-> results[i]]
  BY <1>2 DEF Init
<1>4. ASSUME NEW i \in DOMAIN BP
      PROVE  Member(trace, i, BP[i], results[i])
  <2>1. i \in DOMAIN Predictors /\ trace = <<>> /\ BP[i] = Predictors[i]
        /\ results[i] = NoResult
    BY DEF Init
  <2> QED  BY <2>1, NewMember
<1> QED  BY <1>1, <1>3, <1>4 DEF SuiteInv

(***************************************************************************)
(* One branch, as the lemmas about predictors see it.                      *)
(***************************************************************************)
BranchSeen(b) ==
  /\ OneMore(trace, trace', b) /\ IsTrace(trace')
  /\ DOMAIN BP' = DOMAIN BP
  /\ \A i \in DOMAIN BP :
       /\ PredictorStep(BP[i], BP'[i], trace', b)
       /\ Member(trace', i, BP'[i], results'[i])

(***************************************************************************)
(* predictBranch shows it to every predictor.                              *)
(***************************************************************************)
LEMMA BranchIsSeen ==
  ASSUME SuiteInv, NEW branch \in Branches, NEW direction \in BOOLEAN,
         predictBranch(branch.pc, direction, branch.target)
  PROVE  (\E b : BranchSeen(b)) /\ SuiteInv'
<1> DEFINE pc == branch.pc
           target == branch.target
           answers == [i \in DOMAIN BP |-> Answers(Asked(BP[i], pc), pc)]
           b == [pc |-> pc, taken |-> direction, target |-> target, answers |-> answers]
<1>1. /\ BP' = [i \in DOMAIN BP |-> Updated(Asked(BP[i], pc), direction, pc, target)]
      /\ results' = [i \in DOMAIN BP |->
                       Counted(results[i], Prediction(Asked(BP[i], pc), pc),
                               direction, target)]
      /\ trace' = Append(trace, b)
  BY DEF predictBranch
<1>2. pc \in SUBSET Nat /\ target \in (SUBSET Nat) \ {NOT_TAKEN, TAKEN}
  BY PredictorSuiteAssumption
<1> HIDE DEF pc, target
<1>3. /\ b.pc = pc /\ b.taken = direction /\ b.target = target
      /\ \A i \in DOMAIN BP : b.answers[i] = Answers(Asked(BP[i], pc), pc)
  OBVIOUS
<1> HIDE DEF b
<1>4. IsBranch(b)
  BY <1>2, <1>3 DEF IsBranch
<1>5. OneMore(trace, trace', b) /\ IsTrace(trace')
  BY <1>1, <1>4, TraceGrows DEF SuiteInv
<1>6. ASSUME NEW i \in DOMAIN BP
      PROVE  /\ PredictorStep(BP[i], BP'[i], trace', b)
             /\ Member(trace', i, BP'[i], results'[i])
  <2> DEFINE P == BP[i]
             r == results[i]
             u == trace'
  <2>1. /\ BP'[i] = Predicts(P, b)
        /\ results'[i] = Counted(r, Prediction(Asked(P, b.pc), b.pc), b.taken, b.target)
    BY <1>1, <1>3 DEF Predicts
  <2>2. Member(trace, i, P, r) /\ b.answers[i] = Answers(Asked(P, b.pc), b.pc)
    BY <1>3 DEF SuiteInv
  <2>3. OneMore(trace, u, b)
    BY <1>5
  <2> HIDE DEF P, r, u
  <2>4. /\ PredictorStep(P, Predicts(P, b), u, b)
        /\ Member(u, i, Predicts(P, b),
                  Counted(r, Prediction(Asked(P, b.pc), b.pc), b.taken, b.target))
    BY <2>2, <2>3, MemberFollows
  <2> QED  BY <2>1, <2>4 DEF P, r, u
<1>7. DOMAIN BP' = DOMAIN BP /\ results' = [i \in DOMAIN BP |-> results'[i]]
  BY <1>1
<1>8. BranchSeen(b)
  BY <1>5, <1>6, <1>7 DEF BranchSeen
<1>9. SuiteInv'
  <2>1. PICK n \in Nat : DOMAIN BP = 1 .. n
    BY DEF SuiteInv
  <2>2. DOMAIN BP' = 1 .. n /\ results' = [i \in 1 .. n |-> results'[i]]
    BY <1>7, <2>1
  <2> QED  BY <1>5, <1>6, <1>7, <2>2 DEF SuiteInv
<1> QED  BY <1>8, <1>9

(***************************************************************************)
(* So the invariant holds in every state.                                  *)
(***************************************************************************)
LEMMA SuiteInvariant == Spec => []SuiteInv
<1>1. SuiteInv /\ [Next]_vars => SuiteInv'
  <2> SUFFICES ASSUME SuiteInv, [Next]_vars PROVE SuiteInv'
    OBVIOUS
  <2>1. CASE UNCHANGED vars
    BY <2>1 DEF vars, SuiteInv
  <2>2. CASE Next
    <3>1. PICK branch \in Branches, direction \in BOOLEAN :
            predictBranch(branch.pc, direction, branch.target)
      BY <2>2 DEF Next, Instruction
    <3> QED  BY <3>1, BranchIsSeen
  <2> QED  BY <2>1, <2>2
<1> QED  BY <1>1, SuiteStarts, PTL DEF Spec

-----------------------------------------------------------------------------
(***************************************************************************)
(* The tables of a predictor follow the trace.                             *)
(***************************************************************************)
LEMMA TablesFollow ==
  ASSUME NEW P, NEW t, PredictorOK(P, t), NEW p \in Tables(P)
  PROVE  /\ TableOK(p, t)
         /\ P.class # "TAGEPredictor" => TableLearnt(t, p)
<1>1. CASE P.class \in SimplePredictors
  BY <1>1 DEF PredictorOK, Tables, SimplePredictors
<1>2. CASE P.class = "TournamentPredictor"
  BY <1>2 DEF PredictorOK, Tables, SimplePredictors, TournamentOK
<1>3. CASE P.class = "TAGEPredictor"
  BY <1>3 DEF PredictorOK, Tables, SimplePredictors, TAGEOK
<1> QED  BY <1>1, <1>2, <1>3 DEF PredictorOK

(***************************************************************************)
(* The operators the properties are written with, of the trace.            *)
(***************************************************************************)
LEMMA OfTheTrace ==
  /\ \A wid, n : History(wid, n) = HistoryIn(trace, wid, n)
  /\ \A p, k : IndexAt(p, k) = IndexIn(trace, p, k)
  /\ \A p, e : BranchesOf(p, e) = BranchesIn(trace, p, e)
<1>1. \A wid, n : History(wid, n) = HistoryIn(trace, wid, n)
  BY DEF History, HistoryIn
<1>2. \A p, k : IndexAt(p, k) = IndexIn(trace, p, k)
  BY <1>1 DEF IndexAt, IndexIn, AtHistory
<1>3. \A p, e : BranchesOf(p, e) = BranchesIn(trace, p, e)
  BY <1>2 DEF BranchesOf, BranchesIn
<1> QED  BY <1>1, <1>2, <1>3

(***************************************************************************)
(* Every history register, alone, in a tournament or in TAGE, holds the    *)
(* outcomes of the last branches, each once, whichever table provided.     *)
(***************************************************************************)
THEOREM HistoriesAlwaysAgree == Spec => []HistoriesAgree
<1>1. SuiteInv => HistoriesAgree
  <2> SUFFICES ASSUME SuiteInv, NEW i \in DOMAIN BP, NEW p \in Tables(BP[i])
               PROVE  p.m_ghr = History(p.ghr_width, Len(trace))
    BY DEF HistoriesAgree, AllTables
  <2>1. PredictorOK(BP[i], trace)
    BY DEF SuiteInv, Member
  <2>2. TableOK(p, trace)
    BY <2>1, TablesFollow
  <2> QED  BY <2>2, OfTheTrace DEF TableOK
<1> QED  BY <1>1, SuiteInvariant, PTL

-----------------------------------------------------------------------------
(***************************************************************************)
(* A table has the type.                                                   *)
(***************************************************************************)
LEMMA TableTypes ==
  ASSUME NEW p, NEW t, TableOK(p, t)
  PROVE  TableTypeOK(p)
<1>1. p.m_ghr \subseteq 0 .. p.ghr_width - 1
  BY DEF TableOK, HistoryIn
<1>2. DOMAIN p.entries = Indices(p)
      /\ \A e \in Indices(p) : p.entries[e] \in Entries(p.scnt_width)
  BY DEF TableOK, TableShape
<1>3. \A e \in Indices(p) : p.entries[e].cnt \in Counts(p.scnt_width)
  BY <1>2 DEF Entries
<1> QED  BY <1>1, <1>2, <1>3 DEF TableTypeOK, Counts

(***************************************************************************)
(* Counters, histories and usefulness stay in their ranges, and every      *)
(* predictor was asked once for every branch.                              *)
(***************************************************************************)
THEOREM TypeCorrect == Spec => []TypeOK
<1>1. SuiteInv => TypeOK
  <2> SUFFICES ASSUME SuiteInv PROVE TypeOK
    OBVIOUS
  <2>1. ASSUME NEW i \in DOMAIN BP
        PROVE  PredictorOK(BP[i], trace) /\ ResultsOK(trace, i, BP[i], results[i])
    BY DEF SuiteInv, Member
  <2>2. ASSUME NEW p \in AllTables
        PROVE  TableTypeOK(p)
    <3>1. PICK i \in DOMAIN BP : p \in Tables(BP[i])
      BY DEF AllTables
    <3>2. TableOK(p, trace)
      BY <2>1, <3>1, TablesFollow
    <3> QED  BY <3>2, TableTypes
  <2>3. ASSUME NEW i \in DOMAIN BP, BP[i].class = "TAGEPredictor"
        PROVE  /\ BP[i].rst_cnt \in 0 .. BP[i].rst_period - 1
               /\ \A j \in Tagged(BP[i]) : \A e \in Indices(BP[i].T[j]) :
                    /\ BP[i].useful[j][e] \in 0 .. 2
                    /\ BP[i].T[j].entries[e].tag \subseteq 0 .. BP[i].tag_width - 1
    <3>1. TAGEShape(BP[i])
      BY <2>1, <2>3 DEF PredictorOK, SimplePredictors, TAGEOK
    <3> QED  BY <3>1 DEF TAGEShape, TagOK
  <2>4. ASSUME NEW i \in DOMAIN BP
        PROVE  Len(trace) = results[i].takenCorrect + results[i].takenIncorrect
                              + results[i].notTakenCorrect + results[i].notTakenIncorrect
    <3> DEFINE r == results[i]
    <3>1. r \in Results /\ CountsTaken(r) + CountsNotTaken(r) = Len(trace)
      BY <2>1 DEF ResultsOK
    <3> HIDE DEF r
    <3>2. /\ r.takenCorrect \in Nat /\ r.takenIncorrect \in Nat
          /\ r.notTakenCorrect \in Nat /\ r.notTakenIncorrect \in Nat
      BY <3>1 DEF Results
    <3>3. Len(trace) = r.takenCorrect + r.takenIncorrect + r.notTakenCorrect
                         + r.notTakenIncorrect
      BY <3>1, <3>2 DEF CountsTaken, CountsNotTaken
    <3> QED  BY <3>3 DEF r
  <2> QED  BY <2>2, <2>3, <2>4 DEF TypeOK
<1> QED  BY <1>1, SuiteInvariant, PTL

-----------------------------------------------------------------------------
(***************************************************************************)
(* A trace is a sequence.                                                  *)
(***************************************************************************)
LEMMA TraceLength ==
  ASSUME NEW t, IsTrace(t)
  PROVE  Len(t) \in Nat /\ DOMAIN t = 1 .. Len(t)
<1>1. PICK S : t \in Seq(S)
  BY DEF IsTrace
<1> QED  BY <1>1

(***************************************************************************)
(* Branches of which all were taken, or none.                              *)
(***************************************************************************)
LEMMA Outcomes ==
  ASSUME NEW S, S \subseteq DOMAIN trace, NEW taken \in BOOLEAN, OutcomesAre(S, taken)
  PROVE  /\ taken => S \subseteq TakenIn(trace)
         /\ ~taken => S \cap TakenIn(trace) = {}
<1>1. \A k \in S : trace[k].taken = taken
  BY DEF OutcomesAre
<1>2. CASE taken
  <2>1. \A k \in S : trace[k].taken
    BY <1>1, <1>2
  <2> QED  BY <1>2, <2>1 DEF TakenIn
<1>3. CASE ~taken
  <2>1. \A k \in S : ~trace[k].taken
    BY <1>1, <1>3
  <2> QED  BY <1>3, <2>1 DEF TakenIn
<1> QED  BY <1>2, <1>3

(***************************************************************************)
(* What the counter of an entry has learnt.                                *)
(***************************************************************************)
LEMMA CounterPredicts ==
  ASSUME IsTrace(trace), NEW p, TableOK(p, trace), TableLearnt(trace, p),
         NEW e \in Indices(p)
  PROVE  EntryLearns(p, e)
<1> DEFINE w == p.scnt_width
           ks == BranchesOf(p, e)
           c == p.entries[e].cnt
           half == 2 ^ (w - 1)
           max == 2 ^ w - 1
           ups == TakenIn(trace)
           predictsTaken == isTaken(w, c)
<1>1. w \in 1 .. 8 /\ c \in Counts(w)
  BY DEF TableOK, TableShape, Entries
<1>2. /\ half \in 1 .. 128 /\ max = 2 * half - 1 /\ (w > 1 => half >= 2)
      /\ 2 ^ w \div 2 = half /\ Counts(w) = 0 .. max
  <2>1. 2 ^ w \in 2 .. 256 /\ 2 ^ w \div 2 \in 1 .. 128 /\ 2 ^ w = 2 * (2 ^ w \div 2)
        /\ 2 ^ (w - 1) = 2 ^ w \div 2 /\ (w > 1 => 2 ^ w \div 2 >= 2)
    BY <1>1, RangeOfCounter
  <2> QED  BY <2>1 DEF Counts
<1>3. predictsTaken <=> c >= half
  <2>1. isTaken(w, c) <=> c >= 2 ^ w \div 2
    BY <1>1, CountersSaturate
  <2> QED  BY <1>2, <2>1
<1>4. CounterFollows(max, c, ks, ups)
  BY OfTheTrace DEF TableLearnt, CountLearnt
<1>5. ks \subseteq DOMAIN trace /\ Cardinality(ks) \in Nat
  <2>1. Len(trace) \in Nat /\ DOMAIN trace = 1 .. Len(trace)
    BY TraceLength
  <2>2. BranchesIn(trace, p, e) \subseteq 1 .. Len(trace)
        /\ IsFiniteSet(BranchesIn(trace, p, e))
    BY <2>1, BranchesFinite
  <2>3. ks = BranchesIn(trace, p, e)
    BY OfTheTrace
  <2> QED  BY <2>1, <2>2, <2>3, FS_CardinalityType
<1>6. predictsTaken \in BOOLEAN
  BY DEF isTaken
<1> DEFINE count == Cardinality(ks)
           recent == Latest(ks, half)
           before == Latest(ks, max + 1) \ Latest(ks, 1)
<1>7. recent \subseteq DOMAIN trace /\ before \subseteq DOMAIN trace
  BY <1>5 DEF Latest
<1>8. c \in 0 .. max
  BY <1>1, <1>2
<1> HIDE DEF max, half, predictsTaken, ks, c, count
<1>9. ASSUME NEW taken \in BOOLEAN, count >= half, OutcomesAre(recent, taken)
      PROVE  predictsTaken = taken
  <2>1. half \in 0 .. Cardinality(ks)
    BY <1>2, <1>5, <1>9 DEF count
  <2>2. UpsCounted(max, c, ks, ups) /\ DownsCounted(max, c, ks, ups)
    BY <1>4 DEF CounterFollows
  <2>3. CASE taken
    <3>1. recent \subseteq ups
      BY <1>7, <1>9, <2>3, Outcomes
    <3>2. c >= half \/ c = max
      BY <2>1, <2>2, <3>1 DEF UpsCounted
    <3>3. predictsTaken
      BY <1>2, <1>3, <1>8, <3>2
    <3> QED  BY <2>3, <3>3, <1>6
  <2>4. CASE ~taken
    <3>1. recent \cap ups = {}
      BY <1>7, <1>9, <2>4, Outcomes
    <3>2. c + half <= max \/ c = 0
      BY <2>1, <2>2, <3>1 DEF DownsCounted
    <3>3. ~predictsTaken
      BY <1>2, <1>3, <1>8, <3>2
    <3> QED  BY <2>4, <3>3, <1>6
  <2> QED  BY <2>3, <2>4
<1>10. ASSUME NEW taken \in BOOLEAN, w > 1, count > max, OutcomesAre(before, taken)
       PROVE  predictsTaken = taken
  <2>1. Cardinality(ks) > max
    BY <1>10 DEF count
  <2>2. StandsUp(max, c, ks, ups) /\ StandsDown(max, c, ks, ups)
    BY <1>4 DEF CounterFollows
  <2>3. CASE taken
    <3>1. before \subseteq ups
      BY <1>7, <1>10, <2>3, Outcomes
    <3>2. c >= max - 1
      BY <2>1, <2>2, <3>1 DEF StandsUp
    <3>3. predictsTaken
      BY <1>2, <1>3, <1>8, <1>10, <3>2
    <3> QED  BY <2>3, <3>3, <1>6
  <2>4. CASE ~taken
    <3>1. before \cap ups = {}
      BY <1>7, <1>10, <2>4, Outcomes
    <3>2. c <= 1
      BY <2>1, <2>2, <3>1 DEF StandsDown
    <3>3. ~predictsTaken
      BY <1>2, <1>3, <1>8, <1>10, <3>2
    <3> QED  BY <2>4, <3>3, <1>6
  <2> QED  BY <2>3, <2>4
<1>11. max + 1 = 2 ^ w - 1 + 1
  BY DEF max
<1> QED  BY <1>9, <1>10 DEF EntryLearns, max, half, predictsTaken, ks, c, count

(***************************************************************************)
(* What the target of an entry has learnt.                                 *)
(***************************************************************************)
LEMMA TargetPredicts ==
  ASSUME IsTrace(trace), NEW p, TableLearnt(trace, p), NEW e \in Indices(p)
  PROVE  EntryTargets(p, e)
<1> DEFINE taken == {k \in BranchesOf(p, e) : trace[k].taken}
           target == p.entries[e].target
<1>1. taken = BranchesIn(trace, p, e) \cap TakenIn(trace)
  BY OfTheTrace DEF BranchesIn, TakenIn
<1>2. \/ taken = {} /\ target = {}
      \/ \E k \in taken : (\A j \in taken : j <= k) /\ target = trace[k].target
  BY <1>1 DEF TableLearnt, TargetLearnt
<1>3. \A k \in taken : k \in Nat
  <2>1. Len(trace) \in Nat /\ DOMAIN trace = 1 .. Len(trace)
    BY TraceLength
  <2> QED  BY <1>1, <2>1 DEF TakenIn
<1> HIDE DEF taken
<1>4. CASE taken = {}
  <2>1. target = {}
    BY <1>2, <1>4
  <2> QED  BY <1>4, <2>1 DEF EntryTargets, taken
<1>5. CASE taken # {}
  <2>1. PICK k \in taken : (\A j \in taken : j <= k) /\ target = trace[k].target
    BY <1>2, <1>5
  <2>2. \A i \in taken : (\A j \in taken : j <= i) => i = k
    BY <1>3, <2>1
  <2>3. Last(taken) = k
    BY <1>5, <2>1, <2>2 DEF Last
  <2> QED  BY <1>5, <2>1, <2>3 DEF EntryTargets, taken
<1> QED  BY <1>4, <1>5

(***************************************************************************)
(* A table of a predictor that is not TAGE's, alone or in a tournament, is *)
(* a function of the branches that fell on each entry: it predicts what    *)
(* they have been doing, and the target of the last one taken.             *)
(***************************************************************************)
THEOREM EntriesAlwaysFollowOutcomes == Spec => []EntriesFollowOutcomes
<1>1. SuiteInv => EntriesFollowOutcomes
  <2> SUFFICES ASSUME SuiteInv, NEW i \in DOMAIN BP, BP[i].class # "TAGEPredictor",
                      NEW p \in Tables(BP[i]), NEW e \in Indices(p)
               PROVE  EntryLearns(p, e) /\ EntryTargets(p, e)
    BY DEF EntriesFollowOutcomes
  <2>1. IsTrace(trace) /\ PredictorOK(BP[i], trace)
    BY DEF SuiteInv, Member
  <2>2. TableOK(p, trace) /\ TableLearnt(trace, p)
    BY <2>1, TablesFollow
  <2> QED  BY <2>1, <2>2, CounterPredicts, TargetPredicts
<1> QED  BY <1>1, SuiteInvariant, PTL

-----------------------------------------------------------------------------
(***************************************************************************)
(* A tournament of directions asks the sub-predictor that was right alone  *)
(* in the last two of the branches of which only one was right.            *)
(***************************************************************************)
THEOREM DirectionTournamentAlwaysChoosesBetter ==
  Spec => []DirectionTournamentChoosesBetter
<1>1. SuiteInv => DirectionTournamentChoosesBetter
  <2> SUFFICES ASSUME SuiteInv, NEW i \in Tournaments(FALSE), NEW s \in 0 .. 1,
                      LET votes == AloneRight(i, 0) \cup AloneRight(i, 1)
                      IN  Cardinality(votes) >= 2 /\ Latest(votes, 2) \subseteq AloneRight(i, s)
               PROVE  Chosen(BP[i]) = s
    BY DEF DirectionTournamentChoosesBetter, ChoosesBetter
  <2> DEFINE g == BP[i]
             votes == Votes(trace, i)
             ups == SaidAlone(trace, i, 1)
  <2>1. i \in DOMAIN BP /\ g.class = "TournamentPredictor" /\ ~g.predict_addr
    BY DEF Tournaments
  <2>2. TournamentOK(g, trace) /\ ChooserFollows(trace, i, g) /\ IsTrace(trace)
    BY <2>1 DEF SuiteInv, Member, PredictorOK, SimplePredictors
  <2>3. g.gshr \in 0 .. 3
    BY <2>2 DEF TournamentOK, TournamentShape
  <2>4. \A k : RightAt(i, 0, k) = SaidRight(trace, i, 0, k)
               /\ RightAt(i, 1, k) = SaidRight(trace, i, 1, k)
    BY <2>1 DEF RightAt, SaidRight
  <2>5. /\ AloneRight(i, 0) = SaidAlone(trace, i, 0)
        /\ AloneRight(i, 1) = SaidAlone(trace, i, 1)
    <3>1. 1 - 0 = 1 /\ 1 - 1 = 0
      OBVIOUS
    <3> QED  BY <2>4, <3>1 DEF AloneRight, SaidAlone
  <2>6. SaidAlone(trace, i, 0) \cap ups = {}
    <3>1. 1 - 0 = 1 /\ 1 - 1 = 0
      OBVIOUS
    <3> QED  BY <3>1 DEF SaidAlone
  <2>7. Cardinality(votes) \in Nat
    <3>1. Len(trace) \in Nat /\ DOMAIN trace = 1 .. Len(trace)
      BY <2>2, TraceLength
    <3>2. Len(trace) \in Int /\ 1 \in Int
      BY <3>1
    <3>3. IsFiniteSet(1 .. Len(trace))
      BY <3>2, FS_Interval
    <3>4. votes \subseteq 1 .. Len(trace)
      BY <3>1 DEF Votes, SaidAlone
    <3> HIDE DEF votes
    <3> QED  BY <3>3, <3>4, FS_Subset, FS_CardinalityType
  <2>8. Cardinality(votes) >= 2 /\ Latest(votes, 2) \subseteq SaidAlone(trace, i, s)
    <3>1. s = 0 \/ s = 1
      OBVIOUS
    <3> QED  BY <2>5, <3>1 DEF Votes
  <2> HIDE DEF votes, ups
  <2>9. 2 \in 0 .. Cardinality(votes)
    BY <2>7, <2>8
  <2>10. UpsCounted(3, g.gshr, votes, ups) /\ DownsCounted(3, g.gshr, votes, ups)
    BY <2>2 DEF ChooserFollows, CounterFollows, votes, ups
  <2>11. Chosen(g) = IF g.gshr > 1 THEN 1 ELSE 0
    <3>1. 2 ^ 2 \div 2 - 1 = 1
      BY PowersOfTwo
    <3> QED  BY <3>1 DEF Chosen, isTaken, gshr_width
  <2>12. CASE s = 1
    <3>1. Latest(votes, 2) \subseteq ups
      BY <2>8, <2>12 DEF ups
    <3>2. g.gshr >= 2 \/ g.gshr = 3
      BY <2>9, <2>10, <3>1 DEF UpsCounted
    <3> QED  BY <2>3, <2>11, <2>12, <3>2
  <2>13. CASE s = 0
    <3>1. Latest(votes, 2) \cap ups = {}
      BY <2>6, <2>8, <2>13
    <3>2. g.gshr + 2 <= 3 \/ g.gshr = 0
      BY <2>9, <2>10, <3>1 DEF DownsCounted
    <3> QED  BY <2>3, <2>11, <2>13, <3>2
  <2>14. s = 0 \/ s = 1
    OBVIOUS
  <2> QED  BY <2>12, <2>13, <2>14
<1> QED  BY <1>1, SuiteInvariant, PTL

-----------------------------------------------------------------------------
(***************************************************************************)
(* A tag was computed for a branch that TAGE mispredicted and that indexes *)
(* the entry, both from the history before that branch; or it is still 0.  *)
(***************************************************************************)
THEOREM TagsAlwaysFromTrace == Spec => []TagsFromTrace
<1>1. SuiteInv => TagsFromTrace
  <2> SUFFICES ASSUME SuiteInv, NEW i \in TAGEs, NEW j \in Tagged(BP[i]),
                      NEW e \in Indices(BP[i].T[j])
               PROVE  LET p == BP[i].T[j]
                      IN  \/ p.entries[e].tag = {}
                          \/ \E k \in BranchesOf(p, e) \cap Mispredicted(i) :
                               p.entries[e].tag =
                                 truncate(Xor(trace[k].pc, History(p.ghr_width, k - 1)),
                                          BP[i].tag_width)
    BY DEF TagsFromTrace
  <2> DEFINE g == BP[i]
             p == g.T[j]
  <2>1. i \in DOMAIN BP /\ g.class = "TAGEPredictor"
    BY DEF TAGEs
  <2>2. OwnerFound(trace, i, g, p, e)
    <3>1. OwnersFound(trace, i, g)
      BY <2>1 DEF SuiteInv, Member
    <3> QED  BY <3>1 DEF OwnersFound
  <2>3. BranchesOf(p, e) = BranchesIn(trace, p, e) /\ Mispredicted(i) = Missed(trace, i)
    BY OfTheTrace DEF Mispredicted, Missed
  <2>4. \A k : TagAt(trace, g, p, k)
                 = truncate(Xor(trace[k].pc, History(p.ghr_width, k - 1)), g.tag_width)
    BY OfTheTrace DEF TagAt
  <2> QED  BY <2>2, <2>3, <2>4 DEF OwnerFound
<1> QED  BY <1>1, SuiteInvariant, PTL

(***************************************************************************)
(* An entry that is of use keeps its owner, but for a branch at which all  *)
(* usefulness is forgotten: one wrong prediction does not take it away.    *)
(***************************************************************************)
THEOREM UsefulAlwaysKept == Spec => UsefulEntriesKept
<1> DEFINE Kept == \A i \in TAGEs : \A j \in Tagged(BP[i]) : \A e \in Indices(BP[i].T[j]) :
                     BP[i].useful[j][e] > 0 /\ BP'[i].rst_cnt # 0
                       => BP'[i].T[j].entries[e].tag = BP[i].T[j].entries[e].tag
<1>1. SuiteInv /\ [Next]_vars => [Kept]_vars
  <2> SUFFICES ASSUME SuiteInv, Next PROVE Kept
    OBVIOUS
  <2>1. PICK branch \in Branches, direction \in BOOLEAN :
          predictBranch(branch.pc, direction, branch.target)
    BY DEF Next, Instruction
  <2>2. PICK b : BranchSeen(b)
    BY <2>1, BranchIsSeen
  <2> SUFFICES ASSUME NEW i \in TAGEs, NEW j \in Tagged(BP[i]),
                      NEW e \in Indices(BP[i].T[j]),
                      BP[i].useful[j][e] > 0, BP'[i].rst_cnt # 0
               PROVE  BP'[i].T[j].entries[e].tag = BP[i].T[j].entries[e].tag
    OBVIOUS
  <2>3. i \in DOMAIN BP /\ BP[i].class = "TAGEPredictor"
    BY DEF TAGEs
  <2>4. TAGEStep(BP[i], BP'[i], trace', b)
    BY <2>2, <2>3 DEF BranchSeen, PredictorStep
  <2>5. BP[i].useful[j][e] # 0
    <3>1. ~(0 > 0)
      OBVIOUS
    <3> QED  BY <3>1
  <2> QED  BY <2>4, <2>5 DEF TAGEStep, SameOwner
<1> QED  BY <1>1, SuiteInvariant, PTL DEF Spec, UsefulEntriesKept

-----------------------------------------------------------------------------
(***************************************************************************)
(* The results of a predictor add up to the branches taken and not taken;  *)
(* one of directions counts no targets, and a BHTPredictor of targets      *)
(* counts one for every taken branch it predicted, but for the first taken *)
(* branch of each entry, when it has no target to predict.  Fini names the *)
(* first of those with the most directions right, unless all were wrong.   *)
(***************************************************************************)
THEOREM ResultsAlwaysMatchTrace == Spec => []ResultsMatchTrace
<1>1. SuiteInv => ResultsMatchTrace
  <2> SUFFICES ASSUME SuiteInv PROVE ResultsMatchTrace
    OBVIOUS
  <2>1. PICK n \in Nat : DOMAIN BP = 1 .. n /\ results = [i \in 1 .. n |-> results[i]]
    BY DEF SuiteInv
  <2>2. Len(results) = n
    BY <2>1
  <2>3. \A i \in DOMAIN BP : PredictorOK(BP[i], trace) /\ ResultsOK(trace, i, BP[i], results[i])
    BY DEF SuiteInv, Member
  <2>4. \A i \in 1 .. n : PrecisionIn(results, i) \in Nat
    BY <2>1, <2>3 DEF ResultsOK, Results, PrecisionIn
  <2>5. BestOf(results, n, Fini)
    BY <2>2, <2>4, FiniIsBest
  <2>6. \A i : Precision(i) = PrecisionIn(results, i)
    BY DEF Precision, PrecisionIn
  <2>7. /\ \A i \in DOMAIN BP : Precision(i) <= Precision(Fini)
        /\ \A i \in 1 .. Fini - 1 : Precision(i) < Precision(Fini)
    BY <2>1, <2>5, <2>6 DEF BestOf
  <2>8. ASSUME NEW i \in DOMAIN BP
        PROVE  LET r == results[i]
                   taken == {k \in DOMAIN trace : trace[k].taken}
                   withTarget(p) ==
                     {k \in taken : /\ trace[k].answers[i][1] # NOT_TAKEN
                                    /\ \E j \in taken : j < k /\ IndexAt(p, j) = IndexAt(p, k)}
               IN  /\ r.takenCorrect + r.notTakenIncorrect = Cardinality(taken)
                   /\ r.takenIncorrect + r.notTakenCorrect
                        = Cardinality((DOMAIN trace) \ taken)
                   /\ BP[i].class = "BHTPredictor" =>
                        r.takenPcCorrect + r.takenPcIncorrect =
                          IF BP[i].predict_address THEN Cardinality(withTarget(BP[i])) ELSE 0
    <3> DEFINE P == BP[i]
               r == results[i]
               taken == {k \in DOMAIN trace : trace[k].taken}
               with == {k \in taken : /\ trace[k].answers[i][1] # NOT_TAKEN
                                      /\ \E j \in taken : j < k /\ IndexAt(P, j) = IndexAt(P, k)}
    <3>1. taken = TakenIn(trace)
      BY DEF TakenIn
    <3>2. with = WithTarget(trace, i, P)
      <4> HIDE DEF taken
      <4> QED  BY <3>1, OfTheTrace DEF WithTarget, Had
    <3>3. /\ CountsTaken(r) = Cardinality(taken)
          /\ CountsNotTaken(r) = Cardinality((DOMAIN trace) \ taken)
          /\ P.class = "BHTPredictor" =>
               CountsTargets(r) = IF P.predict_address THEN Cardinality(with) ELSE 0
      <4> HIDE DEF with, taken
      <4> QED  BY <2>3, <3>1, <3>2 DEF ResultsOK
    <3> QED  BY <3>3 DEF CountsTaken, CountsNotTaken, CountsTargets
  <2> QED  BY <2>7, <2>8 DEF ResultsMatchTrace
<1> QED  BY <1>1, SuiteInvariant, PTL

=============================================================================
