---------------------------- MODULE TAGEPredictor ----------------------------
(***************************************************************************)
(* TAGEPredictor: a table T[0] without tags and tables T[1], T[2], ...     *)
(* with longer and longer histories, whose entries count for an address    *)
(* only when their tag matches.  predict remembers which table provided    *)
(* the prediction and which would have been the alternative; the update    *)
(* that follows works on what it remembers.                                *)
(***************************************************************************)
EXTENDS HistoryPredictors

(***************************************************************************)
(* The history lengths: each is the one before it times alpha, a fraction, *)
(* rounded.                                                                *)
(***************************************************************************)
HistoryLengths(tnum, T1ghr_len, alpha) ==
  LET length[i \in 1 .. tnum - 1] ==
        IF i = 1 THEN T1ghr_len
        ELSE (2 * length[i - 1] * alpha.num + alpha.den) \div (2 * alpha.den)
  IN  length

NewTAGEPredictor(tnum, T0_log, T1ghr_len, alpha, Tn_log, tag_width, scnt_width, rst_period, hash_bits) ==
  [class |-> "TAGEPredictor", tnum |-> tnum, tag_width |-> tag_width,
   rst_period |-> rst_period, rst_cnt |-> 0,
   provider |-> 0, predict_provider |-> NOT_TAKEN, predict_altpred |-> NOT_TAKEN,
   T |-> [i \in 0 .. tnum - 1 |->
            IF i = 0 THEN NewBHTPredictor(T0_log, 2, FALSE)
            ELSE NewGlobalHistoryPredictor(
                   hash_bits, HistoryLengths(tnum, T1ghr_len, alpha)[i],
                   Tn_log, scnt_width, FALSE)],
   useful |-> [i \in 1 .. tnum - 1 |-> [e \in SUBSET (0 .. Tn_log - 1) |-> 0]]]

Tagged(t) == 1 .. t.tnum - 1

TagOf(t, i, addr) == truncate(hash_xor(addr, t.T[i].m_ghr), t.tag_width)

TagMatched(t, addr) ==
  {i \in Tagged(t) : getEntryFromAddr(t.T[i], addr).tag = TagOf(t, i, addr)}

Last(tables) ==
  IF tables = {} THEN 0 ELSE CHOOSE i \in tables : \A j \in tables : j <= i

(***************************************************************************)
(* The last table that matches provides the prediction, the last but one   *)
(* the alternative, T[0] where there is none.                              *)
(***************************************************************************)
TAGEPredicted(t, addr) ==
  LET provider == Last(TagMatched(t, addr))
      altpred == Last(TagMatched(t, addr) \ {provider})
  IN  [t EXCEPT !.provider = provider,
                !.predict_provider = predict(t.T[provider], addr),
                !.predict_altpred = predict(t.T[altpred], addr)]

-----------------------------------------------------------------------------
UsefulVote(u, right) == IF right THEN IF u < 2 THEN u + 1 ELSE u
                        ELSE IF u > 0 THEN u - 1 ELSE u

(***************************************************************************)
(* The provider's entry was useful, or harmful, if the alternative would   *)
(* have predicted otherwise.                                               *)
(***************************************************************************)
WithVote(t, right, addr) ==
  IF t.provider # 0 /\ t.predict_altpred # t.predict_provider
  THEN [t EXCEPT !.useful[t.provider][HistoryIndex(t.T[t.provider], addr)] =
          UsefulVote(@, right)]
  ELSE t

(***************************************************************************)
(* Every rst_period branches all is useless again, but for the last table. *)
(***************************************************************************)
WithReset(t) ==
  IF t.rst_cnt + 1 # t.rst_period
  THEN [t EXCEPT !.rst_cnt = @ + 1]
  ELSE [t EXCEPT !.rst_cnt = 0,
                 !.useful = [i \in Tagged(t) |->
                               IF i < t.tnum - 1
                               THEN [e \in DOMAIN t.useful[i] |-> 0]
                               ELSE t.useful[i]]]

(***************************************************************************)
(* After a wrong prediction every table beyond the provider gives its      *)
(* entry to this branch if the entry is useless, and makes it less useful  *)
(* if not.  The faulty one, for the mutation check, gives useful entries   *)
(* away too.                                                               *)
(***************************************************************************)
WithReplacementOfUseful(t, right, addr) ==
  IF right THEN t
  ELSE [t EXCEPT
         !.T = [i \in DOMAIN t.T |->
                  IF i > t.provider
                  THEN [t.T[i] EXCEPT !.entries[HistoryIndex(t.T[i], addr)] =
                          [@ EXCEPT !.cnt = InitVal(t.T[i].scnt_width),
                                    !.tag = TagOf(t, i, addr)]]
                  ELSE t.T[i]]]

Replaced(t, addr) ==
  {i \in Tagged(t) : /\ i > t.provider
                     /\ t.useful[i][HistoryIndex(t.T[i], addr)] = 0}

WithReplacement(t, right, addr) ==
  IF right THEN t
  ELSE [t EXCEPT
         !.T = [i \in DOMAIN t.T |->
                  IF i \in Replaced(t, addr)
                  THEN [t.T[i] EXCEPT !.entries[HistoryIndex(t.T[i], addr)] =
                          [@ EXCEPT !.cnt = InitVal(t.T[i].scnt_width),
                                    !.tag = TagOf(t, i, addr)]]
                  ELSE t.T[i]],
         !.useful = [i \in Tagged(t) |->
                       IF i > t.provider /\ i \notin Replaced(t, addr)
                       THEN [t.useful[i] EXCEPT
                               ![HistoryIndex(t.T[i], addr)] = @ - 1]
                       ELSE t.useful[i]]]

(***************************************************************************)
(* The provider learns, which shifts its history too unless it is T[0];    *)
(* the other tables only shift theirs.  In the faulty one, for the         *)
(* mutation check, the provider's history is shifted once more.            *)
(***************************************************************************)
WithTrainingShiftsTwice(t, takenActually, addr, target) ==
  LET learnt == [t.T EXCEPT ![t.provider] =
                   update(@, takenActually, addr, target)]
  IN  [t EXCEPT !.T = [i \in DOMAIN t.T |->
                         IF i = 0 THEN learnt[i]
                         ELSE ShiftedGHR(learnt[i], takenActually)]]

WithTraining(t, takenActually, addr, target) ==
  [t EXCEPT !.T = [i \in DOMAIN t.T |->
     IF i = t.provider THEN update(t.T[i], takenActually, addr, target)
     ELSE IF i = 0 THEN t.T[i]
     ELSE ShiftedGHR(t.T[i], takenActually)]]

(***************************************************************************)
(* A faulty update, for the mutation check: the histories are shifted      *)
(* before entries are replaced.                                            *)
(***************************************************************************)
TAGEUpdateTrainsFirst(t, takenActually, addr, target) ==
  LET right == (t.predict_provider # NOT_TAKEN) <=> takenActually
  IN  WithReplacement(
        WithTraining(WithReset(WithVote(t, right, addr)),
                     takenActually, addr, target), right, addr)

TAGEUpdate(t, takenActually, addr, target) ==
  LET right == (t.predict_provider # NOT_TAKEN) <=> takenActually
  IN  WithTraining(
        WithReplacement(WithReset(WithVote(t, right, addr)), right, addr),
        takenActually, addr, target)

=============================================================================
