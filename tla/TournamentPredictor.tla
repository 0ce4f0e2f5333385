------------------------- MODULE TournamentPredictor -------------------------
(***************************************************************************)
(* TournamentPredictor: two sub-predictors and a saturating counter of two *)
(* bits, the global select-history register, that says which one to ask.   *)
(***************************************************************************)
EXTENDS HistoryPredictors

gshr_width == 2

NewTournamentPredictor(BP0, BP1, predict_addr) ==
  [class |-> "TournamentPredictor",
   BPs |-> [i \in 0 .. 1 |-> IF i = 0 THEN BP0 ELSE BP1],
   gshr |-> InitVal(gshr_width), predict_addr |-> predict_addr]

Chosen(t) == IF isTaken(gshr_width, t.gshr) THEN 1 ELSE 0

TournamentPredict(t, addr) == predict(t.BPs[Chosen(t)], addr)

(***************************************************************************)
(* What update counts as a right prediction: the direction, or, where      *)
(* addresses are predicted, a word equal to the target.                    *)
(***************************************************************************)
DirectionCorrect(prediction, takenActually) ==
  (prediction # NOT_TAKEN) <=> takenActually

Correct(t, i, takenActually, addr, target) ==
  LET prediction == predict(t.BPs[i], addr)
  IN  IF t.predict_addr THEN prediction = target
                        ELSE DirectionCorrect(prediction, takenActually)

(***************************************************************************)
(* A faulty vote, for the mutation check: a predictor that is right wins   *)
(* although the other is right too.                                        *)
(***************************************************************************)
SelectHistoryFirstWins(t, correct1, correct2) ==
  CASE correct1 -> decrease(gshr_width, t.gshr)
    [] ~correct1 /\ correct2 -> increase(gshr_width, t.gshr)
    [] OTHER -> t.gshr

SelectHistory(t, correct1, correct2) ==
  CASE correct1 /\ ~correct2 -> decrease(gshr_width, t.gshr)
    [] ~correct1 /\ correct2 -> increase(gshr_width, t.gshr)
    [] OTHER -> t.gshr

(***************************************************************************)
(* Both are asked before either learns.                                    *)
(***************************************************************************)
TournamentUpdate(t, takenActually, addr, target) ==
  [t EXCEPT
     !.gshr = SelectHistory(t, Correct(t, 0, takenActually, addr, target),
                               Correct(t, 1, takenActually, addr, target)),
     !.BPs = [i \in 0 .. 1 |-> update(t.BPs[i], takenActually, addr, target)]]

=============================================================================
