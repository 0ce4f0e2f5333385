-------------------------- MODULE MCPredictorSuite --------------------------
(***************************************************************************)
(* The five predictors of main and the TAGEPredictor of its commented      *)
(* lines, with tables of two or four entries, shown three branches.        *)
(***************************************************************************)
EXTENDS PredictorSuite

GHP(ghr_width, entry_num_log, predict_address) ==
  NewGlobalHistoryPredictor(3, ghr_width, entry_num_log, 2, predict_address)

MCPredictors ==
  <<NewBHTPredictor(1, 2, TRUE),
    NewBHTPredictor(1, 1, FALSE),
    GHP(3, 2, FALSE),
    NewTournamentPredictor(NewBHTPredictor(1, 2, TRUE), GHP(2, 1, TRUE), TRUE),
    NewTournamentPredictor(NewBHTPredictor(1, 2, FALSE), GHP(2, 2, FALSE), FALSE),
    NewTAGEPredictor(4, 1, 1, [num |-> 3, den |-> 2], 1, 2, 2, 5, 2)>>

(***************************************************************************)
(* The first and the last branch share the entry of a BHTPredictor and     *)
(* differ in target; the last one's address reaches the folded bits twice. *)
(***************************************************************************)
MCBranches ==
  {[pc |-> {2}, target |-> {4}],
   [pc |-> {3}, target |-> {2}],
   [pc |-> {2, 4}, target |-> {3}]}

=============================================================================
