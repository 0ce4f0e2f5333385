--------------------------- MODULE PredictorSuite ---------------------------
(***************************************************************************)
(* The branch predictor tool: Pin calls predictBranch for every executed   *)
(* conditional branch, which shows it to every predictor of the list BP    *)
(* in turn and counts how well each of them did.                           *)
(***************************************************************************)
EXTENDS TournamentPredictor, TAGEPredictor, Sequences

CONSTANTS
  Predictors,         \* the list of predictors main builds
  Branches,           \* the branches of the program: records of pc and target
  MaxBranches         \* bound on the number of branches executed

SimplePredictors == {"BHTPredictor", "GlobalHistoryPredictor"}

(***************************************************************************)
(* The predictors with a table in a predictor of the list.                 *)
(***************************************************************************)
Tables(P) ==
  CASE P.class \in SimplePredictors  -> {P}
    [] P.class = "TournamentPredictor" -> {P.BPs[i] : i \in 0 .. 1}
    [] P.class = "TAGEPredictor"     -> {P.T[i] : i \in DOMAIN P.T}

(***************************************************************************)
(* What the constructors make.  The histories of TAGE may have any lengths *)
(* but 0: alpha is left open.                                              *)
(***************************************************************************)
IsNewTable(p) ==
  /\ p.entries_log \in Nat /\ p.scnt_width \in 1 .. 8
  /\ p.predict_address \in BOOLEAN
  /\ \/ p = NewBHTPredictor(p.entries_log, p.scnt_width, p.predict_address)
     \/ /\ p.ghr_width \in Widths /\ p.hash_bits \in Widths
        /\ p = NewGlobalHistoryPredictor(p.hash_bits, p.ghr_width, p.entries_log,
                                         p.scnt_width, p.predict_address)

IsNewTournament(P) ==
  /\ P = NewTournamentPredictor(P.BPs[0], P.BPs[1], P.predict_addr)
  /\ P.predict_addr \in BOOLEAN
  /\ \A i \in 0 .. 1 : IsNewTable(P.BPs[i])

IsNewTAGE(P) ==
  /\ P.tnum \in Nat \ {0} /\ P.tag_width \in Widths /\ P.rst_period \in Nat \ {0}
  /\ DOMAIN P.T = 0 .. P.tnum - 1
  /\ \A i \in DOMAIN P.T :
       /\ IsNewTable(P.T[i])
       /\ IF i = 0 THEN P.T[i].class = "BHTPredictor" ELSE P.T[i].ghr_width > 0
  /\ P = [class |-> "TAGEPredictor", tnum |-> P.tnum, tag_width |-> P.tag_width,
          rst_period |-> P.rst_period, rst_cnt |-> 0, provider |-> 0,
          predict_provider |-> NOT_TAKEN, predict_altpred |-> NOT_TAKEN, T |-> P.T,
          useful |-> [i \in Tagged(P) |-> [e \in Indices(P.T[i]) |-> 0]]]

ASSUME PredictorSuiteAssumption ==
  /\ Predictors \in Seq({Predictors[i] : i \in DOMAIN Predictors})
  /\ \A i \in DOMAIN Predictors :
       LET P == Predictors[i]
       IN  CASE P.class \in SimplePredictors    -> IsNewTable(P)
             [] P.class = "TournamentPredictor" -> IsNewTournament(P)
             [] P.class = "TAGEPredictor"       -> IsNewTAGE(P)
             [] OTHER                           -> FALSE
  /\ Branches \subseteq [pc : SUBSET Nat, target : (SUBSET Nat) \ {NOT_TAKEN, TAKEN}]
  /\ MaxBranches \in Nat

VARIABLES
  BP,                 \* the predictors
  results,            \* the counters of each
  trace               \* the branches executed and what was predicted, for the
                      \* properties only
vars == <<BP, results, trace>>

NoResult ==
  [takenPcCorrect |-> 0, takenPcIncorrect |-> 0, takenCorrect |-> 0,
   takenIncorrect |-> 0, notTakenCorrect |-> 0, notTakenIncorrect |-> 0]

Init ==
  /\ BP = Predictors
  /\ results = [i \in DOMAIN Predictors |-> NoResult]
  /\ trace = <<>>

-----------------------------------------------------------------------------
(***************************************************************************)
(* The virtual calls of predict and update.  predict changes a             *)
(* TAGEPredictor only, so it is split into what changes and the answer.    *)
(***************************************************************************)
Asked(P, pc) == IF P.class = "TAGEPredictor" THEN TAGEPredicted(P, pc) ELSE P

Prediction(P, pc) ==
  CASE P.class \in SimplePredictors    -> predict(P, pc)
    [] P.class = "TournamentPredictor" -> TournamentPredict(P, pc)
    [] P.class = "TAGEPredictor"       -> P.predict_provider

Updated(P, direction, pc, target) ==
  CASE P.class \in SimplePredictors -> update(P, direction, pc, target)
    [] P.class = "TournamentPredictor" ->
         TournamentUpdate(P, direction, pc, target)
    [] P.class = "TAGEPredictor" -> TAGEUpdate(P, direction, pc, target)

One(condition) == IF condition THEN 1 ELSE 0

(***************************************************************************)
(* The counters after a prediction.  A prediction of 1 says taken without  *)
(* a target; the faulty one, for the mutation check, compares it with the  *)
(* target too.                                                             *)
(***************************************************************************)
CountedWithoutTarget(r, prediction, direction, target) ==
  LET hit == prediction # NOT_TAKEN /\ direction
  IN  [r EXCEPT !.takenCorrect = @ + One(hit),
                !.takenPcCorrect = @ + One(hit /\ prediction = target),
                !.takenPcIncorrect = @ + One(hit /\ prediction # target),
                !.takenIncorrect = @ + One(prediction # NOT_TAKEN /\ ~direction),
                !.notTakenIncorrect = @ + One(prediction = NOT_TAKEN /\ direction),
                !.notTakenCorrect = @ + One(prediction = NOT_TAKEN /\ ~direction)]

Counted(r, prediction, direction, target) ==
  LET hit == prediction # NOT_TAKEN /\ direction
      withPc == hit /\ prediction # TAKEN
  IN  [r EXCEPT !.takenCorrect = @ + One(hit),
                !.takenPcCorrect = @ + One(withPc /\ prediction = target),
                !.takenPcIncorrect = @ + One(withPc /\ prediction # target),
                !.takenIncorrect = @ + One(prediction # NOT_TAKEN /\ ~direction),
                !.notTakenIncorrect = @ + One(prediction = NOT_TAKEN /\ direction),
                !.notTakenCorrect = @ + One(prediction = NOT_TAKEN /\ ~direction)]

(***************************************************************************)
(* What an observer notes of a predictor: its answer, and of a tournament  *)
(* the answers of the two sub-predictors.                                  *)
(***************************************************************************)
Answers(P, pc) ==
  IF P.class = "TournamentPredictor"
  THEN <<predict(P.BPs[0], pc), predict(P.BPs[1], pc)>>
  ELSE <<Prediction(P, pc)>>

predictBranch(pc, direction, target) ==
  LET asked == [i \in DOMAIN BP |-> Asked(BP[i], pc)]
  IN  /\ BP' = [i \in DOMAIN BP |-> Updated(asked[i], direction, pc, target)]
      /\ results' = [i \in DOMAIN BP |->
                       Counted(results[i], Prediction(asked[i], pc),
                               direction, target)]
      /\ trace' = Append(trace,
                    [pc |-> pc, taken |-> direction, target |-> target,
                     answers |-> [i \in DOMAIN BP |-> Answers(asked[i], pc)]])

(***************************************************************************)
(* Pin calls predictBranch on the edge taken with TRUE, and behind a       *)
(* branch not taken with FALSE; the target is the branch's in both cases.  *)
(***************************************************************************)
Instruction(branch) ==
  /\ Len(trace) < MaxBranches
  /\ \E direction \in BOOLEAN :
       predictBranch(branch.pc, direction, branch.target)

(***************************************************************************)
(* Fini: the predictor it calls the best one, found on the way through the *)
(* list; 0 if there is none.  (The precisions it compares have the same    *)
(* denominator, the number of branches.)                                   *)
(***************************************************************************)
Precision(i) ==
  IF i = 0 THEN 0 ELSE results[i].takenCorrect + results[i].notTakenCorrect

Fini ==
  LET rank_best[i \in 0 .. Len(results)] ==
        IF i = 0 THEN 0
        ELSE IF Precision(i) > Precision(rank_best[i - 1]) THEN i
        ELSE rank_best[i - 1]
  IN  rank_best[Len(results)]

Next == \E branch \in Branches : Instruction(branch)

Spec == Init /\ [][Next]_vars

-----------------------------------------------------------------------------
AllTables == UNION {Tables(BP[i]) : i \in DOMAIN BP}

TableTypeOK(p) ==
  /\ p.m_ghr \subseteq 0 .. p.ghr_width - 1
  /\ \A e \in Indices(p) : p.entries[e].cnt \in 0 .. 2 ^ p.scnt_width - 1
  /\ DOMAIN p.entries = Indices(p)

(***************************************************************************)
(* Counters, histories and usefulness stay in their ranges, and every      *)
(* predictor was asked once for every branch.                              *)
(***************************************************************************)
TypeOK ==
  /\ \A p \in AllTables : TableTypeOK(p)
  /\ \A i \in DOMAIN BP :
       BP[i].class = "TAGEPredictor" =>
         /\ BP[i].rst_cnt \in 0 .. BP[i].rst_period - 1
         /\ \A j \in Tagged(BP[i]) : \A e \in Indices(BP[i].T[j]) :
              /\ BP[i].useful[j][e] \in 0 .. 2
              /\ BP[i].T[j].entries[e].tag \subseteq 0 .. BP[i].tag_width - 1
  /\ \A i \in DOMAIN BP :
       Len(trace) = results[i].takenCorrect + results[i].takenIncorrect
                      + results[i].notTakenCorrect + results[i].notTakenIncorrect

(***************************************************************************)
(* The last wid outcomes of the first n branches.                          *)
(***************************************************************************)
History(wid, n) == {j \in 0 .. wid - 1 : j < n /\ trace[n - j].taken}

(***************************************************************************)
(* Every history register, alone, in a tournament or in TAGE, holds the    *)
(* outcomes of the last branches, each once, whichever table provided.     *)
(***************************************************************************)
HistoriesAgree ==
  \A p \in AllTables : p.m_ghr = History(p.ghr_width, Len(trace))

(***************************************************************************)
(* The branches that were predicted from entry e of p: those with this     *)
(* index at the history of their time.                                     *)
(***************************************************************************)
IndexAt(p, k) ==
  getTagFromAddr([p EXCEPT !.m_ghr = History(p.ghr_width, k - 1)], trace[k].pc)

BranchesOf(p, e) == {k \in DOMAIN trace : IndexAt(p, k) = e}

Latest(ks, n) == {k \in ks : Cardinality({j \in ks : j > k}) < n}

OutcomesAre(ks, taken) == \A k \in ks : trace[k].taken = taken

(***************************************************************************)
(* An entry predicts a direction after half a counter's range of branches  *)
(* with that outcome, and keeps to it after a single other one if the      *)
(* whole range of branches before agreed.                                  *)
(***************************************************************************)
EntryLearns(p, e) ==
  LET ks == BranchesOf(p, e)
      half == 2 ^ (p.scnt_width - 1)
      all == 2 ^ p.scnt_width - 1
      predictsTaken == isTaken(p.scnt_width, p.entries[e].cnt)
  IN  \A taken \in BOOLEAN :
        /\ Cardinality(ks) >= half /\ OutcomesAre(Latest(ks, half), taken)
             => predictsTaken = taken
        /\ /\ p.scnt_width > 1
           /\ Cardinality(ks) > all
           /\ OutcomesAre(Latest(ks, all + 1) \ Latest(ks, 1), taken)
           => predictsTaken = taken

EntryTargets(p, e) ==
  LET taken == {k \in BranchesOf(p, e) : trace[k].taken}
  IN  p.entries[e].target =
        IF taken = {} THEN {} ELSE trace[Last(taken)].target

(***************************************************************************)
(* A table of a predictor that is not TAGE's, alone or in a tournament, is *)
(* a function of the branches that fell on each entry: it predicts what    *)
(* they have been doing, and the target of the last one taken.             *)
(***************************************************************************)
EntriesFollowOutcomes ==
  \A i \in DOMAIN BP :
    BP[i].class # "TAGEPredictor" =>
      \A p \in Tables(BP[i]) : \A e \in Indices(p) :
        EntryLearns(p, e) /\ EntryTargets(p, e)

-----------------------------------------------------------------------------
(***************************************************************************)
(* Sub-predictor s of tournament i was right, alone was right, about the   *)
(* branch k: about its direction and, in a tournament that predicts        *)
(* targets, where a taken branch went.                                     *)
(***************************************************************************)
RightAt(i, s, k) ==
  LET answer == trace[k].answers[i][s + 1]
  IN  IF BP[i].predict_addr /\ trace[k].taken
      THEN answer = trace[k].target
      ELSE DirectionCorrect(answer, trace[k].taken)

AloneRight(i, s) ==
  {k \in DOMAIN trace : RightAt(i, s, k) /\ ~RightAt(i, 1 - s, k)}

(***************************************************************************)
(* A tournament asks the sub-predictor that was right alone in the last    *)
(* two of the branches of which only one sub-predictor was right.          *)
(***************************************************************************)
ChoosesBetter(i) ==
  LET votes == AloneRight(i, 0) \cup AloneRight(i, 1)
  IN  \A s \in 0 .. 1 :
        Cardinality(votes) >= 2 /\ Latest(votes, 2) \subseteq AloneRight(i, s)
          => Chosen(BP[i]) = s

Tournaments(predict_addr) ==
  {i \in DOMAIN BP : /\ BP[i].class = "TournamentPredictor"
                     /\ BP[i].predict_addr = predict_addr}

DirectionTournamentChoosesBetter ==
  \A i \in Tournaments(FALSE) : ChoosesBetter(i)

(***************************************************************************)
(* The same of a tournament of predictors of targets: lab2.md:31 says that *)
(* a tournament keeps to the sub-predictor with the higher accuracy.       *)
(***************************************************************************)
TargetTournamentChoosesBetter ==
  \A i \in Tournaments(TRUE) : ChoosesBetter(i)

-----------------------------------------------------------------------------
TAGEs == {i \in DOMAIN BP : BP[i].class = "TAGEPredictor"}

Mispredicted(i) ==
  {k \in DOMAIN trace : ~DirectionCorrect(trace[k].answers[i][1], trace[k].taken)}

(***************************************************************************)
(* A tag was computed for a branch that TAGE mispredicted and that indexes *)
(* the entry, both from the history before that branch; or it is still 0.  *)
(***************************************************************************)
TagsFromTrace ==
  \A i \in TAGEs : \A j \in Tagged(BP[i]) :
    LET p == BP[i].T[j]
    IN  \A e \in Indices(p) :
          \/ p.entries[e].tag = {}
          \/ \E k \in BranchesOf(p, e) \cap Mispredicted(i) :
               p.entries[e].tag =
                 truncate(Xor(trace[k].pc, History(p.ghr_width, k - 1)),
                          BP[i].tag_width)

(***************************************************************************)
(* An entry that is of use keeps its owner, but for a branch at which all  *)
(* usefulness is forgotten: one wrong prediction does not take it away.    *)
(***************************************************************************)
UsefulEntriesKept ==
  [][\A i \in TAGEs : \A j \in Tagged(BP[i]) : \A e \in Indices(BP[i].T[j]) :
       BP[i].useful[j][e] > 0 /\ BP'[i].rst_cnt # 0
         => BP'[i].T[j].entries[e].tag = BP[i].T[j].entries[e].tag]_vars

(***************************************************************************)
(* The results of a predictor add up to the branches taken and not taken;  *)
(* one of directions counts no targets, and a BHTPredictor of targets      *)
(* counts one for every taken branch it predicted, but for the first taken *)
(* branch of each entry, when it has no target to predict.  Fini names the *)
(* first of those with the most directions right, unless all were wrong.   *)
(***************************************************************************)
ResultsMatchTrace ==
  /\ \A i \in DOMAIN BP : Precision(i) <= Precision(Fini)
  /\ \A i \in 1 .. Fini - 1 : Precision(i) < Precision(Fini)
  /\ \A i \in DOMAIN BP :
       LET r == results[i]
           taken == {k \in DOMAIN trace : trace[k].taken}
           withTarget(p) ==
             {k \in taken : /\ trace[k].answers[i][1] # NOT_TAKEN
                            /\ \E j \in taken : j < k /\ IndexAt(p, j) = IndexAt(p, k)}
       IN  /\ r.takenCorrect + r.notTakenIncorrect = Cardinality(taken)
           /\ r.takenIncorrect + r.notTakenCorrect
                = Cardinality((DOMAIN trace) \ taken)
           /\ BP[i].class = "BHTPredictor" =>
                r.takenPcCorrect + r.takenPcIncorrect =
                  IF BP[i].predict_address THEN Cardinality(withTarget(BP[i])) ELSE 0

=============================================================================
