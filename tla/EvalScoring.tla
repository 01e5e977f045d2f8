----------------------------- MODULE EvalScoring -----------------------------
(***************************************************************************)
(* What the evaluators of src/eval conclude from the invocations of one    *)
(* case: tool trajectories, unigram overlap, and the votes of a judge      *)
(* model, taken several times for each invocation and then aggregated.     *)
(*                                                                         *)
(* A pointer is a set of at most one value; a score is a number of thou-   *)
(* sandths.  A metric, an invocation and a vote are records, and a vote is *)
(* the sequence of the verdicts in one answer of the judge.  An evaluator  *)
(* is modelled by its overall status.                                      *)
(***************************************************************************)
EXTENDS Integers, SequencesExt, FiniteSetsExt

Full == 1000
None == {}
Value(pointer) == CHOOSE v \in pointer : TRUE

\* The status of sum / of
GetEvalStatus(sum, of, threshold) ==
  IF threshold = None THEN "NOT_EVALUATED" ELSE IF sum >= Value(threshold) * of THEN "PASSED" ELSE "FAILED"

\* The average of the scores that are there
Average(score, threshold) ==
  LET known == {x \in DOMAIN score : score[x] # None}
  IN  IF known = {} THEN "NOT_EVALUATED"
      ELSE GetEvalStatus(MapThenSumSet(LAMBDA x : Value(score[x]), known), Cardinality(known), threshold)

-----------------------------------------------------------------------------
(* Without a judge                                                         *)

CompareExact(actual, expected) == actual = expected

CompareInOrder(actual, expected) ==
  LET seen[i \in 0..Len(actual)] ==
        IF i = 0 THEN 0
        ELSE LET before == seen[i - 1]
             IN  IF before < Len(expected) /\ actual[i] = expected[before + 1] THEN before + 1 ELSE before
  IN  seen[Len(actual)] = Len(expected)

\* Fault: one call counts for several expected ones
AnyOrderReuses(actual, expected) == \A j \in DOMAIN expected : \E i \in DOMAIN actual : actual[i] = expected[j]

\* Each expected call takes the first equal call that is not taken yet
CompareAnyOrder(actual, expected) ==
  LET used[j \in 0..Len(expected)] ==
        IF j = 0 THEN {}
        ELSE LET before == used[j - 1]
                 free == {i \in DOMAIN actual \ before : actual[i] = expected[j]}
             IN  IF free = {} THEN before ELSE before \cup {Min(free)}
  IN  Cardinality(used[Len(expected)]) = Len(expected)

Matches(match, actual, expected) ==
  \/ expected = <<>> /\ actual = <<>>
  \/ expected # <<>> /\ CASE match = "IN_ORDER"  -> CompareInOrder(actual, expected)
                          [] match = "ANY_ORDER" -> CompareAnyOrder(actual, expected)
                          [] OTHER               -> CompareExact(actual, expected)

TrajectoryEvaluator(m, actual, expected) ==
  Average([i \in DOMAIN actual \cap DOMAIN expected |->
             IF Matches(m.match, actual[i].calls, expected[i].calls) THEN {Full} ELSE {0}], m.threshold)

Words(text) == {text[i] : i \in DOMAIN text}
Count(text, w) == Cardinality({i \in DOMAIN text : text[i] = w})
Overlap(a, b) == MapThenSumSet(LAMBDA w : Min({Count(a, w), Count(b, w)}), Words(b))

\* The F-measure of the shared words, rounded to thousandths
Rouge1Score(candidate, reference) ==
  IF candidate = <<>> /\ reference = <<>> THEN Full
  ELSE IF candidate = <<>> \/ reference = <<>> THEN 0
  ELSE LET words == Len(candidate) + Len(reference)
       IN  (4 * Full * Overlap(candidate, reference) + words) \div (2 * words)

RougeEvaluator(m, actual, expected) ==
  LET textOf(reply) == IF reply = None THEN <<>> ELSE Value(reply)
  IN  Average([i \in {j \in DOMAIN actual \cap DOMAIN expected : expected[j].reply # None} |->
                 {Rouge1Score(textOf(actual[i].reply), textOf(expected[i].reply))}], m.threshold)

-----------------------------------------------------------------------------
(* With a judge                                                            *)

RubricType == [rubric_based_final_response_quality_v1 |-> "FINAL_RESPONSE_QUALITY",
               rubric_based_tool_use_quality_v1 |-> "TOOL_USE_QUALITY",
               rubric_based_multi_turn_trajectory_quality_v1 |-> "TRAJECTORY_QUALITY"]

\* The rubrics a verdict may be about: only the multi-turn evaluator asks for the invocation's own
EffectiveRubrics(m, inv) ==
  LET ids == {r.id : r \in m.rubrics}
  IN  ids \cup (IF m.name # "rubric_based_multi_turn_trajectory_quality_v1" THEN {}
                ELSE {r.id : r \in {x \in inv.rubrics : x.type = RubricType[m.name]}})

IsRubric(m) == m.name \in DOMAIN RubricType
Subjects(m, inv) == IF IsRubric(m) THEN EffectiveRubrics(m, inv) ELSE {""}

\* The places in a list of votes whose verdict on a subject is the label
Marks(votes, subject, label) ==
  UNION {{<<s, b>> : b \in {x \in DOMAIN votes[s] : votes[s][x].id = subject /\ votes[s][x].label = label}} : s \in DOMAIN votes}

\* More votes for than against; against when any is, and otherwise unclear
Majority(votes, subject) ==
  LET positive == Cardinality(Marks(votes, subject, "valid"))
      negative == Cardinality(Marks(votes, subject, "invalid"))
  IN  IF positive > negative THEN {Full} ELSE IF negative > 0 THEN {0} ELSE None

\* defaultAggregateSamples: the first sample with a score, which is the share of supported sentences
Share == [valid |-> {Full}, half |-> {Full \div 2}, invalid |-> {0}, unclear |-> None]
FirstScore(votes) ==
  LET known == {s \in DOMAIN votes : Share[votes[s][1].label] # None}
  IN  IF known = {} THEN None ELSE Share[votes[Min(known)][1].label]

Aggregate(m, votes, subject) == IF m.name = "hallucinations_v1" THEN FirstScore(votes) ELSE Majority(votes, subject)

\* A call of the judge fails, or of the model that splits an answer into sentences
Broken(votes) == \E s \in DOMAIN votes : \E b \in DOMAIN votes[s] : votes[s][b].label = "error"

\* LlmAsJudgeEvaluator.EvaluateInvocations for the turns given: a call that fails ends it
LlmAsJudge(m, turns, actual, votes) ==
  IF \E i \in turns : Broken(votes[i]) THEN "ERROR"
  ELSE Average([x \in UNION {{<<i, r>> : r \in Subjects(m, actual[i])} : i \in turns} |->
                  Aggregate(m, votes[x[1]], x[2])], m.threshold)

\* The turns a metric has judged: the expected ones, the last of a trajectory, or all
Turns(m, actual, expected) ==
  CASE m.name = "final_response_match_v2" -> DOMAIN actual \cap DOMAIN expected
    [] m.name = "rubric_based_multi_turn_trajectory_quality_v1" -> {Len(actual)} \ {0}
    [] OTHER -> DOMAIN actual

\* PerTurnUserSimulatorQualityV1Evaluator: the first message is compared, the others and the stop are
\* judged, and a stop that fails takes the place of the last turn
PerTurnQuality(m, actual, prompt, votes) ==
  LET n == Len(actual)
      first == IF actual[1].user = None THEN None ELSE IF actual[1].user = prompt THEN {Full} ELSE {0}
      passes(score) == score # None /\ GetEvalStatus(Value(score), 1, m.threshold) = "PASSED"
      stop == Majority(votes[n + 1], "")
      lost == IF stop # None /\ m.threshold # None /\ ~passes(stop) THEN {n} ELSE {}
      score(i) == IF i = 1 THEN first ELSE Majority(votes[i], "")
  IN  IF prompt = None THEN "ERROR"
      ELSE IF n = 0 THEN ""
      ELSE IF \E i \in 2..(n + 1) : Broken(votes[i]) THEN "ERROR"
      ELSE GetEvalStatus(MapThenSumSet(LAMBDA i : Value(score(i)), {i \in (1..n) \ lost : passes(score(i))}), n, m.threshold)

-----------------------------------------------------------------------------
(* The registry                                                            *)

Plain == {"tool_trajectory_avg_score", "response_match_score", "response_evaluation_score", "safety_v1",
          "multi_turn_task_success_v1", "multi_turn_trajectory_quality_v1", "multi_turn_tool_use_quality_v1"}
NeedsLLM == DOMAIN RubricType \cup {"final_response_match_v2", "hallucinations_v1", "per_turn_user_simulator_quality_v1"}

GetEvaluator(m, llm) ==
  /\ m.name \in Plain \cup (IF llm THEN NeedsLLM ELSE {})
  /\ IsRubric(m) => m.rubrics # {}

\* EvaluateInvocations of the metric's evaluator; those that need Vertex AI evaluate nothing
EvaluateInvocations(m, llm, actual, expected, prompt, votes) ==
  IF ~GetEvaluator(m, llm) THEN "ERROR"
  ELSE CASE m.name = "tool_trajectory_avg_score" -> TrajectoryEvaluator(m, actual, expected)
         [] m.name = "response_match_score" -> RougeEvaluator(m, actual, expected)
         [] m.name = "per_turn_user_simulator_quality_v1" -> PerTurnQuality(m, actual, prompt, votes)
         [] m.name \in NeedsLLM \ {"per_turn_user_simulator_quality_v1"} -> LlmAsJudge(m, Turns(m, actual, expected), actual, votes)
         [] OTHER -> "NOT_EVALUATED"
=============================================================================
