---------------------------- MODULE MCEvalService ----------------------------
EXTENDS EvalService

T == "t"
U == "u"
Ans(calls, reply) == [calls |-> calls, reply |-> reply, own |-> TRUE, echo |-> FALSE, inv |-> 0, user |-> None]
Turn(calls, reply) == [user |-> {<<"hi">>}, calls |-> calls, reply |-> reply, rubrics |-> {}]
Case(id, turns) == [id |-> id, turns |-> turns, prompt |-> None]
Scenario(id, prompt) == [id |-> id, turns |-> <<>>, prompt |-> {prompt}]
Metric(name) == [name |-> name, match |-> "EXACT", threshold |-> {500}, rubrics |-> {}]
Trajectory(match, t) == [Metric("tool_trajectory_avg_score") EXCEPT !.match = match, !.threshold = t]
Rubrics(name) == [Metric(name) EXCEPT !.rubrics = {[id |-> "r1", type |-> ""], [id |-> "r2", type |-> ""]}]

\* Votes: k times one label, or one label for each of two rubrics
Labels(labels, k) == [1..k -> {<<[id |-> "", label |-> x]>> : x \in labels}]
RubricLabels(labels, k) == [1..k -> {<<[id |-> "r1", label |-> x], [id |-> "r2", label |-> y]>> : x, y \in labels}]
NoVotes == {<<>>}

Plainly ==
  [suite |-> <<Case("c1", <<Turn(<<T>>, None)>>)>>, agent |-> FALSE, wanted |-> {}, metrics |-> <<Trajectory("EXACT", {Full})>>,
   llm |-> TRUE, parallelism |-> 2, runs |-> 1, answers |-> {Ans(<<T>>, None)}, votes |-> NoVotes, says |-> {},
   invocations |-> 2, simulator |-> "llm_backed", fails |-> FALSE, impatient |-> FALSE, save |-> FALSE, edits |-> {}]

Lists == UNION {[1..n -> {T, U}] : n \in 0..3}
\* Goroutines, a context, an editor and the disk
Concurrent ==
  { [Plainly EXCEPT !.suite = <<Case("c1", <<Turn(<<T>>, None)>>), Case("c2", <<Turn(<<U>>, None)>>), Case("c3", <<>>)>>,
                    !.parallelism = 2, !.save = TRUE, !.fails = f, !.impatient = ~f,
                    !.edits = {[do |-> "delete", case |-> Case("c2", <<>>)], [do |-> "add", case |-> Case("c4", <<>>)]}]
      : f \in BOOLEAN } \cup
  { [Plainly EXCEPT !.wanted = {"c1"}, !.parallelism = 0, !.save = TRUE,
                    !.suite = <<Case("c1", <<Turn(<<T>>, None), Turn(<<U>>, None)>>), Case("c2", <<>>)>>,
                    !.edits = {[do |-> "update", case |-> Case("c1", <<Turn(<<U>>, None)>>)],
                               [do |-> "update", case |-> Case("c9", <<>>)]}] }
\* Trajectories and texts
Compared ==
  { [Plainly EXCEPT !.suite = <<Case("c1", <<Turn(e, None)>>)>>, !.answers = {Ans(a, None) : a \in Lists},
                    !.metrics = <<Trajectory(m, {Full})>>, !.agent = TRUE]
      : e \in {<<>>, <<T>>, <<T, T>>, <<U, T>>}, m \in {"EXACT", "IN_ORDER", "ANY_ORDER"} } \cup
  { [Plainly EXCEPT !.suite = <<Case("c1", <<Turn(<<T>>, {<<"a", "b">>}), [Turn(<<>>, None) EXCEPT !.user = None], Turn(<<U>>, {<<"a">>})>>)>>,
                    !.answers = {Ans(<<T>>, {<<"a">>}), Ans(<<U>>, {<<>>}), Ans(<<>>, None), Ans(<<T>>, {<<"a", "b", "a">>})},
                    !.metrics = ms, !.agent = TRUE, !.runs = r, !.fails = TRUE, !.save = TRUE]
      : r \in 1..2, ms \in {<<>>, <<Metric("response_match_score"), Trajectory("IN_ORDER", {500})>>, <<Trajectory("EXACT", None)>>,
                            <<Metric("safety_v1")>>, <<Metric("response_evaluation_score")>>, <<Metric("unknown")>>} }
\* Judges
OneTurn == <<Case("c1", <<[Turn(<<T>>, None) EXCEPT !.rubrics = {[id |-> "r3", type |-> "TRAJECTORY_QUALITY"]}]>>)>>
TwoTurns == <<Case("c1", <<Turn(<<T>>, None), Turn(<<T>>, None)>>)>>
Judges ==
  { [Plainly EXCEPT !.suite = TwoTurns, !.metrics = <<Metric(n)>>, !.votes = Labels(ls, 2), !.llm = (n # "hallucinations_v1" \/ "half" \in ls)]
      : n \in {"final_response_match_v2", "hallucinations_v1"}, ls \in {{"valid", "invalid", "half"}, {"valid", "unclear", "error"}} } \cup
  { [Plainly EXCEPT !.suite = OneTurn, !.metrics = <<Metric("final_response_match_v2")>>, !.votes = Labels({"valid", "invalid", "unclear"}, 3)] } \cup
  { [Plainly EXCEPT !.suite = OneTurn, !.metrics = <<Rubrics(n)>>, !.votes = RubricLabels({"valid", "invalid", "unclear"}, 2)]
      : n \in {"rubric_based_final_response_quality_v1", "rubric_based_multi_turn_trajectory_quality_v1"} } \cup
  { [Plainly EXCEPT !.suite = OneTurn, !.metrics = <<Metric("rubric_based_tool_use_quality_v1")>>] }
\* Simulated users
Dialogues ==
  { [Plainly EXCEPT !.suite = <<Scenario("c1", p)>>, !.metrics = <<Metric("per_turn_user_simulator_quality_v1")>>,
                    !.answers = {[Ans(<<T>>, None) EXCEPT !.echo = TRUE, !.own = o], Ans(<<>>, {<<"a">>})},
                    !.says = {<<"more">>}, !.votes = Labels({"valid", "invalid"}, 1), !.agent = g, !.impatient = ~g, !.fails = g,
                    !.invocations = n]
      : p \in {<<"hi">>, <<>>}, o \in BOOLEAN, g \in BOOLEAN, n \in {1, 3} } \cup
  { [Plainly EXCEPT !.suite = <<Scenario("c1", <<"hi">>)>>, !.simulator = "other"] }

MCJobs == Concurrent \cup Compared \cup Judges \cup Dialogues
=============================================================================
