---------------------------- MODULE MCAgentBuild ----------------------------
EXTENDS AgentBuild, TLC

Llm(name) == [Blank EXCEPT !.name = name, !.uses = "model" :> <<"m">>]
Flow(name, class, subs) == [Blank EXCEPT !.name = name, !.class = class, !.subs = subs]
Inline(doc) == [EmptyEntry EXCEPT !.inline = <<doc>>]
File(path) == [EmptyEntry EXCEPT !.path = path]
Code(name) == [EmptyEntry EXCEPT !.code = name]

A == <<"a">>
B == <<"b">>
SubA == <<"sub", "a">>
SubB == <<"sub", "b">>

Rich == [Llm("rich") EXCEPT
           !.uses = "model_code" :> <<"c">> @@ "tool" :> <<"t", "u">> @@ "skill" :> <<"s">>
                    @@ "beforeAgent" :> <<"h">> @@ "template" :> <<"p">> @@ "schema" :> <<"x">>,
           !.skills = {"k1"}, !.gen = "seed" :> 5 @@ "topK" :> 20]
Written == [Llm("text") EXCEPT !.uses = "model" :> <<"m">> @@ "text" :> <<"">>]
Wide(n) == [Llm("wide") EXCEPT !.gen = "seed" :> n]
Set(mode, calls, cache) == <<[mode |-> mode, calls |-> calls, cache |-> cache]>>
Cache(i, t, k) == <<[intervals |-> i, ttl |-> t, tokens |-> k]>>

MCTop == A
MCYaml == {A, SubA}
\* Trees of inline agents, agents of the registry and files, a file used twice, a file that
\* refers to a neighbour, circles, and every kind of document that is refused
MCDisks ==
  LET one(doc) == A :> doc
  IN  {one(d) : d \in
         { Rich, [Rich EXCEPT !.preload = "complete"], [Rich EXCEPT !.preload = "fast"], Written, Wide(5), Wide(9), Wide(-9),
           Blank, [Llm("w") EXCEPT !.iterations = 1],
           [Llm("w") EXCEPT !.uses = "model" :> <<"m">> @@ "model_code" :> <<"c">>],
           [Llm("w") EXCEPT !.runtime = Set(<<"bidi">>, <<>>, <<>>)],
           [Llm("w") EXCEPT !.runtime = Set(<<"">>, <<0>>, Cache(0, 0, 0))],
           [Llm("w") EXCEPT !.runtime = Set(<<>>, <<-1>>, <<>>)],
           [Llm("w") EXCEPT !.runtime = Set(<<"sse">>, <<>>, Cache(101, 0, 0))],
           Flow("f", "SequentialAgent", <<Inline(Wide(9)), EmptyEntry, Code("r"), Inline(Rich)>>),
           Flow("f", "SequentialAgent", <<Inline(Wide(-9)), Inline([Rich EXCEPT !.gen = "seed" :> 7])>>),
           Flow("f", "ParallelAgent", <<Inline(Flow("g", "LoopAgent", <<Inline(Llm("w")), Code("r")>>)), Inline(Llm("v"))>>),
           [Flow("f", "LoopAgent", <<Inline(Llm("w"))>>) EXCEPT !.iterations = -1],
           [Flow("f", "SequentialAgent", <<Inline(Llm("w"))>>) EXCEPT !.iterations = 1],
           [Flow("f", "LoopAgent", <<>>) EXCEPT !.text = TRUE],
           Flow("f", "SequentialAgent", <<[File(B) EXCEPT !.code = "r"]>>),
           Flow("f", "SequentialAgent", <<File(B)>>) }}
      \cup
      { A :> Flow("f", "SequentialAgent", <<File(B), Code("r"), File(B)>>)
          @@ B :> [Wide(9) EXCEPT !.subs = <<Inline(Llm("v"))>>],
        A :> Flow("f", "SequentialAgent", <<File(SubA)>>)
          @@ SubA :> Flow("g", "LoopAgent", <<File(B)>>) @@ B :> Llm("b") @@ SubB :> Llm("subb"),
        A :> Flow("f", "SequentialAgent", <<File(B)>>) @@ B :> Flow("g", "LoopAgent", <<File(A)>>),
        A :> Flow("f", "SequentialAgent", <<File(B)>>)
          @@ B :> [Llm("b") EXCEPT !.runtime = Set(<<>>, <<-1>>, <<>>)] }
MCMissing == {{}, {"t"}, {"r"}, {"p", "m"}}
================================================================================
