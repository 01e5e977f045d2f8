-------------------------- MODULE MCEventTranslator --------------------------
(***************************************************************************)
(* Model of EventTranslator for TLC.  A root agent and two sub-agents, and *)
(* two answers: enough for a change of author, for two agents at once and  *)
(* for a second answer over what the first one left behind.                *)
(***************************************************************************)
EXTENDS EventTranslator

MCAgents == {"root", "a", "b"}
MCTools == {"ask", "edit", "search"}
MCArgs == <<"p", "q">>

Plan(thought, text, tool, how, long) ==
  [thought |-> thought, text |-> text, tool |-> tool, how |-> how, long |-> long,
   mapped |-> FALSE, anon |-> FALSE]
Mapping(plan) == [plan EXCEPT !.mapped = TRUE]
Anon(plan) == [plan EXCEPT !.anon = TRUE]

\* Text alone and thought alone, both, a text that leads to a call of each
\* kind, streamed or not, a call without a name, one that takes long, calls of one
\* tool that the mapper replaces and that it does not, calls without an id, and a
\* text that repeats itself.
MCPlans ==
  {Plan(<<>>, <<"x", "y">>, "none", "final", FALSE),
   Plan(<<"x", "y">>, <<>>, "none", "final", FALSE),
   Plan(<<"x">>, <<"y">>, "none", "final", FALSE),
   Plan(<<>>, <<"x">>, "ask", "deltas", FALSE),
   Plan(<<"x">>, <<>>, "ask", "bare", TRUE),
   Mapping(Plan(<<>>, <<>>, "edit", "deltas", FALSE)),
   Plan(<<>>, <<"y">>, "edit", "final", FALSE),
   Anon(Plan(<<>>, <<>>, "edit", "deltas", FALSE)),
   Plan(<<>>, <<>>, "search", "final", FALSE),
   Anon(Plan(<<>>, <<>>, "search", "final", FALSE)),
   Plan(<<>>, <<>>, "", "bare", FALSE),
   Plan(<<>>, <<"x", "x">>, "none", "final", FALSE)}

Config(style, steps, suppress, delegate, parallel, errors, limit) ==
  [style |-> style, steps |-> steps, suppress |-> suppress, delegate |-> delegate,
   parallel |-> parallel, errors |-> errors, limit |-> limit]

\* Every way to stream, every option on and off, agents in turns and at once.
MCConfigs ==
  {Config("raw", TRUE, FALSE, FALSE, FALSE, TRUE, 1),
   Config("accumulated", FALSE, FALSE, TRUE, FALSE, TRUE, 0),
   Config("chat", FALSE, TRUE, FALSE, FALSE, TRUE, 0),
   Config("whole", TRUE, TRUE, TRUE, FALSE, FALSE, 0),
   Config("raw", TRUE, FALSE, FALSE, TRUE, FALSE, 0),
   Config("whole", FALSE, TRUE, FALSE, TRUE, FALSE, 0)}

\* A model that streams its thoughts and then its text, or its text and then
\* a call.
MCThinkingPlans ==
  {Plan(<<"x">>, <<"y">>, "none", "final", FALSE),
   Plan(<<>>, <<"x">>, "ask", "bare", FALSE)}
MCThinkingConfigs == {Config("raw", FALSE, FALSE, FALSE, FALSE, FALSE, 0)}

\* A model whose second chunk repeats its first.
MCStutteringPlans == {Plan(<<>>, <<"x", "x", "y">>, "none", "final", FALSE)}

\* Agents at once, one of which fails while another streams a call.
MCFailingPlans == {Plan(<<>>, <<>>, "ask", "deltas", FALSE)}
MCFailingConfigs == {Config("raw", FALSE, FALSE, FALSE, TRUE, TRUE, 0)}
=============================================================================
