--------------------------- MODULE EventTranslator ---------------------------
(***************************************************************************)
(* The bridge's run loop and its eventTranslator (src/aguiadk/bridge.go):  *)
(* every event of the ADK runner becomes AG-UI events, and whatever way    *)
(* the loop ends, what is open is closed before the terminal event.        *)
(*                                                                         *)
(* The translator is sequential code over a record, so its methods are     *)
(* operators that take the record and return it; "out" collects the        *)
(* events, which the client then receives one by one.  Texts are sequences *)
(* of letters.  State deltas, activities, custom events, snapshots and     *)
(* usage open no block and are left out.                                   *)
(*                                                                         *)
(* The ADK runner and its model are the environment: agents answer in      *)
(* turns, or several at once, in the ways the models stream.               *)
(***************************************************************************)
EXTENDS Integers, Sequences, SequencesExt, FiniteSets

CONSTANTS
  Agents, Root,  \* authors of ADK events; Root is the agent of the bridge
  NoAgent,
  Tools,         \* names of tools, the built-in one among them
  Nameless,      \* the empty function name
  Builtin,       \* a tool the model's provider executes itself
  ClientTools,   \* those the client executes
  Args,          \* the arguments of a call, as the fragments they stream in
  Plans,         \* what an agent may answer: see PlanType
  Configs,       \* how bridge, model and agents are set up: see ConfigType
  MaxAnswers     \* bound: answers of the agents in a run

Styles == {"raw", "accumulated", "chat", "whole"}

\* limit is MaxIterations, 0 for none; with errors the model may fail.
ConfigType ==
  [steps: BOOLEAN, suppress: BOOLEAN, delegate: BOOLEAN, parallel: BOOLEAN,
   errors: BOOLEAN, style: Styles, limit: Nat]

\* What is thought and said, and the tool called, if any: with its arguments
\* streamed ("deltas"), announced without them ("bare") or only in the final
\* event ("final").  The call is "mapped" if ToolToStateMapper, asked about its name
\* and arguments, replaces it by a state delta, and "anon" if it comes without an id.
PlanType ==
  [thought: Seq(STRING), text: Seq(STRING), tool: Tools \cup {Nameless, "none"},
   how: {"deltas", "bare", "final"}, long: BOOLEAN, mapped: BOOLEAN, anon: BOOLEAN]

ASSUME EventTranslatorAssumption ==
  /\ Root \in Agents /\ NoAgent \notin Agents
  /\ Builtin \in Tools /\ Nameless \notin Tools /\ "none" \notin Tools
  /\ ClientTools \subseteq Tools
  /\ Args \in Seq(STRING) /\ Args # <<>>
  /\ Configs \subseteq ConfigType /\ Plans \subseteq PlanType
  /\ MaxAnswers \in Nat

VARIABLES
  conf,     \* the setup of this run, fixed at the start
  t,        \* the eventTranslator
  turns,    \* turnCount of the run loop
  looping,  \* the run loop goes on
  todo,     \* todo[a]: the events still to come of the answer of a
  asked,    \* the plans of the answers so far; an answer's index is its call id
  clean,    \* no answer has been cut short by an error of the model
  event, count, open, begun, over,  \* the client: see AgUiProtocol
  heard     \* what the client has put together from content events

client == <<event, count, open, begun, over, heard>>
vars == <<conf, t, turns, looping, todo, asked, clean, client>>

Protocol == INSTANCE AgUiProtocol

Base == Protocol!Base
LlmStep == 1
ToolsStep == 2
None == 0

-----------------------------------------------------------------------------
(* The emitters.  A block id of None means there is no such block open.    *)

newEventTranslator ==
  [msg |-> None, prevText |-> <<>>, reasoning |-> None, prevThought |-> <<>>,
   known |-> {}, byName |-> [n \in Tools |-> None],
   started |-> {}, opened |-> {}, hadArgs |-> {},
   step |-> None, author |-> NoAgent, run |-> Base, next |-> 1, out |-> <<>>]

Event(op, kind, id, r, data) ==
  [op |-> op, kind |-> kind, id |-> id, of |-> id, run |-> r, data |-> data]

EmitAll(tr, events) == [tr EXCEPT !.out = @ \o events]
EmitAs(tr, r, op, kind, id, data) == EmitAll(tr, <<Event(op, kind, id, r, data)>>)

\* By activeEmitter, which names the active sub-agent's run, if any.
Emit(tr, op, kind, id, data) == EmitAs(tr, tr.run, op, kind, id, data)

\* An id nobody has used: GenerateMessageID, GenerateToolCallID.
Fresh(tr) == [tr EXCEPT !.next = @ + 1]

CloseText(tr) ==
  IF tr.msg = None THEN tr
  ELSE [Emit(tr, "end", "text", tr.msg, <<>>) EXCEPT !.msg = None, !.prevText = <<>>]

CloseReasoning(tr) ==
  IF tr.reasoning = None THEN tr
  ELSE [Emit(tr, "end", "reasoning", tr.reasoning, <<>>)
          EXCEPT !.reasoning = None, !.prevThought = <<>>]

CloseMessage(tr) == CloseReasoning(CloseText(tr))

\* The order of Go's map iteration is immaterial: each END names its call.
CloseStreamedToolCalls(tr) ==
  LET ids == SetToSeq(tr.opened)
      ends == [i \in 1..Len(ids) |-> Event("end", "tool", ids[i], tr.run, <<>>)]
  IN [EmitAll(tr, ends) EXCEPT !.opened = {}, !.hadArgs = @ \ tr.opened]

StartStep(tr, s) == [Emit(tr, "start", "step", s, <<>>) EXCEPT !.step = s]

CloseStep(tr) ==
  IF tr.step = None THEN tr
  ELSE [Emit(tr, "end", "step", tr.step, <<>>) EXCEPT !.step = None]

\* By the base emitter, as all events of the life of a sub-agent are.
EndSubagent(tr) ==
  IF tr.run = Base THEN tr ELSE EmitAs(tr, Base, "end", "subagent", tr.run, <<>>)

CloseSubagent(tr) == [EndSubagent(tr) EXCEPT !.run = Base, !.author = NoAgent]

\* Fault: a terminal path that forgets the calls still streaming.
CloseAllButCalls(tr) == CloseSubagent(CloseStep(CloseMessage(tr)))

CloseAll(tr) == CloseSubagent(CloseStep(CloseStreamedToolCalls(CloseMessage(tr))))

\* maybeEmitSubagentLifecycle.  subagentEmitted is true whenever a sub-agent
\* is active, so it needs no field.
SubagentLifecycle(tr, author) ==
  IF author = Root THEN CloseSubagent(tr)
  ELSE IF author = tr.author THEN tr
  ELSE LET ended == EndSubagent(tr)
       IN [Fresh(EmitAs(ended, Base, "start", "subagent", tr.next, <<>>))
             EXCEPT !.author = author, !.run = tr.next]

-----------------------------------------------------------------------------
(* Text and thought.                                                       *)

\* Fault: every chunk is taken for a raw delta.
DeltaVerbatim(prev, text) == text

\* What a chunk adds: its rest, if it repeats what came before, else all of it.
Delta(prev, text) ==
  IF IsPrefix(prev, text) THEN SubSeq(text, Len(prev) + 1, Len(text)) ELSE text

Content(tr, kind, id, delta) ==
  IF delta = <<>> THEN tr ELSE Emit(tr, "content", kind, id, delta)

OpenText(tr) ==
  IF tr.msg # None THEN tr
  ELSE [Fresh(Emit(tr, "start", "text", tr.next, <<>>)) EXCEPT !.msg = tr.next, !.prevText = <<>>]

EmitText(tr, text, partial) ==
  LET opened == OpenText(CloseReasoning(tr))
      delta == Delta(opened.prevText, text)
      told == Content(opened, "text", opened.msg, delta)
  IN IF partial THEN [told EXCEPT !.prevText = @ \o delta] ELSE CloseText(told)

OpenReasoning(tr) ==
  IF tr.reasoning # None THEN tr
  ELSE [Fresh(Emit(tr, "start", "reasoning", tr.next, <<>>))
          EXCEPT !.reasoning = tr.next, !.prevThought = <<>>]

EmitThought(tr, text, partial) ==
  LET opened == OpenReasoning(CloseText(tr))
      delta == Delta(opened.prevThought, text)
      told == [Content(opened, "reasoning", opened.reasoning, delta)
                 EXCEPT !.prevThought = @ \o delta]
  IN IF partial THEN told ELSE CloseReasoning(told)

-----------------------------------------------------------------------------
(* Tool calls.  A call is [id, tool, deltas]; its final event has all Args. *)
(* Its id is the number of its answer, also if the event has none to show. *)

ServerSide(tool) == conf.delegate /\ tool \notin ClientTools

Mapped(c) == asked[c.id].mapped
Anonymous(c) == asked[c.id].anon

\* A call without an id gets one that nobody has used, with every event.
Identified(tr, c) == IF Anonymous(c) THEN [c EXCEPT !.id = MaxAnswers + tr.next] ELSE c
Numbered(tr, c) == IF Anonymous(c) THEN Fresh(tr) ELSE tr

\* toolCallIDs: a response finds its call by its id, if it has one, or else by its
\* name.  The client knows the call as "id".
Remember(tr, c, id) ==
  [tr EXCEPT !.known = IF Anonymous(c) THEN @ ELSE @ \cup {id},
             !.byName = IF c.tool = Nameless THEN @ ELSE [@ EXCEPT ![c.tool] = id]]

Noted(tr, c) == Remember(Numbered(tr, c), c, Identified(tr, c).id)

EmitPartialCall(tr, c) ==
  LET announced ==
        IF c.id \in tr.started THEN tr
        ELSE [Emit(tr, "start", "tool", c.id, <<>>)
                EXCEPT !.started = @ \cup {c.id}, !.opened = @ \cup {c.id}]
      fragments ==
        [i \in 1..Len(c.deltas) |-> Event("content", "tool", c.id, tr.run, <<c.deltas[i]>>)]
  IN [EmitAll(announced, fragments)
        EXCEPT !.hadArgs = IF c.deltas = <<>> THEN @ ELSE @ \cup {c.id}]

EndCall(tr, id) ==
  [Emit(tr, "end", "tool", id, <<>>) EXCEPT !.opened = @ \ {id}, !.hadArgs = @ \ {id}]

\* Fault: the final event repeats the arguments that were streamed.
EmitFinalCallAgain(tr, c) ==
  LET announced == IF c.id \in tr.started THEN tr ELSE Emit(tr, "start", "tool", c.id, <<>>)
  IN EndCall(Emit(announced, "content", "tool", c.id, Args), c.id)

EmitFinalCall(tr, c) ==
  LET announced == IF c.id \in tr.started THEN tr ELSE Emit(tr, "start", "tool", c.id, <<>>)
      told == IF c.id \in tr.hadArgs THEN announced
              ELSE Emit(announced, "content", "tool", c.id, Args)
  IN EndCall(told, c.id)

EmitFunctionCall(tr, c, partial) ==
  LET k == Identified(tr, c)
  IN IF conf.suppress /\ (partial \/ Mapped(c)) THEN tr
     ELSE IF ServerSide(c.tool) THEN Noted(tr, c)
     ELSE IF partial THEN EmitPartialCall(Noted(tr, c), k)
     ELSE IF c.tool = Nameless THEN Emit(Numbered(tr, c), "result", "tool", k.id, <<>>)
     ELSE EmitFinalCall(Noted(tr, c), k)

EmitBuiltinToolCall(tr, c) ==
  LET id == Identified(tr, c).id
      announced == Emit(Noted(tr, c), "start", "tool", id, <<>>)
  IN IF ServerSide(c.tool) THEN Noted(tr, c)
     ELSE Emit(Emit(announced, "content", "tool", id, Args), "end", "tool", id, <<>>)

\* Fault: the name is looked up before the id.
CorrelateByName(tr, c) == IF c.tool # Nameless THEN tr.byName[c.tool] ELSE None

\* The id of a call that came without one is none that toolCallIDs has.
Correlate(tr, c) ==
  IF c.id \in tr.known THEN c.id
  ELSE IF c.tool # Nameless THEN tr.byName[c.tool] ELSE None

\* emitFunctionResponse and emitBuiltinToolResponse: the same code.  "of" is the
\* call the tool was run for, whose result the event holds.
EmitResponse(tr, c) ==
  LET id == Correlate(tr, c)
  IN IF id = None THEN tr
     ELSE EmitAll(tr, <<[Event("result", "tool", id, tr.run, <<>>) EXCEPT !.of = c.id]>>)

-----------------------------------------------------------------------------
(* translate.                                                              *)

Has(ev, kind) == \E i \in DOMAIN ev.parts : ev.parts[i].kind = kind

ManageSteps(tr, ev) ==
  IF ~conf.steps THEN tr
  ELSE IF Has(ev, "response") THEN StartStep(CloseStep(tr), LlmStep)
  ELSE IF Has(ev, "call") /\ ~ev.partial THEN StartStep(CloseStep(tr), ToolsStep)
  ELSE IF tr.step = None /\ ~ev.partial THEN StartStep(tr, LlmStep)
  ELSE tr

\* SUBAGENT_ERROR ends the sub-agent's run as SUBAGENT_FINISHED would.
FailSubagent(tr) == CloseAll(tr)

TranslatePart(tr, p, partial) ==
  CASE p.kind = "thought" -> EmitThought(tr, p.text, partial)
    [] p.kind = "text" -> EmitText(tr, p.text, partial)
    [] p.kind = "call" -> EmitFunctionCall(CloseMessage(tr), p.call, partial)
    [] p.kind = "builtinCall" -> EmitBuiltinToolCall(CloseMessage(tr), p.call)
    [] p.kind \in {"response", "builtinResponse"} -> EmitResponse(CloseMessage(tr), p.call)

Translate(tr, ev) ==
  LET ready == ManageSteps(SubagentLifecycle(tr, ev.author), ev)
      after[i \in 0..Len(ev.parts)] ==
        IF i = 0 THEN ready ELSE TranslatePart(after[i - 1], ev.parts[i], ev.partial)
  IN IF ev.failed /\ ev.author # Root THEN FailSubagent(ready) ELSE after[Len(ev.parts)]

-----------------------------------------------------------------------------
(* What the runner yields for an answer of an agent.                       *)

AdkEvent(a, partial, parts) ==
  [author |-> a, partial |-> partial, parts |-> parts,
   complete |-> FALSE, long |-> FALSE, failed |-> FALSE]

Said(kind, text) == IF text = <<>> THEN <<>> ELSE <<[kind |-> kind, text |-> text]>>

\* Chunks of one letter, or all that has been said so far.
Chunks(text) ==
  IF conf.style = "accumulated" THEN [i \in DOMAIN text |-> SubSeq(text, 1, i)]
  ELSE [i \in DOMAIN text |-> <<text[i]>>]

Called(plan, id, deltas) ==
  IF plan.tool = "none" THEN <<>>
  ELSE <<[kind |-> IF plan.tool = Builtin THEN "builtinCall" ELSE "call",
          call |-> [id |-> id, tool |-> plan.tool, deltas |-> deltas]]>>

\* The parts of the partial events.
Streamed(plan, id) ==
  LET Each(kind, text) == [i \in DOMAIN text |-> Said(kind, Chunks(text)[i])]
  IN CASE conf.style = "whole" -> <<>>
       [] conf.style = "chat" -> Each("text", plan.text)
       [] OTHER ->
            Each("thought", plan.thought) \o Each("text", plan.text) \o
            (CASE plan.how = "deltas" -> [i \in DOMAIN Args |-> Called(plan, id, <<Args[i]>>)]
               [] plan.how = "bare" -> <<Called(plan, id, <<>>)>>
               [] plan.how = "final" -> <<>>)

\* The chat completions stream ends without the text it streamed; the other
\* models repeat all of it.
FinalParts(plan, id) ==
  (IF conf.style = "chat" THEN <<>>
   ELSE Said("thought", plan.thought) \o Said("text", plan.text)) \o Called(plan, id, <<>>)

Responded(plan, id) ==
  <<[kind |-> IF plan.tool = Builtin THEN "builtinResponse" ELSE "response",
     call |-> [id |-> id, tool |-> plan.tool, deltas |-> <<>>]]>>

Answer(a, plan, id) ==
  LET partials == Streamed(plan, id)
  IN [i \in DOMAIN partials |-> AdkEvent(a, TRUE, partials[i])] \o
     <<[AdkEvent(a, FALSE, FinalParts(plan, id)) EXCEPT !.complete = TRUE, !.long = plan.long]>> \o
     (IF plan.tool = "none" \/ plan.long THEN <<>>
      ELSE <<AdkEvent(a, FALSE, Responded(plan, id))>>)

Idle == \A a \in Agents : todo[a] = <<>>

Quiet == looping /\ t.out = <<>>

Begin(a, plan) ==
  /\ Quiet
  /\ todo[a] = <<>>
  /\ conf.parallel \/ Idle
  /\ Len(asked) < MaxAnswers
  /\ asked' = Append(asked, plan)
  /\ todo' = [todo EXCEPT ![a] = Answer(a, plan, Len(asked) + 1)]
  /\ heard' = [heard EXCEPT !.text = <<>>, !.thought = <<>>]
  /\ UNCHANGED <<conf, t, turns, looping, clean, event, count, open, begun, over>>

\* The model fails within its answer: an event with an error and no content.
ModelFails(a) ==
  /\ Quiet
  /\ conf.errors
  /\ todo[a] # <<>>
  /\ ~Head(todo[a]).failed
  /\ todo' = [todo EXCEPT ![a] = <<[AdkEvent(a, FALSE, <<>>) EXCEPT !.failed = TRUE]>>]
  /\ clean' = FALSE
  /\ UNCHANGED <<conf, t, turns, looping, asked, client>>

-----------------------------------------------------------------------------
(* The run loop.                                                           *)

Terminal(tr) == EmitAs(CloseAll(tr), Base, "finish", "run", 0, <<>>)

TooMany(n) == conf.limit > 0 /\ n > conf.limit

\* One turn of the loop: translate, count, stop at the limit or at a
\* long-running call, in hand-back, auto-approval and approval alike.
HandleEvent(a) ==
  /\ Quiet
  /\ todo[a] # <<>>
  /\ LET ev == Head(todo[a])
         n == IF ~ev.partial /\ ev.complete THEN turns + 1 ELSE turns
         stop == ev.long \/ TooMany(n)
     IN /\ turns' = n
        /\ looping' = ~stop
        /\ t' = IF stop THEN Terminal(Translate(t, ev)) ELSE Translate(t, ev)
  /\ todo' = [todo EXCEPT ![a] = Tail(@)]
  /\ UNCHANGED <<conf, asked, clean, client>>

RunnerFails ==
  /\ Quiet
  /\ looping' = FALSE
  /\ t' = Terminal(t)
  /\ UNCHANGED <<conf, turns, todo, asked, clean, client>>

RunnerDone ==
  /\ Quiet
  /\ Idle
  /\ looping' = FALSE
  /\ t' = Terminal(t)
  /\ UNCHANGED <<conf, turns, todo, asked, clean, client>>

-----------------------------------------------------------------------------
(* The client takes what comes as it comes.                                *)

Hear(e) ==
  IF e.op # "content" THEN heard
  ELSE CASE e.kind = "text" -> [heard EXCEPT !.text = @ \o e.data]
         [] e.kind = "reasoning" -> [heard EXCEPT !.thought = @ \o e.data]
         [] e.kind = "tool" /\ e.id \in 1..MaxAnswers -> [heard EXCEPT !.args[e.id] = @ \o e.data]
         [] e.kind = "tool" /\ e.id \notin 1..MaxAnswers -> heard

Deliver ==
  /\ t.out # <<>>
  /\ LET e == Head(t.out)
         b == Protocol!Block(e)
     IN /\ event' = e
        /\ open' = CASE e.op = "start" -> open \cup {b}
                     [] e.op = "end" -> open \ {b}
                     [] OTHER -> open
        /\ begun' = IF e.op = "start" THEN begun \cup {b} ELSE begun
        /\ over' = (over \/ e.op = "finish")
        /\ heard' = Hear(e)
  /\ count' = count + 1
  /\ t' = [t EXCEPT !.out = Tail(@)]
  /\ UNCHANGED <<conf, turns, looping, todo, asked, clean>>

-----------------------------------------------------------------------------
Init ==
  /\ conf \in Configs
  /\ t = newEventTranslator
  /\ turns = 0
  /\ looping = TRUE
  /\ todo = [a \in Agents |-> <<>>]
  /\ asked = <<>>
  /\ clean = TRUE
  /\ Protocol!Init
  /\ heard = [text |-> <<>>, thought |-> <<>>, args |-> [id \in 1..MaxAnswers |-> <<>>]]

Next ==
  \/ \E a \in Agents, plan \in Plans : Begin(a, plan)
  \/ \E a \in Agents : ModelFails(a)
  \/ \E a \in Agents : HandleEvent(a)
  \/ RunnerFails
  \/ RunnerDone
  \/ Deliver

Spec == Init /\ [][Next]_vars

-----------------------------------------------------------------------------
(* Properties.                                                             *)

\* Every field of the translator has its type, what is open or streamed was
\* started, and the loop ends with nothing open.
TypeOK ==
  /\ conf \in Configs
  /\ t.msg \in Nat /\ t.reasoning \in Nat /\ t.run \in Nat /\ t.next \in Nat \ {0}
  /\ t.step \in {None, LlmStep, ToolsStep}
  /\ t.author \in (Agents \ {Root}) \cup {NoAgent}
  /\ t.author = NoAgent <=> t.run = Base
  /\ t.hadArgs \subseteq t.opened /\ t.opened \subseteq t.started
  /\ turns \in 0..MaxAnswers /\ Len(asked) <= MaxAnswers
  /\ looping \in BOOLEAN /\ clean \in BOOLEAN /\ over \in BOOLEAN
  /\ over => ~looping

\* What the client receives is a run of the protocol: blocks of every kind
\* open before they go on, close once and are all closed at the end, text and
\* reasoning do not overlap, and events name sub-agents that are there
\* (translate and the exits of the run loop).
ImplementsProtocol == Protocol!Spec

\* No TOOL_CALL_ARGS and no second TOOL_CALL_END come for a call that has
\* ended ("prevents protocol violations", closeStreamedToolCalls).
EndedCallsStayEnded ==
  t.out # <<>> =>
    LET e == Head(t.out)
    IN e.kind = "tool" /\ e.op \in {"content", "end"} => Protocol!Block(e) \in open

\* All that the agents began is done and delivered, in one answer at a time.
Settled == Quiet /\ Idle /\ asked # <<>> /\ clean /\ ~conf.parallel

Latest == asked[Len(asked)]

TextIsWhole == heard.text = Latest.text /\ heard.thought = Latest.thought

\* The client has each answer once, as it was said, when it is done
\* (emitText, emitThought; docs/aguiadk-bridge.md, Text Delta Computation).
TextArrivesOnce == Settled => TextIsWhole

\* Nothing that closes its block comes between a chunk and the final event.
StreamsOneThing(plan) ==
  \/ plan.thought = <<>> /\ plan.text = <<>>
  \/ /\ plan.thought = <<>> \/ plan.text = <<>>
     /\ plan.tool = "none" \/ plan.how = "final"

\* A chunk that repeats all that was said before it is taken for an accumulated
\* text, and dropped; the texts with such a chunk are those that begin so.  If it
\* is not the last one, the final event no longer begins with what was said.
Stutters(text) == Len(text) > 2 /\ text[1] = text[2]

\* The same for the answers the delta computation copes with: those that come
\* whole, and those that stream either thoughts or text, nothing else, and
\* repeat them in the final event.
TextIsFine(plan) ==
  \/ conf.style = "whole"
  \/ /\ StreamsOneThing(plan)
     /\ conf.style = "raw" => ~Stutters(plan.text) /\ ~Stutters(plan.thought)
TextArrivesWhole ==
  Settled /\ conf.style # "chat" /\ TextIsFine(Latest) => TextIsWhole

\* The client has the arguments of a call with an id once, whether they were
\* streamed, came with the final event, or both (emitFunctionCall, hadPartialArgs).
ArgsArriveOnce ==
  Quiet /\ Idle /\ clean =>
    \A id \in 1..Len(asked) :
      [kind |-> "tool", id |-> id] \in begun /\ asked[id].tool # Nameless =>
        heard.args[id] = Args

Suppressed(id) ==
  /\ id \in DOMAIN asked
  /\ conf.suppress /\ asked[id].mapped /\ asked[id].tool # Builtin

\* The client has not heard of the call under an id of its own.
Unknown(id) == Suppressed(id) \/ (id \in DOMAIN asked /\ asked[id].anon)

\* The result of a call the client was told of goes to that call, though others of
\* the same tool came since, of agents that run at once, without an id or replaced by
\* a state delta (emitFunctionResponse, toolCallIDs).
ResultsMatchTheirCalls ==
  \A i \in DOMAIN t.out :
    t.out[i].op = "result" /\ ~Unknown(t.out[i].of) => t.out[i].of = t.out[i].id

\* Not true: a call that a state delta replaced has no result ("their
\* FunctionResponse is naturally skipped", docs/aguiadk-bridge.md); it is given to
\* the last call of the same tool.
SuppressedCallsHaveNoResult ==
  \A i \in DOMAIN t.out : t.out[i].op = "result" => ~Suppressed(t.out[i].of)

\* Not true: a call without an id "proceeds normally"; if it is streamed, each of its
\* events begins another call.
CallsBeginOnce == Cardinality({b \in begun : b.kind = "tool"}) <= Len(asked)
=============================================================================
