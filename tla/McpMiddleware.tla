------------------------------ MODULE McpMiddleware ------------------------------
(***************************************************************************)
(* agui's two MCP middlewares around an agent, one run after the other of  *)
(* a conversation.  The first (mcp_middleware.go) runs the agent, answers  *)
(* the calls of MCP tools it left open, and runs it again on the longer    *)
(* conversation; the second (mcp_apps_middleware.go) serves requests the   *)
(* client sends straight to a server, and answers the open calls of UI     *)
(* tools it finds in the input.  Each runs in a goroutine that emits into  *)
(* a bounded channel without a context; ChanToIter reads it.  Agent,       *)
(* client and servers are outside; one invocation of the agent is a Script *)
(* of events whose calls name tools the agent was offered.  The type of an *)
(* event is its Go type: a call may also begin with a TOOL_CALL_CHUNK      *)
(* (callChunk), and what a sub-agent does comes wrapped (emitter.go,       *)
(* ForSubagent): subCallStart, subResult, and subEvent for all the rest.   *)
(***************************************************************************)
EXTENDS McpTools, TLC

CONSTANTS Scripts,        \* [run -> [invocation -> what the agent may say in it]]
          ClientLists,    \* what the client may have as tools in a run: sets of names
          MaxIterations,  \* 32 unless configured
          Capacity,       \* of the channel; 128
          MaxRuns,        \* bound: runs of the conversation
          MaxInvocations  \* bound: invocations of the agent in a run, one more than the code's

\* The agent keeps to AG-UI: an id is that of a call it began before, ids are not used
\* again, a call has one result at most, and what is done for an agent's call is done in that
\* agent's name.  The arguments of a call are one piece here.
Beginnings == {"callStart", "callChunk", "subCallStart"}
Results == {"result", "subResult"}
ScriptOk(s) ==
  /\ \A i \in DOMAIN s :
       /\ s[i].id # 0 => \E j \in 1..i : s[j].type \in Beginnings /\ s[j].id = s[i].id
       /\ s[i].type \in Beginnings \cup Results \cup {"args"} => s[i].id # 0
  /\ \A i, j \in DOMAIN s : s[j].id = s[i].id /\ j # i =>
       /\ \A kind \in {Beginnings, Results, {"args"}} : ~(s[i].type \in kind /\ s[j].type \in kind)
       /\ s[i].type = "callStart" => s[j].type # "subResult"
       /\ s[i].type \in Beginnings \ {"callStart"} => s[j].type # "args"
ASSUME McpAssumption ==
  /\ MaxRuns \in Nat /\ MaxInvocations \in Nat /\ MaxIterations \in Nat
  /\ \A r \in 1..MaxRuns, n \in 1..MaxInvocations : \A s \in Scripts[r][n] : s \in Seq([type : STRING, id : Nat]) /\ ScriptOk(s)

VARIABLES
  mw, pc,       \* which middleware runs, and where it is
  tools,        \* name -> tool, of this run
  input,        \* the messages the client sent: assistant calls and results
  messages,     \* those of the current input
  said,         \* what the agent said in this invocation: its script with ids and names
  heard,        \* how much of it the middleware has taken
  started, finished, \* a RUN_STARTED was passed on; a RUN_FINISHED is held back
  iteration, invocation,
  work,         \* the calls to answer
  emitted,      \* the events put into the channel in this run
  read,         \* how many of them the reader took
  reader,       \* "here", or "gone": it broke the loop or its context ended
  cancelled,
  runs,
  lists,        \* the client's tools of each run: input.Tools
  past          \* history: every call that a server got

runVars == <<mw, input, tools, said, heard, started, finished, iteration, invocation, work>>
ioVars == <<read, reader, cancelled, runs, lists>>
vars == <<listOnce, listed, pc, messages, emitted, past, runVars, ioVars>>

Ev(type, id) == [type |-> type, id |-> id]
Ids(types) == {emitted[i].id : i \in {j \in DOMAIN emitted : emitted[j].type \in types}}
NoId == <<0, 0, 0, "none">>   \* an id: run, invocation, number, and the tool the agent was offered

Init ==
  /\ InitTools /\ mw \in Middlewares /\ pc = "idle" /\ tools = <<>> /\ input = <<>> /\ messages = <<>> /\ said = <<>> /\ heard = 0
  /\ started = FALSE /\ finished = FALSE /\ iteration = 0 /\ invocation = 0 /\ work = <<>>
  /\ emitted = <<>> /\ read = 0 /\ reader = "here" /\ cancelled = FALSE /\ runs = 0
  /\ lists = <<>> /\ past = {}
--------------------------------------------------------------------------------
(* Messages: an assistant's [calls], or the result [answers].              *)
Assistant(calls) == [calls |-> calls, answers |-> NoId]
Result(id) == [calls |-> <<>>, answers |-> id]
\* The calls of a message of another role are none getOpenToolCalls looks at.
Message(role, calls) == Assistant(IF role = "assistant" THEN calls ELSE <<>>)

\* reconstructMessages: one event (RUN_STARTED and RUN_FINISHED, which collectedEvents may
\* lack, are none of those it looks at; nor are chunks and wrapped events).  cur is the
\* message being built, of that role, as a sequence of at most one.
Collect(m, e) ==
  CASE e.type = "textStart" -> [m EXCEPT !.cur = << <<>> >>, !.role = "assistant"]
    [] e.type = "otherTextStart" -> [m EXCEPT !.cur = << <<>> >>, !.role = "other"]
    [] e.type = "callStart" ->
         [m EXCEPT !.cur = << Append(IF m.cur = <<>> THEN <<>> ELSE m.cur[1],
                                     [id |-> e.id, name |-> e.name, args |-> <<>>]) >>,
                   !.role = IF m.cur = <<>> THEN "assistant" ELSE @]
    [] e.type = "args" /\ m.cur # <<>> /\ m.cur # << <<>> >> ->
         [m EXCEPT !.cur = <<[m.cur[1] EXCEPT ![Len(m.cur[1])].args = Append(@, e.id)]>>]
    [] e.type \in {"textEnd", "callEnd"} /\ m.cur # <<>> ->
         [m EXCEPT !.cur = <<>>, !.msgs = Append(@, Message(m.role, m.cur[1]))]
    [] e.type = "result" -> [m EXCEPT !.msgs = Append(@, Result(e.id))]
    [] OTHER -> m
ReconstructMessages(original, events) ==
  LET after[i \in 0..Len(events)] ==
        IF i = 0 THEN [msgs |-> original, cur |-> <<>>, role |-> "assistant"] ELSE Collect(after[i - 1], events[i])
      m == after[Len(events)]
  IN IF m.cur = <<>> THEN m.msgs ELSE Append(m.msgs, Message(m.role, m.cur[1]))

CallsIn(msgs) == FlattenSeq([i \in DOMAIN msgs |-> msgs[i].calls])
AnsweredIn(msgs) == {msgs[i].answers : i \in DOMAIN msgs}
\* Fault: calls that have a result count as open.
AllToolCalls(msgs) == CallsIn(msgs)
GetOpenToolCalls(msgs) ==
  LET calls == CallsIn(msgs) IN Picked(calls, {i \in DOMAIN calls : calls[i].id \notin AnsweredIn(msgs)})
Ours(calls) == Picked(calls, {i \in DOMAIN calls : calls[i].name \in DOMAIN tools})
OpenOnlyOurs(msgs) == \A c \in ToSet(GetOpenToolCalls(msgs)) : c.name \in DOMAIN tools
\* What json.Unmarshal makes of the gathered arguments: those of one call, or none.
Arguments(call) == IF Len(call.args) = 1 THEN call.args[1] ELSE NoId
--------------------------------------------------------------------------------
(* The channel and its reader.                                             *)
Emit(e) == Len(emitted) - read < Capacity /\ emitted' = Append(emitted, e)

\* ChanToIter, and who ranges over it
Read ==
  /\ reader = "here" /\ read < Len(emitted) /\ read' = read + 1
  /\ UNCHANGED <<listOnce, listed, pc, messages, emitted, past, runVars, reader, cancelled, runs, lists>>
Leave ==
  /\ reader = "here" /\ pc \notin {"idle", "done"} /\ reader' = "gone" /\ cancelled' = TRUE
  /\ UNCHANGED <<listOnce, listed, pc, messages, emitted, past, runVars, read, runs, lists>>
--------------------------------------------------------------------------------
(* A run.                                                                  *)

\* The client sends the conversation as it read it, with results for some of its own
\* tools' calls; it may have left in between.
Conversation(answered) ==
  LET seen == SubSeq(emitted, 1, read)
      calls == Picked(seen, {i \in DOMAIN seen : seen[i].type \in Beginnings})
      results == SetToSeq({seen[i].id : i \in {j \in DOMAIN seen : seen[j].type \in Results}} \cup answered)
  IN input \o [i \in DOMAIN calls |-> Assistant(<<[id |-> calls[i].id, name |-> calls[i].name, args |-> <<calls[i].id>>]>>)]
           \o [i \in DOMAIN results |-> Result(results[i])]
ClientCalls ==
  {emitted[i].id : i \in {j \in 1..read : emitted[j].type \in Beginnings /\ emitted[j].name \in lists[runs]}}

StartRun ==
  /\ pc = "idle" \/ (pc = "done" /\ (reader = "gone" \/ read = Len(emitted)))
  /\ runs < MaxRuns /\ runs' = runs + 1
  /\ \E list \in ClientLists : lists' = Append(lists, list)
  /\ \E answered \in SUBSET (ClientCalls \ Ids(Results)) :
       input' = IF pc = "idle" THEN <<>> ELSE Conversation(answered)
  /\ messages' = input'
  /\ pc' \in IF mw = "apps" THEN {"list", "proxy"} ELSE {"list"}
  /\ emitted' = <<>> /\ read' = 0 /\ iteration' = 0 /\ invocation' = 0 /\ started' = FALSE
  /\ tools' = <<>> /\ said' = <<>> /\ heard' = 0 /\ finished' = FALSE /\ work' = <<>>
  /\ reader' = "here" /\ cancelled' = FALSE
  /\ UNCHANGED <<listOnce, listed, mw, past>>

\* resolveTools, fetchUITools; the tools join those of the input
ResolveTools ==
  /\ pc = "list" /\ ListAllTools(mw, cancelled)
  /\ tools' = Resolved(mw, listed'[mw], lists[runs])
  /\ pc' = "invoke"
  /\ UNCHANGED <<messages, emitted, past, mw, input, said, heard, started, finished, iteration, invocation, work, ioVars>>

Meant(name) == IF name \in DOMAIN tools THEN tools[name] ELSE "client"
\* next.Run: the agent answers the input with one of its scripts
Invoke ==
  /\ pc = "invoke" /\ invocation < MaxInvocations /\ invocation' = invocation + 1
  /\ \E s \in Scripts[runs][invocation'] : \E pick \in [{e.id : e \in {s[i] : i \in {j \in DOMAIN s : s[j].type \in Beginnings}}}
                                     -> DOMAIN tools \cup lists[runs]] :
       said' = [i \in DOMAIN s |->
                  [type |-> s[i].type,
                   id |-> IF s[i].id = 0 THEN NoId ELSE <<runs, invocation, s[i].id, Meant(pick[s[i].id])>>,
                   name |-> IF s[i].type \in Beginnings THEN pick[s[i].id] ELSE <<>>]]
  /\ pc' = "agent" /\ heard' = 0 /\ finished' = FALSE
  /\ UNCHANGED <<listOnce, listed, messages, emitted, past, mw, input, tools, started, iteration, work, ioVars>>

\* one event of the agent: passed on, suppressed, or held back
Forward ==
  /\ pc = "agent" /\ heard < Len(said)
  /\ LET e == said[heard + 1] IN
     \/ /\ e.type = "runStarted" /\ started
        /\ heard' = heard + 1 /\ UNCHANGED <<emitted, started, finished, pc>>
     \/ /\ e.type = "runFinished"
        /\ heard' = heard + 1 /\ finished' = TRUE /\ UNCHANGED <<emitted, started, pc>>
     \/ /\ e.type \in {"runError", "agentError"}
        /\ Emit(Ev("runError", NoId)) /\ pc' = "done" /\ heard' = heard + 1 /\ UNCHANGED <<started, finished>>
     \/ /\ e.type \notin {"runError", "agentError", "runFinished"} /\ ~(e.type = "runStarted" /\ started)
        /\ Emit(e) /\ started' = (started \/ e.type = "runStarted")
        /\ heard' = heard + 1 /\ UNCHANGED <<finished, pc>>
  /\ UNCHANGED <<listOnce, listed, messages, past, mw, input, tools, said, iteration, invocation, work, ioVars>>

\* Fault: no limit on the rounds.
GoOnForEver(i) == TRUE
MayGoOn(i) == i <= MaxIterations
\* the agent is done: the calls to answer are those it left open (mcp) or those the input has
\* (apps); there may be none, or the rounds may be used up
Decide ==
  /\ pc = "agent" /\ heard = Len(said)
  /\ messages' = IF mw = "mcp" THEN ReconstructMessages(messages, said) ELSE messages
  /\ \E open \in {GetOpenToolCalls(messages')} : work' = Ours(open)
  /\ iteration' = IF mw = "mcp" /\ work' # <<>> THEN iteration + 1 ELSE iteration
  /\ pc' = IF work' = <<>> \/ (mw = "mcp" /\ ~MayGoOn(iteration')) THEN "flush" ELSE "execute"
  /\ said' = <<>> /\ heard' = 0
  /\ UNCHANGED <<listOnce, listed, emitted, past, mw, input, tools, started, finished, invocation, ioVars>>

\* CallMCPTool, for all calls at once (mcp; the results are kept by index and awaited) or one
\* after the other as they are emitted (apps): it connects, calls and closes.  Nothing is
\* reached under a cancelled context; a call that fails gives a result all the same.
Reached == \E some \in SUBSET DOMAIN work :
  /\ cancelled => some = {}
  /\ past' = past \cup {[run |-> runs, id |-> work[i].id, tool |-> tools[work[i].name],
                          args |-> Arguments(work[i])] : i \in some}
Execute ==
  /\ pc = "execute" /\ Reached /\ pc' = "results"
  /\ UNCHANGED <<listOnce, listed, messages, emitted, runVars, ioVars>>

\* a result is emitted and, by the first middleware, joins the conversation; the second
\* adds an ACTIVITY_SNAPSHOT
EmitResult ==
  /\ pc = "results" /\ work # <<>>
  /\ Emit(Ev("result", work[1].id))
  /\ messages' = IF mw = "mcp" THEN Append(messages, Result(work[1].id)) ELSE messages
  /\ IF mw = "apps" THEN pc' = "snapshot" /\ UNCHANGED work ELSE work' = Tail(work) /\ UNCHANGED pc
  /\ UNCHANGED <<listOnce, listed, past, mw, input, tools, said, heard, started, finished, iteration, invocation, ioVars>>
EmitSnapshot ==
  /\ pc = "snapshot" /\ Emit(Ev("snapshot", work[1].id)) /\ work' = Tail(work) /\ pc' = "results"
  /\ UNCHANGED <<listOnce, listed, messages, past, mw, input, tools, said, heard, started, finished, iteration, invocation, ioVars>>

\* another round, unless a call is left that only the client can answer
Continue ==
  /\ pc = "results" /\ work = <<>>
  /\ pc' = IF mw = "mcp" /\ OpenOnlyOurs(messages) THEN "invoke" ELSE "flush"
  /\ UNCHANGED <<listOnce, listed, messages, emitted, past, runVars, ioVars>>

\* the RUN_FINISHED held back, if there was one; the channel is closed
Flush ==
  /\ pc = "flush" /\ pc' = "done"
  /\ IF finished THEN Emit(Ev("runFinished", NoId)) ELSE UNCHANGED emitted
  /\ UNCHANGED <<listOnce, listed, messages, past, runVars, ioVars>>

\* handleProxiedRequest: RUN_STARTED; then RUN_FINISHED, whether the server is known by id or
\* hash or not, whatever ExecuteMCPRequest makes of the method, and whatever the server answers
ProxyStart ==
  /\ pc = "proxy" /\ Emit(Ev("runStarted", NoId)) /\ pc' = "proxied"
  /\ UNCHANGED <<listOnce, listed, messages, past, runVars, ioVars>>
ProxyFinish ==
  /\ pc = "proxied" /\ Emit(Ev("runFinished", NoId)) /\ pc' = "done"
  /\ UNCHANGED <<listOnce, listed, messages, past, runVars, ioVars>>

Middleware == ResolveTools \/ Invoke \/ Forward \/ Decide \/ Execute \/ EmitResult \/ EmitSnapshot
              \/ Continue \/ Flush \/ ProxyStart \/ ProxyFinish
Next == StartRun \/ Middleware \/ Read \/ Leave

\* The goroutine and its reader are scheduled; agents and servers answer (or their errors do).
Spec == Init /\ [][Next]_vars /\ WF_vars(Middleware) /\ WF_vars(Read)
--------------------------------------------------------------------------------
(* Properties                                                              *)

Position(types, id) == CHOOSE i \in DOMAIN emitted : emitted[i].type \in types /\ emitted[i].id = id
Count(types, id) == Cardinality({i \in DOMAIN emitted : emitted[i].type \in types /\ emitted[i].id = id})
\* A call that was begun, and not followed by its arguments at once.
Overlapping ==
  \E i \in DOMAIN emitted :
    /\ emitted[i].type = "callStart"
    /\ ~(i < Len(emitted) /\ emitted[i + 1].type = "args" /\ emitted[i + 1].id = emitted[i].id)
\* A text that was begun within a call, or a call within a text of another role.
Interrupted ==
  \E i, j \in DOMAIN emitted :
    /\ i < j /\ <<emitted[i].type, emitted[j].type>> \in
         {<<"callStart", "textStart">>, <<"callStart", "otherTextStart">>, <<"otherTextStart", "callStart">>}
    /\ \A k \in i..j : emitted[k].type \notin {"callEnd", "textEnd"}
\* When the first middleware ends a run, of its own accord, no call of an MCP tool that began
\* as one of these is left without its result.
AllExecuted(types) ==
  (pc = "done" /\ mw = "mcp" /\ Count({"runFinished"}, NoId) = 1 /\ iteration <= MaxIterations) =>
    \A i \in DOMAIN emitted : emitted[i].type \in types /\ emitted[i].name \in DOMAIN tools
       => emitted[i].id \in Ids(Results)

\* What the client sees of a run, however many times the agent was run for it, is one
\* run: one RUN_STARTED, nothing after the end, a result only for a call that is known
\* and never a second one.  And when the first middleware ends a run before its rounds
\* are used up, no call of an MCP tool that the agent itself began with a TOOL_CALL_START
\* is left without its result, as long as no text is begun within a call and no call within
\* another role's text.  Nor is the agent ever run again while such a call is open that the
\* client has to answer.
CallsAnsweredOnce ==
  /\ Count({"runStarted"}, NoId) <= 1 /\ Count({"runFinished", "runError"}, NoId) <= 1
  /\ \A i \in DOMAIN emitted : emitted[i].type \in {"runFinished", "runError"} => i = Len(emitted)
  /\ \A id \in Ids(Results) : Count(Results, id) = 1
       /\ (id[1] = runs => Position(Beginnings, id) < Position(Results, id))
  /\ ~Interrupted => AllExecuted({"callStart"})
  /\ pc = "invoke" /\ invocation > 0 => GetOpenToolCalls(messages) = <<>>

\* A call that reaches a server reaches the tool the agent was offered under that name, be it in
\* a later run, as long as the client has the same tools then as when the call was made (the
\* second middleware does not mind); and with the arguments of that very call, as long as the
\* arguments of each call follow its start at once.
CallsReachTheirTool ==
  \A c \in past : /\ mw = "apps" \/ lists[c.run] = lists[c.id[1]] => c.tool = c.id[4]
                  /\ c.run = runs /\ ~(c.id[1] = runs /\ Overlapping) => c.args = c.id

\* A call reaches the tool it was made for, or the client whose tool it is (docs/agui-mcp.md:107-110),
\* whatever the client's tools are in the run that answers it.  Violated: the names are made per run
\* (mcp_middleware.go:51, 95-112).
NamesAreKept == \A c \in past : c.tool = c.id[4]

\* "After your agent emits tool call events, executes the MCP calls server-side"
\* (docs/agui-mcp.md): also when a text begins within one, when a sub-agent makes it, or when
\* it comes as a chunk.  Violated.
EveryCallIsExecuted == AllExecuted(Beginnings)

\* As long as someone reads, every run comes to its end.
RunEnds == (pc = "list" \/ pc = "proxy") ~> (pc = "done" \/ reader = "gone")
================================================================================
