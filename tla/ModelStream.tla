------------------------------ MODULE ModelStream ------------------------------
(***************************************************************************)
(* One call of a language model as the adapters of src/model hand it to    *)
(* the agent: the provider says its answer line by line, the parser of the *)
(* adapter reads it and yields responses, the consumer may leave its loop, *)
(* the context may be cancelled and the connection may break.  The three   *)
(* APIs: "chat" (openai/stream.go), "responses"                            *)
(* (openai/responses_stream.go) and "messages" (anthropic/stream.go).      *)
(*                                                                         *)
(* What the provider is about to say is a plan: a sequence of items, each  *)
(* said in bits (the deltas of a text, the fragments of a call's           *)
(* arguments).  Bit k of item i is the pair <<i, k>>.                      *)
(***************************************************************************)
EXTENDS Integers, Sequences, FiniteSets, SequencesExt

CONSTANTS Plans,    \* sequences of [kind, bits, json, named]
          Apis      \* subset of {"chat", "responses", "messages"}

\* The empty text is no JSON.
ASSUME PlansAssumption ==
  \A p \in Plans : /\ DOMAIN p = 1..Len(p) /\ Len(p) \in Nat
                    /\ \A i \in DOMAIN p : p[i].bits \in Nat /\ (p[i].kind = "call" /\ p[i].json => p[i].bits > 0)

VARIABLES api, plan,
          sent,       \* item -> bits said so far; -1 before it starts, bits + 1 once closed
          finish,     \* "": still answering; then the reason the provider gave for ending
          acc,        \* the parser's accumulators in order of first appearance
          got,        \* the responses yielded
          pc,         \* "idle", "reading", "left", "deaf", "panicked", "done"
          cancelled

streamVars == <<api, plan, sent, finish, acc, got, pc, cancelled>>

Items == DOMAIN plan
NilArgs == << <<0, 0>> >>        \* a nil map[string]any
Bits(i, n) == [k \in 1..n |-> <<i, k>>]
IsCall(i) == plan[i].kind = "call"

\* json.Unmarshal of what was gathered of item i's arguments
Args(i, bits) == IF bits # <<>> /\ bits = Bits(i, plan[i].bits) /\ plan[i].json
                 THEN bits ELSE NilArgs
Unparseable(i, bits) == bits # <<>> /\ Args(i, bits) = NilArgs
\* what s has at the places kept, in its order
Sift(s, places) ==
  LET f[n \in 0..Len(s)] == IF n = 0 THEN <<>> ELSE IF n \in places THEN Append(f[n - 1], s[n]) ELSE f[n - 1]
  IN f[Len(s)]
Part(i, bits) == [kind |-> plan[i].kind, item |-> i, bits |-> bits]

--------------------------------------------------------------------------------
(* Responses.  A terminal one has a flag other than "delta" and "final".   *)

Response(flag, parts, reason) == [flag |-> flag, parts |-> parts, reason |-> reason]
Delta(parts) == Response("delta", parts, "")               \* Partial
Interrupted == Response("interrupted", <<>>, "")
Error == Response("error", <<>>, "")
Reading == pc \in {"reading", "deaf"}

\* yield and go on, unless the consumer left its loop.  The text deltas of the
\* messages parser do not look at what yield returned, and the yield after that
\* one makes the runtime panic.
YieldTo(r, afterLeaving) ==
  IF pc = "deaf" THEN pc' = "panicked" /\ UNCHANGED got
  ELSE got' = Append(got, r) /\ pc' \in {"reading", afterLeaving}
Yield(r) == YieldTo(r, "left")
YieldUnseen(r) == YieldTo(r, "deaf")
YieldLast(r) ==
  IF pc = "deaf" THEN pc' = "panicked" /\ UNCHANGED got
  ELSE got' = Append(got, r) /\ pc' = "done"
Silent == UNCHANGED <<got, pc>>

\* translateFinishReason of openai/translate.go and of anthropic/translate.go, and
\* responsesFinishReason, where "none" stands for no incomplete_details
ChatFinishReason == [stop |-> "STOP", tool_calls |-> "STOP", length |-> "MAX_TOKENS", content_filter |-> "SAFETY"]
MessagesFinishReason == [end_turn |-> "STOP", tool_use |-> "STOP", max_tokens |-> "MAX_TOKENS", refusal |-> "SAFETY"]
ResponsesFinishReason == [none |-> "STOP", max_output_tokens |-> "MAX_TOKENS", content_filter |-> "SAFETY"]

--------------------------------------------------------------------------------
(* What the provider may say next                                          *)

\* the provider's own reasons: the answer is whole, or it was cut
WholeReasons == {"stop", "tool_calls", "end_turn", "tool_use", "none"}
HasCall == \E i \in Items : IsCall(i)
Reasons ==
  CASE api = "chat"      -> {IF HasCall THEN "tool_calls" ELSE "stop", "length", "content_filter"}
    [] api = "responses" -> {"none", "max_output_tokens", "content_filter"}
    [] OTHER             -> {IF HasCall THEN "tool_use" ELSE "end_turn", "max_tokens", "refusal"}
Finished == finish \in WholeReasons

Closed(i) == IF api = "chat" THEN sent[i] >= plan[i].bits ELSE sent[i] > plan[i].bits
MayStart(i) ==
  /\ sent[i] = -1 /\ finish = ""
  /\ \A j \in 1..(i - 1) : \/ Closed(j)
                           \/ sent[j] >= 0 /\ IsCall(j) /\ IsCall(i) /\ api # "messages"
MaySay(i) == sent[i] \in 0..(plan[i].bits - 1) /\ finish = ""
MayClose(i) == sent[i] = plan[i].bits /\ finish = ""
MayFinish(why) == /\ finish = "" /\ why \in Reasons
                  /\ IF why \in WholeReasons THEN \A i \in Items : Closed(i)
                     ELSE \E i \in Items : sent[i] >= 0 /\ ~Closed(i)

Begin(a, p) ==
  /\ api' = a /\ plan' = p /\ sent' = [i \in DOMAIN p |-> -1] /\ finish' = ""
  /\ acc' = <<>> /\ got' = <<>> /\ pc' = "reading"

\* a line of api a is read that moves item i on; after a cancellation every parser
\* looks at ctx.Err before the line
Live(a) == api = a /\ Reading /\ ~cancelled
Moves(i) == /\ sent' = [sent EXCEPT ![i] = @ + 1]
            /\ UNCHANGED <<api, plan, finish, cancelled>>

\* accumulators: a call's or a block's, by index, in order of first appearance
NewAccumulator(i) == acc' = Append(acc, [item |-> i, bits |-> <<>>])
\* Fault: the last call started gets whatever comes.
GatherLast(e, i, bit) == IF e = acc[Len(acc)] THEN [e EXCEPT !.bits = Append(@, bit)] ELSE e
Gather(e, i, bit) == IF e.item = i THEN [e EXCEPT !.bits = Append(@, bit)] ELSE e
Accumulate(i, bit) == acc' = [k \in DOMAIN acc |-> Gather(acc[k], i, bit)]

\* all that was gathered so far is shown with every delta
ShownGrowing(i, bit) == Part(i, Bits(i, bit[2]))
\* singlePartResponse, and what the other two parsers build in place
Shown(i, bit) == Part(i, <<bit>>)

--------------------------------------------------------------------------------
(* chat: every chunk with a choice yields a response, often an empty one   *)

\* a role chunk before a text, or the first chunk of a call
ChatStart(i) ==
  /\ Live("chat") /\ MayStart(i)
  /\ IF IsCall(i) THEN NewAccumulator(i) ELSE UNCHANGED acc
  /\ Yield(Delta(<<>>))
  /\ Moves(i)

ChatBit(i) ==
  /\ Live("chat") /\ MaySay(i)
  /\ LET bit == <<i, sent[i] + 1>>
     IN /\ Accumulate(i, bit)
        /\ Yield(Delta(IF IsCall(i) THEN <<>> ELSE <<Shown(i, bit)>>))
  /\ Moves(i)

\* the accumulated calls; those whose arguments do not parse are left out
ChatCalls ==
  LET kept == Sift(acc, {k \in DOMAIN acc : ~Unparseable(acc[k].item, acc[k].bits)})
  IN [k \in DOMAIN kept |-> Part(kept[k].item, Args(kept[k].item, kept[k].bits))]

\* the chunk with a finish_reason carries the calls
ChatFinish(why) ==
  /\ Live("chat") /\ MayFinish(why)
  /\ finish' = why
  /\ Yield(Response("final", ChatCalls, ChatFinishReason[why]))
  /\ UNCHANGED <<api, plan, sent, acc, cancelled>>

ChatDone ==
  /\ Live("chat") /\ finish # ""
  /\ YieldLast(Response("complete", <<>>, ""))
  /\ UNCHANGED <<api, plan, sent, finish, acc, cancelled>>

--------------------------------------------------------------------------------
(* responses: deltas are yielded, the final response comes from the object *)
(* the terminal event carries                                              *)

\* output_item.added: the id and name of a call are kept under its item id
ItemAdded(i) ==
  /\ Live("responses") /\ MayStart(i)
  /\ IF IsCall(i) THEN NewAccumulator(i) ELSE UNCHANGED acc
  /\ Silent
  /\ Moves(i)

\* output_text.delta, reasoning_text.delta, function_call_arguments.delta
ResponsesBit(i) ==
  /\ Live("responses") /\ MaySay(i)
  /\ LET bit == <<i, sent[i] + 1>>
     IN /\ Accumulate(i, bit)
        /\ IF IsCall(i) THEN Silent ELSE Yield(Delta(<<Shown(i, bit)>>))
  /\ Moves(i)

\* function_call_arguments.done: the call as a partial response; other done events
\* are skipped
ItemDone(i) ==
  /\ Live("responses") /\ MayClose(i)
  /\ LET gathered == SelectSeq(acc, LAMBDA e : e.item = i)
     IN IF IsCall(i) THEN Yield(Delta(<<Part(i, Args(i, gathered[1].bits))>>)) ELSE Silent
  /\ UNCHANGED acc /\ Moves(i)

\* completed or incomplete: noted, and reading goes on to the end of the body
ResponseFinished(why) ==
  /\ Live("responses") /\ MayFinish(why)
  /\ finish' = why /\ Silent
  /\ UNCHANGED <<api, plan, sent, acc, cancelled>>

\* the final response object names every item started with what was said of it:
\* texts, calls, and reasoning that is not empty
SaidOf(i) == Bits(i, IF sent[i] > plan[i].bits THEN plan[i].bits ELSE sent[i])
OutputParts ==
  LET kept == Sift([i \in Items |-> i],
                   {i \in Items : sent[i] > 0 \/ (sent[i] = 0 /\ plan[i].kind # "thought")})
  IN [k \in DOMAIN kept |->
        LET i == kept[k]
        IN Part(i, IF IsCall(i) /\ SaidOf(i) # <<>> THEN Args(i, SaidOf(i)) ELSE SaidOf(i))]
\* refused: no output items, nothing but empty reasoning, arguments that do not parse
OutputRefused ==
  \/ OutputParts = <<>>
  \/ \E k \in DOMAIN OutputParts : IsCall(OutputParts[k].item) /\ OutputParts[k].bits = NilArgs
Output == IF OutputRefused THEN Error
          ELSE Response("complete", OutputParts, ResponsesFinishReason[finish])

\* the body ends: if a terminal event was seen, there is something left to say
ResponsesEof ==
  /\ api = "responses" /\ Reading
  /\ IF finish # "" THEN YieldLast(Output) ELSE pc' = "done" /\ UNCHANGED got
  /\ UNCHANGED <<api, plan, sent, finish, acc, cancelled>>

\* failed and error events
ResponseFailed ==
  /\ Live("responses") /\ YieldLast(Error)
  /\ UNCHANGED <<api, plan, sent, finish, acc, cancelled>>

--------------------------------------------------------------------------------
(* messages: content blocks by index, all of them in the last response     *)

BlockStart(i) ==
  /\ Live("messages") /\ MayStart(i)
  /\ NewAccumulator(i) /\ Silent
  /\ Moves(i)

\* content_block_delta: only text is yielded
BlockDelta(i) ==
  /\ Live("messages") /\ MaySay(i)
  /\ LET bit == <<i, sent[i] + 1>>
     IN /\ Accumulate(i, bit)
        /\ IF plan[i].kind = "text" THEN YieldUnseen(Delta(<<Shown(i, bit)>>)) ELSE Silent
  /\ Moves(i)

\* content_block_stop: the input of a call is parsed; MessageParts does it again
BlockStop(i) ==
  /\ Live("messages") /\ MayClose(i)
  /\ Silent /\ UNCHANGED acc
  /\ Moves(i)

\* message_delta: the stop reason is noted
MessageDelta(why) ==
  /\ Live("messages") /\ MayFinish(why)
  /\ finish' = why /\ Silent
  /\ UNCHANGED <<api, plan, sent, acc, cancelled>>

\* the blocks in order of first appearance, empty texts left out
MessageParts ==
  LET kept == Sift(acc, {k \in DOMAIN acc : plan[acc[k].item].kind # "text" \/ acc[k].bits # <<>>})
  IN [k \in DOMAIN kept |->
        LET e == kept[k] IN Part(e.item, IF IsCall(e.item) THEN Args(e.item, e.bits) ELSE e.bits)]

MessageStop ==
  /\ Live("messages") /\ finish # ""
  /\ YieldLast(Response("complete", MessageParts, MessagesFinishReason[finish]))
  /\ UNCHANGED <<api, plan, sent, finish, acc, cancelled>>

--------------------------------------------------------------------------------
(* All three                                                               *)

\* a parser that takes the end of the body for the end of the answer
EofCompletes ==
  /\ api # "responses" /\ Reading
  /\ YieldLast(Response("complete", IF api = "messages" THEN MessageParts ELSE ChatCalls, ""))
  /\ UNCHANGED <<api, plan, sent, finish, acc, cancelled>>
\* the body ends, where it should or early, and the scanner reports no error
Eof ==
  /\ api # "responses" /\ Reading
  /\ pc' = "done"
  /\ UNCHANGED <<api, plan, sent, finish, acc, got, cancelled>>

\* an error of the scanner leaves the parser waiting
BrokenUnnoticed == Reading /\ UNCHANGED streamVars
\* a line that is no JSON, or an error of the scanner: a reset connection, a body
\* closed by the cancellation
Broken ==
  /\ Reading /\ YieldLast(Error)
  /\ UNCHANGED <<api, plan, sent, finish, acc, cancelled>>
BrokenByCancel == cancelled /\ Broken

\* a line arrives after the cancellation
ReadCancelled ==
  /\ Reading /\ cancelled /\ YieldLast(Interrupted)
  /\ UNCHANGED <<api, plan, sent, finish, acc, cancelled>>

Cancel ==
  /\ Reading /\ ~cancelled /\ cancelled' = TRUE
  /\ UNCHANGED <<api, plan, sent, finish, acc, got, pc>>

--------------------------------------------------------------------------------
(* stream = false: the whole answer in one response                        *)

AllSaid == finish' \in Reasons \cap WholeReasons /\ sent' = [i \in Items |-> plan[i].bits + 1]
WholePart(i) == Part(i, IF IsCall(i) THEN Args(i, Bits(i, plan[i].bits)) ELSE Bits(i, plan[i].bits))
Unasked == got = <<>> /\ \A i \in Items : sent[i] = -1

\* the message's text, then its tool calls, nil arguments where they do not parse
AnswerChat ==
  /\ Live("chat") /\ Unasked /\ AllSaid
  /\ LET all == [i \in Items |-> WholePart(i)]
         calls == {i \in Items : IsCall(i)}
         parts == Sift(all, Items \ calls) \o Sift(all, calls)
     IN YieldLast(Response("complete", parts, ChatFinishReason[finish']))
  /\ UNCHANGED <<api, plan, acc, cancelled>>

\* a call whose arguments do not parse is an error
AnswerResponses ==
  /\ Live("responses") /\ Unasked /\ AllSaid
  /\ YieldLast(IF \E i \in Items : IsCall(i) /\ ~plan[i].json THEN Error
               ELSE Response("complete", [i \in Items |-> WholePart(i)], "STOP"))
  /\ UNCHANGED <<api, plan, acc, cancelled>>

AnswerMessages ==
  /\ Live("messages") /\ Unasked /\ AllSaid
  /\ YieldLast(Response("complete", [i \in Items |-> WholePart(i)], MessagesFinishReason[finish']))
  /\ UNCHANGED <<api, plan, acc, cancelled>>

Chat == \/ \E i \in Items : ChatStart(i) \/ ChatBit(i)
        \/ \E why \in Reasons : ChatFinish(why)
        \/ ChatDone \/ AnswerChat
Responses == \/ \E i \in Items : ItemAdded(i) \/ ResponsesBit(i) \/ ItemDone(i)
             \/ \E why \in Reasons : ResponseFinished(why)
             \/ ResponsesEof \/ ResponseFailed \/ AnswerResponses
Messages == \/ \E i \in Items : BlockStart(i) \/ BlockDelta(i) \/ BlockStop(i)
            \/ \E why \in Reasons : MessageDelta(why)
            \/ MessageStop \/ AnswerMessages
Stream == Chat \/ Responses \/ Messages \/ Eof \/ Broken \/ ReadCancelled \/ Cancel
--------------------------------------------------------------------------------
(* Properties                                                              *)

Kept == SelectSeq(got, LAMBDA r : r.flag \in {"final", "complete"})
PartsOf(rs) == FlattenSeq([k \in DOMAIN rs |-> rs[k].parts])
KeptPlaces == {k \in DOMAIN got : got[k].flag \in {"final", "complete"}}
CallPlaces(parts) == {j \in DOMAIN parts : parts[j].kind = "call"}
KeptCalls == UNION {{<<k, j>> : j \in CallPlaces(got[k].parts)} : k \in KeptPlaces}
CallAt(place) == got[place[1]].parts[place[2]]
Before(a, b) == a[1] < b[1] \/ (a[1] = b[1] /\ a[2] < b[2])
TextOf(parts) == FlattenSeq([j \in DOMAIN parts |-> IF parts[j].kind = "text" THEN parts[j].bits ELSE <<>>])
TextIn(rs, flags) == FlattenSeq([k \in DOMAIN rs |-> IF rs[k].flag \in flags THEN TextOf(rs[k].parts) ELSE <<>>])
Completed == \E k \in DOMAIN got : got[k].flag = "complete"
SaidText == FlattenSeq([i \in Items |-> IF plan[i].kind = "text" THEN SaidOf(i) ELSE <<>>])

\* However the fragments of parallel calls are interleaved, the responses that
\* enter the conversation hold each call at most once, in the order the provider
\* began them, with the whole of its own arguments or with none; and an answer
\* that came to its proper end holds every call whose arguments are JSON.
CallsArriveWhole ==
  /\ \A a, b \in KeptCalls : Before(a, b) => CallAt(a).item < CallAt(b).item
  /\ \A a \in KeptCalls :
       CallAt(a).bits \in {Bits(CallAt(a).item, plan[CallAt(a).item].bits), <<>>, NilArgs}
  /\ Completed /\ Finished =>
       \A i \in Items : IsCall(i) /\ plan[i].json =>
          \E a \in KeptCalls : CallAt(a).item = i /\ CallAt(a).bits = Bits(i, plan[i].bits)

\* The text shown while it streams is the text the provider said, each delta once
\* and in order, up to where the consumer left; and where the closing response
\* repeats the text (responses, messages, and every unstreamed answer) it is the
\* same text.
TextOnce ==
  LET shown == TextIn(got, {"delta"})
      kept  == TextIn(got, {"final", "complete"})
      streamed == \E k \in DOMAIN got : got[k].flag = "delta"
  IN /\ IsPrefix(shown, SaidText)
     /\ pc \in {"reading", "done"} /\ streamed => shown = SaidText
     /\ Completed /\ (api # "chat" \/ ~streamed) => kept = SaidText

\* Only an answer whose end the provider announced is reported complete: not one
\* whose connection closed early, however tidily, nor one that was cancelled; and
\* an answer cut by the token limit says so.
TruncatedIsNotComplete ==
  /\ Completed => finish # ""
  /\ ~Finished => \A k \in DOMAIN got : got[k].flag \in {"final", "complete"} => got[k].reason # "STOP"
  /\ \A k \in DOMAIN got : got[k].flag \in {"complete", "error", "interrupted"} => k = Len(got)

\* A consumer that leaves its loop, as a caller that cancels is told it may, is
\* never called again.
NeverPanics == pc # "panicked"
================================================================================
