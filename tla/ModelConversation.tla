--------------------------- MODULE ModelConversation ---------------------------
(***************************************************************************)
(* An agent's conversation with models through the adapters of src/model:  *)
(* build a request from the contents so far, send it, consume the answer   *)
(* (GenerateContent), keep what is not partial, run the tools, and go on,  *)
(* perhaps with a model behind another API.  The loop itself is the ADK's, *)
(* outside src/, and is modelled from how it uses the adapters: it keeps   *)
(* the content of every response that is not partial, answers all calls in *)
(* one content, and strips the ids it made up for calls that came without. *)
(***************************************************************************)
EXTENDS ModelStream, ModelRequest

CONSTANTS Configs,     \* configurations a request may be built with
          MaxTurns     \* bound: answers per conversation; one more request is built

\* the tools and the allowed names are lists in the source
ASSUME ConfigsAssumption == Apis \subseteq {"chat", "responses", "messages"} /\ \A cfg \in Configs : IsFiniteSet(cfg.allowed)

VARIABLES stage,       \* "build", "send", "stream", "over"
          turn,
          contents,    \* the conversation so far
          request      \* the request built last; NoRequest before

convVars == <<stage, turn, contents, request>>
vars == <<streamVars, convVars>>

NoRequest == [api |-> "none"]
Named(p) == \A i \in DOMAIN p : p[i].named
Possible(a, p) ==      \* no reasoning in chat; calls without ids come from local chat servers
  /\ a = "chat" => \A i \in DOMAIN p : p[i].kind # "thought"
  /\ a # "chat" => Named(p)

Init ==
  /\ stage = "build" /\ turn = 1 /\ request = NoRequest
  /\ contents = << [role |-> "user", parts |-> << [kind |-> "text", key |-> NoId, id |-> NoId, shape |-> ""] >>] >>
  /\ api = "none" /\ plan = <<>> /\ sent = <<>> /\ finish = "" /\ acc = <<>> /\ got = <<>>
  /\ pc = "idle" /\ cancelled = FALSE

\* buildChatRequest, buildResponsesRequest, buildMessageRequest; an error is the
\* only thing yielded
Build ==
  /\ stage = "build"
  /\ \E a \in Apis, cfg \in Configs :
       LET r == RequestOf(a, contents, cfg)
       IN /\ request' = [api |-> a, cfg |-> cfg, built |-> r]
          /\ stage' = IF r.error THEN "over" ELSE "send"
  /\ UNCHANGED <<streamVars, turn, contents>>

\* GenerateContent: the HTTP exchange fails, or the status is not 2xx (one error
\* is yielded), or the body is handed to the parser.  The request
\* matters no more from here on.
Send ==
  /\ stage = "send" /\ turn <= MaxTurns
  /\ \/ stage' = "over" /\ UNCHANGED <<streamVars, request>>
     \/ /\ stage' = "stream"
        /\ request' = NoRequest
        /\ \E p \in Plans : Possible(request.api, p) /\ Begin(request.api, p)
        /\ UNCHANGED cancelled
  /\ UNCHANGED <<turn, contents>>

Consume == stage = "stream" /\ Stream /\ UNCHANGED convVars

\* a kept part as a part of the conversation
Remember(p) ==
  LET key == <<turn, p.item>>
  IN [kind |-> p.kind, key |-> IF p.kind = "call" THEN key ELSE NoId, shape |-> "",
      id |-> IF p.kind = "call" /\ plan[p.item].named THEN key ELSE NoId]
ResultOf(p, shape) == [p EXCEPT !.kind = "result", !.shape = shape]

\* the answer ended properly: its calls are run and the next turn begins
RunTools ==
  /\ stage = "stream" /\ pc = "done" /\ Completed
  /\ LET kept  == [k \in DOMAIN PartsOf(Kept) |-> Remember(PartsOf(Kept)[k])]
         calls == CallParts(kept)
     IN IF calls = <<>> THEN stage' = "over" /\ UNCHANGED <<turn, contents>>
        ELSE /\ stage' = "build" /\ turn' = turn + 1
             /\ \E shape \in {"json", "map"} :
                  contents' = contents \o
                    << [role |-> "model", parts |-> kept],
                       [role |-> "user", parts |-> [k \in DOMAIN calls |-> ResultOf(calls[k], shape)]] >>
  /\ api' = "none" /\ plan' = <<>> /\ sent' = <<>> /\ finish' = "" /\ acc' = <<>> /\ got' = <<>>
  /\ pc' = "idle" /\ UNCHANGED <<cancelled, request>>

\* it did not: an error, an interruption, silence, or the consumer is gone
GiveUp ==
  /\ stage = "stream" /\ (pc \in {"left", "panicked"} \/ (pc = "done" /\ ~Completed))
  /\ stage' = "over" /\ UNCHANGED <<streamVars, turn, contents, request>>

Next == Build \/ Send \/ Consume \/ RunTools \/ GiveUp

\* Closing the body is the HTTP library's answer to a cancelled context; nothing
\* else makes a silent provider end its answer.
Fairness == WF_vars(stage = "stream" /\ BrokenByCancel /\ UNCHANGED convVars)
Spec == Init /\ [][Next]_vars /\ Fairness
--------------------------------------------------------------------------------
(* Properties                                                              *)

TypeOK ==
  /\ stage \in {"build", "send", "stream", "over"} /\ turn \in 1..(MaxTurns + 1)
  /\ pc \in {"idle", "reading", "left", "deaf", "panicked", "done"}
  /\ api \in Apis \cup {"none"} /\ finish \in {""} \cup Reasons
  /\ \A i \in Items : sent[i] \in -1..(plan[i].bits + 1)
  /\ \A k \in DOMAIN acc : acc[k].bits = Bits(acc[k].item, Len(acc[k].bits))

CallItems == SelectSeq(request.built.items, LAMBDA p : p.kind = "call")
ResultItems == SelectSeq(request.built.items, LAMBDA p : p.kind = "result")
CallsSoFar == CallParts(FlattenSeq([k \in DOMAIN contents |-> contents[k].parts]))
OneKindOfId == \/ \A k \in DOMAIN CallsSoFar : CallsSoFar[k].id = NoId
               \/ \A k \in DOMAIN CallsSoFar : CallsSoFar[k].id # NoId

\* In every request that is sent, whatever APIs the earlier turns went through,
\* each call of the conversation is followed by exactly one result under the id the
\* call has on the wire, and it is the result of that call: as long as all calls
\* of the conversation came with ids, or none did.
ResultsArePaired ==
  (stage = "send" /\ OneKindOfId) =>
     /\ Len(CallItems) = Len(CallsSoFar) /\ Len(ResultItems) = Len(CallItems)
     /\ \A c \in DOMAIN request.built.items : request.built.items[c].kind = "call" =>
          \E r \in DOMAIN request.built.items :
             /\ r > c /\ request.built.items[r].kind = "result"
             /\ request.built.items[r].id = request.built.items[c].id
             /\ request.built.items[r].key = request.built.items[c].key

\* A model may never call a tool outside the allowed names where the adapter
\* forwards them (responses and messages), and none at all when calling is off,
\* unless messages is given a single name, which it forces.
OfferIsRestricted ==
  stage = "send" =>
    LET cfg == request.cfg IN
    /\ cfg.allowed # {} /\ cfg.mode \in {"auto", "any"} /\ request.api # "chat" => Callable(request.built, cfg) \subseteq cfg.allowed
    /\ cfg.mode = "none" /\ ~(request.api = "messages" /\ Cardinality(cfg.allowed) = 1)
         => Callable(request.built, cfg) = {}

\* Once the context is cancelled the iterator comes to its end.
CancelEnds == cancelled ~> ~Reading
================================================================================
