----------------------------- MODULE ModelRequest ------------------------------
(***************************************************************************)
(* How the adapters of src/model turn a conversation and its configuration *)
(* into a request: openai/translate.go and tools.go ("chat"),              *)
(* openai/responses.go ("responses"), anthropic/translate.go and tools.go  *)
(* ("messages").                                                           *)
(*                                                                         *)
(* A conversation is a sequence of contents [role, parts]; a part is       *)
(* [kind, key, id, shape]: kind "text", "thought", "call" or "result", key *)
(* says which call it is or answers (the truth, which no adapter sees), id *)
(* is the id on the wire, shape how a result is held: "json" (one          *)
(* application/json InlineData part) or "map" (the Response field).        *)
(***************************************************************************)
EXTENDS Integers, Sequences, FiniteSets, SequencesExt

NoId == <<0, 0>>
Results(parts) == SelectSeq(parts, LAMBDA p : p.kind = "result")
CallParts(parts) == SelectSeq(parts, LAMBDA p : p.kind = "call")
OtherParts(parts) == SelectSeq(parts, LAMBDA p : p.kind \in {"text", "thought"})

\* contentToMessages, chat: the other parts and the calls in one message, then a
\* tool message for each result
ChatItems(c) == OtherParts(c.parts) \o CallParts(c.parts) \o Results(c.parts)
\* extractFunctionResponseContent: an id and exactly one JSON part, or an error
ChatResultRefused(p) == p.id = NoId \/ p.shape # "json"

\* contentToMessages, messages: the same, with all results in one user message
MessageItems(c) == OtherParts(c.parts) \o CallParts(c.parts) \o Results(c.parts)
\* contentBlocksFromFunctionResponse
MessageResultRefused(p) == p.id = NoId

ItemsOf(a, c) == IF a = "chat" THEN ChatItems(c) ELSE MessageItems(c)
ResultRefused(a, p) == IF a = "chat" THEN ChatResultRefused(p) ELSE MessageResultRefused(p)
Translated(a, contents) ==
  IF \E k \in DOMAIN contents : \E j \in DOMAIN Results(contents[k].parts) :
       ResultRefused(a, Results(contents[k].parts)[j])
  THEN [error |-> TRUE, items |-> <<>>]
  ELSE [error |-> FALSE, items |-> FlattenSeq([k \in DOMAIN contents |-> ItemsOf(a, contents[k])])]

--------------------------------------------------------------------------------
(* The call tracker of the responses API                                   *)

Tracker0 == [items |-> <<>>, pending |-> <<>>, nextID |-> 0, error |-> FALSE]

RegisterCall(t, p) ==
  LET id == IF p.id = NoId THEN <<0, t.nextID + 1>> ELSE p.id
  IN [t EXCEPT !.nextID = IF p.id = NoId THEN @ + 1 ELSE @,
               !.pending = Append(@, id),
               !.items = Append(@, [p EXCEPT !.id = id])]

\* takes the newest pending call, whatever the id
ResolveNewest(t, p) ==
  IF t.pending = <<>> THEN [t EXCEPT !.error = TRUE]
  ELSE [t EXCEPT !.items = Append(@, [p EXCEPT !.id = Last(t.pending)]), !.pending = Front(@)]
\* a result with an id needs a pending call of that id, which stays pending; one
\* without takes the oldest pending call
ResolveResponseCallID(t, p) ==
  IF p.id # NoId
  THEN IF Contains(t.pending, p.id) THEN [t EXCEPT !.items = Append(@, p)]
       ELSE [t EXCEPT !.error = TRUE]
  ELSE IF t.pending = <<>> THEN [t EXCEPT !.error = TRUE]
       ELSE [t EXCEPT !.items = Append(@, [p EXCEPT !.id = Head(t.pending)]),
                      !.pending = Tail(@)]

ToInputItem(t, p) ==
  IF t.error THEN t
  ELSE CASE p.kind = "call"   -> RegisterCall(t, p)
         [] p.kind = "result" -> ResolveResponseCallID(t, p)
         [] OTHER             -> [t EXCEPT !.items = Append(@, p)]

ContentsToInputItems(contents) ==
  IF contents = <<>> THEN [Tracker0 EXCEPT !.error = TRUE]
  ELSE FoldLeft(ToInputItem, Tracker0, FlattenSeq([k \in DOMAIN contents |-> contents[k].parts]))

--------------------------------------------------------------------------------
(* Requests.  cfg is [tools, allowed, mode, format, extra]; a request is   *)
(* [error, items, tools, choice].                                          *)

\* a schema that jsonutil.NormalizeSchema refuses
SchemaRefused(cfg) == cfg.format = "unnormalisable"

\* translateToolConfig, chat: the mode alone
ChatToolChoice(cfg) == IF cfg.mode = "none" THEN "none" ELSE "free"

BuildChatRequest(contents, cfg) ==
  LET body == Translated("chat", contents)
  IN [error |-> body.error \/ SchemaRefused(cfg), items |-> body.items,
      tools |-> cfg.tools, choice |-> ChatToolChoice(cfg)]

\* translateToolConfigResponses
ResponsesToolChoice(cfg) ==
  IF cfg.mode = "none" THEN "none" ELSE IF cfg.allowed # {} THEN "allowed" ELSE "free"

\* extra stands for what the responses API does not know: stop sequences, topK,
\* candidates, penalties, labels, safety settings, tools that are no functions
BuildResponsesRequest(contents, cfg) ==
  LET body == ContentsToInputItems(contents)
  IN [error |-> body.error \/ SchemaRefused(cfg) \/ cfg.extra \/ cfg.format = "othermime",
      items |-> body.items, tools |-> cfg.tools, choice |-> ResponsesToolChoice(cfg)]

\* translateToolConfig, messages: a single allowed name is forced whatever the mode
MessagesToolChoice(cfg) ==
  IF Cardinality(cfg.allowed) = 1 THEN "tool" ELSE IF cfg.mode = "none" THEN "none" ELSE "free"

\* several allowed names filter the declarations
DeclaredAll(cfg) == cfg.tools
Declared(cfg) == IF Cardinality(cfg.allowed) > 1 THEN cfg.tools \cap cfg.allowed ELSE cfg.tools

BuildMessageRequest(contents, cfg) ==
  LET body == Translated("messages", contents)
  IN [error |-> body.error \/ SchemaRefused(cfg), items |-> body.items,
      tools |-> Declared(cfg), choice |-> MessagesToolChoice(cfg)]

RequestOf(a, contents, cfg) ==
  CASE a = "chat"      -> BuildChatRequest(contents, cfg)
    [] a = "responses" -> BuildResponsesRequest(contents, cfg)
    [] a = "messages"  -> BuildMessageRequest(contents, cfg)

\* what the model may call under a request built from cfg
Callable(r, cfg) == CASE r.choice = "none"                -> {}
                      [] r.choice \in {"tool", "allowed"} -> r.tools \cap cfg.allowed
                      [] OTHER                            -> r.tools
================================================================================
