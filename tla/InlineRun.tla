------------------------------ MODULE InlineRun ------------------------------
(***************************************************************************)
(* Client tools in inline mode: EventStream and ToolResults together.      *)
(* proxyToolHandler (src/aguiadk/proxy.go) announces a call on the stream, *)
(* TOOL_CALL_START to TOOL_CALL_END, and then waits for its result; the    *)
(* run does nothing meanwhile but make other calls (agents may run in      *)
(* parallel); the client submits a result when it has read the             *)
(* announcement from the wire.  Bridges of ClientToolModeInline announce   *)
(* the call when they see the model's event and ADK calls the tool after   *)
(* it: the same order.                                                     *)
(*                                                                         *)
(* The announcement of a call is one event, of the kind of the call; the   *)
(* other kinds of content are the text of the run.                         *)
(***************************************************************************)
EXTENDS EventStream, ToolResults

ASSUME InlineAssumption == Calls \subseteq Content

vars == <<streamVars, toolVars>>

\* The client has read the announcement of a call of that id.
Announced(id) == \E n \in DOMAIN wire : wire[n].kind \in {c \in Calls : IdOf[c] = id}

\* A call that has not returned keeps the run from going on.
StandsStill == \E c \in Calls : call[c] \notin {"idle", "returned"}

-----------------------------------------------------------------------------
Proceed ==
  /\ ~StandsStill
  /\ \/ ResolveSession
     \/ EmitRunStarted
     \/ \E kind \in Content \ Calls : EmitContent(kind)
     \/ EndRun
     \/ CloseChannel
  /\ UNCHANGED toolVars

\* emitToolCallEvents; where it fails, as the context is done, so does the tool.
Announce(c) ==
  /\ call[c] = "idle"
  /\ EmitContent(c)
  /\ CallAt(c, IF chan' # chan THEN "announced" ELSE "returned")
  /\ UNCHANGED <<pending, buffer, got, submitVars>>

AwaitResult(c) == Wait(c) /\ UNCHANGED streamVars

\* A POST to /tool-result.
PostResult(s) ==
  /\ Announced(IdOf[s])
  /\ SubmitResult(s)
  /\ UNCHANGED streamVars

RestOfStream == (Reader \/ Keepalive \/ ClientLeaves) /\ UNCHANGED toolVars

-----------------------------------------------------------------------------
Init == StreamInit /\ ToolInit

Run == Proceed \/ \E c \in Calls : Announce(c) \/ AwaitResult(c)

Next ==
  \/ Run
  \/ \E s \in Submits : PostResult(s)
  \/ RestOfStream

Spec == Init /\ [][Next]_vars

\* As for the stream alone; the timer ends a Wait that nothing else ends, and
\* clients need not submit anything.
FairSpec ==
  /\ Spec
  /\ WF_vars(Run)
  /\ SF_vars(Reader /\ UNCHANGED toolVars)
  /\ SF_vars(Keepalive /\ UNCHANGED toolVars)

-----------------------------------------------------------------------------
TypeOK == StreamTypeOK /\ ToolTypeOK

\* "submissions reach the waiting tool handlers" (aguiadk/handler.go:28-30): a
\* client that submits a result once it has read of the call is refused only if
\* the tool has given up, or has its result already.
PromptResultIsAccepted ==
  \A s \in Submits : submit[s] = "refused" =>
    \E c \in Calls : IdOf[c] = IdOf[s] /\ call[c] \in {"leaving", "returned"}
=============================================================================
