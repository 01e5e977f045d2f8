---------------------------- MODULE AgUiProtocol ----------------------------
(***************************************************************************)
(* What a client of the AG-UI protocol may rely on while it reads the      *)
(* events of one run, after RUN_STARTED.  Events open, extend and close    *)
(* blocks: text messages, reasoning, tool calls, steps and sub-agent runs. *)
(*                                                                         *)
(* The protocol library is outside the repository; these are the rules     *)
(* that the bridge's comments and docs/aguiadk-bridge.md (the event        *)
(* translation table) hold it to.                                          *)
(***************************************************************************)
EXTENDS Naturals, Sequences

VARIABLES
  event,  \* the event received last
  count,  \* how many have been received
  open,   \* the blocks that are open
  begun,  \* every block opened so far
  over    \* RUN_FINISHED or RUN_ERROR has come

protocolVars == <<event, count, open, begun, over>>

Base == 0

Kinds == {"text", "reasoning", "tool", "step", "subagent", "run"}

\* REASONING_START and REASONING_MESSAGE_START always go together, and so do
\* their ENDs: one event here.  "run" is the sub-agent run the event names, and
\* "of" the block its content belongs to: the call whose result a result holds.
Event ==
  [op: {"start", "content", "end", "result", "finish"}, kind: Kinds,
   id: Nat, of: Nat, run: Nat, data: Seq(STRING)]

Block(e) == [kind |-> e.kind, id |-> e.id]
Subagent(id) == [kind |-> "subagent", id |-> id]

OfKind(k) == {b \in open : b.kind = k}

-----------------------------------------------------------------------------
NoEvent == [op |-> "finish", kind |-> "run", id |-> 0, of |-> 0, run |-> Base, data |-> <<>>]

Init ==
  /\ event = NoEvent
  /\ count = 0
  /\ open = {}
  /\ begun = {}
  /\ over = FALSE

\* Nothing follows the terminal event, and an event names only a sub-agent
\* whose run is going on.
Receive(e) ==
  /\ ~over
  /\ e \in Event
  /\ e.run # Base => Subagent(e.run) \in open
  /\ count' = count + 1

\* Text and reasoning do not overlap, one step and one sub-agent at a time;
\* only steps come back under the same name.
Start(e) ==
  /\ e.op = "start"
  /\ Block(e) \notin (IF e.kind = "step" THEN open ELSE begun)
  /\ e.kind \in {"text", "reasoning"} => OfKind("text") \cup OfKind("reasoning") = {}
  /\ e.kind \in {"step", "subagent"} => OfKind(e.kind) = {}
  /\ open' = open \cup {Block(e)}
  /\ begun' = begun \cup {Block(e)}
  /\ UNCHANGED over

Content(e) ==
  /\ e.op = "content"
  /\ Block(e) \in open
  /\ UNCHANGED <<open, begun, over>>

End(e) ==
  /\ e.op = "end"
  /\ Block(e) \in open
  /\ open' = open \ {Block(e)}
  /\ UNCHANGED <<begun, over>>

Result(e) ==
  /\ e.op = "result"
  /\ UNCHANGED <<open, begun, over>>

\* The run ends with nothing open.
Finish(e) ==
  /\ e.op = "finish"
  /\ open = {}
  /\ over' = TRUE
  /\ UNCHANGED <<open, begun>>

Next ==
  /\ Receive(event')
  /\ \/ Start(event')
     \/ Content(event')
     \/ End(event')
     \/ Result(event')
     \/ Finish(event')

Spec == Init /\ [][Next]_protocolVars
=============================================================================
