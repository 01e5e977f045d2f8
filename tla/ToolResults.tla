----------------------------- MODULE ToolResults -----------------------------
(***************************************************************************)
(* ToolResultHandler (src/agui/tools.go): the run that called a client     *)
(* tool waits for its result, which another HTTP request submits.          *)
(*                                                                         *)
(* Wait registers a channel of one slot under the id of the call, selects  *)
(* among result, cancellation and timer, and unregisters as it returns.    *)
(* SubmitResult looks the channel up under the mutex and sends without it, *)
(* so calls may return, and other results arrive, in between.  The timer   *)
(* may fire at any moment, so a cancelled context adds nothing to it.      *)
(***************************************************************************)
EXTENDS Integers, Sequences, FiniteSets

CONSTANTS
  Calls,    \* the calls of Wait
  Submits,  \* the calls of SubmitResult
  IdOf,     \* IdOf[c], IdOf[s]: the tool call id a Wait or a Submit is about
  NoSubmit

ASSUME ToolResultsAssumption ==
  /\ Calls \cap Submits = {}
  /\ DOMAIN IdOf = Calls \cup Submits
  /\ NoSubmit \notin Submits

VARIABLES
  pending,  \* the map: a set of [id, call]; the channel is that of the call
  buffer,   \* buffer[c]: what the channel of c holds
  call,     \* where the Wait is
  got,      \* the submit whose result the Wait took
  submit,   \* where the SubmitResult is
  found     \* the set of the call whose channel it looked up; empty for none

callVars == <<call, got>>
submitVars == <<submit, found>>
toolVars == <<pending, buffer, callVars, submitVars>>

CallAt(c, l) == call' = [call EXCEPT ![c] = l]
SubmitAt(s, l) == submit' = [submit EXCEPT ![s] = l]

Room(c) == buffer[c] = <<>>

-----------------------------------------------------------------------------
(* Wait.                                                                   *)

Register(c) ==
  /\ call[c] = "announced"
  /\ pending' = {p \in pending : p.id # IdOf[c]} \cup {[id |-> IdOf[c], call |-> c]}
  /\ CallAt(c, "selecting")
  /\ UNCHANGED <<buffer, got, submitVars>>

Receive(c) ==
  /\ call[c] = "selecting"
  /\ buffer[c] # <<>>
  /\ got' = [got EXCEPT ![c] = Head(buffer[c])]
  /\ buffer' = [buffer EXCEPT ![c] = Tail(@)]
  /\ CallAt(c, "leaving")
  /\ UNCHANGED <<pending, submitVars>>

\* The timer, or the context of the run.
GiveUp(c) ==
  /\ call[c] = "selecting"
  /\ CallAt(c, "leaving")
  /\ UNCHANGED <<pending, buffer, got, submitVars>>

\* The deferred delete: by id, whoever is registered under it.
Unregister(c) ==
  /\ call[c] = "leaving"
  /\ pending' = {p \in pending : p.id # IdOf[c]}
  /\ CallAt(c, "returned")
  /\ UNCHANGED <<buffer, got, submitVars>>

-----------------------------------------------------------------------------
(* SubmitResult, called by ToolResultEndpoint.                             *)

\* ErrNoPendingToolCall, which the endpoint answers with 404.
Refuse(s) ==
  /\ submit[s] = "idle"
  /\ ~\E p \in pending : p.id = IdOf[s]
  /\ SubmitAt(s, "refused")
  /\ UNCHANGED <<pending, buffer, callVars, found>>

\* Fault: one channel for whatever call waits.
LookupAny(s) ==
  /\ submit[s] = "idle"
  /\ \E p \in pending : found' = [found EXCEPT ![s] = {p.call}]
  /\ SubmitAt(s, "sending")
  /\ UNCHANGED <<pending, buffer, callVars>>

Lookup(s) ==
  /\ submit[s] = "idle"
  /\ \E p \in pending :
       /\ p.id = IdOf[s]
       /\ found' = [found EXCEPT ![s] = {p.call}]
  /\ SubmitAt(s, "sending")
  /\ UNCHANGED <<pending, buffer, callVars>>

\* It blocks while the slot is taken, for ever if nobody empties it.
Send(s) ==
  /\ submit[s] = "sending"
  /\ \E c \in found[s] :
       /\ Room(c)
       /\ buffer' = [buffer EXCEPT ![c] = Append(@, s)]
  /\ SubmitAt(s, "accepted")
  /\ UNCHANGED <<pending, callVars, found>>

-----------------------------------------------------------------------------
ToolInit ==
  /\ pending = {}
  /\ buffer = [c \in Calls |-> <<>>]
  /\ call = [c \in Calls |-> "idle"]
  /\ got = [c \in Calls |-> NoSubmit]
  /\ submit = [s \in Submits |-> "idle"]
  /\ found = [s \in Submits |-> {}]

Wait(c) == Register(c) \/ Receive(c) \/ GiveUp(c) \/ Unregister(c)
SubmitResult(s) == Refuse(s) \/ Lookup(s) \/ Send(s)

-----------------------------------------------------------------------------
ToolTypeOK ==
  /\ pending \subseteq [id : {IdOf[c] : c \in Calls}, call : Calls]
  /\ buffer \in [Calls -> Seq(Submits)]
  /\ \A c \in Calls : Len(buffer[c]) <= 1
  /\ call \in [Calls -> {"idle", "announced", "selecting", "leaving", "returned"}]
  /\ got \in [Calls -> Submits \cup {NoSubmit}]
  /\ submit \in [Submits -> {"idle", "sending", "accepted", "refused"}]
  /\ found \in [Submits -> SUBSET Calls]

\* Every result a run takes was submitted for its call, and is taken once.  And
\* of several submits for a call only one that repeats another ever blocks: the
\* slot makes room for the first even when Wait times out between its lookup and
\* its send.
ResultsGoToTheirCalls ==
  /\ \A c \in Calls : got[c] # NoSubmit =>
       /\ IdOf[got[c]] = IdOf[c]
       /\ submit[got[c]] = "accepted"
       /\ \A d \in Calls \ {c} : got[d] # got[c]
  /\ \A s \in Submits : \A c \in found[s] :
       submit[s] = "sending" /\ ~Room(c) =>
         \E t \in Submits \ {s} : submit[t] = "accepted" /\ IdOf[t] = IdOf[s]
=============================================================================
