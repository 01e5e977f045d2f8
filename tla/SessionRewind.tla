----------------------------- MODULE SessionRewind -----------------------------
(***************************************************************************)
(* Rewinding a session (session/rewind): the ADK's sessions cannot be cut  *)
(* short, so the events to keep are copied into a temporary session, the   *)
(* session is deleted, made anew, filled, and the temporary one deleted.   *)
(* Every call of the session service may fail, the process may crash       *)
(* between two calls, and an agent may append events of its own whenever   *)
(* the session is there.  The session service is outside src/: an append   *)
(* applies the event's state delta and adds the event to its session.      *)
(***************************************************************************)
EXTENDS Integers, Sequences, SequencesExt

CONSTANTS MaxEvents,  \* bound: events the agent appends
          MaxRewinds  \* bound: rewinds begun

VARIABLES sessions,  \* id -> [events, state]
          rewind,    \* the rewind in progress
          temps,     \* temporary ids used
          appended,  \* events the agent appended
          keptLast   \* history: the events the last rewind that passed its checks is to keep

rewindVars == <<sessions, rewind, temps, appended, keptLast>>

Original == 0   \* the id of the session; temporary ones are counted
NoRewind == [pc |-> "none", kept |-> <<>>, temp |-> 0, copied |-> 0]
Fresh(state) == [events |-> <<>>, state |-> state]
Exists(id) == id \in DOMAIN sessions
Put(id, s) == sessions' = [x \in DOMAIN sessions \cup {id} |-> IF x = id THEN s ELSE sessions[x]]
Drop(id) == sessions' = [x \in DOMAIN sessions \ {id} |-> sessions[x]]

\* Every event sets one session-scoped key, to its number; 0 is the key unset.  The keys
\* with other scopes are the service's.
Delta(event) == event
ReplayState(kept) == FoldLeft(LAMBDA state, event : Delta(event), 0, kept)
AppendTo(id, event) == Put(id, [events |-> Append(sessions[id].events, event), state |-> Delta(event)])

InitRewind == /\ sessions = [x \in {Original} |-> Fresh(0)] /\ rewind = NoRewind
              /\ temps = 0 /\ appended = 0 /\ keptLast = <<>>

\* The agent, at any time
AgentAppends ==
  /\ Exists(Original) /\ appended < MaxEvents /\ appended' = appended + 1
  /\ AppendTo(Original, appended')
  /\ UNCHANGED <<rewind, temps, keptLast>>

\* Rewind and RewindToIndex: fetch, find the target, keep what comes up to it, and create the
\* temporary session.  No session, no events or no such target: an error.
Begin ==
  /\ rewind.pc = "none" /\ temps < MaxRewinds /\ temps' = temps + 1
  /\ Exists(Original)
  /\ \E target \in DOMAIN sessions[Original].events :
       LET kept == SubSeq(sessions[Original].events, 1, target)
       IN /\ rewind' = [pc |-> "copy", kept |-> kept, temp |-> temps', copied |-> 0]
          /\ keptLast' = kept
  /\ Put(temps', Fresh(0))
  /\ UNCHANGED appended

\* an event into the temporary session, later into the new one; the handle is fetched again
Copy(pc, id, next) ==
  /\ rewind.pc = pc
  /\ IF rewind.copied < Len(rewind.kept)
     THEN /\ Exists(id) /\ AppendTo(id, rewind.kept[rewind.copied + 1])
          /\ rewind' = [rewind EXCEPT !.copied = @ + 1]
     ELSE rewind' = [rewind EXCEPT !.pc = next, !.copied = 0] /\ UNCHANGED sessions
  /\ UNCHANGED <<temps, appended, keptLast>>
DeleteOriginal ==
  /\ rewind.pc = "delete" /\ Drop(Original) /\ rewind' = [rewind EXCEPT !.pc = "recreate"]
  /\ UNCHANGED <<temps, appended, keptLast>>
Recreate ==
  /\ rewind.pc = "recreate" /\ Put(Original, Fresh(ReplayState(rewind.kept)))
  /\ rewind' = [rewind EXCEPT !.pc = "refill"]
  /\ UNCHANGED <<temps, appended, keptLast>>
DeleteTemp ==
  /\ rewind.pc = "cleanup" /\ Drop(rewind.temp) /\ rewind' = NoRewind
  /\ UNCHANGED <<temps, appended, keptLast>>
\* any call of the service fails: the error is returned, and nothing is undone
Fail ==
  /\ rewind.pc # "none" /\ rewind' = NoRewind
  /\ UNCHANGED <<sessions, temps, appended, keptLast>>

\* Fault: the temporary session is not filled.
CopyNothing == rewind.pc = "copy" /\ rewind' = [rewind EXCEPT !.pc = "delete"] /\ UNCHANGED <<sessions, temps, appended, keptLast>>
CopyToTemp == Copy("copy", rewind.temp, "delete")
Refill == Copy("refill", Original, "cleanup")

RewindNext == AgentAppends \/ Begin \/ CopyToTemp \/ DeleteOriginal \/ Recreate \/ Refill \/ DeleteTemp \/ Fail
RewindCrash == rewind' = NoRewind /\ UNCHANGED <<sessions, temps, appended, keptLast>>
--------------------------------------------------------------------------------
(* Properties                                                              *)

\* s is what t has of the events of s: each at a place in t, in their order, and nowhere else.
Within(s, t) ==
  \E place \in [DOMAIN s -> DOMAIN t] :
    /\ \A i \in DOMAIN s : t[place[i]] = s[i]
    /\ \A i, j \in DOMAIN s : i < j => place[i] < place[j]
    /\ \A n \in DOMAIN t : (\E i \in DOMAIN s : t[n] = s[i]) => \E i \in DOMAIN s : place[i] = n

\* Whatever fails, crashes or is appended in between, the events a rewind is to keep are all
\* in one session and in order: the original, the copy or the new one.
KeptEventsSurvive == \E id \in DOMAIN sessions : Within(keptLast, sessions[id].events)
================================================================================
