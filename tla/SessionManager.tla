--------------------------- MODULE SessionManager ---------------------------
(***************************************************************************)
(* SessionManager (src/aguiadk/session.go) maps AG-UI threads to sessions  *)
(* of the configured session.Service.  Resolve is called by the goroutine  *)
(* of every request, at its start and, for MESSAGES_SNAPSHOT, at its end   *)
(* (bridge.go:372, 919); a background goroutine deletes idle sessions.     *)
(*                                                                         *)
(* Resolve takes the lock three times: to read the entry of the thread, to *)
(* write the entry it has read back with a new time, and, when that entry  *)
(* proves useless, for the slow path.  Each is an action, and so is the    *)
(* Get between them, made without the lock.  Map keys are thread ids alone *)
(* while the service knows a session by user and id.                       *)
(*                                                                         *)
(* The service is external: `sessions' lists all it was asked to create,   *)
(* in order, and a session's id is its place there.  An app name is part   *)
(* of a user here.                                                         *)
(***************************************************************************)
EXTENDS Integers, Sequences

CONSTANTS
  Threads, Users, Requests,
  Asks,         \* Asks[r]: the [thread, user] the request r is about
  Refreshing,   \* the requests whose run gets as far as MESSAGES_SNAPSHOT
  Timeout,      \* SessionTimeout, in ticks
  MaxTime,      \* bound on the clock
  ServiceFails  \* whether calls of the service may fail

ASSUME SessionAssumption ==
  /\ Asks \in [Requests -> [thread : Threads, user : Users]]
  /\ Refreshing \subseteq Requests
  /\ Timeout \in Nat
  /\ MaxTime \in Nat
  /\ ServiceFails \in BOOLEAN

VARIABLES
  threads,   \* the map: set of [thread, session, user, lastUsed]
  sessions,  \* the service: sessions[id] = [thread, user, status]
  getFailed, \* history: a Get of a session that was there has failed
  now,
  cleaning,  \* whether cleanupLoop still runs (FALSE after Stop)
  pc,        \* where the request's goroutine is
  entry,     \* the copy Resolve read under the read lock
  touched,   \* when this Resolve last refreshed the entry
  session,   \* the session the run uses, NoSession before
  snapshot   \* the session MESSAGES_SNAPSHOT was made from

reqVars == <<pc, entry, touched, session, snapshot>>
vars == <<threads, sessions, getFailed, now, cleaning, reqVars>>

NoSession == 0
Entry == [thread : Threads, session : Nat, user : Users, lastUsed : Nat]

\* The local variable of Resolve where nothing will read it any more.
NoEntry(r) ==
  [thread |-> Asks[r].thread, session |-> NoSession, user |-> Asks[r].user, lastUsed |-> 0]

EntryOf(t) == {e \in threads : e.thread = t}
PutEntry(e) == (threads \ EntryOf(e.thread)) \cup {e}

\* "leaked": cleanup dropped its entry but the service failed to delete it.
Status == {"live", "leaked", "deleted"}
Exists(id) == id \in DOMAIN sessions /\ sessions[id].status # "deleted"

\* Fault: the user of the entry is asked for, not the user of the request.
GetsForAnyone(user, id) == Exists(id)

\* Service.Get finds a session by user and id.
Gets(user, id) == Exists(id) /\ sessions[id].user = user

\* Resolve returns: the first one starts the run, the second one ends it.
Returns(r, id) ==
  IF session[r] = NoSession
  THEN /\ session' = [session EXCEPT ![r] = id]
       /\ pc' = [pc EXCEPT ![r] = "running"]
       /\ UNCHANGED snapshot
  ELSE /\ snapshot' = [snapshot EXCEPT ![r] = id]
       /\ pc' = [pc EXCEPT ![r] = "done"]
       /\ UNCHANGED session

-----------------------------------------------------------------------------
(* Resolve.                                                                *)

Call(r) ==
  /\ pc[r] = "idle"
  /\ pc' = [pc EXCEPT ![r] = "reading"]
  /\ UNCHANGED <<threads, sessions, getFailed, now, cleaning, entry, touched, session, snapshot>>

\* Under the read lock.
ReadEntry(r) ==
  /\ pc[r] = "reading"
  /\ \/ /\ EntryOf(Asks[r].thread) = {}
        /\ pc' = [pc EXCEPT ![r] = "slow"]
        /\ UNCHANGED entry
     \/ \E e \in EntryOf(Asks[r].thread) :
        /\ entry' = [entry EXCEPT ![r] = e]
        /\ pc' = [pc EXCEPT ![r] = "touching"]
  /\ UNCHANGED <<threads, sessions, getFailed, now, cleaning, touched, session, snapshot>>

\* Fault: the time of the entry is not renewed.
TouchForgotten(r) ==
  /\ pc[r] = "touching"
  /\ threads' = PutEntry(entry[r])
  /\ touched' = [touched EXCEPT ![r] = now]
  /\ pc' = [pc EXCEPT ![r] = "getting"]
  /\ UNCHANGED <<sessions, getFailed, now, cleaning, entry, session, snapshot>>

\* Under the lock: the copy goes back, whatever the map holds by now.
TouchEntry(r) ==
  /\ pc[r] = "touching"
  /\ threads' = PutEntry([entry[r] EXCEPT !.lastUsed = now])
  /\ touched' = [touched EXCEPT ![r] = now]
  /\ pc' = [pc EXCEPT ![r] = "getting"]
  /\ UNCHANGED <<sessions, getFailed, now, cleaning, entry, session, snapshot>>

\* Service.Get, without the lock.
GetSession(r) ==
  /\ pc[r] = "getting"
  /\ \/ /\ Gets(Asks[r].user, entry[r].session)
        /\ Returns(r, entry[r].session)
        /\ UNCHANGED getFailed
     \/ /\ ServiceFails \/ ~Gets(Asks[r].user, entry[r].session)
        /\ pc' = [pc EXCEPT ![r] = "slow"]
        /\ getFailed' = (getFailed \/ Gets(Asks[r].user, entry[r].session))
        /\ UNCHANGED <<session, snapshot>>
  /\ entry' = [entry EXCEPT ![r] = NoEntry(r)]
  /\ UNCHANGED <<threads, sessions, now, cleaning, touched>>

\* The slow path, all of it under the lock: the double check ...
DoubleCheck(r) ==
  /\ pc[r] = "slow"
  /\ \E e \in EntryOf(Asks[r].thread) :
       /\ Gets(Asks[r].user, e.session)
       /\ threads' = PutEntry([e EXCEPT !.lastUsed = now])
       /\ Returns(r, e.session)
  /\ touched' = [touched EXCEPT ![r] = now]
  /\ UNCHANGED <<sessions, getFailed, now, cleaning, entry>>

\* Fault: no double check.
UselessAlways(r) == TRUE

\* ... that finds nothing of use ...
Useless(r) == \A e \in EntryOf(Asks[r].thread) : ~Gets(Asks[r].user, e.session)

\* ... so that a session is created.
CreateSession(r) ==
  /\ pc[r] = "slow"
  /\ Useless(r) \/ ServiceFails
  /\ getFailed' = (getFailed \/ ~Useless(r))
  /\ sessions' = Append(sessions, [thread |-> Asks[r].thread, user |-> Asks[r].user, status |-> "live"])
  /\ threads' = PutEntry([thread |-> Asks[r].thread, session |-> Len(sessions'),
                          user |-> Asks[r].user, lastUsed |-> now])
  /\ touched' = [touched EXCEPT ![r] = now]
  /\ Returns(r, Len(sessions'))
  /\ UNCHANGED <<now, cleaning, entry>>

CreateFails(r) ==
  /\ ServiceFails
  /\ pc[r] = "slow"
  /\ pc' = [pc EXCEPT ![r] = "done"]
  /\ UNCHANGED <<threads, sessions, getFailed, now, cleaning, entry, touched, session, snapshot>>

\* The run is over; it resolves its thread again if it ends with a snapshot.
EndRun(r) ==
  /\ pc[r] = "running"
  /\ pc' = [pc EXCEPT ![r] = IF r \in Refreshing THEN "reading" ELSE "done"]
  /\ UNCHANGED <<threads, sessions, getFailed, now, cleaning, entry, touched, session, snapshot>>

-----------------------------------------------------------------------------
\* cleanup: the Deletes of the service are best effort; the entries go anyway.
Idle(e) == now - e.lastUsed > Timeout

Owns(E, id) == \E e \in E : e.session = id /\ e.user = sessions[id].user

Cleanup ==
  LET idle == {e \in threads : Idle(e)} IN
  /\ cleaning
  /\ idle # {}
  /\ \E gone \in IF ServiceFails THEN SUBSET idle ELSE {idle} :
       sessions' = [id \in DOMAIN sessions |->
         [sessions[id] EXCEPT !.status =
           CASE Owns(gone, id) -> "deleted" [] Owns(idle \ gone, id) /\ @ = "live" -> "leaked" [] OTHER -> @]]
  /\ threads' = threads \ idle
  /\ UNCHANGED <<getFailed, now, cleaning, reqVars>>

Stop ==
  /\ cleaning
  /\ cleaning' = FALSE
  /\ UNCHANGED <<threads, sessions, getFailed, now, reqVars>>

Tick ==
  /\ now < MaxTime
  /\ now' = now + 1
  /\ UNCHANGED <<threads, sessions, getFailed, cleaning, reqVars>>

-----------------------------------------------------------------------------
Init ==
  /\ threads = {}
  /\ sessions = <<>>
  /\ getFailed = FALSE
  /\ now = 0
  /\ cleaning = TRUE
  /\ pc = [r \in Requests |-> "idle"]
  /\ entry = [r \in Requests |-> NoEntry(r)]
  /\ touched = [r \in Requests |-> 0]
  /\ session = [r \in Requests |-> NoSession]
  /\ snapshot = [r \in Requests |-> NoSession]

Resolve(r) ==
  \/ ReadEntry(r)
  \/ TouchEntry(r)
  \/ GetSession(r)
  \/ DoubleCheck(r)
  \/ CreateSession(r)
  \/ CreateFails(r)

Next ==
  \/ \E r \in Requests : Call(r) \/ Resolve(r) \/ EndRun(r)
  \/ Cleanup
  \/ Stop
  \/ Tick

Spec == Init /\ [][Next]_vars

-----------------------------------------------------------------------------
TypeOK ==
  /\ threads \subseteq Entry
  /\ sessions \in Seq([thread : Threads, user : Users, status : Status])
  /\ getFailed \in BOOLEAN
  /\ now \in Nat
  /\ cleaning \in BOOLEAN
  /\ pc \in [Requests -> {"idle", "reading", "touching", "getting", "slow", "running", "done"}]
  /\ entry \in [Requests -> Entry]
  /\ touched \in [Requests -> Nat]
  /\ {session, snapshot} \subseteq [Requests -> {NoSession} \cup DOMAIN sessions]

\* A thread id shared by two users never lets one of them into the session of
\* the other, although the map is keyed by thread ids alone.
OwnSessionOnly ==
  \A r \in Requests : \A id \in {session[r], snapshot[r]} \ {NoSession} :
    sessions[id].thread = Asks[r].thread /\ sessions[id].user = Asks[r].user

\* Double-checked locking: a second live session for the thread of one user
\* appears only when, before, the thread passed to another user, lost a session
\* to cleanup or the service failed.  Requests that arrive together share one.
OneSessionPerThread ==
  \A i, j \in DOMAIN sessions :
    /\ i < j
    /\ sessions[i] = sessions[j]
    /\ sessions[i].status = "live"
    /\ ~getFailed
    => \E k \in 1..(j - 1) :
         /\ sessions[k].thread = sessions[j].thread
         /\ sessions[k].status # "live" \/ sessions[k].user # sessions[j].user

\* cleanup spares what is in use: the session a request was given lives at
\* least SessionTimeout from the moment Resolve refreshed its entry, whoever
\* else refreshes, replaces or cleans the entries meanwhile.
FreshSessionSurvives ==
  \A r \in Requests :
    pc[r] = "running" /\ now - touched[r] <= Timeout => Exists(session[r])

\* "A background goroutine ... deletes sessions that have been idle longer than
\* SessionTimeout" (docs/aguiadk-bridge.md:479): cleanup can only find the
\* sessions the map names, so no live session may be missing from it.
NoOrphanedSession ==
  \A id \in DOMAIN sessions : Exists(id) => \E e \in threads : e.session = id
=============================================================================
