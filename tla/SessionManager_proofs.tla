------------------------ MODULE SessionManager_proofs ------------------------
(***************************************************************************)
(* Safety of SessionManager, proved for any threads, users and requests    *)
(* and any timeout: a request is only ever given a session of its own user *)
(* and thread, that session outlives SessionTimeout, and requests that     *)
(* arrive together for the thread of one user share one session.           *)
(*                                                                         *)
(* All of it hangs on what the entries of the map, and the copies of       *)
(* entries that Resolve carries from one lock to the next, still say of    *)
(* the service's sessions.                                                 *)
(***************************************************************************)
EXTENDS SessionManager, SequenceTheorems, TLAPS

\* What an entry names was created for the entry's thread and user.
Names(e) ==
  /\ e.session \in DOMAIN sessions
  /\ sessions[e.session].thread = e.thread
  /\ sessions[e.session].user = e.user

EntriesName == \A e \in threads : Names(e)

\* The copy that will be written back names such a session too.
CopiesName ==
  \A r \in Requests : pc[r] \in {"touching", "getting"} =>
    entry[r].thread = Asks[r].thread /\ Names(entry[r])

\* Whatever replaced the entry that a Resolve refreshed is no older.
RefreshedSince ==
  \A r \in Requests :
    /\ touched[r] <= now
    /\ \A e \in threads : e.thread = Asks[r].thread => touched[r] <= e.lastUsed

RunsHaveSessions == \A r \in Requests : pc[r] = "running" => session[r] # NoSession

SessionIInv ==
  /\ TypeOK
  /\ EntriesName
  /\ CopiesName
  /\ RefreshedSince
  /\ RunsHaveSessions
  /\ OwnSessionOnly
  /\ FreshSessionSurvives

Service == [thread : Threads, user : Users, status : Status]

-----------------------------------------------------------------------------
(* What the steps do to the service and to the map.                        *)

\* Init establishes the invariant.
LEMMA InitSessionIInv == Init => SessionIInv
<1> SUFFICES ASSUME Init PROVE SessionIInv
  OBVIOUS
<1>1. TypeOK
  <2>1. \A r \in Requests : Asks[r].thread \in Threads /\ Asks[r].user \in Users
    BY SessionAssumption
  <2>2. entry \in [Requests -> Entry]
    BY <2>1 DEF Init, Entry, NoEntry, NoSession
  <2>3. sessions \in Seq([thread : Threads, user : Users, status : Status])
    BY DEF Init
  <2>4. {session, snapshot} \subseteq [Requests -> {NoSession} \cup DOMAIN sessions]
    BY DEF Init
  <2> QED
    BY <2>2, <2>3, <2>4 DEF Init, TypeOK
<1>2. EntriesName /\ CopiesName /\ RefreshedSince /\ RunsHaveSessions
  BY DEF Init, EntriesName, CopiesName, RefreshedSince, RunsHaveSessions
<1>3. OwnSessionOnly /\ FreshSessionSurvives
  BY DEF Init, OwnSessionOnly, FreshSessionSurvives
<1> QED
  BY <1>1, <1>2, <1>3 DEF SessionIInv

\* A session of the service keeps its place, its thread and its user.
Kept ==
  /\ DOMAIN sessions \subseteq DOMAIN sessions'
  /\ \A id \in DOMAIN sessions :
       sessions'[id].thread = sessions[id].thread /\ sessions'[id].user = sessions[id].user

\* Create adds the session at the end.
LEMMA CreateKeeps ==
  ASSUME TypeOK, NEW r \in Requests, CreateSession(r)
  PROVE  /\ Kept
         /\ sessions' \in Seq(Service)
         /\ Len(sessions') \in DOMAIN sessions'
         /\ Len(sessions') # NoSession
         /\ sessions'[Len(sessions')] =
              [thread |-> Asks[r].thread, user |-> Asks[r].user, status |-> "live"]
         /\ \A id \in DOMAIN sessions : sessions'[id] = sessions[id]
<1> DEFINE new == [thread |-> Asks[r].thread, user |-> Asks[r].user, status |-> "live"]
<1>1. new \in Service
  BY SessionAssumption DEF Service, Status
<1>2. sessions \in Seq(Service) /\ sessions' = Append(sessions, new)
  BY DEF TypeOK, Service, CreateSession
<1> HIDE DEF new
<1>3. /\ sessions' \in Seq(Service)
      /\ Len(sessions') = Len(sessions) + 1
      /\ DOMAIN sessions = 1..Len(sessions)
      /\ DOMAIN sessions' = 1..Len(sessions')
      /\ Len(sessions) \in Nat
      /\ \A id \in 1..Len(sessions) : sessions'[id] = sessions[id]
      /\ sessions'[Len(sessions) + 1] = new
  BY <1>1, <1>2
<1> QED
  BY <1>3 DEF Kept, NoSession, new

\* cleanup deletes no session but those that idle entries name.
LEMMA CleanupKeeps ==
  ASSUME TypeOK, Cleanup
  PROVE  /\ Kept
         /\ DOMAIN sessions' = DOMAIN sessions
         /\ sessions' \in Seq(Service)
         /\ \A id \in DOMAIN sessions :
              sessions[id].status # "deleted" /\ sessions'[id].status = "deleted"
              => \E e \in threads : Idle(e) /\ e.session = id
         /\ \A id \in DOMAIN sessions :
              sessions[id].status # "live" => sessions'[id].status # "live"
         /\ \A e \in threads : Idle(e) /\ Names(e) => sessions'[e.session].status # "live"
<1> DEFINE idle == {e \in threads : Idle(e)}
<1>1. PICK gone \in SUBSET idle :
        sessions' = [id \in DOMAIN sessions |->
          [sessions[id] EXCEPT !.status =
             CASE Owns(gone, id) -> "deleted"
               [] Owns(idle \ gone, id) /\ @ = "live" -> "leaked"
               [] OTHER -> @]]
  BY DEF Cleanup
<1>2. sessions \in [1..Len(sessions) -> Service] /\ Len(sessions) \in Nat
  <2>1. sessions \in Seq(Service)
    BY DEF TypeOK, Service
  <2> QED
    BY <2>1, LenProperties
<1>3. ASSUME NEW id \in DOMAIN sessions
      PROVE  /\ sessions'[id] \in Service
             /\ sessions'[id].thread = sessions[id].thread
             /\ sessions'[id].user = sessions[id].user
             /\ \/ sessions'[id].status = sessions[id].status
                \/ sessions'[id].status = "leaked"
                \/ sessions'[id].status = "deleted" /\ Owns(gone, id)
             /\ Owns(idle, id) => sessions'[id].status # "live"
  <2> DEFINE status ==
        CASE Owns(gone, id) -> "deleted"
          [] Owns(idle \ gone, id) /\ sessions[id].status = "live" -> "leaked"
          [] OTHER -> sessions[id].status
  <2>1. sessions'[id] = [sessions[id] EXCEPT !.status = status]
    BY <1>1
  <2>2. \/ status = sessions[id].status
        \/ status = "leaked"
        \/ status = "deleted" /\ Owns(gone, id)
    OBVIOUS
  <2>4. Owns(idle, id) => Owns(gone, id) \/ Owns(idle \ gone, id)
    BY DEF Owns
  <2>5. Owns(idle, id) => status # "live"
    BY <2>4
  <2>3. sessions[id] \in Service
    BY <1>2
  <2> HIDE DEF status
  <2> QED
    BY <2>1, <2>2, <2>3, <2>5 DEF Service, Status
<1>4. DOMAIN sessions' = DOMAIN sessions
  BY <1>1
<1>5. sessions' \in Seq(Service)
  <2>1. sessions' \in [1..Len(sessions) -> Service]
    BY <1>1, <1>2, <1>3, <1>4
  <2> QED
    BY <1>2, <2>1, SeqDef
<1>6. ASSUME NEW id \in DOMAIN sessions,
             sessions[id].status # "deleted", sessions'[id].status = "deleted"
      PROVE  \E e \in threads : Idle(e) /\ e.session = id
  BY <1>3, <1>6 DEF Owns
<1>7. ASSUME NEW e \in threads, Idle(e), Names(e)
      PROVE  sessions'[e.session].status # "live"
  BY <1>3, <1>7 DEF Owns, Names
<1>8. \A id \in DOMAIN sessions : sessions[id].status # "live" => sessions'[id].status # "live"
  BY <1>3
<1> QED
  BY <1>3, <1>4, <1>5, <1>6, <1>7, <1>8 DEF Kept

-----------------------------------------------------------------------------
(* Each action preserves the invariant.                                    *)

\* The goroutine's own steps: the call, the read of the entry, the end of the
\* run and the failure of a Create change no entry and no session.
LEMMA GoroutineSteps ==
  ASSUME SessionIInv, NEW r \in Requests,
         Call(r) \/ ReadEntry(r) \/ CreateFails(r) \/ EndRun(r)
  PROVE  SessionIInv'
<1> USE DEF SessionIInv
<1>1. UNCHANGED <<threads, sessions, getFailed, now, cleaning, touched, session, snapshot>>
  BY DEF Call, ReadEntry, CreateFails, EndRun
<1>2. /\ pc' \in [Requests -> {"idle", "reading", "touching", "getting", "slow", "running", "done"}]
      /\ \A q \in Requests : pc'[q] = "running" => pc[q] = "running"
  BY DEF TypeOK, Call, ReadEntry, CreateFails, EndRun
<1>3. ASSUME NEW q \in Requests
      PROVE  /\ entry'[q] \in Entry
             /\ pc'[q] \in {"touching", "getting"} =>
                  /\ entry'[q].thread = Asks[q].thread
                  /\ Names(entry'[q])
  <2>1. CASE entry'[q] = entry[q] /\ pc'[q] \in {"touching", "getting"} /\ pc[q] = pc'[q]
    BY <2>1 DEF TypeOK, CopiesName
  <2>2. CASE entry'[q] = entry[q] /\ pc'[q] \notin {"touching", "getting"}
    BY <2>2 DEF TypeOK
  <2>3. CASE \E e \in EntryOf(Asks[q].thread) : entry'[q] = e
    BY <2>3 DEF TypeOK, EntryOf, EntriesName
  <2> QED
    BY <2>1, <2>2, <2>3 DEF TypeOK, Call, ReadEntry, CreateFails, EndRun
<1>4. entry' \in [Requests -> Entry]
  <2>1. UNCHANGED entry \/ \E e \in threads : entry' = [entry EXCEPT ![r] = e]
    BY DEF Call, ReadEntry, CreateFails, EndRun, EntryOf
  <2> QED
    BY <2>1 DEF TypeOK
<1>5. TypeOK'
  BY <1>1, <1>2, <1>4 DEF TypeOK
<1>6. EntriesName' /\ RefreshedSince'
  BY <1>1 DEF EntriesName, Names, RefreshedSince
<1>7. CopiesName'
  BY <1>1, <1>3 DEF CopiesName, Names
<1>8. RunsHaveSessions' /\ OwnSessionOnly' /\ FreshSessionSurvives'
  BY <1>1, <1>2 DEF RunsHaveSessions, OwnSessionOnly, FreshSessionSurvives, Exists
<1> QED
  BY <1>5, <1>6, <1>7, <1>8

\* The copy that is written back names a session of the thread, and its time
\* is no older than any Resolve's.
LEMMA TouchSteps ==
  ASSUME SessionIInv, NEW r \in Requests, TouchEntry(r)
  PROVE  SessionIInv'
<1> USE DEF SessionIInv
<1> DEFINE new == [entry[r] EXCEPT !.lastUsed = now]
<1>1. UNCHANGED <<sessions, getFailed, now, cleaning, entry, session, snapshot>>
  BY DEF TouchEntry
<1>2. /\ new \in Entry
      /\ new.lastUsed = now
      /\ new.thread = Asks[r].thread
      /\ Names(new)
  BY DEF TypeOK, TouchEntry, CopiesName, Entry, Names
<1>3. \A e \in threads' : e = new \/ (e \in threads /\ e.thread # Asks[r].thread)
  BY <1>2 DEF TouchEntry, PutEntry, EntryOf
<1>4. /\ pc' \in [Requests -> {"idle", "reading", "touching", "getting", "slow", "running", "done"}]
      /\ touched' \in [Requests -> Nat]
      /\ touched'[r] = now /\ pc'[r] = "getting" /\ pc[r] = "touching"
      /\ \A q \in Requests \ {r} : pc'[q] = pc[q] /\ touched'[q] = touched[q]
  BY DEF TypeOK, TouchEntry
<1> HIDE DEF new
<1>5. TypeOK'
  BY <1>1, <1>2, <1>3, <1>4 DEF TypeOK
<1>6. EntriesName'
  BY <1>1, <1>2, <1>3 DEF EntriesName, Names
<1>7. CopiesName'
  BY <1>1, <1>4 DEF CopiesName, Names
<1>8. RefreshedSince'
  <2>1. \A q \in Requests : touched'[q] <= now
    <3>1. now \in Nat /\ \A q \in Requests : touched[q] <= now
      BY DEF TypeOK, RefreshedSince
    <3> QED
      BY <1>4, <3>1
  <2>2. ASSUME NEW q \in Requests, NEW e \in threads', e.thread = Asks[q].thread
        PROVE  touched'[q] <= e.lastUsed
    BY <1>2, <1>3, <1>4, <2>1, <2>2 DEF RefreshedSince
  <2> QED
    BY <1>1, <2>1, <2>2 DEF RefreshedSince
<1>9. RunsHaveSessions' /\ OwnSessionOnly' /\ FreshSessionSurvives'
  BY <1>1, <1>4 DEF RunsHaveSessions, OwnSessionOnly, FreshSessionSurvives, Exists
<1> QED
  BY <1>5, <1>6, <1>7, <1>8, <1>9

\* A Resolve that returns a session of its own thread and user gives the
\* request, at the start of its run or for its snapshot, nothing else.
LEMMA ReturnsOwn ==
  ASSUME SessionIInv, Kept, NEW r \in Requests, NEW id \in DOMAIN sessions', id # NoSession,
         Returns(r, id),
         sessions'[id].thread = Asks[r].thread, sessions'[id].user = Asks[r].user
  PROVE  /\ pc' \in [Requests -> {"idle", "reading", "touching", "getting", "slow", "running", "done"}]
         /\ {session', snapshot'} \subseteq [Requests -> {NoSession} \cup DOMAIN sessions']
         /\ pc'[r] \in {"running", "done"}
         /\ pc'[r] = "running" => session'[r] = id
         /\ \A q \in Requests \ {r} : pc'[q] = pc[q] /\ session'[q] = session[q]
         /\ RunsHaveSessions'
         /\ OwnSessionOnly'
<1> USE DEF SessionIInv
<1>1. /\ session \in [Requests -> {NoSession} \cup DOMAIN sessions]
      /\ snapshot \in [Requests -> {NoSession} \cup DOMAIN sessions]
      /\ pc \in [Requests -> {"idle", "reading", "touching", "getting", "slow", "running", "done"}]
  BY DEF TypeOK
<1>2. /\ session' \in [Requests -> {NoSession} \cup DOMAIN sessions']
      /\ snapshot' \in [Requests -> {NoSession} \cup DOMAIN sessions']
      /\ pc' \in [Requests -> {"idle", "reading", "touching", "getting", "slow", "running", "done"}]
      /\ pc'[r] \in {"running", "done"}
      /\ pc'[r] = "running" => session'[r] = id
      /\ \A q \in Requests \ {r} : pc'[q] = pc[q] /\ session'[q] = session[q]
      /\ \A q \in Requests : session'[q] = session[q] \/ (q = r /\ session'[q] = id)
      /\ \A q \in Requests : snapshot'[q] = snapshot[q] \/ (q = r /\ snapshot'[q] = id)
  BY <1>1 DEF Returns, Kept
<1>3. RunsHaveSessions'
  BY <1>2 DEF RunsHaveSessions, NoSession
<1>4. OwnSessionOnly'
  <2> SUFFICES ASSUME NEW q \in Requests, NEW i \in {session'[q], snapshot'[q]}, i # NoSession
               PROVE  sessions'[i].thread = Asks[q].thread /\ sessions'[i].user = Asks[q].user
    BY DEF OwnSessionOnly, NoSession
  <2>1. CASE i \in {session[q], snapshot[q]}
    <3>1. i \in DOMAIN sessions
      BY <1>1, <2>1
    <3> QED
      BY <2>1, <3>1 DEF OwnSessionOnly, Kept
  <2>2. CASE q = r /\ i = id
    BY <2>2
  <2> QED
    BY <1>2, <2>1, <2>2
<1> QED
  BY <1>2, <1>3, <1>4

\* Get finds nothing but sessions of the request's user, and the copy it asks
\* with names a session of the request's thread.
LEMMA GetSteps ==
  ASSUME SessionIInv, NEW r \in Requests, GetSession(r)
  PROVE  SessionIInv'
<1> USE DEF SessionIInv
<1>1. UNCHANGED <<threads, sessions, now, cleaning, touched>>
  BY DEF GetSession
<1>2. Kept
  BY <1>1 DEF Kept
<1>3. /\ entry' \in [Requests -> Entry]
      /\ \A q \in Requests \ {r} : entry'[q] = entry[q]
  <2>1. NoEntry(r) \in Entry
    BY SessionAssumption DEF NoEntry, Entry, NoSession
  <2> QED
    BY <2>1 DEF TypeOK, GetSession
<1>4. getFailed' \in BOOLEAN
  BY DEF TypeOK, GetSession, Gets, Exists
<1>5. /\ pc' \in [Requests -> {"idle", "reading", "touching", "getting", "slow", "running", "done"}]
      /\ {session', snapshot'} \subseteq [Requests -> {NoSession} \cup DOMAIN sessions']
      /\ pc'[r] \in {"slow", "running", "done"}
      /\ pc'[r] = "running" => Exists(session'[r])
      /\ \A q \in Requests \ {r} : pc'[q] = pc[q] /\ session'[q] = session[q]
      /\ RunsHaveSessions'
      /\ OwnSessionOnly'
  <2>1. CASE Gets(Asks[r].user, entry[r].session) /\ Returns(r, entry[r].session)
    <3> DEFINE id == entry[r].session
    <3>1. /\ id \in DOMAIN sessions' /\ id # NoSession
          /\ sessions'[id].thread = Asks[r].thread
          /\ sessions'[id].user = Asks[r].user
      BY <1>1, <2>1 DEF GetSession, CopiesName, Names, Gets, Exists, TypeOK, NoSession
    <3>2. Exists(id) /\ Returns(r, id)
      BY <2>1 DEF Gets
    <3> HIDE DEF id
    <3> QED
      BY <1>2, <3>1, <3>2, ReturnsOwn
  <2>2. CASE pc' = [pc EXCEPT ![r] = "slow"] /\ UNCHANGED <<session, snapshot>>
    BY <1>1, <2>2 DEF TypeOK, RunsHaveSessions, OwnSessionOnly
  <2> QED
    BY <2>1, <2>2 DEF GetSession
<1>6. TypeOK'
  BY <1>1, <1>3, <1>4, <1>5 DEF TypeOK
<1>7. EntriesName' /\ RefreshedSince'
  BY <1>1 DEF EntriesName, Names, RefreshedSince
<1>8. CopiesName'
  BY <1>1, <1>3, <1>5 DEF CopiesName, Names
<1>9. FreshSessionSurvives'
  BY <1>1, <1>5 DEF FreshSessionSurvives, Exists
<1> QED
  BY <1>5, <1>6, <1>7, <1>8, <1>9

\* Under the lock the slow path ends with an entry that is new, that names the
\* session returned, and that is no older than any Resolve's refresh.
LEMMA ResolvedUnderLock ==
  ASSUME SessionIInv, Kept, NEW r \in Requests, NEW id \in DOMAIN sessions', id # NoSession,
         NEW new \in Entry,
         sessions' \in Seq(Service), getFailed' \in BOOLEAN,
         sessions'[id].thread = Asks[r].thread, sessions'[id].user = Asks[r].user,
         sessions'[id].status # "deleted",
         \A i \in DOMAIN sessions : sessions'[i].status = sessions[i].status,
         new.thread = Asks[r].thread, new.user = Asks[r].user, new.session = id, new.lastUsed = now,
         threads' = PutEntry(new),
         touched' = [touched EXCEPT ![r] = now],
         Returns(r, id),
         UNCHANGED <<now, cleaning, entry>>
  PROVE  SessionIInv'
<1> USE DEF SessionIInv
<1>1. /\ pc' \in [Requests -> {"idle", "reading", "touching", "getting", "slow", "running", "done"}]
      /\ {session', snapshot'} \subseteq [Requests -> {NoSession} \cup DOMAIN sessions']
      /\ pc'[r] \in {"running", "done"}
      /\ pc'[r] = "running" => session'[r] = id
      /\ \A q \in Requests \ {r} : pc'[q] = pc[q] /\ session'[q] = session[q]
      /\ RunsHaveSessions'
      /\ OwnSessionOnly'
  BY ReturnsOwn
<1>2. \A e \in threads' : e = new \/ (e \in threads /\ e.thread # Asks[r].thread)
  BY DEF PutEntry, EntryOf
<1>3. /\ touched' \in [Requests -> Nat]
      /\ touched'[r] = now
      /\ \A q \in Requests \ {r} : touched'[q] = touched[q]
      /\ now \in Nat
  BY DEF TypeOK
<1>4. TypeOK'
  BY <1>1, <1>2, <1>3 DEF TypeOK, Service
<1>5. EntriesName'
  BY <1>2 DEF EntriesName, Names, Kept
<1>6. CopiesName'
  BY <1>1 DEF CopiesName, Names, Kept
<1>7. RefreshedSince'
  <2>1. \A q \in Requests : touched'[q] <= now
    BY <1>3 DEF RefreshedSince
  <2>2. ASSUME NEW q \in Requests, NEW e \in threads', e.thread = Asks[q].thread
        PROVE  touched'[q] <= e.lastUsed
    BY <1>2, <1>3, <2>1, <2>2 DEF RefreshedSince
  <2> QED
    BY <2>1, <2>2 DEF RefreshedSince
<1>8. FreshSessionSurvives'
  <2> SUFFICES ASSUME NEW q \in Requests, pc'[q] = "running", now - touched'[q] <= Timeout
               PROVE  session'[q] \in DOMAIN sessions' /\ sessions'[session'[q]].status # "deleted"
    BY DEF FreshSessionSurvives, Exists
  <2>1. CASE q = r
    BY <1>1, <2>1
  <2>2. CASE q # r
    BY <1>1, <1>3, <2>2 DEF FreshSessionSurvives, Exists, Kept
  <2> QED
    BY <2>1, <2>2
<1> QED
  BY <1>1, <1>4, <1>5, <1>6, <1>7, <1>8

\* The double check finds an entry of the thread.
LEMMA DoubleCheckSteps ==
  ASSUME SessionIInv, NEW r \in Requests, DoubleCheck(r)
  PROVE  SessionIInv'
<1> USE DEF SessionIInv
<1>1. PICK e \in EntryOf(Asks[r].thread) :
        /\ Gets(Asks[r].user, e.session)
        /\ threads' = PutEntry([e EXCEPT !.lastUsed = now])
        /\ Returns(r, e.session)
  BY DEF DoubleCheck
<1>2. /\ UNCHANGED <<sessions, getFailed, now, cleaning, entry>>
      /\ touched' = [touched EXCEPT ![r] = now]
  BY DEF DoubleCheck
<1> DEFINE new == [e EXCEPT !.lastUsed = now]
           id == e.session
<1>3. /\ new \in Entry
      /\ new.thread = Asks[r].thread /\ new.session = id /\ new.lastUsed = now
      /\ new.user = Asks[r].user
  BY <1>1 DEF TypeOK, EntryOf, Entry, EntriesName, Names, Gets
<1>4. /\ id \in DOMAIN sessions' /\ id # NoSession
      /\ sessions'[id].thread = Asks[r].thread /\ sessions'[id].user = Asks[r].user
      /\ sessions'[id].status # "deleted"
  BY <1>1, <1>2 DEF EntryOf, EntriesName, Names, Gets, Exists, TypeOK, NoSession
<1>5. /\ Kept /\ sessions' \in Seq(Service) /\ getFailed' \in BOOLEAN
      /\ \A i \in DOMAIN sessions : sessions'[i].status = sessions[i].status
  BY <1>2 DEF TypeOK, Kept, Service
<1>6. threads' = PutEntry(new) /\ Returns(r, id)
  BY <1>1
<1> HIDE DEF new, id
<1> QED
  BY <1>2, <1>3, <1>4, <1>5, <1>6, ResolvedUnderLock

\* The new session is created for the thread and the user of the request.
LEMMA CreateSteps ==
  ASSUME SessionIInv, NEW r \in Requests, CreateSession(r)
  PROVE  SessionIInv'
<1> USE DEF SessionIInv
<1> DEFINE id == Len(sessions')
           new == [thread |-> Asks[r].thread, session |-> id, user |-> Asks[r].user, lastUsed |-> now]
<1>1. /\ Kept
      /\ sessions' \in Seq(Service)
      /\ id \in DOMAIN sessions' /\ id # NoSession
      /\ sessions'[id].thread = Asks[r].thread /\ sessions'[id].user = Asks[r].user
      /\ sessions'[id].status # "deleted"
      /\ \A i \in DOMAIN sessions : sessions'[i].status = sessions[i].status
  <2>1. /\ Kept
        /\ sessions' \in Seq(Service)
        /\ id \in DOMAIN sessions' /\ id # NoSession
        /\ sessions'[id] = [thread |-> Asks[r].thread, user |-> Asks[r].user, status |-> "live"]
        /\ \A i \in DOMAIN sessions : sessions'[i] = sessions[i]
    BY CreateKeeps
  <2> HIDE DEF id
  <2> QED
    BY <2>1
<1>2. id \in Nat
  BY <1>1, LenProperties
<1>3. /\ new \in Entry
      /\ new.thread = Asks[r].thread /\ new.session = id /\ new.lastUsed = now
      /\ new.user = Asks[r].user
  BY <1>2, SessionAssumption DEF Entry, TypeOK
<1>4. getFailed' \in BOOLEAN
  BY DEF TypeOK, CreateSession
<1>5. /\ threads' = PutEntry(new) /\ Returns(r, id)
      /\ touched' = [touched EXCEPT ![r] = now]
      /\ UNCHANGED <<now, cleaning, entry>>
  BY DEF CreateSession
<1> HIDE DEF new, id
<1> QED
  BY <1>1, <1>3, <1>4, <1>5, ResolvedUnderLock

\* An entry that names the session of a running request is of its thread, so
\* that it is idle only when the request's own refresh is as old.
LEMMA CleanupSteps ==
  ASSUME SessionIInv, Cleanup
  PROVE  SessionIInv'
<1> USE DEF SessionIInv
<1>1. /\ UNCHANGED <<getFailed, now, cleaning, pc, entry, touched, session, snapshot>>
      /\ threads' \subseteq threads
  BY DEF Cleanup, reqVars
<1>2. /\ Kept
      /\ DOMAIN sessions' = DOMAIN sessions
      /\ sessions' \in Seq(Service)
      /\ \A id \in DOMAIN sessions :
           sessions[id].status # "deleted" /\ sessions'[id].status = "deleted"
           => \E e \in threads : Idle(e) /\ e.session = id
  BY CleanupKeeps
<1>3. TypeOK'
  BY <1>1, <1>2 DEF TypeOK, Service
<1>4. EntriesName' /\ CopiesName' /\ RefreshedSince' /\ RunsHaveSessions'
  BY <1>1, <1>2 DEF EntriesName, CopiesName, Names, RefreshedSince, RunsHaveSessions, Kept
<1>5. OwnSessionOnly'
  BY <1>1, <1>2 DEF OwnSessionOnly, TypeOK, NoSession, Kept
<1>6. FreshSessionSurvives'
  <2> SUFFICES ASSUME NEW r \in Requests, pc[r] = "running", now - touched[r] <= Timeout
               PROVE  session[r] \in DOMAIN sessions' /\ sessions'[session[r]].status # "deleted"
    BY <1>1 DEF FreshSessionSurvives, Exists
  <2> DEFINE id == session[r]
  <2>1. id \in DOMAIN sessions /\ sessions[id].status # "deleted"
    BY DEF FreshSessionSurvives, Exists
  <2>2. sessions[id].thread = Asks[r].thread
    BY DEF RunsHaveSessions, OwnSessionOnly
  <2>3. ASSUME NEW e \in threads, Idle(e), e.session = id
        PROVE  FALSE
    <3>1. e.thread = Asks[r].thread
      BY <2>2, <2>3 DEF EntriesName, Names
    <3>2. touched[r] <= e.lastUsed
      BY <3>1 DEF RefreshedSince
    <3>3. now \in Nat /\ touched[r] \in Nat /\ e.lastUsed \in Nat /\ Timeout \in Nat
      BY SessionAssumption DEF TypeOK, Entry
    <3> QED
      BY <2>3, <3>2, <3>3 DEF Idle
  <2> QED
    BY <1>2, <2>1, <2>3
<1> QED
  BY <1>3, <1>4, <1>5, <1>6

\* Time passes, or the cleanup loop is stopped.
LEMMA ClockSteps ==
  ASSUME SessionIInv, Stop \/ Tick
  PROVE  SessionIInv'
<1> USE DEF SessionIInv
<1>1. /\ UNCHANGED <<threads, sessions, getFailed, pc, entry, touched, session, snapshot>>
      /\ now \in Nat /\ now' \in Nat /\ now <= now'
  BY DEF Stop, Tick, TypeOK, reqVars
<1>2. cleaning' \in BOOLEAN
  BY DEF Stop, Tick, TypeOK
<1>3. TypeOK'
  BY <1>1, <1>2 DEF TypeOK
<1>4. EntriesName' /\ CopiesName' /\ RunsHaveSessions' /\ OwnSessionOnly'
  BY <1>1 DEF EntriesName, CopiesName, Names, RunsHaveSessions, OwnSessionOnly
<1>5. \A r \in Requests : touched[r] \in Nat /\ Timeout \in Nat
  BY SessionAssumption DEF TypeOK
<1>6. RefreshedSince'
  BY <1>1, <1>5 DEF RefreshedSince
<1>7. FreshSessionSurvives'
  BY <1>1, <1>5 DEF FreshSessionSurvives, Exists
<1> QED
  BY <1>3, <1>4, <1>6, <1>7

-----------------------------------------------------------------------------
\* SessionManager keeps its invariant, of the right types included, whatever
\* the requests, the cleanup and the failures of the service do.
THEOREM SessionInvariant == Spec => []SessionIInv
<1>1. SessionIInv /\ [Next]_vars => SessionIInv'
  <2> SUFFICES ASSUME SessionIInv, [Next]_vars PROVE SessionIInv'
    OBVIOUS
  <2>1. ASSUME NEW r \in Requests, Call(r) \/ Resolve(r) \/ EndRun(r)
        PROVE  SessionIInv'
    BY <2>1, GoroutineSteps, TouchSteps, GetSteps, DoubleCheckSteps, CreateSteps DEF Resolve
  <2>2. CASE Cleanup
    BY <2>2, CleanupSteps
  <2>3. CASE Stop \/ Tick
    BY <2>3, ClockSteps
  <2>4. CASE UNCHANGED vars
    BY <2>4 DEF vars, reqVars, SessionIInv, TypeOK, EntriesName, CopiesName, Names,
       RefreshedSince, RunsHaveSessions, OwnSessionOnly, FreshSessionSurvives, Exists
  <2> QED
    BY <2>1, <2>2, <2>3, <2>4 DEF Next
<1> QED
  BY InitSessionIInv, <1>1, PTL DEF Spec

\* The state of Resolve, of the map and of the service keeps its types.
THEOREM SessionTypes == Spec => []TypeOK
<1>1. SessionIInv => TypeOK
  BY DEF SessionIInv
<1> QED
  BY SessionInvariant, <1>1, PTL

\* bridge.go:372: two users who share a thread id never reach each other's
\* session, although the map of session.go is keyed by thread id alone.
THEOREM OwnSessions == Spec => []OwnSessionOnly
<1>1. SessionIInv => OwnSessionOnly
  BY DEF SessionIInv
<1> QED
  BY SessionInvariant, <1>1, PTL

\* cleanup (session.go) never deletes the session of a run whose Resolve
\* refreshed the thread's entry at most SessionTimeout ago.
THEOREM FreshSessions == Spec => []FreshSessionSurvives
<1>1. SessionIInv => FreshSessionSurvives
  BY DEF SessionIInv
<1> QED
  BY SessionInvariant, <1>1, PTL

-----------------------------------------------------------------------------
(* One session per thread.                                                 *)

\* A thread whose sessions are all live is in the map: an entry leaves the map
\* in cleanup alone, which deletes, or leaks, the session the entry names.
MapKnows ==
  \A t \in Threads :
    /\ \E id \in DOMAIN sessions : sessions[id].thread = t
    /\ \A id \in DOMAIN sessions : sessions[id].thread = t => sessions[id].status = "live"
    => EntryOf(t) # {}

\* PutEntry leaves every thread of the map in it.
LEMMA PutKeepsThreads ==
  ASSUME NEW new, threads' = PutEntry(new), NEW t, EntryOf(t) # {}
  PROVE  EntryOf(t)' # {}
<1>1. CASE t = new.thread
  <2>1. new \in EntryOf(t)'
    BY <1>1 DEF PutEntry, EntryOf
  <2> QED
    BY <2>1
<1>2. CASE t # new.thread
  <2>1. PICK e \in threads : e.thread = t
    BY DEF EntryOf
  <2>2. e \in EntryOf(t)'
    BY <1>2, <2>1 DEF PutEntry, EntryOf
  <2> QED
    BY <2>2
<1> QED
  BY <1>1, <1>2

\* Where no session is created or deleted, the threads of the map stay in it.
LEMMA QuietSteps ==
  ASSUME MapKnows, OneSessionPerThread, UNCHANGED sessions, getFailed => getFailed',
         UNCHANGED threads \/ \E new : threads' = PutEntry(new)
  PROVE  MapKnows' /\ OneSessionPerThread'
<1>1. \A t \in Threads : EntryOf(t) # {} => EntryOf(t)' # {}
  <2>1. CASE UNCHANGED threads
    BY <2>1 DEF EntryOf
  <2>2. CASE \E new : threads' = PutEntry(new)
    BY <2>2, PutKeepsThreads
  <2> QED
    BY <2>1, <2>2
<1>2. MapKnows'
  BY <1>1 DEF MapKnows
<1>3. OneSessionPerThread'
  BY DEF OneSessionPerThread
<1> QED
  BY <1>2, <1>3

\* A thread that has only live sessions of one user is in the map with one of
\* them, so that the double check finds it unless the Get fails.
LEMMA CreateOnce ==
  ASSUME SessionIInv, MapKnows, OneSessionPerThread, NEW r \in Requests, CreateSession(r)
  PROVE  MapKnows' /\ OneSessionPerThread'
<1> USE DEF SessionIInv
<1> DEFINE last == Len(sessions')
<1>1. /\ Kept
      /\ last \in DOMAIN sessions'
      /\ sessions'[last] = [thread |-> Asks[r].thread, user |-> Asks[r].user, status |-> "live"]
      /\ \A i \in DOMAIN sessions : sessions'[i] = sessions[i]
  BY CreateKeeps
<1>2. /\ DOMAIN sessions = 1..(last - 1)
      /\ DOMAIN sessions' = 1..last
      /\ last \in Nat
  <2>1. sessions \in Seq(Service)
    BY DEF TypeOK, Service
  <2> QED
    BY <2>1 DEF CreateSession
<1>3. getFailed' = (getFailed \/ ~Useless(r))
  BY DEF CreateSession
<1>4. PICK new : threads' = PutEntry(new) /\ new.thread = Asks[r].thread
  BY DEF CreateSession
<1> HIDE DEF last
<1>5. MapKnows'
  <2> SUFFICES ASSUME NEW t \in Threads,
                      NEW id \in DOMAIN sessions', sessions'[id].thread = t,
                      \A i \in DOMAIN sessions' : sessions'[i].thread = t => sessions'[i].status = "live"
               PROVE  EntryOf(t)' # {}
    BY DEF MapKnows
  <2>1. CASE t = Asks[r].thread
    <3>1. new \in EntryOf(t)'
      BY <1>4, <2>1 DEF PutEntry, EntryOf
    <3> QED
      BY <3>1
  <2>2. CASE t # Asks[r].thread
    <3>1. id \in DOMAIN sessions /\ sessions[id].thread = t
      BY <1>1, <1>2, <2>2
    <3>2. \A i \in DOMAIN sessions : sessions[i].thread = t => sessions[i].status = "live"
      BY <1>1 DEF Kept
    <3>3. EntryOf(t) # {}
      BY <3>1, <3>2 DEF MapKnows
    <3> QED
      BY <1>4, <3>3, PutKeepsThreads
  <2> QED
    BY <2>1, <2>2
<1>6. OneSessionPerThread'
  <2> SUFFICES ASSUME NEW i \in DOMAIN sessions', NEW j \in DOMAIN sessions',
                      i < j, sessions'[i] = sessions'[j], sessions'[i].status = "live", ~getFailed'
               PROVE  \E k \in 1..(j - 1) :
                        /\ sessions'[k].thread = sessions'[j].thread
                        /\ sessions'[k].status # "live" \/ sessions'[k].user # sessions'[j].user
    BY DEF OneSessionPerThread
  <2>1. CASE j # last
    <3>1. i \in DOMAIN sessions /\ j \in DOMAIN sessions /\ 1..(j - 1) \subseteq DOMAIN sessions
      BY <1>2, <2>1
    <3>2. ~getFailed
      BY <1>3
    <3>3. sessions[i] = sessions[j] /\ sessions[i].status = "live"
      BY <1>1, <3>1
    <3>4. PICK k \in 1..(j - 1) :
            /\ sessions[k].thread = sessions[j].thread
            /\ sessions[k].status # "live" \/ sessions[k].user # sessions[j].user
      BY <3>1, <3>2, <3>3 DEF OneSessionPerThread
    <3> QED
      BY <1>1, <3>1, <3>4
  <2>2. CASE j = last
    <3> DEFINE t == Asks[r].thread
               u == Asks[r].user
    <3>1. i \in DOMAIN sessions /\ sessions[i].thread = t
      BY <1>1, <1>2, <2>2
    <3>2. Useless(r)
      BY <1>3
    <3> SUFFICES ASSUME \A k \in DOMAIN sessions :
                          sessions[k].thread = t => sessions[k].status = "live" /\ sessions[k].user = u
                 PROVE  FALSE
      BY <1>1, <1>2, <2>2
    <3>3. PICK e \in threads : e.thread = t
      BY <3>1, SessionAssumption DEF MapKnows, EntryOf
    <3>4. Gets(u, e.session)
      BY <3>3 DEF EntriesName, Names, Gets, Exists
    <3> QED
      BY <3>2, <3>3, <3>4 DEF Useless, EntryOf
  <2> QED
    BY <2>1, <2>2
<1> QED
  BY <1>5, <1>6

\* An entry that cleanup takes leaves its thread a session that is not live.
LEMMA CleanupOnce ==
  ASSUME SessionIInv, MapKnows, OneSessionPerThread, Cleanup
  PROVE  MapKnows' /\ OneSessionPerThread'
<1> USE DEF SessionIInv
<1>1. /\ Kept
      /\ DOMAIN sessions' = DOMAIN sessions
      /\ \A id \in DOMAIN sessions : sessions[id].status # "live" => sessions'[id].status # "live"
      /\ \A e \in threads : Idle(e) /\ Names(e) => sessions'[e.session].status # "live"
  BY CleanupKeeps
<1>2. /\ threads' = {e \in threads : ~Idle(e)}
      /\ UNCHANGED getFailed
  BY DEF Cleanup
<1>3. MapKnows'
  <2> SUFFICES ASSUME NEW t \in Threads,
                      NEW id \in DOMAIN sessions, sessions'[id].thread = t,
                      \A i \in DOMAIN sessions : sessions'[i].thread = t => sessions'[i].status = "live"
               PROVE  EntryOf(t)' # {}
    BY <1>1 DEF MapKnows
  <2>1. /\ sessions[id].thread = t
        /\ \A i \in DOMAIN sessions : sessions[i].thread = t => sessions[i].status = "live"
    BY <1>1 DEF Kept
  <2>2. PICK e \in threads : e.thread = t
    BY <2>1 DEF MapKnows, EntryOf
  <2>3. Names(e)
    BY DEF EntriesName
  <2>4. ~Idle(e)
    BY <1>1, <2>2, <2>3 DEF Names, Kept
  <2>5. e \in EntryOf(t)'
    BY <1>2, <2>2, <2>4 DEF EntryOf
  <2> QED
    BY <2>5
<1>4. OneSessionPerThread'
  <2> SUFFICES ASSUME NEW i \in DOMAIN sessions, NEW j \in DOMAIN sessions,
                      i < j, sessions'[i] = sessions'[j], sessions'[i].status = "live", ~getFailed
               PROVE  \E k \in 1..(j - 1) :
                        /\ sessions'[k].thread = sessions'[j].thread
                        /\ sessions'[k].status # "live" \/ sessions'[k].user # sessions'[j].user
    BY <1>1, <1>2 DEF OneSessionPerThread
  <2>1. sessions \in [1..Len(sessions) -> Service] /\ Len(sessions) \in Nat
    <3>1. sessions \in Seq(Service)
      BY DEF TypeOK, Service
    <3> QED
      BY <3>1, LenProperties
  <2>2. sessions[i].status = "live" /\ sessions[j].status = "live"
    BY <1>1
  <2>3. sessions[i] \in Service /\ sessions[j] \in Service
    BY <2>1
  <2>4. sessions[i] = sessions[j]
    BY <1>1, <2>2, <2>3 DEF Service, Kept
  <2>5. PICK k \in 1..(j - 1) :
          /\ sessions[k].thread = sessions[j].thread
          /\ sessions[k].status # "live" \/ sessions[k].user # sessions[j].user
    BY <2>2, <2>4 DEF OneSessionPerThread
  <2>6. k \in DOMAIN sessions
    BY <2>1
  <2> QED
    BY <1>1, <2>5, <2>6 DEF Kept
<1> QED
  BY <1>3, <1>4

\* Double-checked locking (session.go): requests that arrive together for the
\* thread of one user share the session that the first of them created.
THEOREM OneSession == Spec => []OneSessionPerThread
<1>1. Init => MapKnows /\ OneSessionPerThread
  BY DEF Init, MapKnows, OneSessionPerThread
<1>2. SessionIInv /\ (MapKnows /\ OneSessionPerThread) /\ [Next]_vars
      => (MapKnows /\ OneSessionPerThread)'
  <2> SUFFICES ASSUME SessionIInv, MapKnows, OneSessionPerThread, [Next]_vars
               PROVE  MapKnows' /\ OneSessionPerThread'
    OBVIOUS
  <2>1. ASSUME NEW r \in Requests, Call(r) \/ ReadEntry(r) \/ CreateFails(r) \/ EndRun(r)
        PROVE  MapKnows' /\ OneSessionPerThread'
    BY <2>1, QuietSteps DEF Call, ReadEntry, CreateFails, EndRun
  <2>2. ASSUME NEW r \in Requests, TouchEntry(r)
        PROVE  MapKnows' /\ OneSessionPerThread'
    BY <2>2, QuietSteps DEF TouchEntry
  <2>3. ASSUME NEW r \in Requests, GetSession(r)
        PROVE  MapKnows' /\ OneSessionPerThread'
    <3>1. UNCHANGED <<sessions, threads>>
      BY <2>3 DEF GetSession
    <3>2. getFailed => getFailed'
      BY <2>3 DEF GetSession
    <3> QED
      BY <3>1, <3>2, QuietSteps
  <2>4. ASSUME NEW r \in Requests, DoubleCheck(r)
        PROVE  MapKnows' /\ OneSessionPerThread'
    BY <2>4, QuietSteps DEF DoubleCheck
  <2>5. ASSUME NEW r \in Requests, CreateSession(r)
        PROVE  MapKnows' /\ OneSessionPerThread'
    BY <2>5, CreateOnce
  <2>6. CASE Cleanup
    BY <2>6, CleanupOnce
  <2>7. CASE Stop \/ Tick \/ UNCHANGED vars
    BY <2>7, QuietSteps DEF Stop, Tick, vars
  <2> QED
    BY <2>1, <2>2, <2>3, <2>4, <2>5, <2>6, <2>7 DEF Next, Resolve
<1> QED
  BY SessionInvariant, <1>1, <1>2, PTL DEF Spec
=============================================================================
