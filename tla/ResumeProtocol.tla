--------------------------- MODULE ResumeProtocol ---------------------------
(***************************************************************************)
(* Interrupt and resume, bridge.runInternal (src/aguiadk/bridge.go) on top *)
(* of the store of paused runs.  Each HTTP request runs runInternal in a   *)
(* goroutine of its own.  A request without Resume entries starts a run; a *)
(* request with them peeks at the paused run, validates the entries, then  *)
(* claims the paused run and goes on.  A run that meets a long-running     *)
(* tool or a request for input saves itself and announces the interrupt.   *)
(*                                                                         *)
(* Between the peek and the claim, and between the Save and RUN_FINISHED,  *)
(* other requests and the cleanup goroutine take steps.  Validation reads  *)
(* only what the request holds, so it is part of the peek's step.          *)
(*                                                                         *)
(* Abstracted: what the tools do, the events between RUN_STARTED and the   *)
(* terminal event (module EventStream has the stream), the session (module *)
(* SessionManager).  The runner is an environment that may ask, end or     *)
(* fail.                                                                   *)
(***************************************************************************)
EXTENDS RunStore

CONSTANTS
  Requests,   \* the HTTP requests
  Calls,      \* tool call ids, unique within one paused run
  Pauses,     \* what a run may pause on: [pending : SUBSET Calls, requested : BOOLEAN]
  Answers,    \* the Resume lists clients send: sequences of [call, approved]
  Mode        \* Mode[r]: what the bridge does with long-running calls

\* "ask": an approval interrupt; "auto": ApprovalModeFunc returned TRUE;
\* "handBack": ClientToolModeHandBack (bridges may share a Config.RunStore).
Modes == {"ask", "auto", "handBack"}

ASSUME ResumeAssumption ==
  /\ Keys # {}
  /\ IsFiniteSet(Requests)
  /\ Pauses \subseteq [pending : SUBSET Calls, requested : BOOLEAN]
  /\ Answers \subseteq Seq([call : Calls, approved : BOOLEAN])
  /\ Mode \in [Requests -> Modes]

VARIABLES
  pc,       \* where the goroutine of the request is
  input,    \* RunAgentInput: [key, about, answers]
  held,     \* `saved': the paused run the request peeked at
  claimed,  \* the paused run its LoadAndDelete returned and the code discards
  produced, \* the paused run this request saved
  paused    \* paused[n]: what the run number n waits for

reqVars == <<pc, input, held, claimed, produced, paused>>
vars == <<storeVars, reqVars>>

Input == [key : Keys, about : Nat, answers : Answers \cup {<<>>}]

\* A request that has not arrived yet; the key is arbitrary.
NoInput ==
  [key |-> CHOOSE k \in Keys : TRUE, about |-> NoRun, answers |-> <<>>]

Ended(r) == pc[r] \in {"finished", "interrupted", "failed"}

\* The paused runs a client has been told of.
Announced == {produced[r] : r \in {q \in Requests : pc[q] = "interrupted"}}

-----------------------------------------------------------------------------
(* The client's decisions.                                                 *)

\* approvalsFromResume walks the entries, later ones overwrite earlier ones.
Decided(answers) == {answers[n].call : n \in DOMAIN answers}
LastFor(answers, c) ==
  CHOOSE n \in DOMAIN answers :
    /\ answers[n].call = c
    /\ \A m \in DOMAIN answers : answers[m].call = c => m <= n
Approved(answers) ==
  {c \in Decided(answers) : answers[LastFor(answers, c)].approved}

\* Ids of different paused runs differ: entries about another run decide nothing.
DecidedOf(in, n) == IF in.about = n THEN Decided(in.answers) ELSE {}

\* Every pending call needs a decision; requested input needs the one entry that
\* names it.
Addresses(in, n) ==
  IF paused[n].requested
  THEN paused[n].pending \cap DecidedOf(in, n) # {}
  ELSE paused[n].pending \subseteq DecidedOf(in, n)

\* The pending calls the request settles as approved: denied ones get a denial
\* marker; a requested input takes the payload whatever it says.
Executes(r) ==
  IF paused[held[r]].requested
  THEN paused[held[r]].pending
  ELSE paused[held[r]].pending \cap Approved(input[r].answers)

-----------------------------------------------------------------------------
(* The steps of runInternal.                                               *)

Goto(r, l) == pc[r] # l /\ pc' = [pc EXCEPT ![r] = l]

\* The request arrives without Resume entries.
StartRun(r) ==
  /\ pc[r] = "idle"
  /\ \E k \in Keys :
       input' = [input EXCEPT ![r] = [key |-> k, about |-> NoRun, answers |-> <<>>]]
  /\ Goto(r, "running")
  /\ result' = NoRun
  /\ UNCHANGED <<runs, now, cleaning, log, held, claimed, produced, paused>>

\* A client resumes, perhaps again, a run it has been told of.
StartResume(r) ==
  /\ pc[r] = "idle"
  /\ \E n \in Announced, a \in Answers :
       input' = [input EXCEPT ![r] = [key |-> log[n].key, about |-> n, answers |-> a]]
  /\ Goto(r, "peeking")
  /\ result' = NoRun
  /\ UNCHANGED <<runs, now, cleaning, log, held, claimed, produced, paused>>

\* Fault: the claim comes first, the validation after it.
PeekDestructively(r) ==
  /\ pc[r] = "peeking"
  /\ LoadAndDelete(input[r].key)
  /\ held' = [held EXCEPT ![r] = result']
  /\ IF result' # NoRun /\ Addresses(input[r], result')
     THEN Goto(r, "claiming")
     ELSE Goto(r, "failed")
  /\ UNCHANGED <<input, claimed, produced, paused>>

\* Load and the validation of the entries.
Peek(r) ==
  /\ pc[r] = "peeking"
  /\ Load(input[r].key)
  /\ held' = [held EXCEPT ![r] = result']
  /\ IF result' # NoRun /\ Addresses(input[r], result')
     THEN Goto(r, "claiming")
     ELSE Goto(r, "failed")
  /\ UNCHANGED <<input, claimed, produced, paused>>

\* Fault: the resume goes on with what it peeked at, hit or miss.
SettleWithoutClaim(r) ==
  /\ pc[r] = "claiming"
  /\ LoadAndDelete(input[r].key)
  /\ claimed' = [claimed EXCEPT ![r] = result']
  /\ Goto(r, "running")
  /\ UNCHANGED <<input, held, produced, paused>>

\* Fault: the resume settles what it claimed, with entries validated for what
\* it peeked at.
SettleUnvalidated(r) ==
  /\ pc[r] = "claiming"
  /\ LoadAndDelete(input[r].key)
  /\ claimed' = [claimed EXCEPT ![r] = result']
  /\ held' = [held EXCEPT ![r] = result']
  /\ IF result' # NoRun THEN Goto(r, "running") ELSE Goto(r, "failed")
  /\ UNCHANGED <<input, produced, paused>>

\* Fault: a claim that misses waits for the run to come back.
ClaimOrWait(r) ==
  /\ pc[r] = "claiming"
  /\ Claim(input[r].key)
  /\ claimed' = [claimed EXCEPT ![r] = result']
  /\ Goto(r, "running")
  /\ UNCHANGED <<input, held, produced, paused>>

\* LoadAndDelete; only whether it hit counts, the run peeked at is settled.
ClaimAndSettle(r) ==
  /\ pc[r] = "claiming"
  /\ LoadAndDelete(input[r].key)
  /\ claimed' = [claimed EXCEPT ![r] = result']
  /\ IF result' # NoRun THEN Goto(r, "running") ELSE Goto(r, "failed")
  /\ UNCHANGED <<input, held, produced, paused>>

\* The event stops the run: handed back, or auto-approved; requested input
\* cannot be auto-approved.
HandsOff(r, p) ==
  Mode[r] = "handBack" \/ (Mode[r] = "auto" /\ ~p.requested)

\* The runner parks on LongRunningToolIDs and the run is saved.
RunPauses(r) ==
  /\ pc[r] = "running"
  /\ \E p \in Pauses :
       /\ ~HandsOff(r, p)
       /\ paused' = Append(paused, p)
  /\ Save(input[r].key)
  /\ produced' = [produced EXCEPT ![r] = Len(log')]
  /\ Goto(r, "announcing")
  /\ UNCHANGED <<input, held, claimed>>

\* RUN_FINISHED with the interrupt outcome.
AnnounceInterrupt(r) ==
  /\ pc[r] = "announcing"
  /\ Goto(r, "interrupted")
  /\ result' = NoRun
  /\ UNCHANGED <<runs, now, cleaning, log, input, held, claimed, produced, paused>>

\* The client has gone by then: the paused run stays, and nobody knows of it.
LoseAnnouncement(r) ==
  /\ pc[r] = "announcing"
  /\ Goto(r, "failed")
  /\ result' = NoRun
  /\ UNCHANGED <<runs, now, cleaning, log, input, held, claimed, produced, paused>>

\* The runner is done, or hands the calls to the client.
RunEnds(r) ==
  /\ pc[r] = "running"
  /\ Goto(r, "finished")
  /\ result' = NoRun
  /\ UNCHANGED <<runs, now, cleaning, log, input, held, claimed, produced, paused>>

\* The session or the messages cannot be had, before the peek, or the runner
\* reports an error, among others that the client has gone.
RunFails(r) ==
  /\ pc[r] \in {"peeking", "running"}
  /\ Goto(r, "failed")
  /\ result' = NoRun
  /\ UNCHANGED <<runs, now, cleaning, log, input, held, claimed, produced, paused>>

-----------------------------------------------------------------------------
Init ==
  /\ StoreInit
  /\ pc = [r \in Requests |-> "idle"]
  /\ input = [r \in Requests |-> NoInput]
  /\ held = [r \in Requests |-> NoRun]
  /\ claimed = [r \in Requests |-> NoRun]
  /\ produced = [r \in Requests |-> NoRun]
  /\ paused = <<>>

Handler(r) ==
  \/ Peek(r)
  \/ ClaimAndSettle(r)
  \/ RunPauses(r)
  \/ AnnounceInterrupt(r)
  \/ LoseAnnouncement(r)
  \/ RunEnds(r)
  \/ RunFails(r)

Background == (Cleanup \/ Tick) /\ UNCHANGED reqVars

Next ==
  \/ \E r \in Requests : StartRun(r) \/ StartResume(r) \/ Handler(r)
  \/ Background

Spec == Init /\ [][Next]_vars

\* Every goroutine is scheduled, and the runner's iteration ends.  Nothing is
\* asked of clients, of the clock or of the cleanup goroutine.
FairSpec == Spec /\ \A r \in Requests : WF_vars(Handler(r))

-----------------------------------------------------------------------------
PCs ==
  {"idle", "peeking", "claiming", "running", "announcing",
   "finished", "interrupted", "failed"}

TypeOK ==
  /\ StoreTypeOK
  /\ pc \in [Requests -> PCs]
  /\ input \in [Requests -> Input]
  /\ {held, claimed, produced} \subseteq [Requests -> {NoRun} \cup DOMAIN log]
  /\ paused \in Seq(Pauses)
  /\ Len(paused) = Len(log)

\* The request went past the claim with a paused run to settle.
Executed(r) ==
  /\ held[r] # NoRun
  /\ claimed[r] # NoRun \/ pc[r] \in {"running", "announcing", "finished", "interrupted"}

\* "Claim atomically so two concurrent resumes cannot both execute"
\* (bridge.go:538): no paused run has its pending calls settled twice.
ExecutedOnce ==
  \A r1, r2 \in Requests :
    r1 # r2 /\ Executed(r1) /\ Executed(r2) => held[r1] # held[r2]

\* What the claim does give: every resume that goes on has taken a paused run
\* of its own out of the store, under the key it was asked for, either the one
\* it peeked at or one that the same conversation saved later.
EachExecutionTakesAPause ==
  \A r \in Requests : Executed(r) =>
    /\ claimed[r] # NoRun
    /\ log[claimed[r]].key = input[r].key
    /\ claimed[r] >= held[r]
    /\ \A q \in Requests \ {r} : claimed[q] # claimed[r]

\* No call is settled that the client did not decide on: the entries that were
\* validated are about the very run that is settled, and a call is not executed
\* whose approval was withdrawn.
DecidedCallsOnly ==
  \A r \in Requests : Executed(r) /\ paused[held[r]].pending # {} =>
    /\ input[r].about = held[r]
    /\ ~paused[held[r]].requested =>
         \A c \in paused[held[r]].pending :
           \E n \in DOMAIN input[r].answers : input[r].answers[n].call = c
    /\ ~paused[held[r]].requested =>
         \A c \in Executes(r) : \A n \in DOMAIN input[r].answers :
           input[r].answers[n] = [call |-> c, approved |-> FALSE] =>
             \E m \in DOMAIN input[r].answers :
               m > n /\ input[r].answers[m] = [call |-> c, approved |-> TRUE]

\* "Peek (non-destructive) so a malformed/partial resume can be retried"
\* (bridge.go:438): a resume that is refused, at the peek or at the claim,
\* leaves every paused run that has not expired where it is.
RefusedResumeKeepsRuns ==
  [][\A r \in Requests :
       pc[r] \in {"peeking", "claiming"} /\ pc'[r] = "failed" => Unexpired \subseteq runs']_vars

\* Every request gets its terminal event, whatever the others do.
RequestsEnd == \A r \in Requests : pc[r] # "idle" ~> Ended(r)

\* The protocol implements the ledger: runs that resume never outnumber the
\* pauses, and none resumes from a pause that was lost or resumed before.
Ledger ==
  INSTANCE PauseLedger WITH
    waiting <- {e.key : e \in runs},
    pauses  <- Len(log),
    resumed <- Cardinality({r \in Requests : Executed(r)})

ImplementsLedger == Ledger!LedgerSpec
=============================================================================
