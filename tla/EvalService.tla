----------------------------- MODULE EvalService -----------------------------
(***************************************************************************)
(* An eval set is run and judged: by LocalEvalService, whose two passes    *)
(* start a goroutine for each case, a few at a time, and hand out the      *)
(* results when all are in; or by AgentEvaluator, which takes the cases    *)
(* one after the other and repeats each.  Meanwhile others edit the file   *)
(* of the eval set, and every judged case is written to a file of its own. *)
(*                                                                         *)
(* The agent, the simulated user's model and the judge answer anything.    *)
(***************************************************************************)
EXTENDS EvalScoring

CONSTANTS
  Jobs,     \* what is run: see MCEvalService
  Editors,  \* the goroutines that edit the eval set, one operation each
  MaxCases, \* bound on the cases of an eval set
  MaxTurns, \* turns of a simulated conversation (20 in the source)
  MaxTime   \* bound on the seconds that pass

VARIABLES
  job,       \* the job that is run
  file,      \* the eval set's file: [is, cases]
  edit,      \* Editors -> [pc, cases]
  stage,     \* "infer", "evaluate" or "agent"
  pc,        \* the caller: "start", "spawn", "yield", "ended" or "failed"
  items,     \* the cases, or the inference results, of this pass
  tasks,     \* one task for each item started
  results,   \* in the order of their ends
  out,       \* what the consumer took
  cancelled, \* the context is done
  clock,     \* seconds
  saved,     \* the result files by name: a name is a second
  asked      \* history: the cases that were asked for

ASSUME JobsAssumption == \A j \in Jobs : j.suite \in Seq({j.suite[i] : i \in DOMAIN j.suite})

vars == <<job, file, edit, stage, pc, items, tasks, results, out, cancelled, clock, saved, asked>>
Caller == <<job, file, edit, stage, pc, items, out, cancelled, clock, asked>>

Ids(seq) == [i \in DOMAIN seq |-> seq[i].id]
\* the elements of a sequence at the places given, in order
At(seq, places) ==
  [n \in 1..Cardinality(places) |-> seq[CHOOSE i \in places : Cardinality({j \in places : j <= i}) = n]]
Places(cases, ids) == {i \in DOMAIN cases : cases[i].id \in ids}
\* the first case with the id, or none
CaseOf(cases, id) == LET there == Places(cases, {id}) IN IF there = {} THEN <<>> ELSE <<cases[Min(there)]>>

Init ==
  /\ job \in Jobs
  /\ file = [is |-> "whole", cases |-> job.suite]
  /\ edit = [e \in Editors |-> [pc |-> "load", cases |-> <<>>]]
  /\ stage = (IF job.agent THEN "agent" ELSE "infer") /\ pc = "start"
  /\ items = <<>> /\ tasks = <<>> /\ results = <<>> /\ out = <<>> /\ asked = <<>>
  /\ cancelled = FALSE /\ clock = 0 /\ saved = <<>>

-----------------------------------------------------------------------------
(* The caller                                                              *)

filterEvalCases(cases) == IF job.wanted = {} THEN cases ELSE At(cases, Places(cases, job.wanted))

Task(c) == [pc |-> "turns", case |-> c, events |-> <<>>, turns |-> 0, inv |-> <<>>, run |-> 1, best |-> <<>>, out |-> <<>>]

Start ==
  /\ pc = "start" /\ stage # "evaluate"
  /\ IF file.is # "whole" THEN pc' = "failed" /\ UNCHANGED <<items, asked>>
     ELSE /\ pc' = "spawn"
          /\ items' = (IF job.agent THEN file.cases ELSE filterEvalCases(file.cases))
          /\ asked' = Ids(items')
  /\ UNCHANGED <<job, file, edit, stage, tasks, results, out, cancelled, clock, saved>>

Parallelism == IF stage = "agent" THEN 1 ELSE IF job.parallelism <= 0 THEN 4 ELSE job.parallelism
Running == {k \in DOMAIN tasks : tasks[k].pc # "done"}

\* The next goroutine, when there is room; AgentEvaluator calls evaluateCase itself
Spawn ==
  /\ pc = "spawn" /\ Len(tasks) < Len(items) /\ Cardinality(Running) < Parallelism
  /\ LET it == items[Len(tasks) + 1]
     IN  tasks' = Append(tasks, IF stage = "evaluate" THEN [Task(it) EXCEPT !.pc = "load"] ELSE Task(it))
  /\ UNCHANGED <<job, file, edit, stage, pc, items, results, out, cancelled, clock, saved, asked>>

\* select takes either branch when both are ready; the goroutines that run go on
GiveUp ==
  /\ pc = "spawn" /\ stage # "agent" /\ Len(tasks) < Len(items) /\ cancelled
  /\ pc' = "failed"
  /\ UNCHANGED <<job, file, edit, stage, items, tasks, results, out, cancelled, clock, saved, asked>>

\* Fault: the results are handed out before all goroutines have ended
WaitNot ==
  /\ pc = "spawn" /\ Len(tasks) = Len(items)
  /\ pc' = "yield"
  /\ UNCHANGED <<job, file, edit, stage, items, tasks, results, out, cancelled, clock, saved, asked>>

Wait ==
  /\ pc = "spawn" /\ Len(tasks) = Len(items) /\ Running = {}
  /\ pc' = "yield"
  /\ UNCHANGED <<job, file, edit, stage, items, tasks, results, out, cancelled, clock, saved, asked>>

Yield ==
  /\ pc = "yield" /\ Len(out) < Len(results)
  /\ out' = Append(out, results[Len(out) + 1])
  /\ UNCHANGED <<job, file, edit, stage, pc, items, tasks, results, cancelled, clock, saved, asked>>

Stop ==
  /\ pc = "yield" /\ stage # "agent" /\ job.impatient /\ out # <<>>
  /\ pc' = "failed"
  /\ UNCHANGED <<job, file, edit, stage, items, tasks, results, out, cancelled, clock, saved, asked>>

\* Everything is out: the consumer evaluates what it inferred, or AgentEvaluator saves its table
NextPass ==
  /\ pc = "yield" /\ Len(out) = Len(results)
  /\ IF stage = "infer"
       THEN /\ stage' = "evaluate" /\ pc' = "spawn" /\ items' = out
            /\ tasks' = <<>> /\ results' = <<>> /\ out' = <<>> /\ UNCHANGED saved
       ELSE /\ \/ /\ pc' = "ended"
                  /\ saved' = (IF stage = "agent" /\ job.save THEN Append(saved, [at |-> clock, cases |-> Ids(out)]) ELSE saved)
               \/ stage = "agent" /\ job.save /\ job.fails /\ pc' = "failed" /\ UNCHANGED saved
            /\ UNCHANGED <<stage, items, tasks, results, out>>
  /\ UNCHANGED <<job, file, edit, cancelled, clock, asked>>

-----------------------------------------------------------------------------
(* A conversation with the agent                                           *)

SetTask(k, t) == tasks' = [tasks EXCEPT ![k] = t]
Quiet == UNCHANGED <<job, file, edit, stage, pc, items, results, out, cancelled, clock, saved, asked>>
Inferred(t, status, inv) == [id |-> t.case.id, status |-> status, inv |-> inv]

\* The invocation a run's events make: its last final response, and all its calls
Invocation(user, events) ==
  [user |-> user, calls |-> FlattenSeq([i \in DOMAIN events |-> events[i].calls]),
   reply |-> LET last == SelectSeq(events, LAMBDA e : e.reply # None) IN IF last = <<>> THEN None ELSE Last(last).reply,
   rubrics |-> {}]

\* ConvertEventsToEvalInvocations: one for each invocation id, in the order they appear
EvalInvocations(events) ==
  LET ids == [i \in DOMAIN events |-> events[i].inv]
      first == SelectSeq([i \in DOMAIN ids |-> i], LAMBDA i : \A j \in 1..(i - 1) : ids[j] # ids[i])
      group(i) == SelectSeq(events, LAMBDA e : e.inv = ids[i])
      users(i) == SelectSeq(group(i), LAMBDA e : e.user # None)
  IN  [n \in DOMAIN first |-> Invocation(IF users(first[n]) = <<>> THEN None ELSE users(first[n])[1].user, group(first[n]))]

\* What follows a conversation: the inference's report, or the judgement
Conversed(t, status, inv) ==
  IF stage = "agent" THEN IF status = "failure" THEN [t EXCEPT !.pc = "abort"] ELSE [t EXCEPT !.pc = "judge", !.inv = inv]
  ELSE [t EXCEPT !.pc = "report", !.out = Inferred(t, status, inv)]

\* An answer with the ids the session gave it
Answer(a, turn, text) == [a EXCEPT !.inv = IF a.own THEN turn ELSE 0, !.user = IF a.echo THEN text ELSE None]

Asked(c) == SelectSeq(c.turns, LAMBDA x : x.user # None)
TurnStatic(k) ==
  LET t == tasks[k] turns == Asked(t.case)
  IN  /\ t.pc = "turns" /\ t.case.turns # <<>> /\ Quiet
      /\ IF t.turns = Len(turns) THEN SetTask(k, Conversed(t, "success", t.inv))
         ELSE \/ \E a \in job.answers :
                   SetTask(k, [t EXCEPT !.turns = @ + 1, !.inv = Append(@, Invocation(turns[t.turns + 1].user, <<a>>))])
              \/ (job.fails \/ cancelled) /\ SetTask(k, Conversed(t, "failure", <<>>))

\* LlmBackedUserSimulator.GetNextUserMessage: {} when the conversation is over
NextUserMessage(t) ==
  IF t.turns = 0 /\ t.case.prompt # {<<>>} THEN {t.case.prompt}
  ELSE IF t.turns >= job.invocations THEN {None}
  ELSE {None} \cup {{s} : s \in job.says}

TurnDynamic(k) ==
  LET t == tasks[k]
  IN  /\ t.pc = "turns" /\ t.case.turns = <<>> /\ Quiet
      /\ \/ /\ t.case.prompt = None \/ job.simulator # "llm_backed" \/ cancelled \/ job.fails
            /\ SetTask(k, Conversed(t, "failure", <<>>))
         \/ /\ t.case.prompt # None /\ job.simulator = "llm_backed" /\ (t.turns < MaxTurns => ~cancelled)
            /\ \E say \in IF t.turns < MaxTurns THEN NextUserMessage(t) ELSE {None}, a \in job.answers :
                 IF say = None THEN SetTask(k, Conversed(t, "success", EvalInvocations(t.events)))
                 ELSE SetTask(k, [t EXCEPT !.turns = @ + 1, !.events = Append(@, Answer(a, t.turns + 1, say))])

-----------------------------------------------------------------------------
(* A case is judged                                                        *)

Bare(id) == [id |-> id, final |-> "FAILED", detail |-> <<>>]

\* The expected conversation is read again, whatever it is by now
Load(k) ==
  LET t == tasks[k]
      found == IF file.is = "whole" THEN CaseOf(file.cases, t.case.id) ELSE <<>>
      rubrics(i) == IF i <= Len(found[1].turns) THEN found[1].turns[i].rubrics ELSE {}
  IN  /\ t.pc = "load" /\ Quiet
      /\ IF t.case.status = "failure" \/ found = <<>>
           THEN SetTask(k, [t EXCEPT !.pc = "report", !.out = Bare(t.case.id)])
           ELSE SetTask(k, [t EXCEPT !.pc = "judge", !.case = found[1],
                  !.inv = [i \in DOMAIN t.case.inv |-> [t.case.inv[i] EXCEPT !.rubrics = rubrics(i)]]])

Statuses(c, inv, votes) ==
  [i \in DOMAIN job.metrics |-> EvaluateInvocations(job.metrics[i], job.llm, inv, c.turns, c.prompt, votes)]
CaseResult(c, inv, votes, statuses) ==
  [id |-> c.id, detail |-> <<[case |-> c, inv |-> inv, votes |-> votes, statuses |-> statuses]>>,
   final |-> IF \A i \in DOMAIN statuses : statuses[i] = "PASSED" THEN "PASSED" ELSE "FAILED"]
\* The turns that a judge is asked about: the stop, too, for the simulated user's quality
Votings(inv) ==
  1..(Len(inv) + IF \E i \in DOMAIN job.metrics : job.metrics[i].name = "per_turn_user_simulator_quality_v1" THEN 1 ELSE 0)

\* evaluateInferenceResult and evaluateCase: an evaluator's error ends the judgement
Judge(k) ==
  LET t == tasks[k]
  IN  /\ t.pc = "judge" /\ Quiet
      /\ \E votes \in [Votings(t.inv) -> job.votes] :
           LET statuses == Statuses(t.case, t.inv, votes)
               failed == "ERROR" \in Words(statuses)
               result == CaseResult(t.case, t.inv, votes, statuses)
           IN  SetTask(k, IF stage = "agent"
                            THEN IF failed THEN [t EXCEPT !.pc = "abort"] ELSE [t EXCEPT !.pc = "compare", !.out = result]
                            ELSE IF failed THEN [t EXCEPT !.pc = "report", !.out = Bare(t.case.id)]
                                 ELSE [t EXCEPT !.pc = IF job.save THEN "save" ELSE "report", !.out = result])

\* AgentEvaluator keeps the last run that passed, and otherwise the first
KeepBest(k) ==
  LET t == tasks[k]
      best == IF t.best = <<>> \/ t.out.final = "PASSED" THEN <<t.out>> ELSE t.best
  IN  /\ t.pc = "compare" /\ Quiet
      /\ SetTask(k, IF t.run < job.runs THEN [Task(t.case) EXCEPT !.run = t.run + 1, !.best = best]
                    ELSE [t EXCEPT !.pc = "report", !.out = best[1]])

\* The first error of a case ends AgentEvaluator
Abort(k) ==
  /\ tasks[k].pc = "abort" /\ pc' = "failed" /\ SetTask(k, [tasks[k] EXCEPT !.pc = "done"])
  /\ UNCHANGED <<job, file, edit, stage, items, results, out, cancelled, clock, saved, asked>>

\* CreateEvalSetResult names the file after the second, so the last of a second stays
Save(k) ==
  LET t == tasks[k]
  IN  /\ t.pc = "save"
      /\ \/ /\ saved' = Append(SelectSeq(saved, LAMBDA s : s.at # clock), [at |-> clock, cases |-> <<t.case.id>>])
            /\ SetTask(k, [t EXCEPT !.pc = "report"])
         \/ /\ job.fails /\ SetTask(k, [t EXCEPT !.pc = "report", !.out = Bare(t.case.id)]) /\ UNCHANGED saved
      /\ UNCHANGED <<results>> /\ UNCHANGED Caller

\* Fault: a case that failed keeps its slot and is not counted down
ReportKeepsSlot(k) ==
  /\ tasks[k].pc = "report"
  /\ results' = Append(results, tasks[k].out)
  /\ SetTask(k, [tasks[k] EXCEPT !.pc = IF stage = "evaluate" /\ tasks[k].out.detail = <<>> THEN "held" ELSE "done"])
  /\ UNCHANGED <<saved>> /\ UNCHANGED Caller

\* The result is added, the slot is given back
Report(k) ==
  /\ tasks[k].pc = "report"
  /\ results' = Append(results, tasks[k].out)
  /\ SetTask(k, [tasks[k] EXCEPT !.pc = "done"])
  /\ UNCHANGED <<saved>> /\ UNCHANGED Caller

-----------------------------------------------------------------------------
(* Others                                                                  *)

\* AddEvalCase, UpdateEvalCase and DeleteEvalCase on the eval set that was loaded
Edited(op, cases) ==
  LET there == Places(cases, {op.case.id})
  IN  CASE op.do = "add" /\ there = {}    -> <<Append(cases, op.case)>>
        [] op.do = "update" /\ there # {} -> <<[cases EXCEPT ![Min(there)] = op.case]>>
        [] op.do = "delete" /\ there # {} -> <<At(cases, DOMAIN cases \ there)>>
        [] OTHER                          -> <<>>

EditLoad(e) ==
  /\ edit[e].pc = "load"
  /\ \E op \in job.edits :
       LET new == IF file.is = "whole" THEN Edited(op, file.cases) ELSE <<>>
       IN  edit' = [edit EXCEPT ![e] = IF new = <<>> THEN [pc |-> "done", cases |-> <<>>]
                                       ELSE [pc |-> "truncate", cases |-> new[1]]]
  /\ UNCHANGED <<job, file, stage, pc, items, tasks, results, out, cancelled, clock, saved, asked>>

\* WriteFile empties the file before it writes
EditTruncate(e) ==
  /\ edit[e].pc = "truncate"
  /\ file' = [is |-> "torn", cases |-> <<>>] /\ edit' = [edit EXCEPT ![e].pc = "write"]
  /\ UNCHANGED <<job, stage, pc, items, tasks, results, out, cancelled, clock, saved, asked>>
EditWrite(e) ==
  /\ edit[e].pc = "write"
  /\ file' = [is |-> "whole", cases |-> edit[e].cases] /\ edit' = [edit EXCEPT ![e].pc = "done"]
  /\ UNCHANGED <<job, stage, pc, items, tasks, results, out, cancelled, clock, saved, asked>>

Cancel ==
  /\ job.impatient /\ ~cancelled /\ cancelled' = TRUE
  /\ UNCHANGED <<job, file, edit, stage, pc, items, tasks, results, out, clock, saved, asked>>

Tick ==
  /\ job.save /\ clock < MaxTime /\ clock' = clock + 1
  /\ UNCHANGED <<job, file, edit, stage, pc, items, tasks, results, out, cancelled, saved, asked>>

Work(k) == TurnStatic(k) \/ TurnDynamic(k) \/ Load(k) \/ Judge(k) \/ KeepBest(k) \/ Abort(k) \/ Save(k) \/ Report(k)
CallerStep == Start \/ Spawn \/ GiveUp \/ Wait \/ Yield \/ Stop \/ NextPass
Next ==
  \/ CallerStep
  \/ \E k \in DOMAIN tasks : Work(k)
  \/ \E e \in Editors : EditLoad(e) \/ EditTruncate(e) \/ EditWrite(e)
  \/ Cancel \/ Tick

\* The agent, the models and the disk answer every call, and goroutines are scheduled
Spec == Init /\ [][Next]_vars /\ WF_vars(CallerStep)
             /\ \A k \in 1..MaxCases : WF_vars(k \in DOMAIN tasks /\ Work(k))

-----------------------------------------------------------------------------
(* Properties                                                              *)

\* A run that is neither cancelled nor left reports every case that was asked for exactly once,
\* those that failed included, whatever order the goroutines end in.
EveryCaseOnce == pc = "ended" => \A id \in Words(asked) \cup Words(Ids(out)) : Count(Ids(out), id) = Count(asked, id)

\* The calls fit as docs/eval.md:221-223 and the comments of the comparisons say: the expected ones are
\* all there, in their order or in any, and there may be others.
Fits(match, actual, expected) ==
  LET places == [DOMAIN expected -> DOMAIN actual]
      equal(f) == \A j \in DOMAIN expected : actual[f[j]] = expected[j]
  IN  CASE match = "IN_ORDER" -> \E f \in places : equal(f) /\ \A i, j \in DOMAIN expected : i < j => f[i] < f[j]
        [] match = "ANY_ORDER" -> \E f \in places : equal(f) /\ \A i, j \in DOMAIN expected : i # j => f[i] # f[j]
        [] OTHER -> Len(actual) = Len(expected) /\ \A i \in DOMAIN actual : actual[i] = expected[i]

\* What the agent answers is for the turns it is asked, one by one.
TrajectoryPasses(m, d) ==
  LET expected == Asked(d.case)
      compared == DOMAIN d.inv \cap DOMAIN expected
      good == {i \in compared : Fits(m.match, d.inv[i].calls, expected[i].calls)}
  IN  compared # {} /\ \A t \in m.threshold : Cardinality(good) * Full >= t * Cardinality(compared)

\* The details of the cases that have been judged, and the trajectory metrics.
Judgements ==
  UNION {{tasks[k].out.detail[n] : n \in DOMAIN tasks[k].out.detail} :
         k \in {x \in DOMAIN tasks : tasks[x].pc \in {"save", "report", "compare"} /\ stage # "infer"}}
Trajectories ==
  {i \in DOMAIN job.metrics : job.metrics[i].name = "tool_trajectory_avg_score" /\ job.metrics[i].threshold # None}

EveryTurnAsked(d) == Asked(d.case) = d.case.turns
\* No call came where none was expected, unless the calls are to be exactly those expected.
NoCallFromNowhere(m, d) ==
  m.match # "EXACT" => \A i \in DOMAIN d.inv \cap DOMAIN d.case.turns : d.case.turns[i].calls = <<>> => d.inv[i].calls = <<>>

JudgedFairly(i, d) == d.statuses[i] = "PASSED" <=> TrajectoryPasses(job.metrics[i], d)

\* The judge changes its mind on one point, from invalid to valid
Better(votes) ==
  UNION {UNION {{[votes EXCEPT ![i][s][b].label = "valid"] : b \in {x \in DOMAIN votes[i][s] : votes[i][s][x].label = "invalid"}}
                : s \in DOMAIN votes[i]} : i \in DOMAIN votes}

\* A judged case whose turns are all the user's passes a trajectory metric exactly when the calls of
\* enough turns can be laid on the expected ones as its match type says, if none was called where
\* none was expected; and a vote that turns from invalid to valid never makes a metric fail that
\* passed.
VerdictsAreFair ==
  \A d \in Judgements :
    /\ \A i \in Trajectories : EveryTurnAsked(d) /\ NoCallFromNowhere(job.metrics[i], d) => JudgedFairly(i, d)
    /\ \A v \in Better(d.votes) : LET better == Statuses(d.case, d.inv, v)
         IN  \A i \in DOMAIN job.metrics : d.statuses[i] = "PASSED" => better[i] = "PASSED"

\* Not true: "extras allowed"; a turn that expects no call fails by any call.
ExtrasAreAllowed == \A d \in Judgements, i \in Trajectories : EveryTurnAsked(d) => JudgedFairly(i, d)

\* Not true: "the agent is run for each user message and the output is compared against expected
\* results"; a turn without a user message is passed over, and the answers that follow are compared
\* with the turns before theirs.
AnswersMeetTheirTurns ==
  \A d \in Judgements, i \in Trajectories : NoCallFromNowhere(job.metrics[i], d) => JudgedFairly(i, d)

\* An evaluation comes to its end, or to an error: no goroutine that fails keeps its slot, and the
\* caller waits for none that has not been started.
EvaluationEnds == <>(pc \in {"ended", "failed"})

\* Not true: two cases judged in the same second share one result file.
EveryResultKept ==
  pc = "ended" /\ job.save => \A i \in DOMAIN out : out[i].detail # <<>> => \E s \in DOMAIN saved : out[i].id \in Words(saved[s].cases)

=============================================================================
