-------------------------- MODULE EvalService_proofs --------------------------
(***************************************************************************)
(* Every case an evaluation is asked for is reported exactly once, for     *)
(* every eval set, every number of goroutines and every bound.             *)
(*                                                                         *)
(* The goroutines add their results in the order they end, so the results  *)
(* are no list that can be compared with the list of the cases: what is    *)
(* invariant is that every id has as many results as it has goroutines     *)
(* that are done.  When all are done it has as many results as cases, and  *)
(* the second pass starts from the results of the first.                   *)
(***************************************************************************)
EXTENDS EvalService, FiniteSetTheorems, SequenceTheorems, WellFoundedInduction, TLAPS

IsSeq(s) == s \in Seq(Words(s))
SameCounts(s, t) == \A id \in Words(s) \cup Words(t) : Count(s, id) = Count(t, id)

TaskFields == {"pc", "case", "events", "turns", "inv", "run", "best", "out"}
TaskPcs == {"turns", "load", "judge", "compare", "save", "report", "abort", "done"}

\* A goroutine has one case, and what it reports is of that case.
TaskOK(t, id) ==
  /\ DOMAIN t = TaskFields /\ t.pc \in TaskPcs /\ t.case.id = id
  /\ t.pc \in {"report", "save", "compare"} => t.out.id = id
  /\ t.best # <<>> => t.best[1].id = id

EvalTypeOK ==
  /\ pc \in {"start", "spawn", "yield", "ended", "failed"}
  /\ IsSeq(file.cases) /\ IsSeq(items) /\ IsSeq(tasks) /\ IsSeq(results) /\ IsSeq(out) /\ IsSeq(asked)
  /\ DOMAIN edit = Editors
  /\ \A e \in Editors : DOMAIN edit[e] = {"pc", "cases"} /\ IsSeq(edit[e].cases)
TasksHaveCases ==
  /\ Len(tasks) <= Len(items)
  /\ \A k \in DOMAIN tasks : TaskOK(tasks[k], items[k].id)

DoneWith(id) == {k \in DOMAIN tasks : tasks[k].pc = "done" /\ items[k].id = id}
ResultsAreTheDone ==
  pc # "failed" => \A id \in Words(Ids(items)) \cup Words(Ids(results)) : Count(Ids(results), id) = Cardinality(DoneWith(id))
OutIsPrefix == Len(out) <= Len(results) /\ \A n \in DOMAIN out : out[n] = results[n]
PassIsOver ==
  /\ pc = "start" => asked = <<>> /\ items = <<>> /\ tasks = <<>> /\ results = <<>> /\ out = <<>>
  /\ pc \in {"yield", "ended"} => Running = {} /\ Len(tasks) = Len(items)
  /\ pc = "ended" => Len(out) = Len(results)

EvalIInv ==
  /\ EvalTypeOK
  /\ TasksHaveCases
  /\ SameCounts(Ids(items), asked)
  /\ ResultsAreTheDone
  /\ OutIsPrefix
  /\ PassIsOver
-----------------------------------------------------------------------------
(* Sequences and counts.                                                   *)

LEMMA SeqFacts ==
  ASSUME NEW s, IsSeq(s)
  PROVE  Len(s) \in Nat /\ DOMAIN s = 1..Len(s) /\ IsFiniteSet(DOMAIN s)
<1>1. Len(s) \in Nat /\ DOMAIN s = 1..Len(s)
  BY DEF IsSeq
<1> QED
  BY <1>1, FS_Interval

LEMMA FunctionIsSeq ==
  ASSUME NEW n \in Nat, NEW s, s = [i \in 1..n |-> s[i]]
  PROVE  IsSeq(s) /\ Len(s) = n
<1>1. \A i \in 1..n : s[i] \in Words(s)
  BY DEF Words
<1>2. s \in [1..n -> Words(s)]
  BY <1>1
<1>3. s \in Seq(Words(s))
  BY <1>2, SeqDef
<1> QED
  BY <1>2, <1>3, LenProperties DEF IsSeq

LEMMA SeqIsFunction ==
  ASSUME NEW s, IsSeq(s)
  PROVE  s = [i \in 1..Len(s) |-> s[i]]
BY DEF IsSeq

LEMMA EmptyIsSeq == IsSeq(<<>>)
BY DEF IsSeq

LEMMA AppendIsSeq ==
  ASSUME NEW s, IsSeq(s), NEW x
  PROVE  /\ IsSeq(Append(s, x)) /\ Len(Append(s, x)) = Len(s) + 1
         /\ DOMAIN Append(s, x) = DOMAIN s \cup {Len(s) + 1} /\ Len(s) + 1 \notin DOMAIN s
         /\ Append(s, x)[Len(s) + 1] = x
         /\ \A i \in DOMAIN s : Append(s, x)[i] = s[i]
<1> DEFINE W == Words(s) \cup {x}
           a == Append(s, x)
<1>1. s \in Seq(W) /\ x \in W
  <2>1. Words(s) \subseteq W
    OBVIOUS
  <2> QED
    BY <2>1 DEF IsSeq
<1> HIDE DEF W
<1>2. /\ a \in Seq(W) /\ Len(a) = Len(s) + 1 /\ Len(s) \in Nat /\ DOMAIN s = 1..Len(s)
      /\ DOMAIN a = 1..(Len(s) + 1) /\ a[Len(s) + 1] = x /\ \A i \in DOMAIN s : a[i] = s[i]
  BY <1>1
<1> HIDE DEF a
<1>3. IsSeq(a)
  <2>1. a = [i \in 1..(Len(s) + 1) |-> a[i]] /\ Len(s) + 1 \in Nat
    BY <1>2
  <2> QED
    BY <2>1, FunctionIsSeq
<1> QED
  BY <1>2, <1>3 DEF a

LEMMA ExceptIsSeq ==
  ASSUME NEW s, IsSeq(s), NEW i, NEW x
  PROVE  LET t == [s EXCEPT ![i] = x]
         IN  /\ IsSeq(t) /\ Len(t) = Len(s) /\ DOMAIN t = DOMAIN s
             /\ i \in DOMAIN s => t[i] = x
             /\ \A j \in DOMAIN s : j # i => t[j] = s[j]
<1> DEFINE t == [s EXCEPT ![i] = x]
<1>1. Len(s) \in Nat /\ DOMAIN s = 1..Len(s)
  BY SeqFacts
<1>2. t = [j \in 1..Len(s) |-> t[j]]
  BY <1>1
<1> QED
  BY <1>1, <1>2, FunctionIsSeq

\* A selection of the places of a sequence is a sequence.
LEMMA AtIsSeq ==
  ASSUME NEW s, IsSeq(s), NEW places \in SUBSET DOMAIN s
  PROVE  IsSeq(At(s, places))
<1>1. Cardinality(places) \in Nat
  BY SeqFacts, FS_Subset, FS_CardinalityType
<1> DEFINE t == At(s, places)
<1>2. t = [n \in 1..Cardinality(places) |-> t[n]]
  BY DEF At
<1> HIDE DEF t
<1> QED
  BY <1>1, <1>2, FunctionIsSeq DEF t

LEMMA IdsFacts ==
  ASSUME NEW s, IsSeq(s)
  PROVE  /\ IsSeq(Ids(s)) /\ Len(Ids(s)) = Len(s) /\ DOMAIN Ids(s) = DOMAIN s
         /\ \A i \in DOMAIN s : Ids(s)[i] = s[i].id
<1>1. Len(s) \in Nat /\ DOMAIN s = 1..Len(s)
  BY SeqFacts
<1> DEFINE t == Ids(s)
<1>2. DOMAIN t = DOMAIN s /\ \A i \in DOMAIN s : t[i] = s[i].id
  BY DEF Ids
<1>3. t = [i \in 1..Len(s) |-> t[i]]
  BY <1>1 DEF Ids
<1> HIDE DEF t
<1> QED
  BY <1>1, <1>2, <1>3, FunctionIsSeq DEF t

LEMMA CountFacts ==
  ASSUME NEW s, IsSeq(s), NEW id
  PROVE  /\ Count(s, id) = Cardinality({i \in DOMAIN s : s[i] = id}) /\ Count(s, id) \in Nat
         /\ IsFiniteSet({i \in DOMAIN s : s[i] = id})
         /\ id \notin Words(s) => Count(s, id) = 0
<1>1. IsFiniteSet({i \in DOMAIN s : s[i] = id})
  BY SeqFacts, FS_Subset
<1>2. id \notin Words(s) => {i \in DOMAIN s : s[i] = id} = {}
  BY DEF Words
<1> QED
  BY <1>1, <1>2, FS_CardinalityType, FS_EmptySet DEF Count

\* Sequences with the same counts have them for every id, those they do not hold included.
LEMMA SameCountsForAll ==
  ASSUME NEW s, IsSeq(s), NEW t, IsSeq(t)
  PROVE  SameCounts(s, t) <=> \A id : Count(s, id) = Count(t, id)
<1>1. \A id : id \notin Words(s) \cup Words(t) => Count(s, id) = 0 /\ Count(t, id) = 0
  BY CountFacts
<1> QED
  BY <1>1 DEF SameCounts

LEMMA CountAppend ==
  ASSUME NEW s, IsSeq(s), NEW x, NEW id
  PROVE  Count(Ids(Append(s, x)), id) = Count(Ids(s), id) + (IF x.id = id THEN 1 ELSE 0)
<1> DEFINE a == Append(s, x)
           old == {i \in DOMAIN Ids(s) : Ids(s)[i] = id}
           new == {i \in DOMAIN Ids(a) : Ids(a)[i] = id}
<1>1. /\ IsSeq(a) /\ DOMAIN a = DOMAIN s \cup {Len(s) + 1} /\ Len(s) + 1 \notin DOMAIN s
      /\ a[Len(s) + 1] = x /\ \A i \in DOMAIN s : a[i] = s[i]
  BY AppendIsSeq
<1>2. /\ DOMAIN Ids(s) = DOMAIN s /\ \A i \in DOMAIN s : Ids(s)[i] = s[i].id
      /\ DOMAIN Ids(a) = DOMAIN a /\ \A i \in DOMAIN a : Ids(a)[i] = a[i].id
      /\ IsSeq(Ids(s)) /\ IsSeq(Ids(a))
  BY <1>1, IdsFacts
<1>3. /\ Count(Ids(s), id) = Cardinality(old) /\ Count(Ids(a), id) = Cardinality(new)
      /\ IsFiniteSet(old) /\ Cardinality(old) \in Nat
  <2>1. Count(Ids(s), id) = Cardinality(old) /\ Count(Ids(a), id) = Cardinality(new)
    BY Zenon DEF Count
  <2>2. old \in SUBSET DOMAIN Ids(s) /\ IsFiniteSet(DOMAIN Ids(s))
    BY <1>2, SeqFacts
  <2> QED
    BY <2>1, <2>2, FS_Subset, FS_CardinalityType, Zenon
<1> HIDE DEF a
<1>4. CASE x.id = id
  <2>1. new = old \cup {Len(s) + 1} /\ Len(s) + 1 \notin old
    BY <1>1, <1>2, <1>4
  <2> HIDE DEF old, new
  <2>2. Cardinality(new) = Cardinality(old) + 1
    BY <1>3, <2>1, FS_AddElement
  <2> QED
    BY <1>3, <1>4, <2>2 DEF a
<1>5. CASE x.id # id
  <2>1. new = old
    BY <1>1, <1>2, <1>5
  <2> QED
    BY <1>3, <1>5, <2>1 DEF a
<1> QED
  BY <1>4, <1>5

LEMMA MinOf ==
  ASSUME NEW S, S \subseteq Nat, S # {}
  PROVE  Min(S) \in S
<1>1. PICK x \in S : \A y \in S : ~(<<y, x>> \in OpToRel(<, Nat))
  BY NatLessThanWellFounded, WFMin
<1>2. \A y \in S : ~(y < x)
  <2> TAKE y \in S
  <2>1. x \in Nat /\ y \in Nat
    OBVIOUS
  <2>2. <<y, x>> \in OpToRel(<, Nat) <=> y < x
    BY <2>1, Zenon DEF OpToRel
  <2> QED
    BY <1>1, <2>2
<1>3. \A y \in S : x <= y
  BY <1>2
<1> QED
  BY <1>3 DEF Min

\* The case found is one with the id asked for.
LEMMA CaseOfFacts ==
  ASSUME NEW cases, IsSeq(cases), NEW id
  PROVE  CaseOf(cases, id) # <<>> => CaseOf(cases, id)[1].id = id
<1>1. Places(cases, {id}) \subseteq Nat
  BY SeqFacts DEF Places
<1>2. CASE Places(cases, {id}) # {}
  <2>1. Min(Places(cases, {id})) \in Places(cases, {id})
    BY <1>1, <1>2, MinOf
  <2> QED
    BY <2>1 DEF Places, CaseOf
<1> QED
  BY <1>2 DEF CaseOf

LEMMA EditedIsSeq ==
  ASSUME NEW cases, IsSeq(cases), NEW op, Edited(op, cases) # <<>>
  PROVE  IsSeq(Edited(op, cases)[1])
<1>1. Places(cases, {op.case.id}) \in SUBSET DOMAIN cases
  BY DEF Places
<1>2. DOMAIN cases \ Places(cases, {op.case.id}) \in SUBSET DOMAIN cases
  OBVIOUS
<1>3. IsSeq(At(cases, DOMAIN cases \ Places(cases, {op.case.id})))
  BY <1>2, AtIsSeq
<1>4. IsSeq(Append(cases, op.case)) /\ IsSeq([cases EXCEPT ![Min(Places(cases, {op.case.id}))] = op.case])
  BY AppendIsSeq, ExceptIsSeq
<1> QED
  BY <1>3, <1>4 DEF Edited
-----------------------------------------------------------------------------
(* A goroutine.                                                            *)

LEMMA TaskFacts ==
  ASSUME EvalIInv, NEW k \in DOMAIN tasks
  PROVE  /\ TaskOK(tasks[k], items[k].id) /\ k \in DOMAIN items
         /\ pc # "start" /\ (tasks[k].pc # "done" => pc \notin {"yield", "ended"})
<1>1. /\ Len(tasks) \in Nat /\ DOMAIN tasks = 1..Len(tasks)
      /\ Len(items) \in Nat /\ DOMAIN items = 1..Len(items) /\ Len(tasks) <= Len(items)
  BY SeqFacts DEF EvalIInv, EvalTypeOK, TasksHaveCases
<1>2. k \in DOMAIN items
  BY <1>1
<1>3. pc # "start"
  BY DEF EvalIInv, PassIsOver
<1> QED
  BY <1>2, <1>3 DEF EvalIInv, TasksHaveCases, PassIsOver, Running

LEMMA SetTaskFacts ==
  ASSUME IsSeq(tasks), NEW k \in DOMAIN tasks, NEW t, SetTask(k, t)
  PROVE  /\ IsSeq(tasks') /\ Len(tasks') = Len(tasks) /\ DOMAIN tasks' = DOMAIN tasks /\ tasks'[k] = t
         /\ \A j \in DOMAIN tasks : j # k => tasks'[j] = tasks[j]
<1> DEFINE u == [tasks EXCEPT ![k] = t]
<1>1. Len(tasks) \in Nat /\ DOMAIN tasks = 1..Len(tasks)
  BY SeqFacts
<1>2. /\ DOMAIN u = DOMAIN tasks /\ u[k] = t /\ u = [j \in 1..Len(tasks) |-> u[j]]
      /\ \A j \in DOMAIN tasks : j # k => u[j] = tasks[j]
  BY <1>1
<1>3. tasks' = u
  BY DEF SetTask
<1> HIDE DEF u
<1>4. IsSeq(u) /\ Len(u) = Len(tasks)
  BY <1>1, <1>2, FunctionIsSeq
<1> QED
  BY <1>2, <1>3, <1>4

\* A goroutine that is not done goes on with its case and is still not done.
LEMMA TaskStep ==
  ASSUME EvalIInv, NEW k \in DOMAIN tasks, NEW t, SetTask(k, t),
         UNCHANGED <<file, edit, pc, items, results, out, asked>>,
         TaskOK(t, items[k].id), tasks[k].pc # "done", t.pc # "done"
  PROVE  EvalIInv'
<1>1. /\ IsSeq(tasks') /\ Len(tasks') = Len(tasks) /\ DOMAIN tasks' = DOMAIN tasks /\ tasks'[k] = t
      /\ \A j \in DOMAIN tasks : j # k => tasks'[j] = tasks[j]
  BY SetTaskFacts DEF EvalIInv, EvalTypeOK
<1>2. pc # "start" /\ pc \notin {"yield", "ended"}
  BY TaskFacts
<1>3. EvalTypeOK'
  BY <1>1 DEF EvalIInv, EvalTypeOK
<1>4. TasksHaveCases'
  BY <1>1 DEF EvalIInv, TasksHaveCases
<1>5. \A id : DoneWith(id)' = DoneWith(id)
  BY <1>1 DEF DoneWith
<1>6. ResultsAreTheDone'
  BY <1>5 DEF EvalIInv, ResultsAreTheDone
<1>7. PassIsOver'
  BY <1>2 DEF PassIsOver
<1> QED
  BY <1>3, <1>4, <1>6, <1>7 DEF EvalIInv, OutIsPrefix

LEMMA ConversedOK ==
  ASSUME NEW t, NEW id, TaskOK(t, id), NEW status, NEW inv
  PROVE  TaskOK(Conversed(t, status, inv), id) /\ Conversed(t, status, inv).pc # "done"
<1> DEFINE abort == [t EXCEPT !.pc = "abort"]
           judge == [t EXCEPT !.pc = "judge", !.inv = inv]
           report == [t EXCEPT !.pc = "report", !.out = Inferred(t, status, inv)]
<1>1. TaskOK(abort, id) /\ abort.pc # "done"
  BY DEF TaskOK, TaskFields, TaskPcs
<1>2. TaskOK(judge, id) /\ judge.pc # "done"
  BY DEF TaskOK, TaskFields, TaskPcs
<1>3. TaskOK(report, id) /\ report.pc # "done"
  BY DEF TaskOK, TaskFields, TaskPcs, Inferred
<1> HIDE DEF abort, judge, report
<1>4. Conversed(t, status, inv) \in {abort, judge, report}
  BY DEF Conversed, abort, judge, report
<1> QED
  BY <1>1, <1>2, <1>3, <1>4

LEMMA TurnStaticStep ==
  ASSUME EvalIInv, NEW k \in DOMAIN tasks, TurnStatic(k)
  PROVE  EvalIInv'
<1> DEFINE t == tasks[k]
           turns == Asked(t.case)
<1>1. TaskOK(t, items[k].id)
  BY TaskFacts
<1>2. t.pc = "turns" /\ UNCHANGED <<file, edit, pc, items, results, out, asked>>
  BY DEF TurnStatic, Quiet
<1>3. CASE \E status, inv : SetTask(k, Conversed(t, status, inv))
  BY <1>1, <1>2, <1>3, ConversedOK, TaskStep
<1>4. ASSUME NEW n, NEW inv, SetTask(k, [t EXCEPT !.turns = n, !.inv = inv])
      PROVE  EvalIInv'
  <2> DEFINE u == [t EXCEPT !.turns = n, !.inv = inv]
  <2>1. TaskOK(u, items[k].id) /\ u.pc # "done"
    BY <1>1, <1>2 DEF TaskOK, TaskFields, TaskPcs
  <2> HIDE DEF u
  <2> QED
    BY <1>2, <1>4, <2>1, TaskStep DEF u
<1>5. \/ \E status, inv : SetTask(k, Conversed(t, status, inv))
      \/ \E n, inv : SetTask(k, [t EXCEPT !.turns = n, !.inv = inv])
  BY DEF TurnStatic
<1> QED
  BY <1>3, <1>4, <1>5

LEMMA TurnDynamicStep ==
  ASSUME EvalIInv, NEW k \in DOMAIN tasks, TurnDynamic(k)
  PROVE  EvalIInv'
<1> DEFINE t == tasks[k]
<1>1. TaskOK(t, items[k].id)
  BY TaskFacts
<1>2. t.pc = "turns" /\ UNCHANGED <<file, edit, pc, items, results, out, asked>>
  BY DEF TurnDynamic, Quiet
<1>3. CASE \E status, inv : SetTask(k, Conversed(t, status, inv))
  BY <1>1, <1>2, <1>3, ConversedOK, TaskStep
<1>4. ASSUME NEW n, NEW events, SetTask(k, [t EXCEPT !.turns = n, !.events = events])
      PROVE  EvalIInv'
  <2> DEFINE u == [t EXCEPT !.turns = n, !.events = events]
  <2>1. TaskOK(u, items[k].id) /\ u.pc # "done"
    BY <1>1, <1>2 DEF TaskOK, TaskFields, TaskPcs
  <2> HIDE DEF u
  <2> QED
    BY <1>2, <1>4, <2>1, TaskStep DEF u
<1>5. \/ \E status, inv : SetTask(k, Conversed(t, status, inv))
      \/ \E n, events : SetTask(k, [t EXCEPT !.turns = n, !.events = events])
  BY DEF TurnDynamic
<1> QED
  BY <1>3, <1>4, <1>5

LEMMA LoadStep ==
  ASSUME EvalIInv, NEW k \in DOMAIN tasks, Load(k)
  PROVE  EvalIInv'
<1> DEFINE t == tasks[k]
           found == IF file.is = "whole" THEN CaseOf(file.cases, t.case.id) ELSE <<>>
<1>1. TaskOK(t, items[k].id) /\ IsSeq(file.cases)
  BY TaskFacts DEF EvalIInv, EvalTypeOK
<1>2. t.pc = "load" /\ UNCHANGED <<file, edit, pc, items, results, out, asked>>
  BY DEF Load, Quiet
<1>3. CASE SetTask(k, [t EXCEPT !.pc = "report", !.out = Bare(t.case.id)])
  <2> DEFINE u == [t EXCEPT !.pc = "report", !.out = Bare(t.case.id)]
  <2>1. TaskOK(u, items[k].id) /\ u.pc # "done"
    BY <1>1, <1>2 DEF TaskOK, TaskFields, TaskPcs, Bare
  <2> HIDE DEF u
  <2> QED
    BY <1>2, <1>3, <2>1, TaskStep DEF u
<1>4. ASSUME NEW inv, SetTask(k, [t EXCEPT !.pc = "judge", !.case = found[1], !.inv = inv]), found # <<>>
      PROVE  EvalIInv'
  <2> DEFINE u == [t EXCEPT !.pc = "judge", !.case = found[1], !.inv = inv]
  <2>1. found[1].id = items[k].id
    BY <1>1, <1>4, CaseOfFacts DEF TaskOK
  <2>2. u.case = found[1] /\ u.best = t.best
    BY <1>1 DEF TaskOK, TaskFields
  <2>3. TaskOK(u, items[k].id) /\ u.pc # "done"
    BY <1>1, <1>2, <2>1, <2>2 DEF TaskOK, TaskFields, TaskPcs
  <2> HIDE DEF u
  <2> QED
    BY <1>2, <1>4, <2>3, TaskStep DEF u
<1>5. \/ SetTask(k, [t EXCEPT !.pc = "report", !.out = Bare(t.case.id)])
      \/ found # <<>> /\ \E inv : SetTask(k, [t EXCEPT !.pc = "judge", !.case = found[1], !.inv = inv])
  BY DEF Load
<1> QED
  BY <1>3, <1>4, <1>5

LEMMA JudgeStep ==
  ASSUME EvalIInv, NEW k \in DOMAIN tasks, Judge(k)
  PROVE  EvalIInv'
<1> DEFINE t == tasks[k]
<1>1. TaskOK(t, items[k].id)
  BY TaskFacts
<1>2. t.pc = "judge" /\ UNCHANGED <<file, edit, pc, items, results, out, asked>>
  BY DEF Judge, Quiet
<1>3. CASE SetTask(k, [t EXCEPT !.pc = "abort"])
  <2> DEFINE u == [t EXCEPT !.pc = "abort"]
  <2>1. TaskOK(u, items[k].id) /\ u.pc # "done"
    BY <1>1, <1>2 DEF TaskOK, TaskFields, TaskPcs
  <2> HIDE DEF u
  <2> QED
    BY <1>2, <1>3, <2>1, TaskStep DEF u
<1>4. ASSUME NEW next \in {"compare", "report", "save"}, NEW o, o.id = t.case.id,
             SetTask(k, [t EXCEPT !.pc = next, !.out = o])
      PROVE  EvalIInv'
  <2> DEFINE u == [t EXCEPT !.pc = next, !.out = o]
  <2>1. u.out = o /\ u.best = t.best /\ u.case = t.case /\ u.pc = next /\ DOMAIN u = DOMAIN t
    BY <1>1 DEF TaskOK, TaskFields
  <2> HIDE DEF u
  <2>2. TaskOK(u, items[k].id) /\ u.pc # "done"
    BY <1>1, <1>2, <1>4, <2>1 DEF TaskOK, TaskFields, TaskPcs
  <2> QED
    BY <1>2, <1>4, <2>2, TaskStep DEF u
<1>5. \/ SetTask(k, [t EXCEPT !.pc = "abort"])
      \/ \E next \in {"compare", "report", "save"} : \E o : o.id = t.case.id /\ SetTask(k, [t EXCEPT !.pc = next, !.out = o])
  <2>1. PICK votes \in [Votings(t.inv) -> job.votes] :
           LET statuses == Statuses(t.case, t.inv, votes)
               failed == "ERROR" \in Words(statuses)
               result == CaseResult(t.case, t.inv, votes, statuses)
           IN  SetTask(k, IF stage = "agent"
                            THEN IF failed THEN [t EXCEPT !.pc = "abort"] ELSE [t EXCEPT !.pc = "compare", !.out = result]
                            ELSE IF failed THEN [t EXCEPT !.pc = "report", !.out = Bare(t.case.id)]
                                 ELSE [t EXCEPT !.pc = IF job.save THEN "save" ELSE "report", !.out = result])
    BY DEF Judge
  <2> DEFINE result == CaseResult(t.case, t.inv, votes, Statuses(t.case, t.inv, votes))
  <2>2. result.id = t.case.id /\ Bare(t.case.id).id = t.case.id
    BY DEF CaseResult, Bare
  <2> HIDE DEF result
  <2>3. \/ SetTask(k, [t EXCEPT !.pc = "abort"])
        \/ SetTask(k, [t EXCEPT !.pc = "compare", !.out = result])
        \/ SetTask(k, [t EXCEPT !.pc = "report", !.out = Bare(t.case.id)])
        \/ SetTask(k, [t EXCEPT !.pc = "save", !.out = result])
        \/ SetTask(k, [t EXCEPT !.pc = "report", !.out = result])
    BY <2>1 DEF result
  <2> QED
    BY <2>2, <2>3
<1> QED
  BY <1>3, <1>4, <1>5

\* The best run is one of the case's own.
LEMMA KeepBestStep ==
  ASSUME EvalIInv, NEW k \in DOMAIN tasks, KeepBest(k)
  PROVE  EvalIInv'
<1> DEFINE t == tasks[k]
           best == IF t.best = <<>> \/ t.out.final = "PASSED" THEN <<t.out>> ELSE t.best
           again == [Task(t.case) EXCEPT !.run = t.run + 1, !.best = best]
           over == [t EXCEPT !.pc = "report", !.out = best[1]]
<1>1. TaskOK(t, items[k].id)
  BY TaskFacts
<1>2. /\ t.pc = "compare" /\ UNCHANGED <<file, edit, pc, items, results, out, asked>>
      /\ SetTask(k, again) \/ SetTask(k, over)
  BY DEF KeepBest, Quiet
<1>3. best[1].id = items[k].id
  <2>1. CASE t.best = <<>> \/ t.out.final = "PASSED"
    BY <1>1, <1>2, <2>1 DEF TaskOK
  <2>2. CASE ~(t.best = <<>> \/ t.out.final = "PASSED")
    BY <1>1, <2>2 DEF TaskOK
  <2> QED
    BY <2>1, <2>2
<1> HIDE DEF best
<1>4. TaskOK(again, items[k].id) /\ again.pc # "done"
  BY <1>1, <1>3 DEF TaskOK, TaskFields, TaskPcs, Task
<1>5. over.out = best[1] /\ over.best = t.best /\ over.case = t.case /\ over.pc = "report" /\ DOMAIN over = DOMAIN t
  BY <1>1 DEF TaskOK, TaskFields
<1> HIDE DEF over, again
<1>6. TaskOK(over, items[k].id) /\ over.pc # "done"
  BY <1>1, <1>3, <1>5 DEF TaskOK, TaskFields, TaskPcs
<1> QED
  BY <1>2, <1>4, <1>6, TaskStep

\* The counts, for every id.
LEMMA DoneCounts ==
  ASSUME EvalIInv, NEW id
  PROVE  /\ IsFiniteSet(DoneWith(id)) /\ Cardinality(DoneWith(id)) \in Nat
         /\ pc # "failed" => Count(Ids(results), id) = Cardinality(DoneWith(id))
<1>1. IsSeq(tasks) /\ IsSeq(results) /\ IsSeq(items)
  BY DEF EvalIInv, EvalTypeOK
<1>2. IsFiniteSet(DoneWith(id))
  BY <1>1, SeqFacts, FS_Subset DEF DoneWith
<1>3. CASE id \notin Words(Ids(items)) \cup Words(Ids(results))
  <2>1. Count(Ids(results), id) = 0
    BY <1>1, <1>3, IdsFacts, CountFacts
  <2>2. \A k \in DOMAIN tasks : items[k].id \in Words(Ids(items))
    <3> TAKE k \in DOMAIN tasks
    <3>1. k \in DOMAIN items
      BY TaskFacts
    <3> QED
      BY <1>1, <3>1, IdsFacts DEF Words
  <2>3. DoneWith(id) = {}
    BY <1>3, <2>2 DEF DoneWith
  <2> QED
    BY <1>2, <2>1, <2>3, FS_EmptySet, FS_CardinalityType
<1> QED
  BY <1>2, <1>3, FS_CardinalityType DEF EvalIInv, ResultsAreTheDone

LEMMA SaveStep ==
  ASSUME EvalIInv, NEW k \in DOMAIN tasks, Save(k)
  PROVE  EvalIInv'
<1> DEFINE t == tasks[k]
           kept == [t EXCEPT !.pc = "report"]
           lost == [t EXCEPT !.pc = "report", !.out = Bare(t.case.id)]
<1>1. TaskOK(t, items[k].id)
  BY TaskFacts
<1>2. /\ t.pc = "save" /\ UNCHANGED <<file, edit, pc, items, results, out, asked>>
      /\ SetTask(k, kept) \/ SetTask(k, lost)
  BY DEF Save, Caller
<1>3. TaskOK(kept, items[k].id) /\ kept.pc # "done"
  BY <1>1, <1>2 DEF TaskOK, TaskFields, TaskPcs
<1>4. TaskOK(lost, items[k].id) /\ lost.pc # "done"
  BY <1>1, <1>2 DEF TaskOK, TaskFields, TaskPcs, Bare
<1> HIDE DEF kept, lost
<1> QED
  BY <1>2, <1>3, <1>4, TaskStep

\* One result more, and one goroutine more that is done, for the same id.
LEMMA ReportStep ==
  ASSUME EvalIInv, NEW k \in DOMAIN tasks, Report(k)
  PROVE  EvalIInv'
<1> DEFINE t == tasks[k]
           u == [t EXCEPT !.pc = "done"]
<1>1. TaskOK(t, items[k].id) /\ IsSeq(results) /\ IsSeq(items) /\ IsSeq(tasks) /\ IsSeq(out)
  BY TaskFacts DEF EvalIInv, EvalTypeOK
<1>2. /\ t.pc = "report" /\ results' = Append(results, t.out) /\ SetTask(k, u)
      /\ UNCHANGED <<file, edit, pc, items, out, asked>>
  BY DEF Report, Caller
<1>3. TaskOK(u, items[k].id) /\ u.pc = "done"
  BY <1>1, <1>2 DEF TaskOK, TaskFields, TaskPcs
<1> HIDE DEF u
<1>4. /\ IsSeq(tasks') /\ Len(tasks') = Len(tasks) /\ DOMAIN tasks' = DOMAIN tasks /\ tasks'[k] = u
      /\ \A j \in DOMAIN tasks : j # k => tasks'[j] = tasks[j]
  BY <1>1, <1>2, SetTaskFacts
<1>5. /\ IsSeq(results') /\ Len(results') = Len(results) + 1 /\ Len(results) \in Nat
      /\ \A n \in DOMAIN results : results'[n] = results[n]
  BY <1>1, <1>2, AppendIsSeq, SeqFacts
<1>6. t.out.id = items[k].id /\ pc # "start" /\ pc \notin {"yield", "ended"}
  BY <1>1, <1>2, TaskFacts DEF TaskOK
<1>7. EvalTypeOK'
  BY <1>2, <1>4, <1>5 DEF EvalIInv, EvalTypeOK
<1>8. TasksHaveCases'
  BY <1>2, <1>3, <1>4 DEF EvalIInv, TasksHaveCases
<1>9. ResultsAreTheDone'
  <2> SUFFICES ASSUME pc # "failed", NEW id PROVE Count(Ids(results'), id) = Cardinality(DoneWith(id)')
    BY <1>2 DEF ResultsAreTheDone
  <2>1. Count(Ids(results), id) = Cardinality(DoneWith(id)) /\ IsFiniteSet(DoneWith(id)) /\ Cardinality(DoneWith(id)) \in Nat
    BY DoneCounts
  <2>2. Count(Ids(results'), id) = Count(Ids(results), id) + (IF items[k].id = id THEN 1 ELSE 0)
    BY <1>1, <1>2, <1>6, CountAppend
  <2>3. CASE items[k].id = id
    <3>1. DoneWith(id)' = DoneWith(id) \cup {k} /\ k \notin DoneWith(id)
      BY <1>2, <1>3, <1>4, <2>3 DEF DoneWith
    <3>2. Cardinality(DoneWith(id)') = Cardinality(DoneWith(id)) + 1
      BY <2>1, <3>1, FS_AddElement
    <3> QED
      BY <2>1, <2>2, <2>3, <3>2
  <2>4. CASE items[k].id # id
    <3>1. DoneWith(id)' = DoneWith(id)
      BY <1>2, <1>4, <2>4 DEF DoneWith
    <3> QED
      BY <2>1, <2>2, <2>4, <3>1
  <2> QED
    BY <2>3, <2>4
<1>10. OutIsPrefix'
  <2>1. \A n \in DOMAIN out : n \in DOMAIN results
    BY <1>1, SeqFacts DEF EvalIInv, OutIsPrefix
  <2>2. Len(out) \in Nat
    BY <1>1, SeqFacts
  <2> QED
    BY <1>2, <1>5, <2>1, <2>2 DEF EvalIInv, OutIsPrefix
<1>11. PassIsOver'
  BY <1>2, <1>6 DEF PassIsOver
<1> QED
  BY <1>2, <1>7, <1>8, <1>9, <1>10, <1>11 DEF EvalIInv

\* The error of a case ends the caller: what is reported no longer counts.
LEMMA AbortStep ==
  ASSUME EvalIInv, NEW k \in DOMAIN tasks, Abort(k)
  PROVE  EvalIInv'
<1> DEFINE t == tasks[k]
           u == [t EXCEPT !.pc = "done"]
<1>1. TaskOK(t, items[k].id) /\ IsSeq(tasks)
  BY TaskFacts DEF EvalIInv, EvalTypeOK
<1>2. /\ t.pc = "abort" /\ pc' = "failed" /\ SetTask(k, u)
      /\ UNCHANGED <<file, edit, items, results, out, asked>>
  BY DEF Abort
<1>3. TaskOK(u, items[k].id)
  BY <1>1, <1>2 DEF TaskOK, TaskFields, TaskPcs
<1> HIDE DEF u
<1>4. /\ IsSeq(tasks') /\ Len(tasks') = Len(tasks) /\ DOMAIN tasks' = DOMAIN tasks /\ tasks'[k] = u
      /\ \A j \in DOMAIN tasks : j # k => tasks'[j] = tasks[j]
  BY <1>1, <1>2, SetTaskFacts
<1>5. EvalTypeOK'
  BY <1>2, <1>4 DEF EvalIInv, EvalTypeOK
<1>6. TasksHaveCases'
  BY <1>2, <1>3, <1>4 DEF EvalIInv, TasksHaveCases
<1> QED
  BY <1>2, <1>5, <1>6 DEF EvalIInv, ResultsAreTheDone, OutIsPrefix, PassIsOver

LEMMA WorkStep ==
  ASSUME EvalIInv, NEW k \in DOMAIN tasks, Work(k)
  PROVE  EvalIInv'
BY TurnStaticStep, TurnDynamicStep, LoadStep, JudgeStep, KeepBestStep, AbortStep, SaveStep, ReportStep DEF Work

-----------------------------------------------------------------------------
(* The caller.                                                             *)

LEMMA StartStep ==
  ASSUME EvalIInv, Start
  PROVE  EvalIInv'
<1>1. /\ asked = <<>> /\ items = <<>> /\ tasks = <<>> /\ results = <<>> /\ out = <<>> /\ pc = "start"
      /\ IsSeq(file.cases)
      /\ UNCHANGED <<file, edit, tasks, results, out>>
  BY DEF Start, EvalIInv, PassIsOver, EvalTypeOK
<1>2. CASE pc' = "failed" /\ UNCHANGED <<items, asked>>
  BY <1>1, <1>2 DEF EvalIInv, EvalTypeOK, TasksHaveCases, ResultsAreTheDone, OutIsPrefix, PassIsOver
<1>3. CASE /\ pc' = "spawn" /\ items' = (IF job.agent THEN file.cases ELSE filterEvalCases(file.cases))
           /\ asked' = Ids(items')
  <2>1. IsSeq(items')
    <3>1. Places(file.cases, job.wanted) \in SUBSET DOMAIN file.cases
      BY DEF Places
    <3>2. IsSeq(filterEvalCases(file.cases))
      BY <1>1, <3>1, AtIsSeq DEF filterEvalCases
    <3> QED
      BY <1>1, <1>3, <3>2
  <2>2. Len(tasks') <= Len(items') /\ Len(tasks') = 0 /\ DOMAIN tasks' = {}
    BY <1>1, <2>1, SeqFacts
  <2>3. EvalTypeOK'
    BY <1>1, <1>3, <2>1, IdsFacts DEF EvalIInv, EvalTypeOK
  <2>4. TasksHaveCases'
    BY <2>2 DEF TasksHaveCases
  <2>5. SameCounts(Ids(items), asked)'
    BY <1>3 DEF SameCounts
  <2>6. ResultsAreTheDone'
    <3> SUFFICES ASSUME NEW id PROVE Count(Ids(results'), id) = Cardinality(DoneWith(id)')
      BY DEF ResultsAreTheDone
    <3>1. DoneWith(id)' = {}
      BY <2>2 DEF DoneWith
    <3>2. {i \in DOMAIN Ids(results') : Ids(results')[i] = id} = {}
      BY <1>1 DEF Ids
    <3> QED
      BY <3>1, <3>2 DEF Count
  <2>7. OutIsPrefix' /\ PassIsOver'
    BY <1>1, <1>3 DEF OutIsPrefix, PassIsOver
  <2> QED
    BY <2>3, <2>4, <2>5, <2>6, <2>7 DEF EvalIInv
<1> QED
  BY <1>2, <1>3 DEF Start

LEMMA SpawnStep ==
  ASSUME EvalIInv, Spawn
  PROVE  EvalIInv'
<1> DEFINE n == Len(tasks) + 1
           it == items[n]
           t == IF stage = "evaluate" THEN [Task(it) EXCEPT !.pc = "load"] ELSE Task(it)
<1>1. /\ pc = "spawn" /\ Len(tasks) < Len(items) /\ tasks' = Append(tasks, t)
      /\ UNCHANGED <<file, edit, pc, items, results, out, asked>> /\ IsSeq(tasks) /\ IsSeq(items)
  BY DEF Spawn, EvalIInv, EvalTypeOK
<1>2. TaskOK(t, items[n].id) /\ t.pc # "done"
  BY DEF TaskOK, Task, TaskFields, TaskPcs
<1> HIDE DEF t
<1>3. /\ IsSeq(tasks') /\ Len(tasks') = n /\ DOMAIN tasks' = DOMAIN tasks \cup {n} /\ n \notin DOMAIN tasks
      /\ tasks'[n] = t /\ \A k \in DOMAIN tasks : tasks'[k] = tasks[k]
  BY <1>1, AppendIsSeq
<1>4. Len(tasks) \in Nat /\ Len(items) \in Nat /\ Len(tasks') <= Len(items)
  BY <1>1, <1>3, SeqFacts
<1>5. EvalTypeOK'
  BY <1>1, <1>3 DEF EvalIInv, EvalTypeOK
<1>6. TasksHaveCases'
  BY <1>1, <1>2, <1>3, <1>4 DEF EvalIInv, TasksHaveCases
<1>7. \A id : DoneWith(id)' = DoneWith(id)
  BY <1>1, <1>2, <1>3 DEF DoneWith
<1>8. ResultsAreTheDone'
  BY <1>1, <1>7 DEF EvalIInv, ResultsAreTheDone
<1> QED
  BY <1>1, <1>5, <1>6, <1>8 DEF EvalIInv, OutIsPrefix, PassIsOver

\* Once all goroutines are done, every id has as many results as it was asked for.
LEMMA AllReported ==
  ASSUME EvalIInv, pc \in {"yield", "ended"}
  PROVE  \A id : Count(Ids(results), id) = Count(asked, id)
<1> SUFFICES ASSUME NEW id PROVE Count(Ids(results), id) = Count(asked, id)
  OBVIOUS
<1>1. /\ IsSeq(items) /\ IsSeq(tasks) /\ SameCounts(Ids(items), asked) /\ IsSeq(asked)
      /\ Running = {} /\ Len(tasks) = Len(items)
  BY DEF EvalIInv, EvalTypeOK, PassIsOver
<1>2. Count(Ids(items), id) = Count(asked, id)
  BY <1>1, IdsFacts, SameCountsForAll
<1>3. DOMAIN tasks = DOMAIN items /\ DOMAIN Ids(items) = DOMAIN items /\ \A i \in DOMAIN items : Ids(items)[i] = items[i].id
  BY <1>1, SeqFacts, IdsFacts
<1>4. DoneWith(id) = {i \in DOMAIN Ids(items) : Ids(items)[i] = id}
  BY <1>1, <1>3 DEF DoneWith, Running
<1>5. Cardinality(DoneWith(id)) = Count(Ids(items), id)
  BY <1>4 DEF Count
<1> QED
  BY <1>2, <1>5, DoneCounts

LEMMA YieldStep ==
  ASSUME EvalIInv, Yield
  PROVE  EvalIInv'
<1>1. /\ pc = "yield" /\ Len(out) < Len(results) /\ out' = Append(out, results[Len(out) + 1])
      /\ UNCHANGED <<file, edit, pc, items, tasks, results, asked>>
      /\ IsSeq(out) /\ IsSeq(results) /\ OutIsPrefix
  BY DEF Yield, EvalIInv, EvalTypeOK
<1>2. /\ IsSeq(out') /\ Len(out') = Len(out) + 1 /\ DOMAIN out' = DOMAIN out \cup {Len(out) + 1}
      /\ out'[Len(out) + 1] = results[Len(out) + 1] /\ \A n \in DOMAIN out : out'[n] = out[n]
      /\ Len(out) \in Nat /\ Len(results) \in Nat
  BY <1>1, AppendIsSeq, SeqFacts
<1>3. OutIsPrefix'
  BY <1>1, <1>2 DEF OutIsPrefix
<1>4. EvalTypeOK'
  BY <1>1, <1>2 DEF EvalIInv, EvalTypeOK
<1> QED
  BY <1>1, <1>3, <1>4 DEF EvalIInv, TasksHaveCases, ResultsAreTheDone, DoneWith, PassIsOver, Running

\* What was handed out is all there is.
LEMMA OutIsAll ==
  ASSUME EvalIInv, Len(out) = Len(results)
  PROVE  out = results
<1>1. IsSeq(out) /\ IsSeq(results)
  BY DEF EvalIInv, EvalTypeOK
<1>2. out = [i \in 1..Len(out) |-> out[i]] /\ results = [i \in 1..Len(results) |-> results[i]] /\ DOMAIN out = 1..Len(out)
  BY <1>1, SeqIsFunction, SeqFacts
<1> QED
  BY <1>2 DEF EvalIInv, OutIsPrefix

\* The second pass has the results of the first for its items.
LEMMA NextPassStep ==
  ASSUME EvalIInv, NextPass
  PROVE  EvalIInv'
<1>1. /\ pc = "yield" /\ Len(out) = Len(results) /\ out = results
      /\ UNCHANGED <<file, edit, asked>> /\ IsSeq(out) /\ IsSeq(asked)
  BY OutIsAll DEF NextPass, EvalIInv, EvalTypeOK
<1>2. CASE pc' \in {"ended", "failed"} /\ UNCHANGED <<items, tasks, results, out>>
  BY <1>1, <1>2 DEF EvalIInv, EvalTypeOK, TasksHaveCases, ResultsAreTheDone, DoneWith, OutIsPrefix, PassIsOver, Running
<1>3. CASE pc' = "spawn" /\ items' = out /\ tasks' = <<>> /\ results' = <<>> /\ out' = <<>>
  <2>1. EvalTypeOK'
    BY <1>1, <1>3, EmptyIsSeq DEF EvalIInv, EvalTypeOK
  <2>2. TasksHaveCases'
    BY <1>1, <1>3, SeqFacts DEF TasksHaveCases
  <2>3. SameCounts(Ids(items), asked)'
    <3>1. \A id : Count(Ids(out), id) = Count(asked, id)
      BY <1>1, AllReported
    <3> QED
      BY <1>1, <1>3, <3>1, IdsFacts, SameCountsForAll
  <2>4. ResultsAreTheDone'
    <3> SUFFICES ASSUME NEW id PROVE Count(Ids(results'), id) = Cardinality(DoneWith(id)')
      BY DEF ResultsAreTheDone
    <3>1. DoneWith(id)' = {}
      BY <1>3 DEF DoneWith
    <3>2. {i \in DOMAIN Ids(results') : Ids(results')[i] = id} = {}
      BY <1>3 DEF Ids
    <3> QED
      BY <3>1, <3>2 DEF Count
  <2>5. OutIsPrefix' /\ PassIsOver'
    BY <1>3 DEF OutIsPrefix, PassIsOver
  <2> QED
    BY <2>1, <2>2, <2>3, <2>4, <2>5 DEF EvalIInv
<1> QED
  BY <1>2, <1>3 DEF NextPass

LEMMA CallerSteps ==
  ASSUME EvalIInv, CallerStep
  PROVE  EvalIInv'
<1>1. CASE GiveUp \/ Stop
  BY <1>1 DEF GiveUp, Stop, EvalIInv, EvalTypeOK, TasksHaveCases, ResultsAreTheDone, OutIsPrefix, PassIsOver
<1>2. CASE Wait
  BY <1>2 DEF Wait, EvalIInv, EvalTypeOK, TasksHaveCases, ResultsAreTheDone, DoneWith, OutIsPrefix, PassIsOver, Running
<1> QED
  BY <1>1, <1>2, StartStep, SpawnStep, YieldStep, NextPassStep DEF CallerStep

-----------------------------------------------------------------------------
(* The others, and the process.                                            *)

LEMMA FrameStep ==
  ASSUME EvalIInv, UNCHANGED <<pc, items, tasks, results, out, asked>>, EvalTypeOK'
  PROVE  EvalIInv'
BY DEF EvalIInv, TasksHaveCases, ResultsAreTheDone, DoneWith, OutIsPrefix, PassIsOver, Running

\* Whatever an editor leaves in the file, it is a list of cases.
LEMMA EditStep ==
  ASSUME EvalIInv, NEW e \in Editors, EditLoad(e) \/ EditTruncate(e) \/ EditWrite(e)
  PROVE  EvalIInv'
<1>1. UNCHANGED <<pc, items, tasks, results, out, asked>>
  BY DEF EditLoad, EditTruncate, EditWrite
<1>2. EvalTypeOK
  BY DEF EvalIInv
<1>3. CASE EditLoad(e)
  <2>1. PICK op \in job.edits :
          LET new == IF file.is = "whole" THEN Edited(op, file.cases) ELSE <<>>
          IN  edit' = [edit EXCEPT ![e] = IF new = <<>> THEN [pc |-> "done", cases |-> <<>>]
                                          ELSE [pc |-> "truncate", cases |-> new[1]]]
    BY <1>3 DEF EditLoad
  <2> DEFINE new == IF file.is = "whole" THEN Edited(op, file.cases) ELSE <<>>
             next == IF new = <<>> THEN [pc |-> "done", cases |-> <<>>] ELSE [pc |-> "truncate", cases |-> new[1]]
  <2>2. new # <<>> => IsSeq(new[1])
    BY <1>2, EditedIsSeq DEF EvalTypeOK
  <2> HIDE DEF new
  <2>3. DOMAIN next = {"pc", "cases"} /\ IsSeq(next.cases)
    BY <2>2, EmptyIsSeq
  <2> HIDE DEF next
  <2>4. edit' = [edit EXCEPT ![e] = next]
    BY <2>1 DEF new, next
  <2>5. EvalTypeOK'
    BY <1>1, <1>2, <1>3, <2>3, <2>4 DEF EvalTypeOK, EditLoad
  <2> QED
    BY <1>1, <2>5, FrameStep
<1>4. CASE EditTruncate(e)
  <2>1. edit' = [edit EXCEPT ![e].pc = "write"] /\ file'.cases = <<>>
    BY <1>4 DEF EditTruncate
  <2>2. EvalTypeOK'
    BY <1>1, <1>2, <2>1, EmptyIsSeq DEF EvalTypeOK
  <2> QED
    BY <1>1, <2>2, FrameStep
<1>5. CASE EditWrite(e)
  <2>1. edit' = [edit EXCEPT ![e].pc = "done"] /\ file'.cases = edit[e].cases
    BY <1>5 DEF EditWrite
  <2>2. EvalTypeOK'
    BY <1>1, <1>2, <2>1 DEF EvalTypeOK
  <2> QED
    BY <1>1, <2>2, FrameStep
<1> QED
  BY <1>3, <1>4, <1>5

LEMMA InitEvalIInv == Init => EvalIInv
<1> SUFFICES ASSUME Init PROVE EvalIInv
  OBVIOUS
<1>1. IsSeq(file.cases)
  BY JobsAssumption DEF Init, IsSeq, Words
<1>2. EvalTypeOK
  BY <1>1, EmptyIsSeq DEF Init, EvalTypeOK
<1>3. /\ Ids(<<>>) = <<>> /\ DOMAIN <<>> = {} /\ Len(<<>>) = 0
  BY DEF Ids
<1>4. ResultsAreTheDone
  BY <1>3 DEF Init, ResultsAreTheDone, Words
<1> QED
  BY <1>2, <1>3, <1>4 DEF Init, EvalIInv, TasksHaveCases, SameCounts, OutIsPrefix, PassIsOver

\* Every id has as many results as goroutines that are done with it, in both passes of
\* LocalEvalService and in AgentEvaluator's loop: the inductive invariant.
THEOREM EvalInvariant == Spec => []EvalIInv
<1>1. EvalIInv /\ [Next]_vars => EvalIInv'
  <2> SUFFICES ASSUME EvalIInv, [Next]_vars PROVE EvalIInv'
    OBVIOUS
  <2>1. CASE UNCHANGED vars \/ Cancel \/ Tick
    <3>1. UNCHANGED <<file, edit, pc, items, tasks, results, out, asked>>
      BY <2>1 DEF vars, Cancel, Tick
    <3>2. EvalTypeOK'
      BY <3>1 DEF EvalIInv, EvalTypeOK
    <3> QED
      BY <3>1, <3>2, FrameStep
  <2> QED
    BY <2>1, CallerSteps, WorkStep, EditStep DEF Next
<1> QED
  BY InitEvalIInv, <1>1, PTL DEF Spec

\* A run that is neither cancelled nor left hands out one result for each case asked for,
\* whatever order the goroutines of local_eval_service.go end in.
THEOREM EveryCaseIsReportedOnce == Spec => []EveryCaseOnce
<1>1. EvalIInv => EveryCaseOnce
  <2> SUFFICES ASSUME EvalIInv, pc = "ended" PROVE \A id : Count(Ids(out), id) = Count(asked, id)
    BY DEF EveryCaseOnce
  <2>1. out = results
    BY OutIsAll DEF EvalIInv, PassIsOver
  <2> QED
    BY <2>1, AllReported
<1> QED
  BY <1>1, EvalInvariant, PTL
=============================================================================
