------------------------------ MODULE AgentBuild ------------------------------
(***************************************************************************)
(* LoadAndBuild: one goroutine reads a configuration file and builds the   *)
(* tree of agents it describes, children before parents, loading the files *)
(* it refers to and asking the registry for every name; others go on       *)
(* registering under the same names, or replace its registry of templates, *)
(* in the meantime.  That a template's text parses is assumed.             *)
(*                                                                         *)
(* The recursion is a stack of frames, the innermost one last.             *)
(***************************************************************************)
EXTENDS AgentConfig

CONSTANTS
  Disks,       \* the contents the files may have: functions from paths to documents
  Top,         \* the path of the file that is built
  Yaml,        \* the paths of YAML files
  Missing,     \* sets of names that are not registered at first
  TemplateRegistries, \* the registries of templates that may be registered
  Source,      \* the skills of every registered source
  MaxRegister, \* bound on the registrations in the meantime
  MaxDepth     \* bound on the stack, reached only by files that refer to each other in a circle

VARIABLES
  disk,      \* the files
  reg,       \* Registry: [kind, name] -> how often it was registered, 0 when it is not
  templates, \* Registry.templates: the registry of templates, 0 for nil
  held,      \* TemplateRegistry.templates: registry -> the names registered in it
  force,     \* what was in force at some moment of the build
  stack,     \* the calls of BuildWithPath under way
  built,     \* <<>> or the agent that was built
  phase,     \* "load", "build", "done", "error" or "panic"
  registered \* registrations since the start

registry == <<reg, templates, held>>
others == <<disk, registry, force, registered>>
vars == <<disk, registry, force, stack, built, phase, registered>>

Dir(path) == Front(path)
Join(parent, path) == Dir(parent) \o path

RECURSIVE Docs(_)
Docs(doc) == {doc} \cup UNION {Docs(doc.subs[i].inline[1]) : i \in {j \in DOMAIN doc.subs : doc.subs[j].inline # <<>>}}
Key(kind, name) == [kind |-> kind, name |-> name]
KeysIn(doc) == UNION {{Key(k, n) : n \in Range(doc.uses[k])} : k \in DOMAIN doc.uses \ {"template", "text"}}
Codes(doc) == {Key("agent", doc.subs[i].code) : i \in {j \in DOMAIN doc.subs : doc.subs[j].code # ""}}
AllDocs(d) == UNION {Docs(d[p]) : p \in DOMAIN d}
Named(d) == UNION {KeysIn(doc) \cup Codes(doc) : doc \in AllDocs(d)}
TemplateNames(d) ==
  UNION {Range(doc.uses["template"]) : doc \in {c \in AllDocs(d) : "template" \in DOMAIN c.uses}}

\* The lookups of an agent, in the order of buildLLMAgent or of a workflow's builder; a
\* template takes three, each under a lock of its own: is there a registry of templates, which
\* engine has it, and what is the template
Lookups(doc) ==
  LET kinds == SelectSeq(Order, LAMBDA k : k \in DOMAIN doc.uses \/ (k = "generate" /\ doc.gen # <<>>))
      asks(k) == [j \in DOMAIN doc.uses[k] |-> Key(k, doc.uses[k][j])]
  IN  FlattenSeq([i \in DOMAIN kinds |->
        CASE kinds[i] = "generate" -> <<Key("generate", "")>>
          [] kinds[i] \in {"template", "text"} -> <<Key("registry", ""), Key("engine", "")>> \o asks(kinds[i])
          [] OTHER -> asks(kinds[i])])

\* `engine`: the registry whose engine parses a template, 0 for a new engine
Frame(doc, path, exact) ==
  [doc |-> doc, path |-> path, exact |-> exact, todo |-> Entries(doc), kids |-> <<>>,
   asks |-> Lookups(doc), engine |-> 0, got |-> <<>>]
Inner == Last(stack)
Outer == Front(stack)
SetInner(f) == stack' = Append(Outer, f)

\* What a lookup finds: a name as it is registered, a template of the registry of templates,
\* and the engine for one that is written out
InForce(r, t, h) ==
  {[key |-> e, version |-> r[e]] : e \in {k \in DOMAIN r : r[k] > 0}}
  \cup (IF t = 0 THEN {} ELSE {[key |-> Key("template", n), version |-> t] : n \in h[t]})
  \cup {[key |-> Key("text", ""), version |-> t]}

Init ==
  /\ disk \in Disks /\ templates \in {0, 1}
  /\ \E m \in Missing : /\ reg = [e \in Named(disk) |-> IF e.name \in m THEN 0 ELSE 1]
                        /\ held = [t \in TemplateRegistries |-> TemplateNames(disk) \ m]
  /\ force = {} /\ stack = <<>> /\ built = <<>> /\ phase = "load" /\ registered = 0

Fail == phase' = "error" /\ stack' = <<>> /\ UNCHANGED <<others, built>>
Readable(path) == path \in DOMAIN disk /\ ~ParseErr(disk[path]) /\ ~RuntimeErr(disk[path])
Enter(doc, path, exact, rest) ==
  /\ Len(stack) < MaxDepth
  /\ stack' = rest \o <<Frame(doc, path, exact)>>

\* Load, then BuildAppWithPath
Bidi(doc) == \E i \in DOMAIN Runtime(doc).mode : Runtime(doc).mode[i] = "bidi"
LoadTop ==
  /\ phase = "load"
  /\ IF Readable(Top) /\ ~Bidi(disk[Top])
       THEN /\ Enter(disk[Top], Top, Top \in Yaml, <<>>)
            /\ phase' = "build" /\ force' = InForce(reg, templates, held)
            /\ UNCHANGED <<disk, registry, built, registered>>
       ELSE Fail

Waiting(f) == [f EXCEPT !.todo = Tail(@)]
Building == phase = "build" /\ stack # <<>>

\* The next entry: written inline, ...
EnterInline ==
  /\ Building /\ Inner.todo # <<>> /\ Head(Inner.todo).inline # <<>>
  /\ Enter(Head(Inner.todo).inline[1], Inner.path, FALSE, Append(Outer, Waiting(Inner)))
  /\ UNCHANGED <<others, built, phase>>
\* ... in a file, which takes over the path of the file that refers to it, ...
EnterFile ==
  /\ Building /\ Inner.todo # <<>> /\ Head(Inner.todo).path # <<>>
  /\ LET path == Join(Inner.path, Head(Inner.todo).path)
     IN  IF Readable(path)
           THEN /\ Enter(disk[path], Inner.path, path \in Yaml, Append(Outer, Waiting(Inner)))
                /\ UNCHANGED <<others, built, phase>>
           ELSE Fail
\* ... or an agent of the registry
TakeAgent ==
  /\ Building /\ Inner.todo # <<>> /\ Head(Inner.todo).code # ""
  /\ LET e == [kind |-> "agent", name |-> Head(Inner.todo).code]
     IN  IF reg[e] = 0 THEN Fail
         ELSE /\ SetInner([Waiting(Inner) EXCEPT
                             !.kids = Append(@, [name |-> e.name, kids |-> <<>>, gen |-> <<>>,
                                                 skills |-> {}, found |-> <<[key |-> e, version |-> reg[e]]>>])])
              /\ UNCHANGED <<others, built, phase>>

\* A loop with a negative limit, and an LLM agent without a model, whose empty reference has
\* no prefix, are refused once their sub-agents are built
Refused(f) ==
  \/ f.doc.class = "LoopAgent" /\ f.doc.iterations < 0
  \/ f.doc.class = "LlmAgent" /\ {"model", "model_code"} \cap DOMAIN f.doc.uses = {}
\* A lookup of the agent itself, when its sub-agents are built
Asking(kinds) ==
  /\ Building /\ Inner.todo = <<>> /\ Inner.asks # <<>>
  /\ Head(Inner.asks).kind \in kinds
Answer(f) == SetInner([f EXCEPT !.asks = Tail(@)]) /\ UNCHANGED <<others, built, phase>>
Take(version) == Answer([Inner EXCEPT !.got = Append(@, [key |-> Head(Inner.asks), version |-> version])])
Resolve ==
  /\ Asking(Range(Order) \ {"template", "text"})
  /\ LET e == Head(Inner.asks)
     IN  IF \/ Refused(Inner)
            \/ e.kind = "generate" /\ GenErr(Inner.doc.gen, Inner.exact)
            \/ e.kind # "generate" /\ reg[e] = 0
            \/ e.kind = "skill" /\ Inner.doc.preload \notin Preloads
         THEN Fail
         ELSE IF e.kind = "generate" THEN Answer(Inner) ELSE Take(reg[e])
\* The first reading of the registry of templates: without one, no engine is asked for
SeeTemplates ==
  /\ Asking({"registry"})
  /\ Answer([Inner EXCEPT !.asks = IF templates = 0 THEN Tail(@) ELSE @, !.engine = 0])
\* The second: nil has no engine
TakeEngine ==
  /\ Asking({"engine"})
  /\ IF templates = 0 THEN phase' = "panic" /\ stack' = <<>> /\ UNCHANGED <<others, built>>
                      ELSE Answer([Inner EXCEPT !.engine = templates])
\* The third, for a template that is named; one that is written out has the engine of before
TakeTemplate ==
  /\ Asking({"template"})
  /\ IF templates = 0 \/ Head(Inner.asks).name \notin (IF templates = 0 THEN {} ELSE held[templates])
       THEN Fail ELSE Take(templates)
TakeText == Asking({"text"}) /\ Take(Inner.engine)

NewAgent(f, gen) ==
  [name |-> f.doc.name, kids |-> f.kids, gen |-> gen,
   skills |-> IF "skill" \in DOMAIN f.doc.uses THEN Visible(Source, f.doc.skills) ELSE {},
   found |-> f.got]
HandOver(rest, a) == Append(Front(rest), [Last(rest) EXCEPT !.kids = Append(@, a)])
Done(f) == f.todo = <<>> /\ f.asks = <<>>
\* An agent that is made but not removed from the stack
FinishAgain ==
  /\ Building /\ Done(Inner) /\ UNCHANGED others
  /\ \E gen \in Translations(Inner.doc.gen) :
       IF Outer = <<>> THEN built' = <<NewAgent(Inner, gen)>> /\ phase' = "done" /\ stack' = <<>>
                       ELSE UNCHANGED <<stack, built, phase>>
\* The agent is made and handed to the call that waits for it, or returned
Finish ==
  /\ Building /\ Done(Inner)
  /\ IF Refused(Inner) THEN Fail
     ELSE /\ UNCHANGED others
          /\ \E gen \in Translations(Inner.doc.gen) :
               IF Outer = <<>>
                 THEN built' = <<NewAgent(Inner, gen)>> /\ phase' = "done" /\ stack' = <<>>
                 ELSE stack' = HandOver(Outer, NewAgent(Inner, gen)) /\ UNCHANGED <<built, phase>>

\* Registering a name again replaces what it stood for, a registry of templates the one before
\* it; in a registry of templates a name is taken once
RegisterName == \E e \in Named(disk) : reg' = [reg EXCEPT ![e] = @ + 1] /\ UNCHANGED <<templates, held>>
RegisterTemplate ==
  \E t \in TemplateRegistries, n \in TemplateNames(disk) :
    n \notin held[t] /\ held' = [held EXCEPT ![t] = @ \cup {n}] /\ UNCHANGED <<reg, templates>>
RegisterTemplateRegistry ==
  \E t \in TemplateRegistries \cup {0} : t # templates /\ templates' = t /\ UNCHANGED <<reg, held>>
Register ==
  /\ phase \in {"load", "build"} /\ registered < MaxRegister
  /\ RegisterName \/ RegisterTemplate \/ RegisterTemplateRegistry
  /\ registered' = registered + 1
  /\ force' = IF phase = "load" THEN force ELSE force \cup InForce(reg', templates', held')
  /\ UNCHANGED <<disk, stack, built, phase>>

Build == LoadTop \/ EnterInline \/ EnterFile \/ TakeAgent \/ Resolve \/ SeeTemplates \/ TakeEngine
         \/ TakeTemplate \/ TakeText \/ Finish
Next == Build \/ Register
Spec == Init /\ [][Next]_vars /\ WF_vars(Build)

\* --- Properties --------------------------------------------------------------------

\* The agents the file describes, as a tree: references are relative to the file that was
\* built or, if `own`, to the file they stand in; `deep` bounds the recursion: a tree that is deeper goes round in a circle
Round == [name |-> "round", kids |-> <<>>, gen |-> <<>>, skills |-> {}, uses |-> <<>>]
RECURSIVE Described(_, _, _, _, _)
Described(doc, path, exact, own, deep) ==
  LET entry(e) ==
        IF e.inline # <<>> THEN Described(e.inline[1], path, FALSE, own, deep - 1)
        ELSE IF e.code # "" THEN [Round EXCEPT !.name = e.code, !.uses = [k \in {"agent"} |-> <<e.code>>]]
        ELSE LET p == Join(path, e.path)
             IN  IF ~Readable(p) THEN Round
                 ELSE Described(disk[p], IF own THEN p ELSE path, p \in Yaml, own, deep - 1)
  IN  IF deep = 0 THEN Round
      ELSE [name   |-> doc.name,
            kids   |-> [i \in DOMAIN Entries(doc) |-> entry(Entries(doc)[i])],
            gen    |-> doc.gen,
            skills |-> IF "skill" \in DOMAIN doc.uses THEN Visible(Source, doc.skills) ELSE {},
            uses   |-> doc.uses]
NamesOf(found, kind) ==
  LET of == SelectSeq(found, LAMBDA f : f.key.kind = kind) IN [i \in DOMAIN of |-> of[i].key.name]
\* An agent is as described: its sub-agents, its skills, what it refers to, kind by kind, and
\* its settings, an integer if it is one of `set`
RECURSIVE Alike(_, _, _)
Alike(a, t, set) ==
  /\ a.name = t.name /\ a.skills = t.skills
  /\ DOMAIN a.gen = DOMAIN t.gen
  /\ \A k \in DOMAIN a.gen : (k \in IntKeys => t.gen[k] \in set) => a.gen[k] = t.gen[k]
  /\ {f.key.kind : f \in Range(a.found)} = DOMAIN t.uses
  /\ \A k \in DOMAIN t.uses : NamesOf(a.found, k) = t.uses[k]
  /\ Len(a.kids) = Len(t.kids) /\ \A i \in DOMAIN a.kids : Alike(a.kids[i], t.kids[i], set)
RECURSIVE Holds(_, _)
Holds(t, name) == t.name = name \/ \E i \in DOMAIN t.kids : Holds(t.kids[i], name)
RECURSIVE Found(_)
Found(a) == Range(a.found) \cup UNION {Found(a.kids[i]) : i \in DOMAIN a.kids}
Description(own) == Described(disk[Top], Top, Top \in Yaml, own, MaxDepth)


\* A build of files that do not refer to each other in a circle ends.
BuildEnds == Readable(Top) /\ ~Holds(Description(FALSE), "round") => <>(phase \in {"done", "error", "panic"})

\* A reference is relative to the directory of the file it stands in: config.go:338-339.
\* Violated: a file that was loaded keeps the path of the one that refers to it.
RelativeToItsFile == phase = "done" => Alike(built[1], Description(TRUE), -Limit .. Limit - 1)

\* An integer is set as the document has it, or refused: config.go:1202.
\* Violated: a number written in JSON or inline is a float, whose range is not looked at.
IntegersAreKept == phase = "done" => Alike(built[1], Description(FALSE), Int)

\* A build survives what others register meanwhile: registry.go:91.
\* Violated: the registry of templates is read again after the check that there is one.
NeverPanics == phase # "panic"
================================================================================
