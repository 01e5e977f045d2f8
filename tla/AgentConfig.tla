------------------------------ MODULE AgentConfig ------------------------------
(***************************************************************************)
(* Agent configuration files: what Parse accepts, the defaults it fills in *)
(* and what becomes of the generation settings.  A raw document is a       *)
(* record, its sub-agents a sequence of entries of which each is empty, a  *)
(* reference (by path or by name) or another document written inline.      *)
(***************************************************************************)
EXTENDS Integers, Sequences, SequencesExt, Functions

CONSTANT Width   \* bits of an int32

\* What an LLM agent looks up when it is built, in this order; "template" is an instruction
\* template that is named, "text" one that is written inline or in a file
Order == << "model_code", "model", "tool", "skill", "generate",
            "beforeModel", "afterModel", "onModelError", "beforeTool", "afterTool", "onToolError",
            "beforeAgent", "afterAgent", "template", "text", "schema" >>
AgentOnly == {"beforeAgent", "afterAgent"}
Workflows == {"SequentialAgent", "ParallelAgent", "LoopAgent"}

\* A document with no field set; `uses` has the names each field refers to, `text` says
\* whether an LLM-only field that refers to nothing is set
Blank == [class |-> "LlmAgent", name |-> "", uses |-> <<>>, text |-> FALSE, iterations |-> 0,
          gen |-> <<>>, skills |-> {}, preload |-> "", subs |-> <<>>, runtime |-> <<>>]
EmptyEntry == [path |-> <<>>, code |-> "", inline |-> <<>>]
IsRef(e) == e.path # <<>> \/ e.code # ""

\* --- Runtime settings ------------------------------------------------------
NoRuntime == [mode |-> <<>>, calls |-> <<>>, cache |-> <<>>]
Or(v, default) == IF v = 0 THEN default ELSE v
Runtime(doc) ==
  LET r == IF doc.runtime = <<>> THEN NoRuntime ELSE doc.runtime[1]
  IN  [mode  |-> [i \in DOMAIN r.mode |-> IF r.mode[i] = "" THEN "none" ELSE r.mode[i]],
       calls |-> [i \in DOMAIN r.calls |-> Or(r.calls[i], 500)],
       cache |-> [i \in DOMAIN r.cache |->
                    [intervals |-> Or(r.cache[i].intervals, 10),
                     ttl       |-> Or(r.cache[i].ttl, 1800),
                     tokens    |-> r.cache[i].tokens]]]
RuntimeErr(doc) ==
  LET r == Runtime(doc)
  IN  \/ \E i \in DOMAIN r.calls : r.calls[i] <= 0
      \/ \E i \in DOMAIN r.cache :
           r.cache[i].intervals \notin 1 .. 100 \/ r.cache[i].ttl <= 0 \/ r.cache[i].tokens < 0

\* --- toAgentConfig ------------------------------------------------------------
HasLLMFields(doc) == doc.text \/ doc.gen # <<>> \/ DOMAIN doc.uses \ AgentOnly # {}
FieldErr(doc) ==
  CASE doc.class = "LlmAgent"  -> doc.iterations # 0 \/ {"model", "model_code"} \subseteq DOMAIN doc.uses
    [] doc.class = "LoopAgent" -> HasLLMFields(doc)
    [] doc.class \in Workflows -> HasLLMFields(doc) \/ doc.iterations # 0
    [] OTHER -> TRUE
RefErr(e) == e.path # <<>> /\ e.code # ""

RECURSIVE ParseErr(_)
ParseErr(doc) ==
  \/ FieldErr(doc)
  \/ \E i \in DOMAIN doc.subs :
       IF IsRef(doc.subs[i]) THEN RefErr(doc.subs[i])
                             ELSE doc.subs[i].inline # <<>> /\ ParseErr(doc.subs[i].inline[1])
\* The entries that are kept: an empty one is skipped
Entries(doc) == SelectSeq(doc.subs, LAMBDA e : e # EmptyEntry)

\* --- TranslateGenerateConfig -----------------------------------------------------
IntKeys == {"maxOutputTokens", "candidateCount", "logprobs", "seed"}
Limit == 2 ^ (Width - 1)
Fits(n) == n >= -Limit /\ n < Limit
\* The numbers of a YAML document are integers, those of JSON and of anything inline, which
\* is decoded from JSON again, are floats: the range of a float is not looked at
GenErr(gen, exact) == exact /\ \E k \in DOMAIN gen \cap IntKeys : ~Fits(gen[k])
\* What a float outside the range becomes is up to the implementation of Go: it keeps the
\* last bits, gives the least number, or the nearest
Wrapped(n) == ((n + Limit) % (2 ^ Width)) - Limit
Converted(n) == IF Fits(n) THEN {n} ELSE {Wrapped(n), -Limit, IF n < 0 THEN -Limit ELSE Limit - 1}
Translations(gen) ==
  {g \in [DOMAIN gen -> UNION {Converted(gen[k]) \cup {gen[k]} : k \in DOMAIN gen}] :
     \A k \in DOMAIN gen : IF k \in IntKeys THEN g[k] \in Converted(gen[k]) ELSE g[k] = gen[k]}

\* --- Skills ------------------------------------------------------------------------
Preloads == {"", "complete", "frontmatters"}
\* What FilteredSource lists and loads
Visible(source, names) == IF names = {} THEN source ELSE source \cap names
================================================================================
