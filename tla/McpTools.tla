-------------------------------- MODULE McpTools --------------------------------
(***************************************************************************)
(* The tools of the MCP servers as agui's two middlewares see them: listed *)
(* once per middleware, for ever (agui/mcp_middleware.go, listAllTools;    *)
(* agui/mcp_apps_middleware.go, fetchUITools), and named so that the names *)
(* differ (agui/mcp_naming.go).  A name is <<base, n>>: the base is what   *)
(* sanitising and cutting leave of server and tool, and may coincide for   *)
(* two tools; <<base, 1>> is the base itself, <<base, n>> ends in "_n".    *)
(***************************************************************************)
EXTENDS Integers, Sequences, FiniteSets, SequencesExt

CONSTANTS Servers,     \* those of the configuration
          ToolsOf,     \* [Servers -> Seq of tools]: what each lists
          Base,        \* [tool -> base of its name]
          UiTools      \* the tools whose _meta has a ui/resourceUri

VARIABLES listOnce,    \* [{"mcp", "apps"} -> BOOLEAN]: the sync.Once has run
          listed       \* [{"mcp", "apps"} -> Seq of tools]: what it kept

Middlewares == {"mcp", "apps"}
ASSUME ToolsAssumption == \A s \in Servers : \A t \in ToSet(ToolsOf[s]) : t \in DOMAIN Base

InitTools == listOnce = [m \in Middlewares |-> FALSE] /\ listed = [m \in Middlewares |-> <<>>]

\* The elements of s at some of its places, in order.
Picked(s, places) ==
  LET upTo[i \in 0..Len(s)] == IF i = 0 THEN <<>>
                               ELSE IF i \in places THEN Append(upTo[i - 1], s[i]) ELSE upTo[i - 1]
  IN upTo[Len(s)]

MakeUniqueToolName(tool, used) ==
  <<Base[tool], CHOOSE n \in 1..(Cardinality(used) + 1) :
     <<Base[tool], n>> \notin used /\ \A m \in 1..(n - 1) : <<Base[tool], m>> \in used>>

\* The names of some tools, in order, and what each name stands for.
Named(tools, used) ==
  FoldLeft(LAMBDA named, t : named @@ (MakeUniqueToolName(t, used \cup DOMAIN named) :> t), <<>>, tools)

\* The servers are asked at the same time and appended as they answer; one that
\* fails is left out.  All fail under a cancelled context.
Listing(m, answering) ==
  {FlattenSeq([i \in DOMAIN order |->
      SelectSeq(ToolsOf[order[i]], LAMBDA t : m = "apps" => t \in UiTools)]) : order \in SetToSeqs(answering)}
\* Fault: the list is fetched for every run.
ListEveryTime(m, cancelled) ==
  /\ \E answering \in SUBSET Servers : \E all \in Listing(m, answering) : listed' = [listed EXCEPT ![m] = all]
  /\ UNCHANGED listOnce
ListAllTools(m, cancelled) ==
  IF listOnce[m] THEN UNCHANGED <<listOnce, listed>>
  ELSE \E answering \in SUBSET (IF cancelled THEN {} ELSE Servers) :
         \E all \in Listing(m, answering) :
           listed' = [listed EXCEPT ![m] = all] /\ listOnce' = [listOnce EXCEPT ![m] = TRUE]

\* The tools a run gets besides those of the client: names are made per run and avoid those
\* the client has in this run (mcp), or were made with the listing and do not (apps).
Resolved(m, tools, clientNames) == Named(tools, IF m = "mcp" THEN clientNames ELSE {})
================================================================================
