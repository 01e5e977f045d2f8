---------------------------- MODULE MCMcpMiddleware ----------------------------
EXTENDS McpMiddleware

E(type) == [type |-> type, id |-> 0]
C(type, k) == [type |-> type, id |-> k]
OneCall(k) == <<C("callStart", k), C("args", k), C("callEnd", k)>>
RS == <<E("runStarted")>>
RF == <<E("runFinished")>>
Calls == { RS,
           RS \o <<E("textStart"), E("textEnd")>> \o OneCall(1) \o OneCall(2) \o RF,
           RS \o <<C("callStart", 1), C("callStart", 2), C("args", 1), C("callEnd", 1), C("args", 2), C("callEnd", 2)>> \o RF,
           RS \o <<C("callStart", 1), E("textStart"), C("args", 1), C("callEnd", 1)>> \o RF,
           RS \o <<C("callStart", 1), C("subCallStart", 2), C("subEvent", 2), C("callEnd", 1), C("result", 1)>> \o RF,
           RS \o <<C("subCallStart", 1), E("otherTextStart")>> \o OneCall(2) \o <<C("subResult", 1)>> \o RF,
           RS \o <<C("callChunk", 1)>> }
Again == { RS \o OneCall(1) \o RF, RS \o <<E("agentError")>> }
Later == { RS \o OneCall(1) \o RF, RS }
MCScripts == << <<Calls, Again, Later>>, <<Later, {RS \o RF}, {RS}>> >>
\* Two servers have a tool of the same name, and so has the client,
\* in some runs.
MCToolsOf == [s \in Servers |-> IF s = "s1" THEN <<"t1">> ELSE <<"t2">>]
MCBase == [t \in {"t1", "t2"} |-> "b"]
MCClientLists == {{<<"b", 1>>}, {}}
================================================================================
