------------------------- MODULE MCModelConversation ---------------------------
EXTENDS ModelConversation

Item(kind, bits, json, named) == [kind |-> kind, bits |-> bits, json |-> json, named |-> named]
Call == Item("call", 2, TRUE, TRUE)
BadCall == Item("call", 1, FALSE, TRUE)
Anonymous == Item("call", 1, TRUE, FALSE)
Text == Item("text", 2, TRUE, TRUE)
MCPlans == { <<Text>>, <<Text, Call, Call>>, <<BadCall, Call>>, <<Item("thought", 1, TRUE, TRUE), Call>>,
             <<Anonymous, Anonymous>> }

Config(allowed, mode, format, extra) ==
  [tools |-> {"a", "b", "c"}, allowed |-> allowed, mode |-> mode, format |-> format, extra |-> extra]
MCConfigs ==
  {Config(al, m, "text", FALSE) : al \in {{}, {"a"}, {"a", "b"}}, m \in {"auto", "any", "none"}}
  \cup {Config({}, "auto", f, FALSE) : f \in {"schema", "unnormalisable", "othermime"}}
  \cup {Config({}, "auto", "text", TRUE)}
================================================================================
