----------------------------- MODULE MCStateSync -----------------------------
EXTENDS StateSync, TLC

MCOwns == "p1" :> "a" @@ "p2" :> "b"
\* The key a needs no escaping, nor does any other of these
MCAlias == [k \in {"a", "b", "x", "y", "_predictive"} |-> <<k>>]
================================================================================
