----------------------------- MODULE MCInlineRun -----------------------------
(***************************************************************************)
(* Model of InlineRun for TLC.  A channel of one slot makes the producer   *)
(* wait for the reader; two content events and a ping overlap all the      *)
(* steps of a write.  Two submits for the first call meet each other, the  *)
(* end of that call and the second call, which the client never answers.   *)
(***************************************************************************)
EXTENDS InlineRun, TLC

CONSTANTS c1, c2, s1, s2, text

MCCalls == {c1, c2}
MCSubmits == {s1, s2}
MCContent == {c1, c2, text}

MCIdOf == [x \in {c1, c2, s1, s2} |-> IF x = c2 THEN "id2" ELSE "id1"]
=============================================================================
