-------------------------- MODULE MCResumeProtocol --------------------------
(***************************************************************************)
(* Model of ResumeProtocol for TLC.  Three requests are what the           *)
(* interesting interleaving needs: one that pauses and two that resume it  *)
(* at once.  A second Save lets the first of these pause again under the   *)
(* same key, or another conversation crowd the pause out of a store of one *)
(* entry.  The clock ticks once, which is the whole TTL.                   *)
(***************************************************************************)
EXTENDS ResumeProtocol, TLC

CONSTANTS k1, k2, c1, c2, r1, r2, r3

MCKeys == {k1, k2}
MCCalls == {c1, c2}

MCRequests == {r1, r2, r3}

\* All three treatments of a long-running call; r2 still stops for requested
\* input, so a resumed run may pause again.
MCMode == (r1 :> "ask") @@ (r2 :> "auto") @@ (r3 :> "handBack")

\* An approval of two calls, and a request for input.
MCPauses ==
  {[pending |-> {c1, c2}, requested |-> FALSE], [pending |-> {c1}, requested |-> TRUE]}

Entries(c, a) == [call |-> c, approved |-> a]

\* Both decided with the first denied in a second thought; one left undecided.
MCAnswers ==
  {<<Entries(c1, TRUE), Entries(c2, TRUE), Entries(c1, FALSE)>>, <<Entries(c1, TRUE)>>}
=============================================================================
