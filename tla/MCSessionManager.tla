-------------------------- MODULE MCSessionManager --------------------------
(***************************************************************************)
(* Model of SessionManager for TLC.  One thread, since entries of          *)
(* different threads never meet; three requests, the number that makes a   *)
(* stale write-back harmful (one is slow, one renews, one returns), of     *)
(* which the last belongs to another user of the thread.  The clock passes *)
(* the timeout once.                                                       *)
(***************************************************************************)
EXTENDS SessionManager, TLC

CONSTANTS t1, u1, u2, r1, r2, r3

MCRequests == {r1, r2, r3}

Ask(u) == [thread |-> t1, user |-> u]
MCAsks == (r1 :> Ask(u1)) @@ (r2 :> Ask(u1)) @@ (r3 :> Ask(u2))

\* Everybody is the same user.
MCAsksAlone == [r \in MCRequests |-> Ask(u1)]
=============================================================================
