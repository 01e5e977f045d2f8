---------------------------- MODULE PauseLedger ----------------------------
(***************************************************************************)
(* What the store of paused runs promises to the runs that resume from it, *)
(* whatever the store is made of (src/aguiadk/runstore.go:51-55): a key    *)
(* has at most one pause waiting, a resume goes on only by taking away the *)
(* pause that waits under its key, and a pause may be lost (it expires, is *)
(* crowded out or is replaced) but never comes back.                       *)
(***************************************************************************)
EXTENDS Integers

CONSTANT Keys

VARIABLES
  waiting,  \* the keys under which a pause waits
  pauses,   \* how many times a run has paused
  resumed   \* how many times a resume went on to execute

ledgerVars == <<waiting, pauses, resumed>>

LedgerInit == waiting = {} /\ pauses = 0 /\ resumed = 0

PauseAt(k) ==
  /\ \E lost \in SUBSET waiting : waiting' = (waiting \ lost) \cup {k}
  /\ pauses' = pauses + 1
  /\ UNCHANGED resumed

ResumeAt(k) ==
  /\ k \in waiting
  /\ waiting' = waiting \ {k}
  /\ resumed' = resumed + 1
  /\ UNCHANGED pauses

LosePauses ==
  /\ \E lost \in SUBSET waiting : waiting' = waiting \ lost
  /\ UNCHANGED <<pauses, resumed>>

LedgerNext ==
  \/ \E k \in Keys : PauseAt(k) \/ ResumeAt(k)
  \/ LosePauses

LedgerSpec == LedgerInit /\ [][LedgerNext]_ledgerVars

LedgerTypeOK ==
  /\ waiting \subseteq Keys
  /\ pauses \in Nat
  /\ resumed \in Nat
=============================================================================
