--------------------------------- MODULE Storage ---------------------------------
(***************************************************************************)
(* A process that stores artifacts and rewinds a session; it may crash at  *)
(* any moment, which ends what it is doing in both, and be started again.  *)
(***************************************************************************)
EXTENDS ArtifactStore, SessionRewind

Init == InitStore /\ InitRewind
Crash == StoreCrash /\ RewindCrash
Next == (StoreNext /\ UNCHANGED rewindVars) \/ (RewindNext /\ UNCHANGED storeVars) \/ Crash
Spec == Init /\ [][Next]_<<storeVars, rewindVars>>
================================================================================
