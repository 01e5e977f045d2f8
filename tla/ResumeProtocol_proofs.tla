------------------------ MODULE ResumeProtocol_proofs ------------------------
(***************************************************************************)
(* The paused-run store, and pause and resume over it, proved for any      *)
(* number of requests, keys and calls, any capacity and TTL of the store,  *)
(* and any pauses and answers.                                             *)
(*                                                                         *)
(* First the store alone (StoreSpec).  None of its four safety invariants  *)
(* is inductive alone: what the map holds must be tied to the history of   *)
(* the Saves.  EntriesMatchLog does that; from it follow that a key has    *)
(* one entry and that an entry was never handed out.                       *)
(*                                                                         *)
(* Then the protocol (Spec).  The store's invariant holds there too, since *)
(* the protocol touches the store by its methods alone.  On top of it,     *)
(* Standing ties what a request has peeked at and claimed to where it is   *)
(* in its handler, and to the history of the Saves.                        *)
(***************************************************************************)
EXTENDS ResumeProtocol, FiniteSetTheorems, SequenceTheorems, WellFoundedInduction, TLAPS

\* An entry is the newest Save of its key, neither claimed nor deleted.
EntriesMatchLog ==
  \A e \in runs :
    /\ e.run \in DOMAIN log
    /\ log[e.run].key = e.key
    /\ log[e.run].at = e.at
    /\ log[e.run].claims = 0
    /\ ~log[e.run].deleted
    /\ \A j \in DOMAIN log : j > e.run => log[j].key # e.key

SavedInThePast == \A i \in DOMAIN log : log[i].at <= now

StoreIInv ==
  /\ StoreTypeOK
  /\ IsFiniteSet(runs)
  /\ StoreBounded
  /\ EntriesMatchLog
  /\ SavedInThePast
  /\ ClaimedAtMostOnce
  /\ ServedIsCurrent
  /\ LostOnlyWhenCrowdedOut

-----------------------------------------------------------------------------
(* The log.                                                                *)

\* The domain of the log, spelled out for the provers.
LEMMA LogDomain ==
  ASSUME StoreTypeOK
  PROVE  /\ DOMAIN log = 1..Len(log)
         /\ Len(log) \in Nat
         /\ \A i \in DOMAIN log : log[i] \in Saved
BY DEF StoreTypeOK

\* A Save appends its record and leaves the others alone.
LEMMA LogAfterSave ==
  ASSUME StoreTypeOK, NEW k \in Keys, Save(k)
  PROVE  /\ log' \in Seq(Saved)
         /\ DOMAIN log' = DOMAIN log \cup {Len(log) + 1}
         /\ \A i \in DOMAIN log : log'[i] = log[i]
         /\ log'[Len(log) + 1].key = k
         /\ log'[Len(log) + 1].at = now
         /\ log'[Len(log) + 1].claims = 0
         /\ ~log'[Len(log) + 1].deleted
<1> DEFINE new == [key |-> k, at |-> now, claims |-> 0, deleted |-> FALSE]
<1>1. new \in Saved
  BY DEF StoreTypeOK, Saved
<1>2. log \in Seq(Saved) /\ log' = Append(log, new)
  BY DEF Save, StoreTypeOK
<1> QED
  BY <1>1, <1>2, AppendProperties, LogDomain

\* Marking records leaves a log of the same length.
LEMMA LogAfterDelete ==
  ASSUME StoreTypeOK, NEW k \in Keys, Delete(k)
  PROVE  /\ log' \in Seq(Saved)
         /\ DOMAIN log' = DOMAIN log
         /\ \A i \in DOMAIN log :
              /\ log'[i].key = log[i].key
              /\ log'[i].at = log[i].at
              /\ log'[i].claims = log[i].claims
              /\ log'[i].deleted = (log[i].deleted \/ log[i].key = k)
<1>1. log' = [i \in 1..Len(log) |->
                [log[i] EXCEPT !.deleted = @ \/ log[i].key = k]]
  BY LogDomain DEF Delete
<1>2. \A i \in 1..Len(log) :
        [log[i] EXCEPT !.deleted = @ \/ log[i].key = k] \in Saved
  BY LogDomain DEF Saved
<1>3. log' \in Seq(Saved) /\ Len(log') = Len(log)
  BY <1>1, <1>2, LogDomain, IsASeq
<1> QED
  BY <1>1, <1>3, LogDomain DEF Saved

\* A claim is counted in the record of the run it takes.
LEMMA LogAfterClaim ==
  ASSUME StoreTypeOK, NEW e \in runs, e.run \in DOMAIN log,
         log' = [log EXCEPT ![e.run].claims = @ + 1]
  PROVE  /\ log' \in Seq(Saved)
         /\ DOMAIN log' = DOMAIN log
         /\ \A i \in DOMAIN log :
              /\ log'[i].key = log[i].key
              /\ log'[i].at = log[i].at
              /\ log'[i].deleted = log[i].deleted
              /\ log'[i].claims = IF i = e.run THEN log[i].claims + 1 ELSE log[i].claims
<1>1. log[e.run] \in Saved /\ [log[e.run] EXCEPT !.claims = @ + 1] \in Saved
  BY LogDomain DEF Saved
<1>2. log' = [log EXCEPT ![e.run] = [log[e.run] EXCEPT !.claims = @ + 1]]
  OBVIOUS
<1>3. log' \in Seq(Saved) /\ Len(log') = Len(log)
  BY <1>1, <1>2, LogDomain, ExceptSeq DEF StoreTypeOK
<1> QED
  BY <1>1, <1>2, <1>3, LogDomain DEF Saved

-----------------------------------------------------------------------------
(* The entries.                                                            *)

\* A key has one entry: of two, the older would not be the newest Save.
LEMMA OneEntryPerKey ==
  ASSUME StoreTypeOK, EntriesMatchLog,
         NEW e \in runs, NEW f \in runs, e.key = f.key
  PROVE  e = f
<1>1. e.run \in Nat /\ f.run \in Nat /\ e \in Entry /\ f \in Entry
  BY DEF StoreTypeOK, Entry
<1>2. e.run = f.run
  BY <1>1 DEF EntriesMatchLog
<1>3. e.at = f.at
  BY <1>2 DEF EntriesMatchLog
<1> QED
  BY <1>1, <1>2, <1>3 DEF Entry

\* What purgeExpiredLocked leaves.
LEMMA UnexpiredEntries ==
  ASSUME StoreTypeOK, IsFiniteSet(runs), StoreBounded
  PROVE  /\ Unexpired \subseteq runs
         /\ IsFiniteSet(Unexpired)
         /\ Cardinality(Unexpired) \in Nat
         /\ Cardinality(Unexpired) <= MaxEntries
<1>1. Unexpired \subseteq runs
  BY DEF Unexpired
<1>2. /\ IsFiniteSet(Unexpired)
      /\ Cardinality(Unexpired) <= Cardinality(runs)
  BY <1>1, FS_Subset
<1> QED
  BY <1>1, <1>2, FS_CardinalityType, RunStoreAssumption DEF StoreBounded

\* evictOldestLocked makes room: one more entry fits, and none has the key.
LEMMA RoomForOne ==
  ASSUME StoreTypeOK, IsFiniteSet(runs), StoreBounded,
         NEW k \in Keys, NEW rest \in Room(k)
  PROVE  /\ rest \subseteq Unexpired
         /\ \A e \in rest : e.key # k
         /\ IsFiniteSet(rest)
         /\ Cardinality(rest) \in Nat
         /\ Cardinality(rest) + 1 <= MaxEntries
<1> DEFINE others == {e \in Unexpired : e.key # k}
<1>1. IsFiniteSet(others) /\ Cardinality(others) \in Nat
  BY UnexpiredEntries, FS_Subset, FS_CardinalityType
<1>2. CASE \E e \in Unexpired : e.key = k
  <2>1. PICK e \in Unexpired : e.key = k
    BY <1>2
  <2>2. rest = others
    BY <1>2 DEF Room
  <2>3. /\ IsFiniteSet(Unexpired \ {e})
        /\ Cardinality(Unexpired \ {e}) = Cardinality(Unexpired) - 1
    BY <2>1, UnexpiredEntries, FS_RemoveElement
  <2>4. Cardinality(others) <= Cardinality(Unexpired \ {e})
    <3>1. others \in SUBSET (Unexpired \ {e})
      BY <2>1
    <3> QED
      BY <3>1, <2>3, FS_Subset
  <2> QED
    BY <1>1, <2>2, <2>3, <2>4, UnexpiredEntries, RunStoreAssumption
<1>3. CASE /\ ~\E e \in Unexpired : e.key = k
           /\ Cardinality(Unexpired) < MaxEntries
  <2>1. rest = others
    BY <1>3 DEF Room
  <2>2. others = Unexpired
    BY <1>3
  <2> QED
    BY <1>1, <1>3, <2>1, <2>2, UnexpiredEntries, RunStoreAssumption
<1>4. CASE /\ ~\E e \in Unexpired : e.key = k
           /\ ~(Cardinality(Unexpired) < MaxEntries)
  <2>1. PICK victim \in Oldest(Unexpired) : rest = Unexpired \ {victim}
    BY <1>4 DEF Room
  <2>2. victim \in Unexpired
    BY <2>1 DEF Oldest
  <2>3. /\ IsFiniteSet(rest)
        /\ Cardinality(rest) = Cardinality(Unexpired) - 1
    BY <2>1, <2>2, UnexpiredEntries, FS_RemoveElement
  <2> QED
    BY <1>4, <2>1, <2>3, UnexpiredEntries, FS_CardinalityType, RunStoreAssumption
<1> QED
  BY <1>2, <1>3, <1>4

\* The run a Save stores, with the entries it leaves.
LEMMA EntriesAfterSave ==
  ASSUME StoreTypeOK, IsFiniteSet(runs), StoreBounded, NEW k \in Keys, Save(k)
  PROVE  \E rest \in Room(k) :
           runs' = rest \cup {[key |-> k, run |-> Len(log) + 1, at |-> now]}
BY DEF Save

-----------------------------------------------------------------------------
(* What becomes of answerable runs.                                        *)

\* The crowd of a run only grows: records keep their key and their time.
LEMMA CrowdGrows ==
  ASSUME DOMAIN log \subseteq DOMAIN log',
         \A j \in DOMAIN log : log'[j].key = log[j].key /\ log'[j].at = log[j].at,
         NEW i \in DOMAIN log
  PROVE  /\ IsFiniteSet(NoOlderThan(i)')
         /\ Cardinality(NoOlderThan(i)) \in Nat
         /\ Cardinality(NoOlderThan(i)') \in Nat
         /\ Cardinality(NoOlderThan(i)) <= Cardinality(NoOlderThan(i)')
<1>1. NoOlderThan(i) \subseteq NoOlderThan(i)'
  BY DEF NoOlderThan
<1>2. NoOlderThan(i)' \subseteq Keys
  BY DEF NoOlderThan
<1>3. IsFiniteSet(NoOlderThan(i)')
  BY <1>2, RunStoreAssumption, FS_Subset
<1>4. /\ IsFiniteSet(NoOlderThan(i))
      /\ Cardinality(NoOlderThan(i)) <= Cardinality(NoOlderThan(i)')
  BY <1>1, <1>3, FS_Subset
<1> QED
  BY <1>3, <1>4, FS_CardinalityType

\* A run not lost in this step is as accounted for as it was before.
LEMMA StillAccountedFor ==
  ASSUME LostOnlyWhenCrowdedOut,
         DOMAIN log \subseteq DOMAIN log',
         \A j \in DOMAIN log : log'[j].key = log[j].key /\ log'[j].at = log[j].at,
         NEW i \in DOMAIN log, Answerable(i),
         Stored(i) => Stored(i)' \/ Cardinality(NoOlderThan(i)') >= MaxEntries
  PROVE  Stored(i)' \/ Cardinality(NoOlderThan(i)') >= MaxEntries
BY CrowdGrows, RunStoreAssumption DEF LostOnlyWhenCrowdedOut

\* The victim of an eviction is the oldest of a full store: all the others,
\* and the run just saved, are no older and have keys of their own.
LEMMA VictimIsCrowdedOut ==
  ASSUME StoreIInv, NEW k \in Keys, Save(k),
         NEW i \in DOMAIN log, Answerable(i), log[i].key # k,
         Stored(i), ~Stored(i)'
  PROVE  Cardinality(NoOlderThan(i)') >= MaxEntries
<1> DEFINE U == Unexpired
           crowd == NoOlderThan(i)'
<1> USE DEF StoreIInv
<1>1. PICK rest \in Room(k) :
        runs' = rest \cup {[key |-> k, run |-> Len(log) + 1, at |-> now]}
  BY EntriesAfterSave
<1>2. PICK e \in runs : e.run = i
  BY DEF Stored
<1>3. e \notin rest
  BY <1>1, <1>2 DEF Stored
<1>4. /\ e \in U
      /\ e.key # k
      /\ e.key = log[i].key
      /\ e.at = log[i].at
  <2>1. e \in Entry /\ e.key = log[i].key /\ e.at = log[i].at
    BY <1>2 DEF EntriesMatchLog, StoreTypeOK
  <2> QED
    BY <1>2, <2>1, RunStoreAssumption
       DEF Answerable, Unexpired, Expired, Entry, StoreTypeOK
<1>5. /\ \A f \in U : e.at <= f.at
      /\ \A f \in U : f.key # k
      /\ ~(Cardinality(U) < MaxEntries)
  BY <1>3, <1>4 DEF Room, Oldest
<1>6. /\ IsFiniteSet(U \ {e})
      /\ Cardinality(U \ {e}) = Cardinality(U) - 1
  BY <1>4, UnexpiredEntries, FS_RemoveElement
<1>7. \A f \in U \ {e} : f.key \in crowd \ {k}
  <2> SUFFICES ASSUME NEW f \in U \ {e}
               PROVE  f.key \in crowd \ {k}
    OBVIOUS
  <2>1. f \in runs /\ f \in Entry
    BY UnexpiredEntries DEF StoreTypeOK
  <2>2. f.key \in Keys /\ f.key # e.key /\ f.key # k
    BY <1>5, <2>1, OneEntryPerKey DEF Entry
  <2>3. /\ f.run \in DOMAIN log'
        /\ log'[f.run].key = f.key
        /\ log'[f.run].at >= log'[i].at
    BY <1>4, <1>5, <2>1, LogAfterSave DEF EntriesMatchLog
  <2>4. log'[i].key = e.key
    BY <1>4, LogAfterSave
  <2> QED
    BY <2>2, <2>3, <2>4 DEF NoOlderThan
<1>8. k \in crowd
  <2>1. log'[Len(log) + 1].key = k /\ log'[Len(log) + 1].at = now
    BY LogAfterSave
  <2>2. log'[i] = log[i] /\ log[i].at <= now /\ Len(log) + 1 \in DOMAIN log'
    BY LogAfterSave DEF SavedInThePast
  <2>3. now >= log[i].at
    BY <2>2, LogDomain DEF Saved, StoreTypeOK
  <2> QED
    BY <2>1, <2>2, <2>3 DEF NoOlderThan
<1>9. IsFiniteSet(crowd) /\ Cardinality(crowd) \in Nat
  BY LogAfterSave, CrowdGrows
<1>10. /\ IsFiniteSet(crowd \ {k})
       /\ Cardinality(crowd \ {k}) = Cardinality(crowd) - 1
  BY <1>8, <1>9, FS_RemoveElement
<1>11. PICK keyOf : keyOf \in Injection(U \ {e}, crowd \ {k})
  <2>1. \A f, g \in U \ {e} : f.key = g.key => f = g
    BY UnexpiredEntries, OneEntryPerKey
  <2>2. PICK keyOf : keyOf = [f \in U \ {e} |-> f.key]
    OBVIOUS
  <2>3. keyOf \in [U \ {e} -> crowd \ {k}]
    BY <1>7, <2>2
  <2> QED
    BY <2>1, <2>2, <2>3 DEF Injection, IsInjective
<1>12. Cardinality(U \ {e}) <= Cardinality(crowd \ {k})
  BY <1>10, <1>11, FS_Injection
<1> QED
  BY <1>5, <1>6, <1>9, <1>10, <1>12, UnexpiredEntries, RunStoreAssumption

-----------------------------------------------------------------------------
(* The steps.                                                              *)

\* Save keeps the invariant.
LEMMA SaveKeeps ==
  ASSUME StoreIInv, NEW k \in Keys, Save(k)
  PROVE  StoreIInv'
<1> USE DEF StoreIInv
<1> DEFINE n == Len(log) + 1
<1>0. /\ DOMAIN log' = DOMAIN log \cup {n}
      /\ \A i \in DOMAIN log : log'[i] = log[i] /\ i \in Nat /\ i < n
      /\ log'[n].key = k /\ log'[n].at = now /\ log'[n].claims = 0
      /\ ~log'[n].deleted
  <2>1. /\ DOMAIN log' = DOMAIN log \cup {n}
        /\ \A i \in DOMAIN log : log'[i] = log[i]
        /\ log'[n].key = k /\ log'[n].at = now /\ log'[n].claims = 0
        /\ ~log'[n].deleted
    BY LogAfterSave
  <2> QED
    BY <2>1, LogDomain
<1>a. PICK rest \in Room(k) :
        runs' = rest \cup {[key |-> k, run |-> n, at |-> now]}
  BY EntriesAfterSave
<1>b. PICK new : new = [key |-> k, run |-> n, at |-> now]
  OBVIOUS
<1>1. /\ rest \in Room(k)
      /\ runs' = rest \cup {new}
      /\ new = [key |-> k, run |-> n, at |-> now]
  BY <1>a, <1>b
<1>2. /\ now' = now /\ cleaning' = cleaning /\ result' = NoRun
      /\ now \in Nat /\ n \in Nat /\ new \in Entry
  BY <1>1, LogDomain DEF Save, StoreTypeOK, Entry
<1>3. rest \subseteq runs /\ \A e \in rest : e.key # k
  BY <1>1, RoomForOne, UnexpiredEntries
<1>4. StoreTypeOK'
  BY <1>1, <1>2, <1>3, LogAfterSave DEF StoreTypeOK
<1>5. IsFiniteSet(runs')
  BY <1>1, RoomForOne, FS_AddElement
<1>6. StoreBounded'
  <2>1. IsFiniteSet(rest) /\ Cardinality(rest) \in Nat
    BY RoomForOne
  <2>2. \/ Cardinality(runs') = Cardinality(rest)
        \/ Cardinality(runs') = Cardinality(rest) + 1
    BY <1>1, <2>1, FS_AddElement
  <2> QED
    BY <2>1, <2>2, RoomForOne, RunStoreAssumption
       DEF StoreBounded
<1>7. EntriesMatchLog'
  <2> SUFFICES ASSUME NEW e \in runs'
               PROVE  /\ e.run \in DOMAIN log'
                      /\ log'[e.run].key = e.key
                      /\ log'[e.run].at = e.at
                      /\ log'[e.run].claims = 0
                      /\ ~log'[e.run].deleted
                      /\ \A j \in DOMAIN log' : j > e.run => log'[j].key # e.key
    BY DEF EntriesMatchLog
  <2>1. CASE e = new
    BY <1>0, <1>1, <2>1
  <2>2. CASE e \in rest
    BY <1>3, <2>2, <1>0 DEF EntriesMatchLog
  <2> QED
    BY <1>1, <2>1, <2>2
<1>8. SavedInThePast'
  BY <1>0, <1>2 DEF SavedInThePast
<1>9. ClaimedAtMostOnce'
  BY <1>0 DEF ClaimedAtMostOnce
<1>10. ServedIsCurrent'
  BY <1>2 DEF ServedIsCurrent
<1>11. LostOnlyWhenCrowdedOut'
  <2> SUFFICES ASSUME NEW i \in DOMAIN log', Answerable(i)'
               PROVE  Stored(i)' \/ Cardinality(NoOlderThan(i)') >= MaxEntries
    BY DEF LostOnlyWhenCrowdedOut
  <2>1. CASE i = n
    BY <1>1, <2>1 DEF Stored
  <2>2. CASE i \in DOMAIN log
    <3>1. Answerable(i) /\ log[i].key # k
      BY <1>2, <2>2, <1>0 DEF Answerable
    <3> QED
      BY <2>2, <3>1, <1>0, StillAccountedFor, VictimIsCrowdedOut
  <2> QED
    BY <2>1, <2>2, <1>0
<1> QED
  BY <1>4, <1>5, <1>6, <1>7, <1>8, <1>9, <1>10, <1>11

\* So does forgetting entries that have expired: a miss, a purge, Stop.
LEMMA ForgettingKeeps ==
  ASSUME StoreIInv, runs' \subseteq runs, \A e \in runs \ runs' : Expired(e),
         cleaning' \in BOOLEAN, result' = NoRun, UNCHANGED <<now, log>>
  PROVE  StoreIInv'
<1> USE DEF StoreIInv
<1>1. now' = now /\ log' = log
  OBVIOUS
<1>2. StoreTypeOK'
  BY <1>1 DEF StoreTypeOK
<1>3. IsFiniteSet(runs') /\ Cardinality(runs') <= Cardinality(runs)
  BY FS_Subset
<1>4. StoreBounded'
  BY <1>3, FS_CardinalityType, RunStoreAssumption DEF StoreBounded
<1>5. EntriesMatchLog'
  BY <1>1 DEF EntriesMatchLog
<1>6. SavedInThePast' /\ ClaimedAtMostOnce' /\ ServedIsCurrent'
  BY <1>1 DEF SavedInThePast, ClaimedAtMostOnce, ServedIsCurrent
<1>7. LostOnlyWhenCrowdedOut'
  <2> SUFFICES ASSUME NEW i \in DOMAIN log, Answerable(i)
               PROVE  Stored(i)' \/ Cardinality(NoOlderThan(i)') >= MaxEntries
    BY <1>1 DEF LostOnlyWhenCrowdedOut, Answerable
  <2>1. ASSUME Stored(i) PROVE Stored(i)'
    <3>1. PICK e \in runs : e.run = i
      BY <2>1 DEF Stored
    <3>2. ~Expired(e)
      <4>1. e.at = log[i].at /\ e \in Entry
        BY <3>1 DEF EntriesMatchLog, StoreTypeOK
      <4> QED
        BY <4>1, RunStoreAssumption DEF Answerable, Expired, Entry, StoreTypeOK
    <3> QED
      BY <3>1, <3>2 DEF Stored
  <2> QED
    BY <1>1, <2>1, StillAccountedFor
<1> QED
  BY <1>2, <1>3, <1>4, <1>5, <1>6, <1>7

\* So does looking.
LEMMA LoadHitKeeps ==
  ASSUME StoreIInv, NEW k \in Keys, LoadHit(k)
  PROVE  StoreIInv'
<1> USE DEF StoreIInv
<1>1. PICK e \in EntriesOf(k) : ~Expired(e) /\ result' = e.run
  BY DEF LoadHit
<1>2. runs' = runs /\ now' = now /\ cleaning' = cleaning /\ log' = log
  BY DEF LoadHit
<1>3. e \in runs /\ e \in Entry /\ e.run \in DOMAIN log
  BY DEF EntriesOf, EntriesMatchLog, StoreTypeOK
<1>4. StoreTypeOK'
  BY <1>1, <1>2, <1>3 DEF StoreTypeOK
<1>5. ServedIsCurrent'
  <2>1. now - e.at < TTL
    BY <1>1, <1>3, RunStoreAssumption DEF Expired, Entry, StoreTypeOK
  <2> QED
    BY <1>1, <1>2, <1>3, <2>1 DEF ServedIsCurrent, EntriesMatchLog
<1>6. LostOnlyWhenCrowdedOut'
  BY <1>2 DEF LostOnlyWhenCrowdedOut, Answerable, Stored, NoOlderThan
<1> QED
  BY <1>2, <1>4, <1>5, <1>6
     DEF StoreBounded, EntriesMatchLog, SavedInThePast, ClaimedAtMostOnce

\* A claim takes the one entry of the key, and no other will.
LEMMA ClaimKeeps ==
  ASSUME StoreIInv, NEW k \in Keys, Claim(k)
  PROVE  StoreIInv'
<1> USE DEF StoreIInv
<1>1. PICK e \in EntriesOf(k) :
        /\ ~Expired(e)
        /\ runs' = runs \ {e}
        /\ result' = e.run
        /\ log' = [log EXCEPT ![e.run].claims = @ + 1]
        /\ UNCHANGED <<now, cleaning>>
  BY DEF Claim
<1>2. e \in runs /\ e \in Entry /\ e.run \in DOMAIN log
  BY DEF EntriesOf, EntriesMatchLog, StoreTypeOK
<1>3. /\ log' \in Seq(Saved)
      /\ DOMAIN log' = DOMAIN log
      /\ \A i \in DOMAIN log :
           /\ log'[i].key = log[i].key
           /\ log'[i].at = log[i].at
           /\ log'[i].deleted = log[i].deleted
           /\ log'[i].claims = IF i = e.run THEN log[i].claims + 1 ELSE log[i].claims
  BY <1>1, <1>2, LogAfterClaim
<1>4. StoreTypeOK'
  BY <1>1, <1>2, <1>3 DEF StoreTypeOK
<1>5. IsFiniteSet(runs') /\ Cardinality(runs') <= Cardinality(runs)
  BY <1>1, FS_Subset
<1>6. StoreBounded'
  BY <1>5, FS_CardinalityType, RunStoreAssumption DEF StoreBounded
<1>7. \A f \in runs' : f.run # e.run
  <2> SUFFICES ASSUME NEW f \in runs, f.run = e.run PROVE f = e
    BY <1>1
  <2>1. f.key = e.key
    BY <1>2 DEF EntriesMatchLog
  <2> QED
    BY <1>2, <2>1, OneEntryPerKey
<1>8. EntriesMatchLog'
  <2> SUFFICES ASSUME NEW f \in runs'
               PROVE  /\ f.run \in DOMAIN log'
                      /\ log'[f.run].key = f.key
                      /\ log'[f.run].at = f.at
                      /\ log'[f.run].claims = 0
                      /\ ~log'[f.run].deleted
                      /\ \A j \in DOMAIN log' : j > f.run => log'[j].key # f.key
    BY DEF EntriesMatchLog
  <2>1. f \in runs /\ f.run \in DOMAIN log /\ f.run # e.run
    BY <1>1, <1>7 DEF EntriesMatchLog
  <2> QED
    BY <1>3, <2>1 DEF EntriesMatchLog
<1>9. SavedInThePast'
  BY <1>1, <1>3 DEF SavedInThePast
<1>10. ClaimedAtMostOnce'
  BY <1>2, <1>3 DEF ClaimedAtMostOnce, EntriesMatchLog
<1>11. ServedIsCurrent'
  <2>1. now - e.at < TTL
    BY <1>1, <1>2, RunStoreAssumption DEF Expired, Entry, StoreTypeOK
  <2>2. ~log'[e.run].deleted
    <3>1. log'[e.run].deleted = log[e.run].deleted
      BY <1>2, <1>3
    <3>2. ~log[e.run].deleted
      BY <1>2 DEF EntriesMatchLog
    <3> QED
      BY <3>1, <3>2, Zenon
  <2>3. /\ log'[e.run].at = e.at
        /\ \A j \in DOMAIN log' : j > e.run => log'[j].key # log'[e.run].key
    BY <1>2, <1>3 DEF EntriesMatchLog
  <2> QED
    BY <1>1, <2>1, <2>2, <2>3 DEF ServedIsCurrent
<1>12. LostOnlyWhenCrowdedOut'
  <2> SUFFICES ASSUME NEW i \in DOMAIN log, Answerable(i)'
               PROVE  Stored(i)' \/ Cardinality(NoOlderThan(i)') >= MaxEntries
    BY <1>3 DEF LostOnlyWhenCrowdedOut
  <2>1. i # e.run
    BY <1>2, <1>3 DEF Answerable, EntriesMatchLog
  <2>2. Answerable(i)
    BY <1>1, <1>3, <2>1 DEF Answerable
  <2>3. Stored(i) => Stored(i)'
    BY <1>1, <2>1 DEF Stored
  <2> QED
    BY <1>3, <2>2, <2>3, StillAccountedFor
<1> QED
  BY <1>4, <1>5, <1>6, <1>8, <1>9, <1>10, <1>11, <1>12

\* Delete removes the entry of the key and marks all its runs.
LEMMA DeleteKeeps ==
  ASSUME StoreIInv, NEW k \in Keys, Delete(k)
  PROVE  StoreIInv'
<1> USE DEF StoreIInv
<1>1. /\ runs' = runs \ EntriesOf(k)
      /\ result' = NoRun /\ now' = now /\ cleaning' = cleaning
  BY DEF Delete
<1>2. /\ log' \in Seq(Saved)
      /\ DOMAIN log' = DOMAIN log
      /\ \A i \in DOMAIN log :
           /\ log'[i].key = log[i].key
           /\ log'[i].at = log[i].at
           /\ log'[i].claims = log[i].claims
           /\ log'[i].deleted = (log[i].deleted \/ log[i].key = k)
  BY LogAfterDelete
<1>3. StoreTypeOK'
  BY <1>1, <1>2 DEF StoreTypeOK
<1>4. IsFiniteSet(runs') /\ Cardinality(runs') <= Cardinality(runs)
  BY <1>1, FS_Subset
<1>5. StoreBounded'
  BY <1>4, FS_CardinalityType, RunStoreAssumption DEF StoreBounded
<1>6. EntriesMatchLog'
  <2> SUFFICES ASSUME NEW e \in runs, e.key # k
               PROVE  /\ e.run \in DOMAIN log'
                      /\ log'[e.run].key = e.key
                      /\ log'[e.run].at = e.at
                      /\ log'[e.run].claims = 0
                      /\ ~log'[e.run].deleted
                      /\ \A j \in DOMAIN log' : j > e.run => log'[j].key # e.key
    BY <1>1 DEF EntriesMatchLog, EntriesOf
  <2>1. ~log'[e.run].deleted
    <3>1. e.run \in DOMAIN log /\ log[e.run].key = e.key /\ ~log[e.run].deleted
      BY DEF EntriesMatchLog
    <3>2. log'[e.run].deleted = (log[e.run].deleted \/ log[e.run].key = k)
      BY <1>2, <3>1
    <3> QED
      BY <3>1, <3>2, Zenon
  <2>2. /\ e.run \in DOMAIN log'
        /\ log'[e.run].key = e.key
        /\ log'[e.run].at = e.at
        /\ log'[e.run].claims = 0
        /\ \A j \in DOMAIN log' : j > e.run => log'[j].key # e.key
    BY <1>2 DEF EntriesMatchLog
  <2> QED
    BY <2>1, <2>2
<1>7. SavedInThePast'
  BY <1>1, <1>2 DEF SavedInThePast
<1>8. ClaimedAtMostOnce'
  BY <1>2 DEF ClaimedAtMostOnce
<1>9. ServedIsCurrent'
  BY <1>1 DEF ServedIsCurrent
<1>10. LostOnlyWhenCrowdedOut'
  <2> SUFFICES ASSUME NEW i \in DOMAIN log, Answerable(i)'
               PROVE  Stored(i)' \/ Cardinality(NoOlderThan(i)') >= MaxEntries
    BY <1>2 DEF LostOnlyWhenCrowdedOut
  <2>1. ~log[i].deleted /\ log[i].key # k
    <3>1. ~log'[i].deleted
      BY DEF Answerable
    <3>2. log'[i].deleted = (log[i].deleted \/ log[i].key = k)
      BY <1>2
    <3> QED
      BY <3>1, <3>2, Zenon
  <2>2. Answerable(i)
    BY <1>1, <1>2, <2>1 DEF Answerable
  <2>3. Stored(i) => Stored(i)'
    BY <1>1, <2>1 DEF Stored, EntriesOf, EntriesMatchLog
  <2> QED
    BY <1>2, <2>2, <2>3, StillAccountedFor
<1> QED
  BY <1>3, <1>4, <1>5, <1>6, <1>7, <1>8, <1>9, <1>10

\* Time only makes fewer runs answerable.
LEMMA TickKeeps ==
  ASSUME StoreIInv, Tick
  PROVE  StoreIInv'
<1> USE DEF StoreIInv
<1>1. /\ now' = now + 1 /\ now \in Nat
      /\ runs' = runs /\ cleaning' = cleaning /\ log' = log /\ result' = NoRun
  BY DEF Tick, StoreTypeOK
<1>2. StoreTypeOK'
  BY <1>1 DEF StoreTypeOK
<1>3. SavedInThePast'
  BY <1>1, LogDomain DEF SavedInThePast, Saved
<1>4. LostOnlyWhenCrowdedOut'
  <2> SUFFICES ASSUME NEW i \in DOMAIN log, Answerable(i)'
               PROVE  Stored(i)' \/ Cardinality(NoOlderThan(i)') >= MaxEntries
    BY <1>1 DEF LostOnlyWhenCrowdedOut
  <2>1. Answerable(i)
    BY <1>1, LogDomain, RunStoreAssumption DEF Answerable, Saved
  <2> QED
    BY <1>1, <2>1 DEF LostOnlyWhenCrowdedOut, Stored, NoOlderThan
<1> QED
  BY <1>1, <1>2, <1>3, <1>4
     DEF StoreBounded, EntriesMatchLog, ClaimedAtMostOnce, ServedIsCurrent

\* Every step of the store keeps the invariant.
LEMMA StoreStepKeeps ==
  ASSUME StoreIInv, [StoreNext]_storeVars
  PROVE  StoreIInv'
<1>1. ASSUME NEW k \in Keys, Save(k) PROVE StoreIInv'
  BY <1>1, SaveKeeps
<1>2. ASSUME NEW k \in Keys, Load(k) PROVE StoreIInv'
  <2>1. CASE LoadMiss(k)
    BY <2>1, ForgettingKeeps DEF LoadMiss, StoreIInv, StoreTypeOK
  <2>2. CASE LoadHit(k)
    BY <2>2, LoadHitKeeps
  <2> QED
    BY <1>2, <2>1, <2>2 DEF Load
<1>3. ASSUME NEW k \in Keys, LoadAndDelete(k) PROVE StoreIInv'
  <2>1. CASE LoadMiss(k)
    BY <2>1, ForgettingKeeps DEF LoadMiss, StoreIInv, StoreTypeOK
  <2>2. CASE Claim(k)
    BY <2>2, ClaimKeeps
  <2> QED
    BY <1>3, <2>1, <2>2 DEF LoadAndDelete
<1>4. ASSUME NEW k \in Keys, Delete(k) PROVE StoreIInv'
  BY <1>4, DeleteKeeps
<1>5. CASE Cleanup
  BY <1>5, ForgettingKeeps DEF Cleanup, Unexpired, StoreIInv, StoreTypeOK
<1>6. CASE Stop
  BY <1>6, ForgettingKeeps DEF Stop
<1>7. CASE Tick
  BY <1>7, TickKeeps
<1>8. CASE UNCHANGED storeVars
  BY <1>8 DEF storeVars, StoreIInv, StoreTypeOK, StoreBounded, EntriesMatchLog,
              SavedInThePast, ClaimedAtMostOnce, ServedIsCurrent,
              LostOnlyWhenCrowdedOut, Answerable, Stored, NoOlderThan
<1> QED
  BY <1>1, <1>2, <1>3, <1>4, <1>5, <1>6, <1>7, <1>8 DEF StoreNext

\* The empty store satisfies it.
LEMMA StoreInitHolds == StoreInit => StoreIInv
<1> SUFFICES ASSUME StoreInit PROVE StoreIInv
  OBVIOUS
<1>1. DOMAIN log = {} /\ log \in Seq(Saved)
  BY DEF StoreInit
<1>2. IsFiniteSet(runs) /\ Cardinality(runs) = 0
  BY FS_EmptySet DEF StoreInit
<1> QED
  BY <1>1, <1>2, RunStoreAssumption
     DEF StoreInit, StoreIInv, StoreTypeOK, StoreBounded, EntriesMatchLog, SavedInThePast,
         ClaimedAtMostOnce, ServedIsCurrent, LostOnlyWhenCrowdedOut

-----------------------------------------------------------------------------
(* The theorems.                                                           *)

\* The inductive invariant of the store: what the map holds is the newest,
\* unclaimed, undeleted Save of each key (runstore.go:126-196).
THEOREM StoreInvariant == StoreSpec => []StoreIInv
BY StoreInitHolds, StoreStepKeeps, PTL DEF StoreSpec

\* The state of the store keeps its types, whatever calls are made.
THEOREM StoreTypeCorrect == StoreSpec => []StoreTypeOK
<1>1. StoreIInv => StoreTypeOK
  BY DEF StoreIInv
<1> QED
  BY <1>1, StoreInvariant, PTL

\* Save never lets the map outgrow maxEntries (runstore.go:126-150).
THEOREM StoreNeverOverflows == StoreSpec => []StoreBounded
<1>1. StoreIInv => StoreBounded
  BY DEF StoreIInv
<1> QED
  BY <1>1, StoreInvariant, PTL

\* No paused run is handed to two callers of LoadAndDelete, however calls,
\* expiries and replacements interleave (runstore.go:170-189).
THEOREM ClaimsAreExclusive == StoreSpec => []ClaimedAtMostOnce
<1>1. StoreIInv => ClaimedAtMostOnce
  BY DEF StoreIInv
<1> QED
  BY <1>1, StoreInvariant, PTL

\* Load and LoadAndDelete hand out nothing stale: not expired, not deleted,
\* not replaced (runstore.go:155-189).
THEOREM NothingStaleIsServed == StoreSpec => []ServedIsCurrent
<1>1. StoreIInv => ServedIsCurrent
  BY DEF StoreIInv
<1> QED
  BY <1>1, StoreInvariant, PTL

\* Eviction and purging cost a human the chance to answer only when maxEntries
\* other threads paused since (runstore.go:126-150, 233-253).
THEOREM AnswersAreLostOnlyToACrowd == StoreSpec => []LostOnlyWhenCrowdedOut
<1>1. StoreIInv => LostOnlyWhenCrowdedOut
  BY DEF StoreIInv
<1> QED
  BY <1>1, StoreInvariant, PTL

-----------------------------------------------------------------------------
(* Pause and resume.                                                       *)

\* Where a request is in its handler tells what it has peeked at and claimed.
Standing(r) ==
  /\ pc[r] \in {"idle", "peeking"} => held[r] = NoRun
  /\ pc[r] \in {"idle", "peeking", "claiming"} => claimed[r] = NoRun
  /\ pc[r] = "claiming" => held[r] # NoRun
  /\ pc[r] \in {"running", "announcing", "finished", "interrupted"} /\ held[r] # NoRun
       => claimed[r] # NoRun
  /\ pc[r] \in {"announcing", "interrupted"} => produced[r] # NoRun
  /\ held[r] # NoRun => log[held[r]].key = input[r].key
  /\ claimed[r] # NoRun =>
       /\ log[claimed[r]].key = input[r].key
       /\ log[claimed[r]].claims >= 1
       /\ claimed[r] >= held[r]

\* A claim is nobody else's.
OwnClaims ==
  \A r, q \in Requests : claimed[r] # NoRun /\ q # r => claimed[q] # claimed[r]

ProtocolIInv ==
  /\ StoreIInv
  /\ TypeOK
  /\ \A r \in Requests : Standing(r)
  /\ OwnClaims

\* What every step of the store leaves of its history.
LogGrows ==
  /\ DOMAIN log \subseteq DOMAIN log'
  /\ \A i \in DOMAIN log : log'[i].key = log[i].key /\ log'[i].claims >= log[i].claims

-----------------------------------------------------------------------------
(* The store under the protocol.                                           *)

\* A step that leaves the log alone lets it grow by nothing.
LEMMA SameLogGrows ==
  ASSUME StoreTypeOK, log' = log
  PROVE  LogGrows
BY LogDomain DEF LogGrows, Saved

\* Save adds a record.
LEMMA SaveGrows ==
  ASSUME StoreTypeOK, NEW k \in Keys, Save(k)
  PROVE  LogGrows /\ Len(log') = Len(log) + 1 /\ Len(log') \in DOMAIN log'
<1>1. /\ DOMAIN log' = DOMAIN log \cup {Len(log) + 1}
      /\ \A i \in DOMAIN log : log'[i] = log[i]
      /\ log' \in Seq(Saved)
  BY LogAfterSave
<1>2. Len(log') = Len(log) + 1
  BY AppendProperties DEF Save, StoreTypeOK, Saved
<1> QED
  BY <1>1, <1>2, LogDomain DEF LogGrows, Saved

\* A claim raises a count, and what it takes is the newest run of its key,
\* which nobody had claimed.
LEMMA ClaimGrows ==
  ASSUME StoreIInv, NEW k \in Keys, Claim(k)
  PROVE  /\ LogGrows /\ Len(log') = Len(log)
         /\ result' \in DOMAIN log
         /\ log[result'].key = k
         /\ log[result'].claims = 0
         /\ log'[result'].claims = 1
         /\ \A j \in DOMAIN log : log[j].key = k => j <= result'
<1>1. PICK e \in EntriesOf(k) :
        result' = e.run /\ log' = [log EXCEPT ![e.run].claims = @ + 1]
  BY DEF Claim
<1>2. StoreTypeOK /\ EntriesMatchLog /\ e \in runs /\ e.key = k
  BY DEF StoreIInv, EntriesOf
<1>3. /\ e.run \in DOMAIN log
      /\ log[e.run].key = k
      /\ log[e.run].claims = 0
      /\ \A j \in DOMAIN log : j > e.run => log[j].key # k
  BY <1>2 DEF EntriesMatchLog
<1>4. /\ log' \in Seq(Saved)
      /\ DOMAIN log' = DOMAIN log
      /\ \A i \in DOMAIN log :
           /\ log'[i].key = log[i].key
           /\ log'[i].claims = IF i = e.run THEN log[i].claims + 1 ELSE log[i].claims
  BY <1>1, <1>2, <1>3, LogAfterClaim
<1>5. Len(log') = Len(log)
  BY <1>2, <1>4, LogDomain, LenProperties
<1>6. LogGrows
  <2>1. \A i \in DOMAIN log : log[i].claims \in Nat
    BY <1>2, LogDomain DEF Saved
  <2>2. \A i \in DOMAIN log : log'[i].claims >= log[i].claims
    BY <1>4, <2>1
  <2>3. DOMAIN log \subseteq DOMAIN log' /\ \A i \in DOMAIN log : log'[i].key = log[i].key
    BY <1>4
  <2> QED
    BY <2>2, <2>3 DEF LogGrows
<1>7. \A j \in DOMAIN log : log[j].key = k => j <= e.run
  BY <1>2, <1>3, LogDomain
<1>8. log'[e.run].claims = 1
  BY <1>3, <1>4
<1>9. result' = e.run
  BY <1>1
<1> QED
  BY <1>3, <1>5, <1>6, <1>7, <1>8, <1>9

\* A hit of Load is a run of that key.
LEMMA LoadHitFinds ==
  ASSUME StoreIInv, NEW k \in Keys, LoadHit(k)
  PROVE  result' \in DOMAIN log /\ log[result'].key = k
<1>1. PICK e \in EntriesOf(k) : result' = e.run
  BY DEF LoadHit
<1> QED
  BY <1>1 DEF StoreIInv, EntriesOf, EntriesMatchLog

\* Steps that only answer NoRun keep the store's invariant.
LEMMA IdlingKeeps ==
  ASSUME StoreIInv, result' = NoRun, UNCHANGED <<runs, now, cleaning, log>>
  PROVE  StoreIInv'
BY ForgettingKeeps DEF StoreIInv, StoreTypeOK

\* A request whose own variables do not change stands where it stood.
LEMMA OthersStand ==
  ASSUME ProtocolIInv, LogGrows, StoreTypeOK', NEW q \in Requests,
         pc'[q] = pc[q], input'[q] = input[q], held'[q] = held[q],
         claimed'[q] = claimed[q], produced'[q] = produced[q]
  PROVE  Standing(q)'
<1>1. Standing(q) /\ StoreTypeOK
  BY DEF ProtocolIInv, TypeOK
<1>2. held[q] \in {NoRun} \cup DOMAIN log /\ claimed[q] \in {NoRun} \cup DOMAIN log
  BY DEF ProtocolIInv, TypeOK
<1>3. held[q] # NoRun => log'[held[q]].key = log[held[q]].key
  BY <1>2 DEF LogGrows
<1>4. claimed[q] # NoRun =>
        /\ log'[claimed[q]].key = log[claimed[q]].key
        /\ log'[claimed[q]].claims >= log[claimed[q]].claims
        /\ log'[claimed[q]].claims \in Nat
        /\ log[claimed[q]].claims \in Nat
  <2>1. claimed[q] # NoRun => log'[claimed[q]] \in Saved /\ log[claimed[q]] \in Saved
    BY <1>1, <1>2, LogDomain DEF LogGrows, StoreTypeOK
  <2> QED
    BY <1>2, <2>1 DEF LogGrows, Saved
<1>5. claimed[q] # NoRun => log[claimed[q]].claims >= 1
  BY <1>1 DEF Standing
<1>6. claimed[q] # NoRun => log'[claimed[q]].claims >= 1
  BY <1>4, <1>5
<1> QED
  BY <1>1, <1>3, <1>4, <1>6 DEF Standing

-----------------------------------------------------------------------------
(* Types and frames.                                                       *)

\* The types of the protocol's variables, one by one.
LEMMA ProtocolTypes ==
  ASSUME ProtocolIInv
  PROVE  /\ StoreTypeOK
         /\ pc \in [Requests -> PCs]
         /\ input \in [Requests -> Input]
         /\ held \in [Requests -> {NoRun} \cup DOMAIN log]
         /\ claimed \in [Requests -> {NoRun} \cup DOMAIN log]
         /\ produced \in [Requests -> {NoRun} \cup DOMAIN log]
         /\ paused \in Seq(Pauses)
         /\ Len(paused) = Len(log)
BY DEF ProtocolIInv, TypeOK

\* A step of one request keeps the invariant, if it leaves that request well
\* and takes no claim of another.
LEMMA RequestSteps ==
  ASSUME ProtocolIInv, StoreIInv', LogGrows, NEW r \in Requests,
         \A q \in Requests \ {r} :
           /\ pc'[q] = pc[q] /\ input'[q] = input[q] /\ held'[q] = held[q]
           /\ claimed'[q] = claimed[q] /\ produced'[q] = produced[q],
         pc' \in [Requests -> PCs],
         input' \in [Requests -> Input],
         {held', claimed', produced'} \subseteq [Requests -> {NoRun} \cup DOMAIN log'],
         paused' \in Seq(Pauses), Len(paused') = Len(log'),
         Standing(r)',
         claimed'[r] # NoRun => \A q \in Requests \ {r} : claimed[q] # claimed'[r]
  PROVE  ProtocolIInv'
<1>1. StoreTypeOK'
  BY DEF StoreIInv
<1>2. TypeOK'
  BY <1>1 DEF TypeOK
<1>3. \A q \in Requests : Standing(q)'
  <2> TAKE q \in Requests
  <2>1. CASE q = r
    BY <2>1
  <2>2. CASE q # r
    BY <1>1, <2>2, OthersStand
  <2> QED
    BY <2>1, <2>2
<1>4. OwnClaims'
  <2> SUFFICES ASSUME NEW a \in Requests, NEW b \in Requests,
                      claimed'[a] # NoRun, b # a
               PROVE  claimed'[b] # claimed'[a]
    BY DEF OwnClaims
  <2>1. CASE a = r
    BY <2>1
  <2>2. CASE b = r
    BY <2>2
  <2>3. CASE a # r /\ b # r
    BY <2>3 DEF ProtocolIInv, OwnClaims
  <2> QED
    BY <2>1, <2>2, <2>3
<1> QED
  BY <1>2, <1>3, <1>4 DEF ProtocolIInv

\* A step that does not touch the store or the runs it knows of.
LEMMA PlainSteps ==
  ASSUME ProtocolIInv, NEW r \in Requests, NEW l \in PCs, Goto(r, l),
         result' = NoRun,
         UNCHANGED <<runs, now, cleaning, log, held, claimed, produced, paused>>,
         input' \in [Requests -> Input],
         \A q \in Requests \ {r} : input'[q] = input[q],
         Standing(r)'
  PROVE  ProtocolIInv'
<1>1. StoreIInv' /\ LogGrows
  BY IdlingKeeps, SameLogGrows, ProtocolTypes DEF ProtocolIInv
<1>2. pc' \in [Requests -> PCs] /\ \A q \in Requests \ {r} : pc'[q] = pc[q]
  BY ProtocolTypes DEF Goto
<1>3. claimed'[r] # NoRun => \A q \in Requests \ {r} : claimed[q] # claimed'[r]
  BY DEF ProtocolIInv, OwnClaims
<1>4. /\ \A q \in Requests \ {r} :
           held'[q] = held[q] /\ claimed'[q] = claimed[q] /\ produced'[q] = produced[q]
      /\ {held', claimed', produced'} \subseteq [Requests -> {NoRun} \cup DOMAIN log']
      /\ paused' \in Seq(Pauses) /\ Len(paused') = Len(log')
  BY ProtocolTypes
<1> QED
  BY <1>1, <1>2, <1>3, <1>4, RequestSteps

-----------------------------------------------------------------------------
(* The steps of a request.                                                 *)

\* A request arrives.
LEMMA StartRunKeeps ==
  ASSUME ProtocolIInv, NEW r \in Requests, StartRun(r)
  PROVE  ProtocolIInv'
<1>1. PICK k \in Keys :
        input' = [input EXCEPT ![r] = [key |-> k, about |-> NoRun, answers |-> <<>>]]
  BY DEF StartRun
<1>2. [key |-> k, about |-> NoRun, answers |-> <<>>] \in Input
  BY DEF Input, NoRun
<1>3. /\ input' \in [Requests -> Input]
      /\ \A q \in Requests \ {r} : input'[q] = input[q]
  BY <1>1, <1>2, ProtocolTypes
<1>4. /\ Goto(r, "running") /\ "running" \in PCs /\ pc'[r] = "running"
      /\ result' = NoRun
      /\ UNCHANGED <<runs, now, cleaning, log, held, claimed, produced, paused>>
  BY ProtocolTypes DEF StartRun, Goto, PCs
<1>5. held[r] = NoRun /\ claimed[r] = NoRun
  BY DEF ProtocolIInv, Standing, StartRun
<1>6. Standing(r)'
  BY <1>4, <1>5 DEF Standing
<1> QED
  BY <1>3, <1>4, <1>6, PlainSteps

\* A client resumes.
LEMMA StartResumeKeeps ==
  ASSUME ProtocolIInv, NEW r \in Requests, StartResume(r)
  PROVE  ProtocolIInv'
<1>1. PICK n \in Announced, a \in Answers :
        input' = [input EXCEPT ![r] = [key |-> log[n].key, about |-> n, answers |-> a]]
  BY DEF StartResume
<1>2. n \in DOMAIN log
  <2>1. PICK q \in Requests : pc[q] = "interrupted" /\ n = produced[q]
    BY DEF Announced
  <2> QED
    BY <2>1, ProtocolTypes DEF ProtocolIInv, Standing
<1>3. log[n] \in Saved /\ n \in Nat
  BY <1>2, LogDomain, ProtocolTypes
<1>4. [key |-> log[n].key, about |-> n, answers |-> a] \in Input
  BY <1>3 DEF Input, Saved
<1>5. /\ input' \in [Requests -> Input]
      /\ \A q \in Requests \ {r} : input'[q] = input[q]
  BY <1>1, <1>4, ProtocolTypes
<1>6. /\ Goto(r, "peeking") /\ "peeking" \in PCs /\ pc'[r] = "peeking"
      /\ result' = NoRun
      /\ UNCHANGED <<runs, now, cleaning, log, held, claimed, produced, paused>>
  BY ProtocolTypes DEF StartResume, Goto, PCs
<1>7. held[r] = NoRun /\ claimed[r] = NoRun
  BY DEF ProtocolIInv, Standing, StartResume
<1>8. Standing(r)'
  BY <1>6, <1>7 DEF Standing
<1> QED
  BY <1>5, <1>6, <1>8, PlainSteps

\* A run ends, fails, or announces its interrupt or not: only pc changes.
LEMMA EndingKeeps ==
  ASSUME ProtocolIInv, NEW r \in Requests,
         AnnounceInterrupt(r) \/ LoseAnnouncement(r) \/ RunEnds(r) \/ RunFails(r)
  PROVE  ProtocolIInv'
<1>1. /\ result' = NoRun
      /\ UNCHANGED <<runs, now, cleaning, log, input, held, claimed, produced, paused>>
  BY DEF AnnounceInterrupt, LoseAnnouncement, RunEnds, RunFails
<1>2. PICK l \in {"interrupted", "finished", "failed"} : Goto(r, l)
  BY DEF AnnounceInterrupt, LoseAnnouncement, RunEnds, RunFails
<1>3. pc'[r] = l /\ l \in PCs
  BY <1>2, ProtocolTypes DEF Goto, PCs
<1>4. pc[r] \in {"peeking", "running", "announcing"}
  BY DEF AnnounceInterrupt, LoseAnnouncement, RunEnds, RunFails
<1>5. l = "interrupted" => pc[r] = "announcing"
  BY <1>2, <1>3, ProtocolTypes
     DEF AnnounceInterrupt, LoseAnnouncement, RunEnds, RunFails, Goto
<1>6. pc[r] = "peeking" => l = "failed"
  BY <1>2, <1>3, ProtocolTypes
     DEF AnnounceInterrupt, LoseAnnouncement, RunEnds, RunFails, Goto
<1>7. Standing(r)
  BY DEF ProtocolIInv
<1>8. Standing(r)'
  BY <1>1, <1>3, <1>4, <1>5, <1>6, <1>7 DEF Standing
<1>9. input' \in [Requests -> Input] /\ \A q \in Requests \ {r} : input'[q] = input[q]
  BY <1>1, ProtocolTypes
<1> QED
  BY <1>1, <1>2, <1>3, <1>8, <1>9, PlainSteps

\* What Load does for a request.
LEMMA LoadSteps ==
  ASSUME StoreIInv, NEW k \in Keys, Load(k)
  PROVE  /\ StoreIInv'
         /\ log' = log
         /\ result' \in {NoRun} \cup DOMAIN log
         /\ result' # NoRun => log[result'].key = k
<1>1. StoreIInv'
  BY StoreStepKeeps DEF StoreNext
<1>2. log' = log
  BY DEF Load, LoadMiss, LoadHit
<1>3. CASE LoadMiss(k)
  BY <1>1, <1>2, <1>3 DEF LoadMiss
<1>4. CASE LoadHit(k)
  BY <1>1, <1>2, <1>4, LoadHitFinds
<1> QED
  BY <1>3, <1>4 DEF Load

\* A peek holds a run of the key, if any, and claims nothing.
LEMMA PeekKeeps ==
  ASSUME ProtocolIInv, NEW r \in Requests, Peek(r)
  PROVE  ProtocolIInv'
<1>1. pc[r] = "peeking" /\ Load(input[r].key) /\ input[r].key \in Keys
  BY ProtocolTypes DEF Peek, Input
<1>2. /\ StoreIInv' /\ log' = log
      /\ result' \in {NoRun} \cup DOMAIN log
      /\ result' # NoRun => log[result'].key = input[r].key
  BY <1>1, LoadSteps DEF ProtocolIInv
<1>3. LogGrows
  BY <1>2, SameLogGrows, ProtocolTypes
<1>4. /\ held' = [held EXCEPT ![r] = result']
      /\ UNCHANGED <<input, claimed, produced, paused>>
  BY DEF Peek
<1>5. PICK l \in {"claiming", "failed"} :
        Goto(r, l) /\ (l = "claiming" => result' # NoRun)
  BY DEF Peek
<1>6. /\ pc' \in [Requests -> PCs] /\ pc'[r] = l
      /\ \A q \in Requests \ {r} : pc'[q] = pc[q]
  BY <1>5, ProtocolTypes DEF Goto, PCs
<1>7. /\ held' \in [Requests -> {NoRun} \cup DOMAIN log'] /\ held'[r] = result'
      /\ \A q \in Requests \ {r} : held'[q] = held[q]
  BY <1>2, <1>4, ProtocolTypes
<1>8. claimed[r] = NoRun
  BY <1>1 DEF ProtocolIInv, Standing
<1>9. Standing(r)'
  BY <1>2, <1>4, <1>5, <1>6, <1>7, <1>8 DEF Standing
<1>10. /\ input' \in [Requests -> Input]
       /\ {held', claimed', produced'} \subseteq [Requests -> {NoRun} \cup DOMAIN log']
       /\ paused' \in Seq(Pauses) /\ Len(paused') = Len(log')
       /\ \A q \in Requests \ {r} :
            input'[q] = input[q] /\ claimed'[q] = claimed[q] /\ produced'[q] = produced[q]
       /\ claimed'[r] = NoRun
  BY <1>2, <1>4, <1>7, <1>8, ProtocolTypes
<1> QED
  BY <1>2, <1>3, <1>6, <1>7, <1>9, <1>10, RequestSteps

\* A claim that hits takes a run nobody has, no older than the one held.
LEMMA ClaimHitKeeps ==
  ASSUME ProtocolIInv, NEW r \in Requests, ClaimAndSettle(r), Claim(input[r].key)
  PROVE  /\ ProtocolIInv'
         /\ pc' = [pc EXCEPT ![r] = "running"]
         /\ claimed'[r] # NoRun
<1>1. pc[r] = "claiming" /\ input[r].key \in Keys
  BY ProtocolTypes DEF ClaimAndSettle, Input
<1>2. StoreIInv /\ StoreIInv'
  BY <1>1, ClaimKeeps DEF ProtocolIInv
<1>3. /\ LogGrows /\ Len(log') = Len(log)
      /\ result' \in DOMAIN log
      /\ log[result'].key = input[r].key
      /\ log[result'].claims = 0
      /\ log'[result'].claims = 1
      /\ \A j \in DOMAIN log : log[j].key = input[r].key => j <= result'
  BY <1>1, <1>2, ClaimGrows
<1>4. result' # NoRun
  BY <1>3, LogDomain, ProtocolTypes DEF NoRun
<1>5. /\ claimed' = [claimed EXCEPT ![r] = result']
      /\ UNCHANGED <<input, held, produced, paused>>
      /\ Goto(r, "running")
  BY <1>4 DEF ClaimAndSettle
<1>6. /\ pc' = [pc EXCEPT ![r] = "running"]
      /\ pc' \in [Requests -> PCs] /\ pc'[r] = "running"
      /\ \A q \in Requests \ {r} : pc'[q] = pc[q]
  BY <1>5, ProtocolTypes DEF Goto, PCs
<1>7. DOMAIN log \subseteq DOMAIN log'
  BY <1>3 DEF LogGrows
<1>8. /\ claimed' \in [Requests -> {NoRun} \cup DOMAIN log'] /\ claimed'[r] = result'
      /\ \A q \in Requests \ {r} : claimed'[q] = claimed[q]
  BY <1>3, <1>5, <1>7, ProtocolTypes
<1>9. Standing(r)'
  <2>1. held[r] # NoRun /\ log[held[r]].key = input[r].key
    BY <1>1 DEF ProtocolIInv, Standing
  <2>2. held[r] \in DOMAIN log /\ held[r] <= result'
    BY <1>3, <2>1, ProtocolTypes
  <2>3. log'[held[r]].key = input[r].key /\ log'[result'].key = input[r].key
    BY <1>3, <2>1, <2>2 DEF LogGrows
  <2>4. held[r] \in Nat /\ result' \in Nat
    BY <1>3, <2>2, LogDomain, ProtocolTypes
  <2>5. result' >= held[r] /\ log'[result'].claims >= 1
    BY <1>3, <2>2, <2>4
  <2> QED
    BY <1>4, <1>5, <1>6, <1>8, <2>3, <2>5 DEF Standing
<1>10. \A q \in Requests \ {r} : claimed[q] # claimed'[r]
  BY <1>3, <1>4, <1>8 DEF ProtocolIInv, Standing
<1>11. /\ input' \in [Requests -> Input]
       /\ {held', claimed', produced'} \subseteq [Requests -> {NoRun} \cup DOMAIN log']
       /\ paused' \in Seq(Pauses) /\ Len(paused') = Len(log')
       /\ \A q \in Requests \ {r} :
            input'[q] = input[q] /\ held'[q] = held[q] /\ produced'[q] = produced[q]
  BY <1>3, <1>5, <1>7, <1>8, ProtocolTypes
<1>12. ProtocolIInv'
  BY <1>2, <1>3, <1>6, <1>8, <1>9, <1>10, <1>11, RequestSteps
<1> QED
  BY <1>4, <1>6, <1>8, <1>12

\* A claim that misses leaves the request with what it held.
LEMMA ClaimMissKeeps ==
  ASSUME ProtocolIInv, NEW r \in Requests, ClaimAndSettle(r), LoadMiss(input[r].key)
  PROVE  /\ ProtocolIInv'
         /\ pc' = [pc EXCEPT ![r] = "failed"]
         /\ UNCHANGED <<input, held, claimed, produced, paused, log>>
<1>1. pc[r] = "claiming" /\ input[r].key \in Keys
  BY ProtocolTypes DEF ClaimAndSettle, Input
<1>2. Load(input[r].key) /\ result' = NoRun
  BY DEF Load, LoadMiss
<1>3. StoreIInv' /\ log' = log
  BY <1>1, <1>2, LoadSteps DEF ProtocolIInv
<1>4. LogGrows
  BY <1>3, SameLogGrows, ProtocolTypes
<1>5. claimed[r] = NoRun
  BY <1>1 DEF ProtocolIInv, Standing
<1>6. /\ claimed' = claimed
      /\ UNCHANGED <<input, held, produced, paused>>
      /\ Goto(r, "failed")
  BY <1>2, <1>5, ProtocolTypes DEF ClaimAndSettle
<1>7. /\ pc' = [pc EXCEPT ![r] = "failed"]
      /\ pc' \in [Requests -> PCs] /\ pc'[r] = "failed"
      /\ \A q \in Requests \ {r} : pc'[q] = pc[q]
  BY <1>6, ProtocolTypes DEF Goto, PCs
<1>8. Standing(r)'
  BY <1>3, <1>5, <1>6, <1>7 DEF ProtocolIInv, Standing
<1>9. /\ input' \in [Requests -> Input]
      /\ {held', claimed', produced'} \subseteq [Requests -> {NoRun} \cup DOMAIN log']
      /\ paused' \in Seq(Pauses) /\ Len(paused') = Len(log')
      /\ \A q \in Requests \ {r} :
           /\ input'[q] = input[q] /\ held'[q] = held[q]
           /\ claimed'[q] = claimed[q] /\ produced'[q] = produced[q]
      /\ claimed'[r] = NoRun
  BY <1>3, <1>5, <1>6, ProtocolTypes
<1>10. ProtocolIInv'
  BY <1>3, <1>4, <1>7, <1>8, <1>9, RequestSteps
<1> QED
  BY <1>3, <1>6, <1>7, <1>10

\* A run that pauses has saved itself.
LEMMA RunPausesKeeps ==
  ASSUME ProtocolIInv, NEW r \in Requests, RunPauses(r)
  PROVE  ProtocolIInv'
<1>1. Save(input[r].key) /\ input[r].key \in Keys /\ pc[r] = "running"
  BY ProtocolTypes DEF RunPauses, Input
<1>2. StoreIInv'
  BY <1>1, SaveKeeps DEF ProtocolIInv
<1>3. LogGrows /\ Len(log') = Len(log) + 1 /\ Len(log') \in DOMAIN log'
  BY <1>1, SaveGrows, ProtocolTypes
<1>4. Len(log') # NoRun
  BY <1>3, LogDomain, ProtocolTypes DEF NoRun
<1>5. /\ produced' = [produced EXCEPT ![r] = Len(log')]
      /\ UNCHANGED <<input, held, claimed>>
      /\ Goto(r, "announcing")
  BY DEF RunPauses
<1>6. paused' \in Seq(Pauses) /\ Len(paused') = Len(log')
  <2>1. PICK p \in Pauses : paused' = Append(paused, p)
    BY DEF RunPauses
  <2>2. paused' \in Seq(Pauses) /\ Len(paused') = Len(paused) + 1
    BY <2>1, ProtocolTypes, AppendProperties
  <2> QED
    BY <1>3, <2>2, ProtocolTypes
<1>7. /\ pc' \in [Requests -> PCs] /\ pc'[r] = "announcing"
      /\ \A q \in Requests \ {r} : pc'[q] = pc[q]
  BY <1>5, ProtocolTypes DEF Goto, PCs
<1>8. DOMAIN log \subseteq DOMAIN log'
  BY <1>3 DEF LogGrows
<1>9. /\ produced' \in [Requests -> {NoRun} \cup DOMAIN log'] /\ produced'[r] = Len(log')
      /\ \A q \in Requests \ {r} : produced'[q] = produced[q]
  BY <1>3, <1>5, <1>8, ProtocolTypes
<1>10. Standing(r)'
  <2>1. Standing(r) /\ (held[r] # NoRun => claimed[r] # NoRun)
    BY <1>1 DEF ProtocolIInv, Standing
  <2>2. held[r] # NoRun => log'[held[r]].key = input[r].key
    BY <1>3, <2>1, ProtocolTypes DEF LogGrows, Standing
  <2>3. claimed[r] # NoRun =>
          /\ log'[claimed[r]].key = input[r].key
          /\ log'[claimed[r]].claims >= 1
          /\ claimed[r] >= held[r]
    <3> SUFFICES ASSUME claimed[r] # NoRun
                 PROVE  /\ log'[claimed[r]].key = input[r].key
                        /\ log'[claimed[r]].claims >= 1
                        /\ claimed[r] >= held[r]
      OBVIOUS
    <3>1. claimed[r] \in DOMAIN log
      BY ProtocolTypes
    <3>2. log'[claimed[r]].claims >= log[claimed[r]].claims
      BY <1>3, <3>1 DEF LogGrows
    <3>3. log[claimed[r]] \in Saved /\ log'[claimed[r]] \in Saved
      BY <1>2, <1>8, <3>1, LogDomain, ProtocolTypes DEF StoreIInv, StoreTypeOK
    <3>4. log[claimed[r]].claims \in Nat /\ log'[claimed[r]].claims \in Nat
      BY <3>3 DEF Saved
    <3>5. /\ log[claimed[r]].claims >= 1
          /\ log[claimed[r]].key = input[r].key
          /\ claimed[r] >= held[r]
      BY <2>1 DEF Standing
    <3>6. log'[claimed[r]].claims >= 1
      BY <3>2, <3>4, <3>5
    <3>7. log'[claimed[r]].key = log[claimed[r]].key
      BY <1>3, <3>1 DEF LogGrows
    <3> QED
      BY <3>5, <3>6, <3>7
  <2> QED
    BY <1>4, <1>5, <1>7, <1>9, <2>1, <2>2, <2>3 DEF Standing
<1>11. claimed'[r] # NoRun => \A q \in Requests \ {r} : claimed[q] # claimed'[r]
  BY <1>5 DEF ProtocolIInv, OwnClaims
<1>12. /\ input' \in [Requests -> Input]
       /\ {held', claimed', produced'} \subseteq [Requests -> {NoRun} \cup DOMAIN log']
       /\ \A q \in Requests \ {r} :
            input'[q] = input[q] /\ held'[q] = held[q] /\ claimed'[q] = claimed[q]
  BY <1>5, <1>8, <1>9, ProtocolTypes
<1> QED
  BY <1>2, <1>3, <1>6, <1>7, <1>9, <1>10, <1>11, <1>12, RequestSteps

\* A step that leaves the requests and the log alone.
LEMMA BystandersKeep ==
  ASSUME ProtocolIInv, StoreIInv', UNCHANGED <<log, reqVars>>
  PROVE  ProtocolIInv'
<1>1. log' = log /\ UNCHANGED <<pc, input, held, claimed, produced, paused>>
  BY DEF reqVars
<1>2. TypeOK'
  BY <1>1 DEF ProtocolIInv, TypeOK, StoreIInv
<1>3. \A r \in Requests : Standing(r)'
  BY <1>1 DEF ProtocolIInv, Standing
<1>4. OwnClaims'
  BY <1>1 DEF ProtocolIInv, OwnClaims
<1> QED
  BY <1>2, <1>3, <1>4 DEF ProtocolIInv

\* The clock and the cleanup goroutine.
LEMMA BackgroundKeeps ==
  ASSUME ProtocolIInv, Background
  PROVE  ProtocolIInv'
<1>1. StoreIInv' /\ log' = log
  BY StoreStepKeeps DEF ProtocolIInv, Background, StoreNext, Cleanup, Tick
<1> QED
  BY <1>1, BystandersKeep DEF Background

\* Before any request the invariant holds.
LEMMA ProtocolInitHolds == Init => ProtocolIInv
<1> SUFFICES ASSUME Init PROVE ProtocolIInv
  OBVIOUS
<1>1. StoreIInv /\ log = <<>> /\ DOMAIN log = {}
  BY StoreInitHolds DEF Init, StoreInit
<1>2. NoInput \in Input
  <2>1. (CHOOSE k \in Keys : TRUE) \in Keys
    BY ResumeAssumption
  <2> QED
    BY <2>1 DEF NoInput, Input, NoRun
<1>3. TypeOK
  <2>1. StoreTypeOK
    BY <1>1 DEF StoreIInv
  <2>2. paused \in Seq(Pauses) /\ Len(paused) = Len(log)
    BY <1>1 DEF Init
  <2> QED
    BY <1>2, <2>1, <2>2 DEF Init, TypeOK, PCs
<1>4. \A r \in Requests : Standing(r)
  BY DEF Init, Standing
<1>5. OwnClaims
  BY DEF Init, OwnClaims
<1> QED
  BY <1>1, <1>3, <1>4, <1>5 DEF ProtocolIInv

\* Every step of the protocol keeps it.
LEMMA ProtocolStepKeeps ==
  ASSUME ProtocolIInv, [Next]_vars
  PROVE  ProtocolIInv'
<1>1. ASSUME NEW r \in Requests, StartRun(r) PROVE ProtocolIInv'
  BY <1>1, StartRunKeeps
<1>2. ASSUME NEW r \in Requests, StartResume(r) PROVE ProtocolIInv'
  BY <1>2, StartResumeKeeps
<1>3. ASSUME NEW r \in Requests, Handler(r) PROVE ProtocolIInv'
  <2>1. CASE Peek(r)
    BY <2>1, PeekKeeps
  <2>2. CASE ClaimAndSettle(r)
    <3>1. LoadMiss(input[r].key) \/ Claim(input[r].key)
      BY <2>2 DEF ClaimAndSettle, LoadAndDelete
    <3> QED
      BY <2>2, <3>1, ClaimHitKeeps, ClaimMissKeeps
  <2>3. CASE RunPauses(r)
    BY <2>3, RunPausesKeeps
  <2>4. CASE AnnounceInterrupt(r) \/ LoseAnnouncement(r) \/ RunEnds(r) \/ RunFails(r)
    BY <2>4, EndingKeeps
  <2> QED
    BY <1>3, <2>1, <2>2, <2>3, <2>4 DEF Handler
<1>4. CASE Background
  BY <1>4, BackgroundKeeps
<1>5. CASE UNCHANGED vars
  <2>1. UNCHANGED storeVars /\ UNCHANGED reqVars
    BY <1>5 DEF vars
  <2>2. StoreIInv'
    BY <2>1, StoreStepKeeps DEF ProtocolIInv
  <2> QED
    BY <2>1, <2>2, BystandersKeep DEF storeVars
<1> QED
  BY <1>1, <1>2, <1>3, <1>4, <1>5 DEF Next

-----------------------------------------------------------------------------
(* The theorems.                                                           *)

\* The invariant of pause and resume: the store's own, and what each request
\* holds and has claimed at each point of runInternal (bridge.go:404-560).
THEOREM ProtocolInvariant == Spec => []ProtocolIInv
BY ProtocolInitHolds, ProtocolStepKeeps, PTL DEF Spec

\* The protocol's variables keep their types.
THEOREM ProtocolTypeCorrect == Spec => []TypeOK
<1>1. ProtocolIInv => TypeOK
  BY DEF ProtocolIInv
<1> QED
  BY <1>1, ProtocolInvariant, PTL

\* Every resume that goes on took a paused run of its own from the store, of the
\* conversation it was asked for, at least as new as the one it validated
\* (bridge.go:438-445, 535-546).
THEOREM ExecutionsTakePauses == Spec => []EachExecutionTakesAPause
<1>1. ASSUME ProtocolIInv PROVE EachExecutionTakesAPause
  <2> SUFFICES ASSUME NEW r \in Requests, Executed(r)
               PROVE  /\ claimed[r] # NoRun
                      /\ log[claimed[r]].key = input[r].key
                      /\ claimed[r] >= held[r]
                      /\ \A q \in Requests \ {r} : claimed[q] # claimed[r]
    BY DEF EachExecutionTakesAPause
  <2>1. Standing(r)
    BY <1>1 DEF ProtocolIInv
  <2>2. claimed[r] # NoRun
    BY <2>1 DEF Executed, Standing
  <2>3. \A q \in Requests \ {r} : claimed[q] # claimed[r]
    BY <1>1, <2>2 DEF ProtocolIInv, OwnClaims
  <2> QED
    BY <2>1, <2>2, <2>3 DEF Standing
<1> QED
  BY <1>1, ProtocolInvariant, PTL

\* A resume that is refused, at the peek or at the claim, costs no paused run
\* that is still within its TTL (bridge.go:438-533).
LEMMA RefusalKeepsRuns ==
  ASSUME ProtocolIInv, [Next]_vars, NEW r \in Requests,
         pc[r] \in {"peeking", "claiming"}, pc'[r] = "failed"
  PROVE  Unexpired \subseteq runs'
<1>1. pc \in [Requests -> PCs]
  BY ProtocolTypes
<1>2. ASSUME NEW k \in Keys, LoadMiss(k) PROVE Unexpired \subseteq runs'
  BY <1>2 DEF LoadMiss, Unexpired
<1>3. ASSUME NEW k \in Keys, Load(k) PROVE Unexpired \subseteq runs'
  BY <1>2, <1>3 DEF Load, LoadHit, Unexpired
<1>4. input[r].key \in Keys
  BY ProtocolTypes DEF Input
<1>5. ASSUME NEW q \in Requests, StartRun(q) \/ StartResume(q) \/ Handler(q), q # r
      PROVE  FALSE
  <2>1. PICK l \in PCs : pc' = [pc EXCEPT ![q] = l]
    BY <1>5
       DEF StartRun, StartResume, Handler, Peek, ClaimAndSettle, RunPauses,
           AnnounceInterrupt, LoseAnnouncement, RunEnds, RunFails, Goto, PCs
  <2> QED
    BY <1>1, <1>5, <2>1
<1>6. CASE StartRun(r) \/ StartResume(r)
  BY <1>6 DEF StartRun, StartResume
<1>7. CASE Peek(r)
  BY <1>3, <1>4, <1>7 DEF Peek
<1>8. CASE ClaimAndSettle(r)
  <2>1. LoadMiss(input[r].key) \/ Claim(input[r].key)
    BY <1>8 DEF ClaimAndSettle, LoadAndDelete
  <2>2. ~Claim(input[r].key)
    <3> SUFFICES ASSUME Claim(input[r].key) PROVE FALSE
      OBVIOUS
    <3>1. pc' = [pc EXCEPT ![r] = "running"]
      BY <1>8, ClaimHitKeeps
    <3> QED
      BY <1>1, <3>1
  <2> QED
    BY <1>2, <1>4, <2>1, <2>2
<1>9. CASE RunPauses(r) \/ AnnounceInterrupt(r) \/ LoseAnnouncement(r) \/ RunEnds(r)
  BY <1>9 DEF RunPauses, AnnounceInterrupt, LoseAnnouncement, RunEnds
<1>10. CASE RunFails(r)
  BY <1>10 DEF RunFails, Unexpired
<1>11. CASE Background \/ UNCHANGED vars
  BY <1>11 DEF Background, vars, reqVars
<1> QED
  BY <1>5, <1>6, <1>7, <1>8, <1>9, <1>10, <1>11 DEF Next, Handler

\* So a malformed or late resume can be tried again, whatever other requests,
\* expiries and the cleanup goroutine do meanwhile (bridge.go:438).
THEOREM RefusalsKeepRuns == Spec => RefusedResumeKeepsRuns
<1>1. ASSUME ProtocolIInv, [Next]_vars
      PROVE  [\A r \in Requests :
                pc[r] \in {"peeking", "claiming"} /\ pc'[r] = "failed"
                  => Unexpired \subseteq runs']_vars
  BY <1>1, RefusalKeepsRuns
<1> QED
  BY <1>1, ProtocolInvariant, PTL DEF Spec, RefusedResumeKeepsRuns

-----------------------------------------------------------------------------
(* The protocol implements the ledger of pauses.                           *)

\* The values of the ledger's variables.
Waiting == {e.key : e \in runs}
Executing == {r \in Requests : Executed(r)}

\* A request executes if it holds a run and has claimed one.
LEMMA ExecutingIsClaiming ==
  ASSUME ProtocolIInv
  PROVE  Executing = {r \in Requests : held[r] # NoRun /\ claimed[r] # NoRun}
BY DEF ProtocolIInv, Standing, Executing, Executed

\* A finite number of requests execute.
LEMMA ExecutingIsFinite == IsFiniteSet(Executing) /\ Cardinality(Executing) \in Nat
BY ResumeAssumption, FS_Subset, FS_CardinalityType DEF Executing

\* A step that saves nothing and claims nothing can only lose pauses.
LEMMA LosingIsLedgerStep ==
  ASSUME runs' \subseteq runs, Len(log') = Len(log), Executing' = Executing
  PROVE  Ledger!LosePauses
<1>1. Waiting' \subseteq Waiting
  BY DEF Waiting
<1>2. \E lost \in SUBSET Waiting : Waiting' = Waiting \ lost
  <2>1. Waiting' = Waiting \ (Waiting \ Waiting')
    BY <1>1
  <2> QED
    BY <2>1
<1> QED
  BY <1>2 DEF Ledger!LosePauses, Waiting, Executing

\* Saving adds a pause, in the place of some.
LEMMA PausingIsLedgerStep ==
  ASSUME ProtocolIInv, ProtocolIInv', NEW r \in Requests, RunPauses(r)
  PROVE  \E k \in Keys : Ledger!PauseAt(k)
<1>1. Save(input[r].key) /\ input[r].key \in Keys
  BY ProtocolTypes DEF RunPauses, Input
<1>2. PICK k \in Keys : k = input[r].key
  BY <1>1
<1>3. Len(log') = Len(log) + 1
  BY <1>1, SaveGrows, ProtocolTypes
<1>4. Executing' = Executing
  <2>1. Executing' = {q \in Requests : held'[q] # NoRun /\ claimed'[q] # NoRun}
    BY DEF ProtocolIInv, Standing, Executing, Executed
  <2> QED
    BY <2>1, ExecutingIsClaiming DEF RunPauses
<1>5. \E lost \in SUBSET Waiting : Waiting' = (Waiting \ lost) \cup {k}
  <2>1. PICK rest \in Room(k), new \in [key : {k}, run : Nat, at : Nat] :
          runs' = rest \cup {new}
    <3>1. PICK rest \in Room(k) :
            runs' = rest \cup {[key |-> k, run |-> Len(log) + 1, at |-> now]}
      BY <1>1, <1>2, EntriesAfterSave DEF ProtocolIInv, StoreIInv
    <3>2. [key |-> k, run |-> Len(log) + 1, at |-> now] \in [key : {k}, run : Nat, at : Nat]
      BY LogDomain, ProtocolTypes DEF StoreTypeOK
    <3> QED
      BY <3>1, <3>2
  <2>2. PICK kept : kept = {e.key : e \in rest}
    OBVIOUS
  <2>3. rest \subseteq runs
    BY <2>1, RoomForOne, UnexpiredEntries DEF ProtocolIInv, StoreIInv
  <2>4. kept \subseteq Waiting
    BY <2>2, <2>3 DEF Waiting
  <2>5. Waiting' = kept \cup {k}
    <3>1. new.key = k
      BY <2>1
    <3> QED
      BY <2>1, <2>2, <3>1 DEF Waiting
  <2>6. Waiting' = (Waiting \ (Waiting \ kept)) \cup {k}
    BY <2>4, <2>5
  <2> QED
    BY <2>6
<1> QED
  BY <1>3, <1>4, <1>5 DEF Ledger!PauseAt, Waiting, Executing

\* Claiming takes the one pause of its key and adds an execution.
LEMMA ClaimingIsLedgerStep ==
  ASSUME ProtocolIInv, ProtocolIInv', NEW r \in Requests,
         ClaimAndSettle(r), Claim(input[r].key)
  PROVE  \E k \in Keys : Ledger!ResumeAt(k)
<1>1. pc[r] = "claiming" /\ input[r].key \in Keys
  BY ProtocolTypes DEF ClaimAndSettle, Input
<1>2. PICK k \in Keys : k = input[r].key
  BY <1>1
<1>3. PICK e \in EntriesOf(k) : runs' = runs \ {e}
  BY <1>2 DEF Claim
<1>4. e \in runs /\ e.key = k
  BY <1>3 DEF EntriesOf
<1>5. k \in Waiting /\ Waiting' = Waiting \ {k}
  <2>1. \A f \in runs : f.key = k => f = e
    BY <1>4, OneEntryPerKey DEF ProtocolIInv, StoreIInv
  <2> QED
    BY <1>3, <1>4, <2>1 DEF Waiting
<1>6. Len(log') = Len(log)
  BY <1>2, ClaimGrows DEF ProtocolIInv
<1>7. Cardinality(Executing') = Cardinality(Executing) + 1
  <2>1. Executing' = {q \in Requests : held'[q] # NoRun /\ claimed'[q] # NoRun}
    BY DEF ProtocolIInv, Standing, Executing, Executed
  <2>2. claimed'[r] # NoRun
    BY ClaimHitKeeps
  <2>3. held[r] # NoRun /\ claimed[r] = NoRun
    BY <1>1 DEF ProtocolIInv, Standing
  <2>4. held' = held /\ \A q \in Requests \ {r} : claimed'[q] = claimed[q]
    BY ProtocolTypes DEF ClaimAndSettle
  <2>5. Executing' = Executing \cup {r} /\ r \notin Executing
    BY <2>1, <2>2, <2>3, <2>4, ExecutingIsClaiming
  <2> QED
    BY <2>5, ExecutingIsFinite, FS_AddElement
<1> QED
  BY <1>5, <1>6, <1>7 DEF Ledger!ResumeAt, Waiting, Executing

\* Every step of the protocol is a step of the ledger, or none.
LEMMA StepsAreLedgerSteps ==
  ASSUME ProtocolIInv, ProtocolIInv', [Next]_vars
  PROVE  [Ledger!LedgerNext]_(Ledger!ledgerVars)
<1>a. Executing' = {q \in Requests : held'[q] # NoRun /\ claimed'[q] # NoRun}
  BY DEF ProtocolIInv, Standing, Executing, Executed
<1>b. ASSUME runs' \subseteq runs, log' = log, UNCHANGED <<held, claimed>>
      PROVE  Ledger!LosePauses
  BY <1>a, <1>b, ExecutingIsClaiming, LosingIsLedgerStep
<1>c. ASSUME NEW k \in Keys, LoadMiss(k) PROVE runs' \subseteq runs /\ log' = log
  BY <1>c DEF LoadMiss
<1>1. ASSUME NEW r \in Requests, StartRun(r) \/ StartResume(r) PROVE Ledger!LosePauses
  BY <1>1, <1>b DEF StartRun, StartResume
<1>2. ASSUME NEW r \in Requests, Peek(r) PROVE Ledger!LosePauses
  <2>1. runs' \subseteq runs /\ log' = log
    BY <1>2, <1>c, ProtocolTypes DEF Peek, Input, Load, LoadHit
  <2>2. claimed[r] = NoRun /\ claimed' = claimed
    BY <1>2 DEF Peek, ProtocolIInv, Standing
  <2>3. \A q \in Requests \ {r} : held'[q] = held[q]
    BY <1>2, ProtocolTypes DEF Peek
  <2>4. Executing' = Executing
    BY <1>a, <2>2, <2>3, ExecutingIsClaiming
  <2> QED
    BY <2>1, <2>4, LosingIsLedgerStep
<1>3. ASSUME NEW r \in Requests, ClaimAndSettle(r) PROVE Ledger!LedgerNext
  <2>1. CASE Claim(input[r].key)
    BY <1>3, <2>1, ClaimingIsLedgerStep DEF Ledger!LedgerNext
  <2>2. CASE LoadMiss(input[r].key)
    <3>1. runs' \subseteq runs /\ UNCHANGED <<held, claimed, log>>
      BY <1>3, <2>2, <1>c, ClaimMissKeeps, ProtocolTypes DEF Input
    <3> QED
      BY <3>1, <1>b DEF Ledger!LedgerNext
  <2> QED
    BY <1>3, <2>1, <2>2 DEF ClaimAndSettle, LoadAndDelete
<1>4. ASSUME NEW r \in Requests, RunPauses(r) PROVE Ledger!LedgerNext
  BY <1>4, PausingIsLedgerStep DEF Ledger!LedgerNext
<1>5. ASSUME NEW r \in Requests,
             AnnounceInterrupt(r) \/ LoseAnnouncement(r) \/ RunEnds(r) \/ RunFails(r)
      PROVE  Ledger!LosePauses
  BY <1>5, <1>b DEF AnnounceInterrupt, LoseAnnouncement, RunEnds, RunFails
<1>6. CASE Background
  BY <1>6, <1>b DEF Background, reqVars, Cleanup, Tick, Unexpired, Ledger!LedgerNext
<1>7. CASE UNCHANGED vars
  BY <1>7, <1>b DEF vars, storeVars, reqVars, Ledger!LedgerNext
<1> QED
  BY <1>1, <1>2, <1>3, <1>4, <1>5, <1>6, <1>7
     DEF Next, Handler, Ledger!LedgerNext

\* With no request there, the ledger is empty.
LEMMA LedgerInitHolds == Init => Ledger!LedgerInit
<1> SUFFICES ASSUME Init PROVE Ledger!LedgerInit
  OBVIOUS
<1>1. Executing = {} /\ Waiting = {}
  BY DEF Init, StoreInit, Executing, Executed, Waiting
<1>2. Cardinality(Executing) = 0
  BY <1>1, FS_EmptySet
<1>3. Len(log) = 0
  BY DEF Init, StoreInit
<1> QED
  BY <1>1, <1>2, <1>3 DEF Ledger!LedgerInit, Executing, Waiting

\* The protocol implements the ledger: a resume goes on only by taking away the
\* pause that waits under its key, and no pause comes back (runstore.go:51-55,
\* bridge.go:535-546).
THEOREM ProtocolImplementsLedger == Spec => ImplementsLedger
<1>1. Ledger!LedgerInit /\ [][Ledger!LedgerNext]_(Ledger!ledgerVars) => Ledger!LedgerSpec
  BY DEF Ledger!LedgerSpec
<1> QED
  BY <1>1, LedgerInitHolds, StepsAreLedgerSteps, ProtocolInvariant, PTL
     DEF Spec, ImplementsLedger

-----------------------------------------------------------------------------
(* The client has decided on every call that is settled.                   *)

\* What a request claims or has claimed answers the run it holds.
Validated(r) ==
  held[r] # NoRun /\ (pc[r] = "claiming" \/ claimed[r] # NoRun)
    => Addresses(input[r], held[r])

AllValidated == \A r \in Requests : Validated(r)

\* What a run waits for does not change once it is saved.
LEMMA PausesStand ==
  ASSUME ProtocolIInv, ProtocolIInv', [Next]_vars
  PROVE  \A n \in DOMAIN log : paused'[n] = paused[n]
<1>1. paused' = paused \/ \E p \in Pauses : paused' = Append(paused, p)
  BY DEF Next, StartRun, StartResume, Handler, Peek, ClaimAndSettle, RunPauses,
         AnnounceInterrupt, LoseAnnouncement, RunEnds, RunFails, Background, vars, reqVars
<1>2. /\ paused \in Seq(Pauses)
      /\ DOMAIN log = 1..Len(log) /\ DOMAIN paused = 1..Len(paused)
      /\ Len(paused) = Len(log)
  BY ProtocolTypes, LogDomain
<1>3. ASSUME NEW p \in Pauses, paused' = Append(paused, p)
      PROVE  \A n \in DOMAIN log : paused'[n] = paused[n]
  BY <1>2, <1>3, AppendProperties
<1> QED
  BY <1>1, <1>3

\* A request that did not peek or move in this step is as validated as before.
LEMMA StaysValidated ==
  ASSUME ProtocolIInv, ProtocolIInv', [Next]_vars, NEW r \in Requests, Validated(r),
         input'[r] = input[r], held'[r] = held[r],
         pc'[r] = "claiming" \/ claimed'[r] # NoRun
           => pc[r] = "claiming" \/ claimed[r] # NoRun
  PROVE  Validated(r)'
<1>1. held[r] # NoRun => paused'[held[r]] = paused[held[r]]
  BY ProtocolTypes, PausesStand
<1> QED
  BY <1>1 DEF Validated, Addresses

\* A step of another request, or of none, changes nothing of this one.
LEMMA OneRequestMoves ==
  ASSUME ProtocolIInv, NEW q \in Requests, NEW r \in Requests, q # r,
         StartRun(q) \/ StartResume(q) \/ Handler(q)
  PROVE  /\ pc'[r] = pc[r] /\ input'[r] = input[r]
         /\ held'[r] = held[r] /\ claimed'[r] = claimed[r]
<1>1. PICK l \in PCs : pc' = [pc EXCEPT ![q] = l]
  BY DEF StartRun, StartResume, Handler, Peek, ClaimAndSettle, RunPauses,
         AnnounceInterrupt, LoseAnnouncement, RunEnds, RunFails, Goto, PCs
<1>2. input' = input \/ \E in : input' = [input EXCEPT ![q] = in]
  BY DEF StartRun, StartResume, Handler, Peek, ClaimAndSettle, RunPauses,
         AnnounceInterrupt, LoseAnnouncement, RunEnds, RunFails
<1>3. held' = held \/ held' = [held EXCEPT ![q] = result']
  BY DEF StartRun, StartResume, Handler, Peek, ClaimAndSettle, RunPauses,
         AnnounceInterrupt, LoseAnnouncement, RunEnds, RunFails
<1>4. claimed' = claimed \/ claimed' = [claimed EXCEPT ![q] = result']
  BY DEF StartRun, StartResume, Handler, Peek, ClaimAndSettle, RunPauses,
         AnnounceInterrupt, LoseAnnouncement, RunEnds, RunFails
<1> QED
  BY <1>1, <1>2, <1>3, <1>4, ProtocolTypes

\* Validation happens at the peek, and nothing it has read changes later.
LEMMA ValidationKeeps ==
  ASSUME ProtocolIInv, ProtocolIInv', AllValidated, [Next]_vars
  PROVE  AllValidated'
<1> SUFFICES ASSUME NEW r \in Requests PROVE Validated(r)'
  BY DEF AllValidated
<1>0. Validated(r)
  BY DEF AllValidated
<1>1. CASE StartRun(r) \/ StartResume(r)
  <2>1. held'[r] = NoRun
    BY <1>1 DEF StartRun, StartResume, ProtocolIInv, Standing
  <2> QED
    BY <2>1 DEF Validated
<1>2. CASE Peek(r)
  <2>1. /\ held'[r] = result' /\ input' = input /\ paused' = paused
        /\ claimed'[r] = NoRun
    BY <1>2, ProtocolTypes DEF Peek, ProtocolIInv, Standing
  <2>2. pc'[r] = "claiming" => Addresses(input[r], result')
    BY <1>2, ProtocolTypes DEF Peek, Goto
  <2> QED
    BY <2>1, <2>2 DEF Validated, Addresses
<1>3. CASE ClaimAndSettle(r)
  BY <1>0, <1>3, StaysValidated DEF ClaimAndSettle
<1>4. CASE \/ RunPauses(r) \/ AnnounceInterrupt(r) \/ LoseAnnouncement(r)
           \/ RunEnds(r) \/ RunFails(r)
  <2>1. UNCHANGED <<input, held, claimed>> /\ pc'[r] # "claiming"
    BY <1>4, ProtocolTypes
       DEF RunPauses, AnnounceInterrupt, LoseAnnouncement, RunEnds, RunFails, Goto
  <2> QED
    BY <1>0, <2>1, StaysValidated
<1>5. CASE \E q \in Requests \ {r} : StartRun(q) \/ StartResume(q) \/ Handler(q)
  BY <1>0, <1>5, OneRequestMoves, StaysValidated
<1>6. CASE Background \/ UNCHANGED vars
  BY <1>0, <1>6, StaysValidated DEF Background, vars, reqVars
<1> QED
  BY <1>1, <1>2, <1>3, <1>4, <1>5, <1>6 DEF Next, Handler

\* A bounded set of numbers has a largest.
LEMMA LargestOf ==
  ASSUME NEW S, S \subseteq Nat, S # {}, NEW b \in Nat, \A n \in S : n <= b
  PROVE  \E m \in S : \A n \in S : n <= m
<1>1. PICK below : below = {b - n : n \in S}
  OBVIOUS
<1>2. \A n \in S : b - n \in Nat /\ n \in Nat
  OBVIOUS
<1>3. below \subseteq Nat
  BY <1>1, <1>2
<1>4. below # {}
  BY <1>1
<1>5. PICK x \in below : \A y \in below : ~(<<y, x>> \in OpToRel(<, Nat))
  BY <1>3, <1>4, NatLessThanWellFounded, WFMin
<1>6. \A y \in below : ~(y < x)
  <2> TAKE y \in below
  <2>1. x \in Nat /\ y \in Nat
    BY <1>3
  <2>2. <<y, x>> \in OpToRel(<, Nat) <=> y < x
    BY <2>1, Zenon DEF OpToRel
  <2> QED
    BY <1>5, <2>2
<1>7. PICK m \in S : x = b - m
  BY <1>1
<1>8. \A n \in S : n <= m
  <2> TAKE n \in S
  <2>1. ~(b - n < b - m)
    BY <1>1, <1>6, <1>7
  <2> QED
    BY <1>2, <2>1
<1> QED
  BY <1>8

\* A list of entries is a sequence.
LEMMA AnswersAreSequences ==
  ASSUME NEW answers \in Answers \cup {<<>>}
  PROVE  answers \in Seq([call : Calls, approved : BOOLEAN])
<1>1. CASE answers \in Answers
  BY <1>1, ResumeAssumption
<1>2. CASE answers = <<>>
  BY <1>2, EmptySeq
<1> QED
  BY <1>1, <1>2

\* The last entry that names a call (approvalsFromResume, bridge.go:1727-1764).
LEMMA LastEntry ==
  ASSUME NEW answers \in Answers \cup {<<>>}, NEW c \in Decided(answers)
  PROVE  /\ LastFor(answers, c) \in DOMAIN answers
         /\ answers[LastFor(answers, c)].call = c
         /\ \A m \in DOMAIN answers : answers[m].call = c => m <= LastFor(answers, c)
<1>1. PICK naming : naming = {n \in DOMAIN answers : answers[n].call = c}
  OBVIOUS
<1>2. answers \in Seq([call : Calls, approved : BOOLEAN])
  BY AnswersAreSequences
<1>3. DOMAIN answers = 1..Len(answers) /\ Len(answers) \in Nat
  BY <1>2
<1>4. naming \subseteq Nat /\ naming # {} /\ \A n \in naming : n <= Len(answers)
  BY <1>1, <1>3 DEF Decided
<1>5. \E m \in naming : \A n \in naming : n <= m
  BY <1>3, <1>4, LargestOf
<1> QED
  BY <1>1, <1>5 DEF LastFor

\* No call is settled that the client did not decide on, for the very run that
\* is settled, and none executes whose approval was withdrawn
\* (bridge.go:438-533).
THEOREM ClientsDecide == Spec => []DecidedCallsOnly
<1>1. Init => AllValidated
  BY DEF Init, AllValidated, Validated
<1>2. ASSUME ProtocolIInv, AllValidated PROVE DecidedCallsOnly
  <2> SUFFICES ASSUME NEW r \in Requests, Executed(r), paused[held[r]].pending # {}
               PROVE  /\ input[r].about = held[r]
                      /\ ~paused[held[r]].requested =>
                           /\ \A c \in paused[held[r]].pending :
                                \E n \in DOMAIN input[r].answers :
                                  input[r].answers[n].call = c
                           /\ \A c \in Executes(r) : \A n \in DOMAIN input[r].answers :
                                input[r].answers[n] = [call |-> c, approved |-> FALSE] =>
                                  \E m \in DOMAIN input[r].answers :
                                    /\ m > n
                                    /\ input[r].answers[m] = [call |-> c, approved |-> TRUE]
    BY DEF DecidedCallsOnly
  <2>1. Addresses(input[r], held[r])
    BY <1>2 DEF ProtocolIInv, Standing, AllValidated, Validated, Executed
  <2>2. input[r].about = held[r]
    BY <2>1 DEF Addresses, DecidedOf
  <2>3. PICK answers \in Answers \cup {<<>>} : answers = input[r].answers
    BY <1>2, ProtocolTypes DEF Input
  <2>4. ~paused[held[r]].requested => paused[held[r]].pending \subseteq Decided(answers)
    BY <2>1, <2>2, <2>3 DEF Addresses, DecidedOf
  <2>5. ASSUME NEW c \in Decided(answers), answers[LastFor(answers, c)].approved,
               NEW n \in DOMAIN answers, answers[n] = [call |-> c, approved |-> FALSE]
        PROVE  \E m \in DOMAIN answers :
                 m > n /\ answers[m] = [call |-> c, approved |-> TRUE]
    <3>1. answers \in Seq([call : Calls, approved : BOOLEAN])
      BY AnswersAreSequences
    <3>2. PICK m \in DOMAIN answers :
            answers[m].call = c /\ answers[m].approved /\ n <= m
      BY <2>5, LastEntry
    <3>3. m # n
      <4>1. ~answers[n].approved
        BY <2>5
      <4> QED
        BY <3>2, <4>1, Zenon
    <3>4. answers[m] \in [call : Calls, approved : BOOLEAN] /\ m \in Nat /\ n \in Nat
      <4>1. DOMAIN answers = 1..Len(answers) /\ Len(answers) \in Nat
        BY <3>1
      <4>2. m \in 1..Len(answers) /\ n \in 1..Len(answers)
        BY <3>2, <4>1
      <4>3. PICK Answer : Answer = [call : Calls, approved : BOOLEAN]
        OBVIOUS
      <4>4. answers \in Seq(Answer)
        BY <3>1, <4>3
      <4>5. answers[m] \in Answer
        BY <4>2, <4>4, ElementOfSeq
      <4>6. m \in Nat /\ n \in Nat
        BY <4>1, <4>2
      <4> QED
        BY <4>3, <4>5, <4>6
    <3>5. answers[m] = [call |-> c, approved |-> TRUE]
      <4>1. answers[m].approved \in BOOLEAN
        BY <3>4
      <4>2. answers[m].approved = TRUE
        BY <3>2, <4>1, Zenon
      <4> QED
        BY <3>2, <3>4, <4>2
    <3> QED
      BY <3>2, <3>3, <3>4, <3>5
  <2>6. ~paused[held[r]].requested =>
          \A c \in Executes(r) :
            c \in Decided(answers) /\ answers[LastFor(answers, c)].approved
    BY <2>3 DEF Executes, Approved
  <2> QED
    BY <2>2, <2>3, <2>4, <2>5, <2>6 DEF Decided
<1> QED
  BY <1>1, <1>2, ValidationKeeps, ProtocolInvariant, PTL DEF Spec
=============================================================================
