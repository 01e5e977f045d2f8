------------------------------ MODULE RunStore ------------------------------
(***************************************************************************)
(* The store of paused runs, src/aguiadk/runstore.go: a mutex-protected    *)
(* map from RunKey(threadID, runID) to the run that waits there for a      *)
(* human.  Every method holds the mutex from beginning to end, so every    *)
(* method is one action.                                                   *)
(*                                                                         *)
(* The map is the set `runs' of its entries.  A *PausedRun is known by its *)
(* serial number: the n-th Save stores the run number n, whatever the run  *)
(* holds, as the code stores a fresh copy each time.  `log' is a history   *)
(* variable with one record per Save; no action reads it but to number the *)
(* next run.                                                               *)
(***************************************************************************)
EXTENDS Integers, FiniteSets, Sequences

CONSTANTS
  Keys,        \* the keys callers use
  MaxEntries,  \* maxEntries: the most paused runs held at once
  TTL,         \* ttl, in ticks of the clock
  MaxTime,     \* bound on the clock (model checking only)
  MaxSaves     \* bound on the number of Saves (model checking only)

ASSUME RunStoreAssumption ==
  /\ IsFiniteSet(Keys)
  /\ MaxEntries \in Nat \ {0}
  /\ TTL \in Nat \ {0}
  /\ MaxTime \in Nat
  /\ MaxSaves \in Nat

VARIABLES
  runs,     \* the entries of the map: [key, run, at]
  now,      \* what the injectable clock s.now() shows
  cleaning, \* whether cleanupLoop still runs (FALSE after Stop)
  result,   \* what the call of this step returned; NoRun for a miss
  log       \* history: log[n] = [key, at, claims, deleted] of the n-th Save

storeVars == <<runs, now, cleaning, result, log>>

NoRun == 0
Entry == [key : Keys, run : Nat, at : Nat]
Saved == [key : Keys, at : Nat, claims : Nat, deleted : BOOLEAN]

EntriesOf(k) == {e \in runs : e.key = k}

-----------------------------------------------------------------------------
(* Helpers, all called with the mutex held.                                *)

\* Fault: the boundary tick counts as still alive.
ExpiredAfterTTL(e) == now - e.at > TTL

Expired(e) == now - e.at >= TTL

\* purgeExpiredLocked
Unexpired == {e \in runs : ~Expired(e)}

\* Fault: the comparison of times is the wrong way round.
Newest(S) == {e \in S : \A f \in S : e.at >= f.at}

\* evictOldestLocked: map iteration has no order, so any of the entries that
\* share the smallest time may be the victim.
Oldest(S) == {e \in S : \A f \in S : e.at <= f.at}

\* Fault: Save forgets to evict.
RoomWithoutEviction(k) == {{e \in Unexpired : e.key # k}}

\* What a Save under key k may leave of the entries that were there.
Room(k) ==
  IF (\E e \in Unexpired : e.key = k) \/ Cardinality(Unexpired) < MaxEntries
  THEN {{e \in Unexpired : e.key # k}}
  ELSE {Unexpired \ {victim} : victim \in Oldest(Unexpired)}

-----------------------------------------------------------------------------
(* The methods.                                                            *)

Save(k) ==
  /\ Len(log) < MaxSaves
  /\ \E rest \in Room(k) :
       runs' = rest \cup {[key |-> k, run |-> Len(log) + 1, at |-> now]}
  /\ log' = Append(log, [key |-> k, at |-> now, claims |-> 0, deleted |-> FALSE])
  /\ result' = NoRun
  /\ UNCHANGED <<now, cleaning>>

LoadMiss(k) ==
  /\ \A e \in EntriesOf(k) : Expired(e)
  /\ runs' = runs \ EntriesOf(k)
  /\ result' = NoRun
  /\ UNCHANGED <<now, cleaning, log>>

LoadHit(k) ==
  /\ \E e \in EntriesOf(k) : ~Expired(e) /\ result' = e.run
  /\ UNCHANGED <<runs, now, cleaning, log>>

Load(k) == LoadMiss(k) \/ LoadHit(k)

\* Fault: a claim that only looks.
ClaimKeepingEntry(k) ==
  \E e \in EntriesOf(k) :
    /\ ~Expired(e)
    /\ result' = e.run
    /\ log' = [log EXCEPT ![e.run].claims = @ + 1]
    /\ UNCHANGED <<runs, now, cleaning>>

Claim(k) ==
  \E e \in EntriesOf(k) :
    /\ ~Expired(e)
    /\ runs' = runs \ {e}
    /\ result' = e.run
    /\ log' = [log EXCEPT ![e.run].claims = @ + 1]
    /\ UNCHANGED <<now, cleaning>>

\* A miss of LoadAndDelete removes an expired entry too, exactly as Load's.
LoadAndDelete(k) == LoadMiss(k) \/ Claim(k)

Delete(k) ==
  /\ runs' = runs \ EntriesOf(k)
  /\ log' = [i \in DOMAIN log |->
               [log[i] EXCEPT !.deleted = @ \/ log[i].key = k]]
  /\ result' = NoRun
  /\ UNCHANGED <<now, cleaning>>

\* Fault: the background purge waits for the store to be full.
CleanupWhenFull ==
  /\ cleaning
  /\ runs' = IF Cardinality(runs) >= MaxEntries THEN Unexpired ELSE runs
  /\ result' = NoRun
  /\ UNCHANGED <<now, cleaning, log>>

\* One tick of cleanupLoop.
Cleanup ==
  /\ cleaning
  /\ runs' = Unexpired
  /\ result' = NoRun
  /\ UNCHANGED <<now, cleaning, log>>

Stop ==
  /\ cleaning' = FALSE
  /\ result' = NoRun
  /\ UNCHANGED <<runs, now, log>>

Tick ==
  /\ now < MaxTime
  /\ now' = now + 1
  /\ result' = NoRun
  /\ UNCHANGED <<runs, cleaning, log>>

-----------------------------------------------------------------------------
StoreInit ==
  /\ runs = {}
  /\ now = 0
  /\ cleaning = TRUE
  /\ result = NoRun
  /\ log = <<>>

StoreNext ==
  \/ \E k \in Keys : Save(k) \/ Load(k) \/ LoadAndDelete(k) \/ Delete(k)
  \/ Cleanup
  \/ Stop
  \/ Tick

StoreSpec == StoreInit /\ [][StoreNext]_storeVars

\* The ticker of cleanupLoop fires for ever until Stop; nobody has to call a
\* method, and the clock may be read at any moment.
FairStoreSpec == StoreSpec /\ WF_storeVars(Cleanup)

-----------------------------------------------------------------------------
StoreTypeOK ==
  /\ runs \subseteq Entry
  /\ now \in Nat
  /\ cleaning \in BOOLEAN
  /\ result \in {NoRun} \cup DOMAIN log
  /\ log \in Seq(Saved)

\* The store never holds more than maxEntries paused runs, however Saves,
\* expiries and claims interleave ("a bounded size", runstore.go:53).
StoreBounded == Cardinality(runs) <= MaxEntries

\* "Exactly one caller can claim a given paused run" (runstore.go:171): of the
\* callers of LoadAndDelete at most one is ever given the run number i.
ClaimedAtMostOnce == \A i \in DOMAIN log : log[i].claims <= 1

\* What Load and LoadAndDelete hand out is the newest run saved under the key,
\* still within its TTL and not deleted.
ServedIsCurrent ==
  result # NoRun =>
    /\ now - log[result].at < TTL
    /\ ~log[result].deleted
    /\ \A j \in DOMAIN log : j > result => log[j].key # log[result].key

\* The runs a human may still answer: nobody claimed or deleted them, no newer
\* Save replaced them, and they are within their TTL.
Answerable(i) ==
  /\ log[i].claims = 0
  /\ ~log[i].deleted
  /\ now - log[i].at < TTL
  /\ \A j \in DOMAIN log : j > i => log[j].key # log[i].key

Stored(i) == \E e \in runs : e.run = i

\* The keys, other than its own, under which runs no older than i were saved.
NoOlderThan(i) ==
  {k \in Keys \ {log[i].key} :
     \E j \in DOMAIN log : log[j].key = k /\ log[j].at >= log[i].at}

\* An answerable run is still in the store, unless maxEntries other threads
\* paused since: eviction never costs a run that is not the oldest of a full
\* store, and purging never costs one that is not expired.
LostOnlyWhenCrowdedOut ==
  \A i \in DOMAIN log :
    Answerable(i) => Stored(i) \/ Cardinality(NoOlderThan(i)) >= MaxEntries

\* Memory is given back without any call: an expired run leaves the store as
\* long as the cleanup goroutine runs.
ExpiredRunsArePurged ==
  \A i \in 1..MaxSaves :
    (\E e \in runs : e.run = i /\ Expired(e)) ~> (~Stored(i) \/ ~cleaning)
=============================================================================
