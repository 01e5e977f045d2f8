------------------------------- MODULE StateSync -------------------------------
(***************************************************************************)
(* Shared state: a StateManager keeps one JSON document behind a lock, the *)
(* agent's goroutines patch it through PredictiveStateTracker (predictions *)
(* under /_predictive, commits at their real path) or by hand, and emit    *)
(* the same patch to the client.  The lock is released between the steps   *)
(* of a call, so the calls of two goroutines interleave.                   *)
(*                                                                         *)
(* A document is a function from the paths it holds (sequences of keys,    *)
(* the root is <<>>) to Obj or to a leaf.                                   *)
(***************************************************************************)
EXTENDS Integers, Sequences, SequencesExt, Functions

CONSTANTS
  Producers,  \* goroutines that share one tracker
  Owns,       \* [Producers -> key]: the top-level key each of them commits
  Sub,        \* the keys below a top-level key
  Leaves,     \* arrays and scalars
  Alias,      \* key -> what a pointer that holds it unescaped decodes to
  MaxCalls    \* bound on the calls made

Ns == "_predictive"
Obj == "obj"
Tops == {Owns[p] : p \in Producers}

ASSUME StateAssumption == /\ Ns \notin Tops \cup Sub
                          /\ Obj \notin Leaves

VARIABLES
  state,      \* StateManager.state
  call,       \* producer -> the call it is in: where, and its patch
  wire,       \* the events emitted and not yet received
  client,     \* "follows" or "drops" -> the document of such a client
  connected,  \* the client is there
  astray,     \* no delta told the clients what the manager's document became
  calls       \* calls made so far

vars == <<state, call, wire, client, connected, astray, calls>>

Leaf(v) == [p \in {<<>>} |-> v]
Empty == Leaf(Obj)
Values == {Leaf(l) : l \in Leaves} \cup {Empty}
Nested(path, v) ==
  [p \in {SubSeq(path, 1, n) : n \in 0 .. Len(path)} |-> IF p = path THEN v ELSE Obj]
Below(doc, path) == {p \in DOMAIN doc : IsPrefix(path, p)}
IsObject(doc, path) == path \in DOMAIN doc /\ doc[path] = Obj
Within(doc, path) ==
  [s \in {SubSeq(p, Len(path) + 1, Len(p)) : p \in Below(doc, path)} |-> doc[path \o s]]
Put(doc, path, v) ==
  [p \in (DOMAIN doc \ Below(doc, path)) \cup {path \o s : s \in DOMAIN v}
     |-> IF IsPrefix(path, p) THEN v[SubSeq(p, Len(path) + 1, Len(p))] ELSE doc[p]]
Committed(doc) == Restrict(doc, DOMAIN doc \ Below(doc, <<Ns>>))

AddOp(path, v) == [op |-> "add", path |-> path, value |-> v]
ReplaceOp(path, v) == [op |-> "replace", path |-> path, value |-> v]
RemoveOp(path) == [op |-> "remove", path |-> path, value |-> Empty]

\* What RFC 6902 does; an array at the root is accepted here
Fits(doc, o) == IF o.op = "add" THEN o.path = <<>> \/ IsObject(doc, Front(o.path))
                                ELSE o.path \in DOMAIN doc
Patch(doc, o) == IF o.op = "remove" THEN Restrict(doc, DOMAIN doc \ Below(doc, o.path))
                                    ELSE Put(doc, o.path, o.value)

\* The document after the first n operations of the patch, <<>> once one of them has failed
Patched(doc, patch) ==
  LET after[n \in 0 .. Len(patch)] ==
        IF n = 0 THEN doc
        ELSE LET d == after[n - 1]
             IN  IF d # <<>> /\ Fits(d, patch[n]) THEN Patch(d, patch[n]) ELSE <<>>
  IN  after[Len(patch)]
Applies(doc, patch) == Patched(doc, patch) # <<>>

\* What the manager holds after decoding doc into its map: nothing when doc is no object
Decoded(doc) == IF IsObject(doc, <<>>) THEN doc ELSE Empty
ApplyErr(doc, patch) == ~Applies(doc, patch) \/ ~IsObject(Patched(doc, patch), <<>>)
Apply(doc, patch) == IF Applies(doc, patch) THEN Decoded(Patched(doc, patch)) ELSE doc

Pointer(path) == FlattenSeq([i \in 1 .. Len(path) |-> Alias[path[i]]])
\* Objects on both sides are compared key by key, anything else as a whole
Compared(old, new) ==
  {p \in (DOMAIN old \cup DOMAIN new) \ {<<>>} :
     \A n \in 1 .. Len(p) - 1 : LET q == SubSeq(p, 1, n) IN IsObject(old, q) /\ IsObject(new, q)}
DiffOps(old, new) ==
  {AddOp(Pointer(p), Within(new, p)) : p \in {q \in Compared(old, new) : q \notin DOMAIN old}}
  \cup {ReplaceOp(Pointer(p), Within(new, p)) :
          p \in {q \in Compared(old, new) : /\ q \in DOMAIN old \cap DOMAIN new
                                            /\ ~(IsObject(old, q) /\ IsObject(new, q))
                                            /\ Within(old, q) # Within(new, q)}}
  \cup {RemoveOp(Pointer(p)) : p \in {q \in Compared(old, new) : q \notin DOMAIN new}}
\* A Diff that forgets the keys that are gone
DiffForgets(old, new) == SetToSeq({o \in DiffOps(old, new) : o.op # "remove"})
Diff(old, new) == SetToSeq(DiffOps(old, new))

Idle == [at |-> "idle", hand |-> FALSE, patch |-> <<>>, target |-> <<>>]
Quiet == \A p \in Producers : call[p].at = "idle"
Alone(p) == \A q \in Producers \ {p} : call[q].at = "idle"
ByHand == \E p \in Producers : call[p].hand

Init ==
  /\ state \in {Nested(<<t>>, Obj) : t \in Tops} \cup {Empty}
  /\ client = [c \in {"follows", "drops"} |-> state]
  /\ call = [p \in Producers |-> Idle]
  /\ wire = <<>> /\ connected = TRUE /\ astray = FALSE /\ calls = 0

Go(p, at) == call' = [call EXCEPT ![p] = IF at = "idle" THEN Idle ELSE [@ EXCEPT !.at = at]]
Start(p, at, patch, target) ==
  /\ call[p].at = "idle" /\ ~ByHand /\ calls < MaxCalls
  /\ calls' = calls + 1
  /\ call' = [call EXCEPT ![p] = [at |-> at, hand |-> at = "patch", patch |-> patch, target |-> target]]
  /\ UNCHANGED <<state, wire, client, connected, astray>>

\* One Apply of the manager, from one point of a call to the next
ApplyThen(p, from, patch, ok, failed) ==
  /\ call[p].at = from
  /\ state' = Apply(state, patch)
  /\ Go(p, IF ApplyErr(state, patch) THEN failed ELSE ok)
  /\ UNCHANGED <<wire, client, connected, calls>>

\* --- PredictiveStateTracker ---------------------------------------------
Relative == {<<>>} \cup {<<k>> : k \in Sub}
Predictions ==
  {AddOp(r, v) : r \in Relative, v \in Values}
  \cup {ReplaceOp(r, Leaf(l)) : r \in Relative, l \in Leaves} \cup {RemoveOp(r) : r \in Relative}
Prefixed(o) == [o EXCEPT !.path = <<Ns>> \o o.path]

PredictiveDelta(p) == \E o \in Predictions : Start(p, "predict", <<Prefixed(o)>>, <<>>)
TryPrediction(p) ==
  ApplyThen(p, "predict", call[p].patch, "emit", "ensure") /\ UNCHANGED astray
\* A namespace created by replacing the document
EnsureByRoot(p) ==
  ApplyThen(p, "ensure", <<AddOp(<<>>, Nested(<<Ns>>, Obj))>>, "retry", "idle") /\ UNCHANGED astray
EnsureNamespace(p) ==
  ApplyThen(p, "ensure", <<AddOp(<<Ns>>, Empty)>>, "retry", "idle") /\ UNCHANGED astray
RetryPrediction(p) ==
  ApplyThen(p, "retry", call[p].patch, "emit", "idle") /\ UNCHANGED astray

CommitPaths(p) == {<<Owns[p]>>} \cup {<<Owns[p], k>> : k \in Sub}
Commit(p) == \E path \in CommitPaths(p), v \in Values :
               Start(p, "commit", <<AddOp(path, v)>>, <<>>)
TryCommit(p) == ApplyThen(p, "commit", call[p].patch, "emit", "fallback") /\ UNCHANGED astray

\* ensureParentPath: the whole top-level key is set, with the value nested in it
EnsureParentPath(o) ==
  AddOp(<<Head(o.path)>>, Put(Nested(Tail(o.path), Obj), Tail(o.path), o.value))
CommitFallback(p) ==
  /\ ApplyThen(p, "fallback", <<EnsureParentPath(call[p].patch[1])>>, "emit", "idle")
  /\ astray' = TRUE

Clear(p) == Start(p, "clear", <<RemoveOp(<<Ns>>)>>, <<>>)
ClearState(p) == ApplyThen(p, "clear", call[p].patch, "emit", "emit") /\ UNCHANGED astray

\* --- StateManager used directly, by one goroutine -------------------------
\* What the caller wants the document to be: its own key changed, the predictions kept
Targets(p) == {Restrict(state, DOMAIN state \ Below(state, <<Owns[p]>>))}
              \cup {Put(state, path, v) : path \in CommitPaths(p), v \in Values}
Objects(p) == {t \in Targets(p) : \A q \in DOMAIN t \ {<<>>} : IsObject(t, Front(q))}

\* Diff and Apply are two calls, and the patch is emitted after them
Update(p) == Alone(p) /\ \E t \in Objects(p) : Start(p, "patch", Diff(state, t), t)
\* A patch of the caller's own, also one that replaces the root
DirectPatch(p) ==
  /\ Alone(p)
  /\ \E o \in {AddOp(<<>>, v) : v \in Values} \cup {RemoveOp(<<Owns[p]>>)} :
       Start(p, "patch", <<o>>, <<>>)
ApplyPatch(p) ==
  /\ ApplyThen(p, "patch", call[p].patch, "emit", "idle")
  /\ astray' = (astray \/ (ApplyErr(state, call[p].patch) /\ state' # state))

SetState(p) ==
  /\ Alone(p) /\ call[p].at = "idle" /\ calls < MaxCalls
  /\ calls' = calls + 1
  /\ \E v \in Objects(p) \cup Values :
       /\ state' = Decoded(v)
       /\ IF IsObject(v, <<>>)
            THEN call' = [call EXCEPT ![p] = [Idle EXCEPT !.at = "snapshot", !.hand = TRUE]]
            ELSE call' = call
       /\ astray' = (astray \/ ~IsObject(v, <<>>))
  /\ UNCHANGED <<wire, client, connected>>
StateSnapshot(p) ==
  /\ call[p].at = "snapshot"
  /\ Go(p, "idle")
  /\ wire' = IF connected THEN Append(wire, [snapshot |-> TRUE, doc |-> state, patch |-> <<>>])
                          ELSE wire
  /\ astray' = FALSE
  /\ UNCHANGED <<state, client, connected, calls>>

\* --- Emission, and the clients ----------------------------------------------
StateDelta(p) ==
  /\ call[p].at = "emit"
  /\ Go(p, "idle")
  /\ wire' = IF connected
               THEN Append(wire, [snapshot |-> FALSE, doc |-> Empty, patch |-> call[p].patch])
               ELSE wire
  /\ UNCHANGED <<state, client, connected, astray, calls>>

Ghost(e) == ~e.snapshot /\ e.patch # <<>> /\ \A i \in DOMAIN e.patch : IsPrefix(<<Ns>>, e.patch[i].path)
Received(c, e) ==
  IF e.snapshot THEN e.doc
  ELSE IF (c = "drops" /\ Ghost(e)) \/ ~Applies(client[c], e.patch) THEN client[c]
  ELSE Patched(client[c], e.patch)
Receive ==
  /\ wire # <<>>
  /\ client' = [c \in DOMAIN client |-> Received(c, Head(wire))]
  /\ wire' = Tail(wire)
  /\ UNCHANGED <<state, call, connected, astray, calls>>
Leave ==
  /\ connected /\ connected' = FALSE
  /\ wire' = <<>>
  /\ UNCHANGED <<state, call, client, astray, calls>>

Step(p) ==
  \/ PredictiveDelta(p) \/ TryPrediction(p) \/ EnsureNamespace(p) \/ RetryPrediction(p)
  \/ Commit(p) \/ TryCommit(p) \/ CommitFallback(p)
  \/ Clear(p) \/ ClearState(p)
  \/ Update(p) \/ DirectPatch(p) \/ ApplyPatch(p) \/ SetState(p) \/ StateSnapshot(p)
  \/ StateDelta(p)
Next == (\E p \in Producers : Step(p)) \/ Receive \/ Leave
Spec == Init /\ [][Next]_vars

\* --- Properties ----------------------------------------------------------------

\* Once everything emitted has arrived, a client that drops the predictions and one that
\* applies them both hold the manager's committed document, however the calls of the
\* goroutines interleaved, as long as each commits under its own key and a delta said what
\* happened (predictive.go:10-12): not after a commit had to replace a top-level key, nor
\* after a failed Set or Apply has emptied the document.
QuietClientsAgree ==
  (Quiet /\ wire = <<>> /\ connected /\ ~astray)
    => \A c \in DOMAIN client : Committed(client[c]) = Committed(state)

\* Applying what Diff returned makes the document the one asked for (state.go:110), keys
\* that need no escaping in a pointer given.
DiffReachesItsTarget ==
  [][\A p \in Producers :
       (call[p].target # <<>> /\ call[p].at = "patch" /\ call'[p].at # "patch")
         => state' = call[p].target]_vars

\* A prediction modifies only the paths of its own patch: predictive.go:45-46.  Violated.
PredictionsAreKept ==
  [][\A p \in Producers :
       (call[p].at \in {"predict", "ensure", "retry"} /\ call'[p] # call[p])
         => \A q \in Below(state, <<Ns>>) :
              (~IsPrefix(call[p].patch[1].path, q))
                => q \in DOMAIN state' /\ state'[q] = state[q]]_vars
================================================================================
