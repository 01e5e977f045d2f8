------------------------ MODULE EventTranslator_proofs ------------------------
(***************************************************************************)
(* The events of a run keep the protocol (AgUiProtocol), whatever the      *)
(* agents answer and however the run loop ends, and every result names the *)
(* call it answers.                                                        *)
(*                                                                         *)
(* The client is behind the translator by the events of "out".  Legal says *)
(* that a client in one state can receive a sequence of events and be in   *)
(* another; Shows that such a state is the one the translator believes in. *)
(* Each method of the translator keeps the two.                            *)
(***************************************************************************)
EXTENDS EventTranslator, SequenceTheorems, FiniteSetTheorems, WellFoundedInduction, TLAPS

\* The model of one agent at a time may fail (see EndedCallsStayEnded).
Orderly == \A c \in Configs : c.errors => ~c.parallel

\* What the provider executes itself is not streamed.
BuiltinsComeWhole == \A p \in Plans : p.tool = Builtin => p.how = "final"

-----------------------------------------------------------------------------
(* The client.                                                             *)

Blocks == [kind : Protocol!Kinds, id : Nat]
Events == Protocol!Event
States == [open : SUBSET Blocks, begun : SUBSET Blocks, over : BOOLEAN]
Block(e) == Protocol!Block(e)

\* The protocol as a function of what the client has: what it takes next, and what it has then.
Allowed(s, e) ==
  /\ ~s.over
  /\ e.run # Base => [kind |-> "subagent", id |-> e.run] \in s.open
  /\ e.op = "start" =>
       /\ Block(e) \notin (IF e.kind = "step" THEN s.open ELSE s.begun)
       /\ e.kind \in {"text", "reasoning"} => \A b \in s.open : b.kind \notin {"text", "reasoning"}
       /\ e.kind \in {"step", "subagent"} => \A b \in s.open : b.kind # e.kind
  /\ e.op \in {"content", "end"} => Block(e) \in s.open
  /\ e.op = "finish" => s.open = {}

After(s, e) ==
  [open |-> IF e.op = "start" THEN s.open \cup {Block(e)}
            ELSE IF e.op = "end" THEN s.open \ {Block(e)} ELSE s.open,
   begun |-> IF e.op = "start" THEN s.begun \cup {Block(e)} ELSE s.begun,
   over |-> s.over \/ e.op = "finish"]

\* A client in s receives all of out and is in u.
Receives(h, s, out, u) ==
  /\ h \in [0..Len(out) -> States] /\ h[0] = s /\ h[Len(out)] = u
  /\ \A n \in 1..Len(out) : Allowed(h[n - 1], out[n]) /\ h[n] = After(h[n - 1], out[n])
Legal(s, out, u) == \E h : Receives(h, s, out, u)

\* Receiving an event leads from a state of the client to a state of the client.
LEMMA AfterIsState ==
  ASSUME NEW s \in States, NEW e \in Events
  PROVE  After(s, e) \in States /\ Block(e) \in Blocks
BY DEF After, States, Events, Protocol!Event, Block, Protocol!Block, Blocks

\* A client that receives nothing stays where it is.
LEMMA LegalEmpty ==
  ASSUME NEW s \in States
  PROVE  Legal(s, <<>>, s)
<1> DEFINE h == [n \in 0..0 |-> s]
<1>1. Len(<<>>) = 0 /\ 1..0 = {} /\ 0 \in 0..0
  OBVIOUS
<1>2. Receives(h, s, <<>>, s)
  BY <1>1 DEF Receives
<1> QED
  BY <1>2 DEF Legal

\* A client that may take an event receives it.
LEMMA LegalOne ==
  ASSUME NEW s \in States, NEW e \in Events, Allowed(s, e)
  PROVE  Legal(s, <<e>>, After(s, e))
<1> DEFINE h == [n \in 0..1 |-> IF n = 0 THEN s ELSE After(s, e)]
<1>1. Len(<<e>>) = 1 /\ <<e>>[1] = e
  OBVIOUS
<1>2. h \in [0..1 -> States] /\ h[0] = s /\ h[1] = After(s, e)
  BY AfterIsState
<1> HIDE DEF h
<1>3. Receives(h, s, <<e>>, After(s, e))
  BY <1>1, <1>2 DEF Receives
<1> QED
  BY <1>3 DEF Legal

\* Two sequences one after the other.
LEMMA LegalConcat ==
  ASSUME NEW s \in States, NEW u \in States, NEW v \in States,
         NEW out \in Seq(Events), NEW more \in Seq(Events),
         Legal(s, out, u), Legal(u, more, v)
  PROVE  out \o more \in Seq(Events) /\ Legal(s, out \o more, v)
<1>1. PICK f : Receives(f, s, out, u)
  BY DEF Legal
<1>2. PICK g : Receives(g, u, more, v)
  BY DEF Legal
<1>3. /\ Len(out) \in Nat /\ Len(more) \in Nat
      /\ out \o more \in Seq(Events) /\ Len(out \o more) = Len(out) + Len(more)
      /\ \A i \in 1..(Len(out) + Len(more)) :
           (out \o more)[i] = IF i <= Len(out) THEN out[i] ELSE more[i - Len(out)]
  BY ConcatProperties, LenProperties
<1> DEFINE all == out \o more
           k == Len(out)
           m == Len(more)
           h == [n \in 0..(k + m) |-> IF n <= k THEN f[n] ELSE g[n - k]]
<1>4. f \in [0..k -> States] /\ f[0] = s /\ f[k] = u
  BY <1>1 DEF Receives
<1>5. g \in [0..m -> States] /\ g[0] = u /\ g[m] = v
  BY <1>2 DEF Receives
<1> HIDE DEF all
<1>6. h \in [0..(k + m) -> States] /\ h[0] = s /\ h[k + m] = v
  <2>1. ASSUME NEW n \in 0..(k + m) PROVE (IF n <= k THEN f[n] ELSE g[n - k]) \in States
    <3>1. n <= k => n \in 0..k
      BY <1>3
    <3>2. ~(n <= k) => n - k \in 0..m
      BY <1>3
    <3> QED
      BY <1>4, <1>5, <3>1, <3>2
  <2>2. h[k + m] = v
    <3>1. k + m \in 0..(k + m) /\ (k + m) - k = m /\ (k + m <= k => m = 0 /\ k + m = k)
      BY <1>3
    <3> QED
      BY <1>4, <1>5, <3>1
  <2>3. h[0] = s
    BY <1>3, <1>4
  <2> QED
    BY <2>1, <2>2, <2>3
<1>7. ASSUME NEW n \in 1..(k + m) PROVE Allowed(h[n - 1], all[n]) /\ h[n] = After(h[n - 1], all[n])
  <2>1. CASE n <= k
    <3>1. n \in 1..k /\ h[n - 1] = f[n - 1] /\ h[n] = f[n] /\ all[n] = out[n]
      BY <1>3, <2>1 DEF all
    <3> QED
      BY <1>1, <3>1 DEF Receives
  <2>2. CASE n > k
    <3>1. n - k \in 1..m /\ all[n] = more[n - k] /\ h[n] = g[n - k]
      BY <1>3, <2>2 DEF all
    <3>2. h[n - 1] = g[(n - k) - 1]
      <4>1. n - 1 \in 0..(k + m) /\ (n - 1) - k = (n - k) - 1
        BY <1>3
      <4>2. CASE n - 1 = k
        <5>1. (n - k) - 1 = 0
          BY <1>3, <4>2
        <5> QED
          BY <1>4, <1>5, <4>1, <4>2, <5>1
      <4>3. CASE n - 1 # k
        <5>1. ~(n - 1 <= k)
          BY <1>3, <2>2, <4>3
        <5> QED
          BY <4>1, <5>1
      <4> QED
        BY <4>2, <4>3
    <3> QED
      BY <1>2, <3>1, <3>2 DEF Receives
  <2> QED
    BY <1>3, <2>1, <2>2
<1> HIDE DEF h
<1>8. Receives(h, s, all, v)
  BY <1>3, <1>6, <1>7 DEF Receives, all
<1> QED
  BY <1>3, <1>8 DEF Legal, all

\* What the client does: it takes the first event.
LEMMA LegalHead ==
  ASSUME NEW s \in States, NEW u \in States, NEW out \in Seq(Events), out # <<>>, Legal(s, out, u)
  PROVE  /\ Allowed(s, Head(out)) /\ After(s, Head(out)) \in States
         /\ Legal(After(s, Head(out)), Tail(out), u)
<1>1. PICK h : Receives(h, s, out, u)
  BY DEF Legal
<1>2. /\ Len(out) \in Nat \ {0} /\ Head(out) = out[1] /\ Head(out) \in Events
      /\ Tail(out) \in Seq(Events) /\ Len(Tail(out)) = Len(out) - 1
      /\ \A i \in 1..Len(Tail(out)) : Tail(out)[i] = out[i + 1]
  BY HeadTailProperties, EmptySeq
<1> DEFINE k == Len(out)
           g == [n \in 0..(k - 1) |-> h[n + 1]]
<1>3. h \in [0..k -> States] /\ h[0] = s /\ h[k] = u
  BY <1>1 DEF Receives
<1>4. Allowed(s, Head(out)) /\ h[1] = After(s, Head(out))
  <2>1. 1 \in 1..Len(out)
    BY <1>2
  <2>2. Allowed(h[1 - 1], out[1]) /\ h[1] = After(h[1 - 1], out[1])
    BY <1>1, <2>1 DEF Receives
  <2> QED
    BY <1>2, <1>3, <2>2
<1>5. g \in [0..(k - 1) -> States] /\ g[0] = h[1] /\ g[k - 1] = u
  BY <1>2, <1>3
<1>6. ASSUME NEW n \in 1..(k - 1) PROVE Allowed(g[n - 1], Tail(out)[n]) /\ g[n] = After(g[n - 1], Tail(out)[n])
  <2>1. n + 1 \in 1..k /\ g[n - 1] = h[(n + 1) - 1] /\ g[n] = h[n + 1] /\ Tail(out)[n] = out[n + 1]
    BY <1>2
  <2> QED
    BY <1>1, <2>1 DEF Receives
<1> HIDE DEF g
<1>7. Receives(g, h[1], Tail(out), u)
  BY <1>2, <1>5, <1>6 DEF Receives
<1> QED
  BY <1>2, <1>4, <1>7, AfterIsState DEF Legal
-----------------------------------------------------------------------------
(* The translator, and the client it believes in.                          *)

Text == Seq(STRING)
Translators ==
  [msg : Nat, prevText : Text, reasoning : Nat, prevThought : Text,
   known : SUBSET Nat, byName : [Tools -> Nat],
   started : SUBSET Nat, opened : SUBSET Nat, hadArgs : SUBSET Nat,
   step : {None, LlmStep, ToolsStep}, author : Agents \cup {NoAgent},
   run : Nat, next : Nat \ {0}, out : Seq(Events)]

IsOpen(tr, b) ==
  \/ b.kind = "text" /\ tr.msg # None /\ b.id = tr.msg
  \/ b.kind = "reasoning" /\ tr.reasoning # None /\ b.id = tr.reasoning
  \/ b.kind = "tool" /\ b.id \in tr.opened
  \/ b.kind = "step" /\ tr.step # None /\ b.id = tr.step
  \/ b.kind = "subagent" /\ tr.run # Base /\ b.id = tr.run

\* The calls that have an id of their own, and the ids that are given away or may be.
Own == 0..MaxAnswers
Taken(tr, id) == id \in Nat /\ id < MaxAnswers + tr.next

\* A call that is still to come, those in "live", has not begun or is streaming.
Shows(tr, s, live) ==
  /\ ~s.over
  /\ \A b \in Blocks : b \in s.open <=> IsOpen(tr, b)
  /\ \A b \in s.begun : b.kind \in {"text", "reasoning", "subagent"} => b.id < tr.next
  /\ \A b \in s.begun : b.kind = "tool" => Taken(tr, b.id)
  /\ \A id \in tr.started \cup tr.opened : Taken(tr, id)
  /\ \A id \in live : /\ [kind |-> "tool", id |-> id] \in s.begun => id \in tr.started
                      /\ id \in tr.started => id \in tr.opened
                      /\ Taken(tr, id)

\* What was emitted brings a client in s0 to where the translator believes it is; nothing of the
\* calls in "whole" is streamed.
Good(s0, tr, live, whole) ==
  /\ tr \in Translators /\ IsFiniteSet(tr.opened) /\ whole \cap (tr.started \cup tr.opened) = {}
  /\ \E s \in States : Legal(s0, tr.out, s) /\ Shows(tr, s, live)

\* The empty text is a text.
LEMMA EmptyText == <<>> \in Text
BY DEF Text

\* What the emitters make are events of the protocol.
LEMMA EventType ==
  ASSUME NEW op \in {"start", "content", "end", "result", "finish"}, NEW kind \in Protocol!Kinds,
         NEW id \in Nat, NEW r \in Nat, NEW data \in Text
  PROVE  Event(op, kind, id, r, data) \in Events
BY DEF Event, Events, Protocol!Event, Text

\* One event more, which leads to what the new translator believes.
LEMMA GoodEmit ==
  ASSUME NEW s0 \in States, NEW out \in Seq(Events), NEW s \in States, Legal(s0, out, s),
         NEW e \in Events, Allowed(s, e),
         NEW u \in Translators, u.out = out \o <<e>>,
         NEW live, NEW whole, IsFiniteSet(u.opened), whole \cap (u.started \cup u.opened) = {},
         Shows(u, After(s, e), live)
  PROVE  Good(s0, u, live, whole)
<1>1. After(s, e) \in States /\ <<e>> \in Seq(Events)
  BY AfterIsState
<1>2. Legal(s, <<e>>, After(s, e))
  BY LegalOne
<1>3. Legal(s0, out \o <<e>>, After(s, e))
  BY <1>1, <1>2, LegalConcat
<1>4. Legal(s0, u.out, After(s, e))
  BY <1>3
<1> QED
  BY <1>1, <1>4 DEF Good

\* One event more.
LEMMA Emitted ==
  ASSUME NEW tr \in Translators, NEW e \in Events
  PROVE  tr.out \o <<e>> \in Seq(Events)
<1>1. tr.out \in Seq(Events) /\ <<e>> \in Seq(Events)
  BY DEF Translators
<1> QED
  BY <1>1, ConcatProperties

\* The kinds the translator uses are kinds of the protocol.
LEMMA Kinds == /\ "text" \in Protocol!Kinds /\ "reasoning" \in Protocol!Kinds /\ "tool" \in Protocol!Kinds
               /\ "step" \in Protocol!Kinds /\ "subagent" \in Protocol!Kinds /\ "run" \in Protocol!Kinds
BY DEF Protocol!Kinds

\* The fields of a translator have their types.
LEMMA Fields ==
  ASSUME NEW tr \in Translators
  PROVE  /\ tr.msg \in Nat /\ tr.prevText \in Text /\ tr.reasoning \in Nat /\ tr.prevThought \in Text
         /\ tr.known \subseteq Nat /\ tr.byName \in [Tools -> Nat] /\ tr.started \subseteq Nat
         /\ tr.opened \subseteq Nat /\ tr.hadArgs \subseteq Nat /\ tr.step \in {0, 1, 2}
         /\ tr.run \in Nat /\ tr.next \in Nat \ {0} /\ tr.out \in Seq(Events)
BY DEF Translators, None, LlmStep, ToolsStep

-----------------------------------------------------------------------------
(* What an event does to the two.                                          *)

\* A block ends that is open.
LEMMA GoodEnd ==
  ASSUME NEW s0 \in States, NEW tr, NEW live, NEW whole, Good(s0, tr, live, whole),
         NEW kind \in Protocol!Kinds, NEW id \in Nat, NEW r \in {Base, tr.run},
         IsOpen(tr, [kind |-> kind, id |-> id]),
         NEW u \in Translators, u.out = tr.out \o <<Event("end", kind, id, r, <<>>)>>,
         \A b \in Blocks : IsOpen(u, b) <=> IsOpen(tr, b) /\ b # [kind |-> kind, id |-> id],
         u.next = tr.next, u.started = tr.started,
         NEW left, left \subseteq live, kind = "tool" => id \notin left
  PROVE  Good(s0, u, left, whole)
<1> DEFINE e == Event("end", kind, id, r, <<>>)
<1>1. PICK s \in States : Legal(s0, tr.out, s) /\ Shows(tr, s, live)
  BY DEF Good
<1>2. tr \in Translators /\ IsFiniteSet(tr.opened) /\ whole \cap (tr.started \cup tr.opened) = {}
  BY DEF Good
<1>3. r \in Nat /\ (r # Base => r = tr.run)
  BY <1>2, Fields DEF Base, Protocol!Base
<1>4. e \in Events
  BY <1>3, EmptyText, EventType
<1>5. e.op = "end" /\ e.kind = kind /\ e.run = r /\ Block(e) = [kind |-> kind, id |-> id]
  BY <1>4 DEF Event, Block, Protocol!Block
<1> HIDE DEF e
<1>6. Block(e) \in Blocks /\ [kind |-> "subagent", id |-> r] \in Blocks
  BY <1>3, <1>5, Kinds DEF Blocks
<1>7. Allowed(s, e)
  BY <1>1, <1>3, <1>5, <1>6 DEF Allowed, Shows, IsOpen
<1>8. u.opened \subseteq tr.opened
  <2> SUFFICES ASSUME NEW i \in u.opened PROVE i \in tr.opened
    OBVIOUS
  <2>1. [kind |-> "tool", id |-> i] \in Blocks
    BY Fields, Kinds DEF Blocks
  <2>2. IsOpen(u, [kind |-> "tool", id |-> i])
    BY DEF IsOpen
  <2>3. IsOpen(tr, [kind |-> "tool", id |-> i])
    BY <2>1, <2>2
  <2> QED
    BY <2>3 DEF IsOpen
<1>9. Shows(u, After(s, e), left)
  <2>1. After(s, e) = [open |-> s.open \ {Block(e)}, begun |-> s.begun, over |-> s.over]
    BY <1>1, <1>5 DEF After, Shows, States
  <2>2. \A b \in Blocks : b \in s.open \ {Block(e)} <=> IsOpen(u, b)
    BY <1>1, <1>5 DEF Shows
  <2>3. ASSUME NEW i \in left, i \in tr.started PROVE i \in u.opened
    <3>1. i \in tr.opened /\ i \in Nat
      BY <1>1, <1>2, <2>3, Fields DEF Shows
    <3>2. [kind |-> "tool", id |-> i] \in Blocks /\ [kind |-> "tool", id |-> i] # [kind |-> kind, id |-> id]
      BY <2>3, <3>1, Kinds DEF Blocks
    <3>3. IsOpen(tr, [kind |-> "tool", id |-> i])
      BY <3>1 DEF IsOpen
    <3>4. IsOpen(u, [kind |-> "tool", id |-> i])
      BY <3>2, <3>3
    <3> QED
      BY <3>4 DEF IsOpen
  <2> QED
    BY <1>1, <1>8, <2>1, <2>2, <2>3 DEF Shows, Taken
<1>10. tr.out \in Seq(Events) /\ IsFiniteSet(u.opened)
  BY <1>2, <1>8, Fields, FS_Subset
<1>11. whole \cap (u.started \cup u.opened) = {}
  BY <1>2, <1>8
<1> QED
  BY <1>1, <1>2, <1>4, <1>7, <1>9, <1>10, <1>11, GoodEmit DEF e

\* A block starts that may.
CanStart(tr, kind, id, live) ==
  \/ kind \in {"text", "reasoning"} /\ tr.msg = None /\ tr.reasoning = None /\ id = tr.next
  \/ kind = "subagent" /\ tr.run = Base /\ id = tr.next
  \/ kind = "step" /\ tr.step = None
  \/ kind = "tool" /\ id \in live /\ id \notin tr.started

\* At most the call itself is put down as started.
StartedBy(tr, u, kind, id) == u.started = tr.started \/ (kind = "tool" /\ u.started = tr.started \cup {id})

\* The start of a block that can start, which the new translator has as its open one of that kind.
LEMMA GoodStart ==
  ASSUME NEW s0 \in States, NEW tr, NEW live, NEW whole, Good(s0, tr, live, whole),
         NEW kind \in Protocol!Kinds, NEW id \in Nat, NEW r \in {Base, tr.run},
         CanStart(tr, kind, id, live),
         NEW u \in Translators, u.out = tr.out \o <<Event("start", kind, id, r, <<>>)>>,
         \A b \in Blocks : IsOpen(u, b) <=> IsOpen(tr, b) \/ b = [kind |-> kind, id |-> id],
         u.next >= tr.next, kind \in {"text", "reasoning", "subagent"} => id < u.next, StartedBy(tr, u, kind, id),
         whole \cap (u.started \cup u.opened) = {}, IsFiniteSet(u.opened),
         NEW left, left \subseteq live, \A i \in left : i \in u.started => i \in u.opened,
         kind = "tool" /\ id \in left => id \in u.started
  PROVE  Good(s0, u, left, whole)
<1> DEFINE e == Event("start", kind, id, r, <<>>)
<1>1. PICK s \in States : Legal(s0, tr.out, s) /\ Shows(tr, s, live)
  BY DEF Good
<1>2. tr \in Translators /\ IsFiniteSet(tr.opened) /\ whole \cap (tr.started \cup tr.opened) = {}
  BY DEF Good
<1>3. r \in Nat /\ (r # Base => r = tr.run)
  BY <1>2, Fields DEF Base, Protocol!Base
<1>4. e \in Events
  BY <1>3, EmptyText, EventType
<1>5. e.op = "start" /\ e.kind = kind /\ e.run = r /\ Block(e) = [kind |-> kind, id |-> id]
  BY <1>4 DEF Event, Block, Protocol!Block
<1> HIDE DEF e
<1>6. Block(e) \in Blocks /\ [kind |-> "subagent", id |-> r] \in Blocks
  BY <1>3, <1>5, Kinds DEF Blocks
<1>7. Allowed(s, e)
  <2>1. ~s.over /\ (e.run # Base => [kind |-> "subagent", id |-> e.run] \in s.open)
    BY <1>1, <1>3, <1>5, <1>6 DEF Shows, IsOpen
  <2>2. Block(e) \notin (IF e.kind = "step" THEN s.open ELSE s.begun)
    <3>1. CASE kind = "step"
      <4>1. ~IsOpen(tr, Block(e))
        BY <1>5, <3>1 DEF CanStart, IsOpen
      <4> QED
        BY <1>1, <1>5, <1>6, <3>1, <4>1 DEF Shows
    <3>2. CASE kind \in {"text", "reasoning", "subagent"}
      <4>1. id = tr.next /\ tr.next \in Nat
        BY <1>2, <3>2, Fields DEF CanStart
      <4>2. Block(e) \notin s.begun
        BY <1>1, <1>5, <3>2, <4>1 DEF Shows
      <4> QED
        BY <1>5, <3>2, <4>2
    <3>3. CASE kind = "tool"
      BY <1>1, <1>5, <3>3 DEF Shows, CanStart
    <3> QED
      BY <3>1, <3>2, <3>3 DEF CanStart
  <2>3. ASSUME NEW b \in s.open
        PROVE  /\ kind \in {"text", "reasoning"} => b.kind \notin {"text", "reasoning"}
               /\ kind \in {"step", "subagent"} => b.kind # kind
    <3>1. IsOpen(tr, b)
      BY <1>1, <2>3 DEF Shows, States
    <3> QED
      BY <3>1 DEF IsOpen, CanStart
  <2> QED
    BY <1>5, <2>1, <2>2, <2>3 DEF Allowed
<1>8. Shows(u, After(s, e), left)
  <2>1. After(s, e) = [open |-> s.open \cup {Block(e)}, begun |-> s.begun \cup {Block(e)}, over |-> s.over]
    BY <1>1, <1>5 DEF After, Shows, States
  <2>2. \A b \in Blocks : b \in s.open \cup {Block(e)} <=> IsOpen(u, b)
    BY <1>1, <1>5 DEF Shows
  <2>3. \A b \in s.begun \cup {Block(e)} : b.kind \in {"text", "reasoning", "subagent"} => b.id < u.next
    <3>1. tr.next \in Nat /\ u.next \in Nat /\ \A b \in s.begun : b.id \in Nat
      BY <1>2, Fields DEF States, Blocks
    <3> QED
      BY <1>1, <1>5, <3>1 DEF Shows
  <2>4. ASSUME NEW i \in left, [kind |-> "tool", id |-> i] \in s.begun \cup {Block(e)} PROVE i \in u.started
    <3>1. CASE [kind |-> "tool", id |-> i] \in s.begun
      BY <1>1, <3>1 DEF Shows, StartedBy
    <3>2. CASE [kind |-> "tool", id |-> i] = Block(e)
      BY <1>5, <3>2
    <3> QED
      BY <2>4, <3>1, <3>2
  <2>5. MaxAnswers \in Nat /\ tr.next \in Nat /\ u.next \in Nat /\ u.next >= tr.next
    BY <1>2, Fields, EventTranslatorAssumption
  <2>6. \A i \in Nat : Taken(tr, i) => Taken(u, i)
    BY <2>5 DEF Taken
  <2>7. kind = "tool" => Taken(tr, id)
    BY <1>1 DEF CanStart, Shows
  <2>8. \A b \in s.begun \cup {Block(e)} : b.kind = "tool" => Taken(u, b.id)
    <3>1. \A b \in s.begun : b.id \in Nat
      BY DEF States, Blocks
    <3> QED
      BY <1>1, <1>5, <2>6, <2>7, <3>1 DEF Shows
  <2>9. \A i \in u.started \cup u.opened : Taken(u, i)
    <3>1. u.started \subseteq Nat /\ u.opened \subseteq Nat
      BY Fields
    <3>2. ASSUME NEW i \in u.started PROVE Taken(u, i)
      BY <1>1, <2>6, <2>7, <3>1, <3>2 DEF Shows, StartedBy
    <3>3. ASSUME NEW i \in u.opened PROVE Taken(u, i)
      <4>1. [kind |-> "tool", id |-> i] \in Blocks /\ IsOpen(u, [kind |-> "tool", id |-> i])
        BY <3>1, <3>3, Kinds DEF Blocks, IsOpen
      <4>2. IsOpen(tr, [kind |-> "tool", id |-> i]) \/ (kind = "tool" /\ i = id)
        BY <4>1
      <4>3. i \in tr.opened \/ (kind = "tool" /\ i = id)
        BY <4>2 DEF IsOpen
      <4> QED
        BY <1>1, <2>6, <2>7, <3>1, <4>3 DEF Shows
    <3> QED
      BY <3>2, <3>3
  <2>10. \A i \in left : Taken(u, i)
    <3>1. ASSUME NEW i \in left PROVE Taken(u, i)
      <4>1. i \in live
        BY <3>1
      <4> QED
        BY <1>1, <2>6, <4>1 DEF Shows, Taken
    <3> QED
      BY <3>1
  <2> QED
    BY <1>1, <2>1, <2>2, <2>3, <2>4, <2>8, <2>9, <2>10 DEF Shows
<1>9. tr.out \in Seq(Events)
  BY <1>2, Fields
<1> QED
  BY <1>1, <1>2, <1>4, <1>7, <1>8, <1>9, GoodEmit DEF e

\* A block that is open goes on, or a result comes.
LEMMA GoodGoOn ==
  ASSUME NEW s0 \in States, NEW tr, NEW live, NEW whole, Good(s0, tr, live, whole),
         NEW e \in Events, e.op \in {"content", "result"}, e.run = tr.run,
         e.op = "content" => IsOpen(tr, Block(e)),
         NEW u \in Translators, u.out = tr.out \o <<e>>,
         \A b : IsOpen(u, b) <=> IsOpen(tr, b),
         u.next = tr.next, u.started = tr.started, u.opened = tr.opened
  PROVE  Good(s0, u, live, whole)
<1>1. PICK s \in States : Legal(s0, tr.out, s) /\ Shows(tr, s, live)
  BY DEF Good
<1>2. tr \in Translators /\ IsFiniteSet(tr.opened) /\ whole \cap (tr.started \cup tr.opened) = {} /\ tr.out \in Seq(Events)
  BY Fields DEF Good
<1>3. Block(e) \in Blocks /\ (tr.run # Base => [kind |-> "subagent", id |-> tr.run] \in Blocks)
  BY <1>1, <1>2, AfterIsState, Fields, Kinds DEF Blocks
<1>4. Allowed(s, e)
  BY <1>1, <1>3 DEF Allowed, Shows, IsOpen
<1>5. After(s, e) = s
  BY <1>1 DEF After, Shows, States
<1>6. Shows(u, After(s, e), live)
  BY <1>1, <1>5 DEF Shows, Taken
<1> QED
  BY <1>1, <1>2, <1>4, <1>6, GoodEmit

\* Nothing is emitted, and what is open stays open.
LEMMA GoodSame ==
  ASSUME NEW s0, NEW tr, NEW live, NEW whole, Good(s0, tr, live, whole),
         NEW u \in Translators, u.out = tr.out,
         \A b : IsOpen(u, b) <=> IsOpen(tr, b),
         u.next = tr.next, u.started = tr.started, u.opened = tr.opened
  PROVE  Good(s0, u, live, whole)
BY DEF Good, Shows, Taken

\* Fewer calls are still to come.
LEMMA GoodLess ==
  ASSUME NEW s0, NEW tr, NEW live, NEW whole, Good(s0, tr, live, whole),
         NEW left, left \subseteq live, NEW rest, rest \subseteq whole
  PROVE  Good(s0, tr, left, rest)
<1>1. PICK s \in States : Legal(s0, tr.out, s) /\ Shows(tr, s, live)
  BY DEF Good
<1>2. Shows(tr, s, left)
  BY <1>1 DEF Shows
<1> QED
  BY <1>1, <1>2 DEF Good
-----------------------------------------------------------------------------
(* The methods.  Of each: what it leaves alone, and that it keeps Good.    *)

\* Every result of out is that of the call it names, or of one the client does not know.
Belongs(e) == e.op = "result" => Unknown(e.of) \/ e.of = e.id
Matching(out) == \A i \in DOMAIN out : Belongs(out[i])

\* Nothing that could mix up results is done.
Says(tr, u) ==
  /\ u \in Translators /\ u.known = tr.known /\ u.byName = tr.byName
  /\ Matching(tr.out) => Matching(u.out)
SameMessage(tr, u) == u.msg = tr.msg /\ u.reasoning = tr.reasoning
SameCalls(tr, u) == u.started = tr.started /\ u.opened = tr.opened
SameSubagent(tr, u) == u.run = tr.run /\ u.author = tr.author

\* One more event, which is no result of another call.
LEMMA MatchingOne ==
  ASSUME NEW out \in Seq(Events), NEW e \in Events, Belongs(e), Matching(out)
  PROVE  Matching(out \o <<e>>)
<1>1. <<e>> \in Seq(Events) /\ Len(<<e>>) = 1 /\ <<e>>[1] = e
  OBVIOUS
<1> DEFINE more == <<e>>
<1> HIDE DEF more
<1>2. /\ out \o more \in Seq(Events) /\ Len(out \o more) = Len(out) + 1 /\ Len(out) \in Nat
      /\ \A i \in 1..(Len(out) + 1) : (out \o more)[i] = IF i <= Len(out) THEN out[i] ELSE more[i - Len(out)]
  BY <1>1, ConcatProperties, LenProperties DEF more
<1>3. DOMAIN out = 1..Len(out) /\ DOMAIN (out \o more) = 1..(Len(out) + 1)
  BY <1>2, LenProperties
<1> SUFFICES ASSUME NEW i \in 1..(Len(out) + 1) PROVE Belongs((out \o more)[i])
  BY <1>3 DEF Matching, more
<1>4. CASE i <= Len(out)
  BY <1>2, <1>3, <1>4 DEF Matching
<1>5. CASE i = Len(out) + 1
  <2>1. i - Len(out) = 1 /\ ~(i <= Len(out))
    BY <1>2, <1>5
  <2>2. (out \o more)[i] = e
    BY <1>1, <1>2, <2>1 DEF more
  <2> QED
    BY <2>2
<1> QED
  BY <1>2, <1>4, <1>5

\* One more event that is no result changes nothing about results.
LEMMA SaysOne ==
  ASSUME NEW tr \in Translators, NEW e \in Events, e.op = "result" => Unknown(e.of) \/ e.of = e.id,
         NEW u \in Translators, u.out = tr.out \o <<e>>, u.known = tr.known, u.byName = tr.byName
  PROVE  Says(tr, u)
BY Fields, MatchingOne DEF Says, Belongs

\* closeOpenMessage, the text: at most an END, and no text is open.
LEMMA CloseTextFacts ==
  ASSUME NEW tr \in Translators
  PROVE  LET u == CloseText(tr)
         IN /\ Says(tr, u) /\ SameCalls(tr, u) /\ SameSubagent(tr, u)
            /\ u.msg = None /\ u.reasoning = tr.reasoning /\ u.step = tr.step /\ u.next = tr.next
            /\ tr.msg # None => u.out = tr.out \o <<Event("end", "text", tr.msg, tr.run, <<>>)>>
            /\ tr.msg = None => u = tr
<1>1. CASE tr.msg = None
  BY <1>1 DEF CloseText, Says, SameCalls, SameSubagent
<1>2. CASE tr.msg # None
  <2> DEFINE e == Event("end", "text", tr.msg, tr.run, <<>>)
             u == CloseText(tr)
  <2>1. e \in Events /\ e.op = "end"
    BY Fields, EmptyText, EventType, Kinds DEF Event
  <2>2. u = [tr EXCEPT !.out = tr.out \o <<e>>, !.msg = None, !.prevText = <<>>]
    BY <1>2 DEF CloseText, Emit, EmitAs, EmitAll, Translators
  <2>3. tr.out \o <<e>> \in Seq(Events)
    BY <2>1, Emitted
  <2> HIDE DEF e, u
  <2>4. u \in Translators
    BY <2>2, <2>3, EmptyText DEF Translators, None
  <2>5. /\ u.out = tr.out \o <<e>> /\ u.msg = None /\ u.known = tr.known /\ u.byName = tr.byName
        /\ u.reasoning = tr.reasoning /\ u.step = tr.step /\ u.next = tr.next
        /\ u.started = tr.started /\ u.opened = tr.opened /\ u.run = tr.run /\ u.author = tr.author
    BY <2>2 DEF Translators
  <2>6. Says(tr, u)
    BY <2>1, <2>4, <2>5, SaysOne
  <2> QED
    BY <1>2, <2>5, <2>6 DEF SameCalls, SameSubagent, e, u
<1> QED
  BY <1>1, <1>2

\* It keeps what the client and the translator agree on.
LEMMA CloseTextKeeps ==
  ASSUME NEW s0 \in States, NEW tr, NEW live, NEW whole, Good(s0, tr, live, whole)
  PROVE  Good(s0, CloseText(tr), live, whole)
<1> DEFINE u == CloseText(tr)
<1>1. tr \in Translators
  BY DEF Good
<1>2. CASE tr.msg = None
  BY <1>1, <1>2, CloseTextFacts
<1>3. CASE tr.msg # None
  <2>1. /\ u \in Translators /\ SameCalls(tr, u) /\ SameSubagent(tr, u) /\ u.msg = None
        /\ u.reasoning = tr.reasoning /\ u.step = tr.step /\ u.next = tr.next
        /\ u.out = tr.out \o <<Event("end", "text", tr.msg, tr.run, <<>>)>>
    BY <1>1, <1>3, CloseTextFacts DEF Says
  <2> HIDE DEF u
  <2>2. \A b \in Blocks : IsOpen(u, b) <=> IsOpen(tr, b) /\ b # [kind |-> "text", id |-> tr.msg]
    BY <1>3, <2>1 DEF IsOpen, SameCalls, SameSubagent, Blocks
  <2>3. IsOpen(tr, [kind |-> "text", id |-> tr.msg])
    BY <1>3 DEF IsOpen
  <2>4. "text" \in Protocol!Kinds /\ tr.msg \in Nat /\ tr.run \in {Base, tr.run}
    BY <1>1, Kinds, Fields
  <2>5. u.started = tr.started /\ live \subseteq live /\ "text" # "tool"
    BY <2>1 DEF SameCalls
  <2>6. Good(s0, u, live, whole)
    BY <2>1, <2>2, <2>3, <2>4, <2>5, GoodEnd
  <2> QED
    BY <2>6 DEF u
<1> QED
  BY <1>2, <1>3

\* closeOpenReasoning: at most an END, and no reasoning is open.
LEMMA CloseReasoningFacts ==
  ASSUME NEW tr \in Translators
  PROVE  LET u == CloseReasoning(tr)
         IN /\ Says(tr, u) /\ SameCalls(tr, u) /\ SameSubagent(tr, u)
            /\ u.reasoning = None /\ u.msg = tr.msg /\ u.step = tr.step /\ u.next = tr.next
            /\ tr.reasoning # None => u.out = tr.out \o <<Event("end", "reasoning", tr.reasoning, tr.run, <<>>)>>
            /\ tr.reasoning = None => u = tr
<1>1. CASE tr.reasoning = None
  BY <1>1 DEF CloseReasoning, Says, SameCalls, SameSubagent
<1>2. CASE tr.reasoning # None
  <2> DEFINE e == Event("end", "reasoning", tr.reasoning, tr.run, <<>>)
             u == CloseReasoning(tr)
  <2>1. e \in Events /\ e.op = "end"
    <3>1. tr.reasoning \in Nat
      BY Fields
    <3> QED
      BY <3>1, Fields, EmptyText, EventType, Kinds DEF Event
  <2>2. u = [tr EXCEPT !.out = tr.out \o <<e>>, !.reasoning = None, !.prevThought = <<>>]
    BY <1>2 DEF CloseReasoning, Emit, EmitAs, EmitAll, Translators
  <2>3. tr.out \o <<e>> \in Seq(Events)
    BY <2>1, Emitted
  <2> HIDE DEF e, u
  <2>4. u \in Translators
    BY <2>2, <2>3, EmptyText DEF Translators, None
  <2>5. /\ u.out = tr.out \o <<e>> /\ u.reasoning = None /\ u.known = tr.known /\ u.byName = tr.byName
        /\ u.msg = tr.msg /\ u.step = tr.step /\ u.next = tr.next
        /\ u.started = tr.started /\ u.opened = tr.opened /\ u.run = tr.run /\ u.author = tr.author
    BY <2>2 DEF Translators
  <2>6. Says(tr, u)
    BY <2>1, <2>4, <2>5, SaysOne
  <2> QED
    BY <1>2, <2>5, <2>6 DEF SameCalls, SameSubagent, e, u
<1> QED
  BY <1>1, <1>2

\* It keeps what the client and the translator agree on.
LEMMA CloseReasoningKeeps ==
  ASSUME NEW s0 \in States, NEW tr, NEW live, NEW whole, Good(s0, tr, live, whole)
  PROVE  Good(s0, CloseReasoning(tr), live, whole)
<1> DEFINE u == CloseReasoning(tr)
<1>1. tr \in Translators
  BY DEF Good
<1>2. CASE tr.reasoning = None
  BY <1>1, <1>2, CloseReasoningFacts
<1>3. CASE tr.reasoning # None
  <2>1. /\ u \in Translators /\ SameCalls(tr, u) /\ SameSubagent(tr, u)
        /\ u.reasoning = None /\ u.msg = tr.msg /\ u.step = tr.step /\ u.next = tr.next
        /\ u.out = tr.out \o <<Event("end", "reasoning", tr.reasoning, tr.run, <<>>)>>
    BY <1>1, <1>3, CloseReasoningFacts DEF Says
  <2> HIDE DEF u
  <2>2. \A b \in Blocks : IsOpen(u, b) <=> IsOpen(tr, b) /\ b # [kind |-> "reasoning", id |-> tr.reasoning]
    BY <1>3, <2>1 DEF IsOpen, SameCalls, SameSubagent, Blocks
  <2>3. IsOpen(tr, [kind |-> "reasoning", id |-> tr.reasoning])
    BY <1>3 DEF IsOpen
  <2>4. "reasoning" \in Protocol!Kinds /\ tr.reasoning \in Nat /\ tr.run \in {Base, tr.run}
    BY <1>1, Kinds, Fields
  <2>5. u.started = tr.started /\ live \subseteq live /\ "reasoning" # "tool"
    BY <2>1 DEF SameCalls
  <2>6. Good(s0, u, live, whole)
    BY <2>1, <2>2, <2>3, <2>4, <2>5, GoodEnd
  <2> QED
    BY <2>6 DEF u
<1> QED
  BY <1>2, <1>3

\* closeOpenStep: at most a STEP_FINISHED, and no step is open.
LEMMA CloseStepFacts ==
  ASSUME NEW tr \in Translators
  PROVE  LET u == CloseStep(tr)
         IN /\ Says(tr, u) /\ SameCalls(tr, u) /\ SameSubagent(tr, u) /\ SameMessage(tr, u)
            /\ u.step = None /\ u.next = tr.next
            /\ tr.step # None => u.out = tr.out \o <<Event("end", "step", tr.step, tr.run, <<>>)>>
            /\ tr.step = None => u = tr
<1>1. CASE tr.step = None
  BY <1>1 DEF CloseStep, Says, SameCalls, SameSubagent, SameMessage
<1>2. CASE tr.step # None
  <2> DEFINE e == Event("end", "step", tr.step, tr.run, <<>>)
             u == CloseStep(tr)
  <2>1. e \in Events /\ e.op = "end"
    <3>1. tr.step \in Nat
      BY Fields
    <3> QED
      BY <3>1, Fields, EmptyText, EventType, Kinds DEF Event
  <2>2. u = [tr EXCEPT !.out = tr.out \o <<e>>, !.step = None]
    BY <1>2 DEF CloseStep, Emit, EmitAs, EmitAll, Translators
  <2>3. tr.out \o <<e>> \in Seq(Events)
    BY <2>1, Emitted
  <2> HIDE DEF e, u
  <2>4. u \in Translators
    BY <2>2, <2>3, EmptyText DEF Translators, None
  <2>5. /\ u.out = tr.out \o <<e>> /\ u.step = None /\ u.known = tr.known /\ u.byName = tr.byName
        /\ u.next = tr.next
        /\ u.started = tr.started /\ u.opened = tr.opened /\ u.run = tr.run /\ u.author = tr.author /\ u.msg = tr.msg /\ u.reasoning = tr.reasoning
    BY <2>2 DEF Translators
  <2>6. Says(tr, u)
    BY <2>1, <2>4, <2>5, SaysOne
  <2> QED
    BY <1>2, <2>5, <2>6 DEF SameCalls, SameSubagent, SameMessage, e, u
<1> QED
  BY <1>1, <1>2

\* It keeps what the client and the translator agree on.
LEMMA CloseStepKeeps ==
  ASSUME NEW s0 \in States, NEW tr, NEW live, NEW whole, Good(s0, tr, live, whole)
  PROVE  Good(s0, CloseStep(tr), live, whole)
<1> DEFINE u == CloseStep(tr)
<1>1. tr \in Translators
  BY DEF Good
<1>2. CASE tr.step = None
  BY <1>1, <1>2, CloseStepFacts
<1>3. CASE tr.step # None
  <2>1. /\ u \in Translators /\ SameCalls(tr, u) /\ SameSubagent(tr, u) /\ SameMessage(tr, u)
        /\ u.step = None /\ u.next = tr.next
        /\ u.out = tr.out \o <<Event("end", "step", tr.step, tr.run, <<>>)>>
    BY <1>1, <1>3, CloseStepFacts DEF Says
  <2> HIDE DEF u
  <2>2. \A b \in Blocks : IsOpen(u, b) <=> IsOpen(tr, b) /\ b # [kind |-> "step", id |-> tr.step]
    BY <1>3, <2>1 DEF IsOpen, SameCalls, SameSubagent, SameMessage, Blocks
  <2>3. IsOpen(tr, [kind |-> "step", id |-> tr.step])
    BY <1>3 DEF IsOpen
  <2>4. "step" \in Protocol!Kinds /\ tr.step \in Nat /\ tr.run \in {Base, tr.run}
    BY <1>1, Kinds, Fields
  <2>5. u.started = tr.started /\ live \subseteq live /\ "step" # "tool"
    BY <2>1 DEF SameCalls
  <2>6. Good(s0, u, live, whole)
    BY <2>1, <2>2, <2>3, <2>4, <2>5, GoodEnd
  <2> QED
    BY <2>6 DEF u
<1> QED
  BY <1>2, <1>3

\* Says goes from method to method.
LEMMA SaysTrans ==
  ASSUME NEW tr, NEW u, NEW v, Says(tr, u), Says(u, v)
  PROVE  Says(tr, v)
BY DEF Says

\* closeOpenMessage: neither text nor reasoning is open.
LEMMA CloseMessageKeeps ==
  ASSUME NEW tr \in Translators
  PROVE  LET u == CloseMessage(tr)
         IN /\ Says(tr, u) /\ SameCalls(tr, u) /\ SameSubagent(tr, u)
            /\ u.msg = None /\ u.reasoning = None /\ u.step = tr.step /\ u.next = tr.next
            /\ \A s0 \in States : \A live, whole : Good(s0, tr, live, whole) => Good(s0, u, live, whole)
<1> DEFINE v == CloseText(tr)
           u == CloseReasoning(v)
<1>1. Says(tr, v) /\ SameCalls(tr, v) /\ SameSubagent(tr, v) /\ v.msg = None /\ v.step = tr.step /\ v.next = tr.next
  BY CloseTextFacts
<1>2. v \in Translators
  BY <1>1 DEF Says
<1>3. \A s0 \in States : \A live, whole : Good(s0, tr, live, whole) => Good(s0, v, live, whole)
  BY CloseTextKeeps
<1> HIDE DEF v
<1>4. /\ Says(v, u) /\ SameCalls(v, u) /\ SameSubagent(v, u)
      /\ u.msg = v.msg /\ u.reasoning = None /\ u.step = v.step /\ u.next = v.next
  BY <1>2, CloseReasoningFacts
<1>5. \A s0 \in States : \A live, whole : Good(s0, v, live, whole) => Good(s0, u, live, whole)
  BY CloseReasoningKeeps
<1>6. u = CloseMessage(tr)
  BY DEF u, v, CloseMessage
<1> HIDE DEF u
<1>7. Says(tr, u)
  BY <1>1, <1>4, SaysTrans
<1> QED
  BY <1>1, <1>3, <1>4, <1>5, <1>6, <1>7 DEF SameCalls, SameSubagent

\* closeOpenSubagent: at most a SUBAGENT_FINISHED, and no sub-agent is active.
LEMMA CloseSubagentFacts ==
  ASSUME NEW tr \in Translators
  PROVE  LET u == CloseSubagent(tr)
         IN /\ Says(tr, u) /\ SameCalls(tr, u) /\ SameMessage(tr, u)
            /\ u.run = Base /\ u.author = NoAgent /\ u.step = tr.step /\ u.next = tr.next
            /\ tr.run # Base => u.out = tr.out \o <<Event("end", "subagent", tr.run, Base, <<>>)>>
            /\ tr.run = Base => u.out = tr.out
<1> DEFINE u == CloseSubagent(tr)
<1>0. Base \in Nat
  BY DEF Base, Protocol!Base
<1>1. CASE tr.run = Base
  <2>1. u = [tr EXCEPT !.run = Base, !.author = NoAgent]
    BY <1>1 DEF CloseSubagent, EndSubagent
  <2> HIDE DEF u
  <2>2. u \in Translators
    BY <1>0, <2>1 DEF Translators
  <2>3. /\ u.out = tr.out /\ u.known = tr.known /\ u.byName = tr.byName
        /\ u.msg = tr.msg /\ u.reasoning = tr.reasoning /\ u.step = tr.step /\ u.next = tr.next
        /\ u.started = tr.started /\ u.opened = tr.opened /\ u.run = Base /\ u.author = NoAgent
    BY <2>1 DEF Translators
  <2> QED
    BY <1>1, <2>2, <2>3 DEF SameCalls, SameMessage, Says, u
<1>2. CASE tr.run # Base
  <2> DEFINE e == Event("end", "subagent", tr.run, Base, <<>>)
  <2>1. e \in Events /\ e.op = "end"
    BY <1>0, Fields, EmptyText, EventType, Kinds DEF Event
  <2>2. u = [tr EXCEPT !.out = tr.out \o <<e>>, !.run = Base, !.author = NoAgent]
    BY <1>2 DEF CloseSubagent, EndSubagent, EmitAs, EmitAll, Translators
  <2>3. tr.out \o <<e>> \in Seq(Events)
    BY <2>1, Emitted
  <2> HIDE DEF e, u
  <2>4. u \in Translators
    BY <1>0, <2>2, <2>3 DEF Translators
  <2>5. /\ u.out = tr.out \o <<e>> /\ u.known = tr.known /\ u.byName = tr.byName
        /\ u.msg = tr.msg /\ u.reasoning = tr.reasoning /\ u.step = tr.step /\ u.next = tr.next
        /\ u.started = tr.started /\ u.opened = tr.opened /\ u.run = Base /\ u.author = NoAgent
    BY <2>2 DEF Translators
  <2>6. Says(tr, u)
    BY <2>1, <2>4, <2>5, SaysOne
  <2> QED
    BY <1>2, <2>5, <2>6 DEF SameCalls, SameMessage, e, u
<1> QED
  BY <1>1, <1>2

\* It keeps what the client and the translator agree on.
LEMMA CloseSubagentKeeps ==
  ASSUME NEW s0 \in States, NEW tr, NEW live, NEW whole, Good(s0, tr, live, whole)
  PROVE  Good(s0, CloseSubagent(tr), live, whole)
<1> DEFINE u == CloseSubagent(tr)
<1>1. tr \in Translators
  BY DEF Good
<1>2. /\ u \in Translators /\ SameCalls(tr, u) /\ SameMessage(tr, u)
      /\ u.run = Base /\ u.step = tr.step /\ u.next = tr.next
      /\ tr.run # Base => u.out = tr.out \o <<Event("end", "subagent", tr.run, Base, <<>>)>>
      /\ tr.run = Base => u.out = tr.out
  BY <1>1, CloseSubagentFacts DEF Says
<1> HIDE DEF u
<1>3. CASE tr.run = Base
  <2>1. \A b : IsOpen(u, b) <=> IsOpen(tr, b)
    BY <1>2, <1>3 DEF IsOpen, SameCalls, SameMessage
  <2>2. u.started = tr.started /\ u.opened = tr.opened
    BY <1>2 DEF SameCalls
  <2>3. Good(s0, u, live, whole)
    BY <1>2, <1>3, <2>1, <2>2, GoodSame
  <2> QED
    BY <2>3 DEF u
<1>4. CASE tr.run # Base
  <2>1. \A b \in Blocks : IsOpen(u, b) <=> IsOpen(tr, b) /\ b # [kind |-> "subagent", id |-> tr.run]
    BY <1>2, <1>4 DEF IsOpen, SameCalls, SameMessage, Blocks
  <2>2. IsOpen(tr, [kind |-> "subagent", id |-> tr.run])
    BY <1>4 DEF IsOpen
  <2>3. "subagent" \in Protocol!Kinds /\ tr.run \in Nat /\ Base \in {Base, tr.run}
    BY <1>1, Kinds, Fields
  <2>4. u.started = tr.started /\ live \subseteq live /\ "subagent" # "tool"
    BY <1>2 DEF SameCalls
  <2>5. Good(s0, u, live, whole)
    BY <1>2, <1>4, <2>1, <2>2, <2>3, <2>4, GoodEnd
  <2> QED
    BY <2>5 DEF u
<1> QED
  BY <1>3, <1>4

\* startStep: a STEP_STARTED, and that step is open.
LEMMA StartStepFacts ==
  ASSUME NEW tr \in Translators, NEW k \in {LlmStep, ToolsStep}
  PROVE  LET u == StartStep(tr, k)
         IN /\ Says(tr, u) /\ SameCalls(tr, u) /\ SameMessage(tr, u) /\ SameSubagent(tr, u)
            /\ u.step = k /\ u.next = tr.next
            /\ u.out = tr.out \o <<Event("start", "step", k, tr.run, <<>>)>>
<1> DEFINE e == Event("start", "step", k, tr.run, <<>>)
           u == StartStep(tr, k)
<1>1. e \in Events /\ e.op = "start"
  <2>1. k \in Nat
    BY DEF LlmStep, ToolsStep
  <2> QED
    BY <2>1, Fields, EmptyText, EventType, Kinds DEF Event
<1>2. u = [tr EXCEPT !.out = tr.out \o <<e>>, !.step = k]
  BY DEF StartStep, Emit, EmitAs, EmitAll, Translators
<1>3. tr.out \o <<e>> \in Seq(Events)
  BY <1>1, Emitted
<1> HIDE DEF e, u
<1>4. u \in Translators
  BY <1>2, <1>3 DEF Translators
<1>5. /\ u.out = tr.out \o <<e>> /\ u.known = tr.known /\ u.byName = tr.byName
      /\ u.msg = tr.msg /\ u.reasoning = tr.reasoning /\ u.step = k /\ u.next = tr.next
      /\ u.started = tr.started /\ u.opened = tr.opened /\ u.run = tr.run /\ u.author = tr.author
  BY <1>2 DEF Translators
<1>6. Says(tr, u)
  BY <1>1, <1>4, <1>5, SaysOne
<1> QED
  BY <1>5, <1>6 DEF SameCalls, SameMessage, SameSubagent, e, u

\* It keeps what the client and the translator agree on, if no step was open.
LEMMA StartStepKeeps ==
  ASSUME NEW s0 \in States, NEW tr, NEW live, NEW whole, Good(s0, tr, live, whole),
         NEW k \in {LlmStep, ToolsStep}, tr.step = None
  PROVE  Good(s0, StartStep(tr, k), live, whole)
<1> DEFINE u == StartStep(tr, k)
<1>1. tr \in Translators /\ IsFiniteSet(tr.opened) /\ whole \cap (tr.started \cup tr.opened) = {}
  BY DEF Good
<1>2. /\ u \in Translators /\ SameCalls(tr, u) /\ SameMessage(tr, u) /\ SameSubagent(tr, u)
      /\ u.step = k /\ u.next = tr.next
      /\ u.out = tr.out \o <<Event("start", "step", k, tr.run, <<>>)>>
  BY <1>1, StartStepFacts DEF Says
<1> HIDE DEF u
<1>3. k \in Nat /\ k # None /\ "step" \in Protocol!Kinds /\ tr.run \in {Base, tr.run}
  BY Kinds DEF LlmStep, ToolsStep, None
<1>4. \A b \in Blocks : IsOpen(u, b) <=> IsOpen(tr, b) \/ b = [kind |-> "step", id |-> k]
  BY <1>2, <1>3 DEF IsOpen, SameCalls, SameMessage, SameSubagent, Blocks
<1>5. CanStart(tr, "step", k, live)
  BY DEF CanStart
<1>6. /\ u.next >= tr.next /\ u.started = tr.started /\ u.opened = tr.opened /\ live \subseteq live
      /\ "step" \notin {"text", "reasoning", "subagent"} /\ "step" # "tool"
  BY <1>1, <1>2, Fields DEF SameCalls
<1>7. \A i \in live : i \in u.started => i \in u.opened
  BY <1>6 DEF Good, Shows
<1>8. Good(s0, u, live, whole)
  BY <1>1, <1>2, <1>3, <1>4, <1>5, <1>6, <1>7, GoodStart DEF StartedBy
<1> QED
  BY <1>8 DEF u

\* The step events do not touch what is said or called.
LEMMA ManageStepsKeeps ==
  ASSUME NEW tr \in Translators, NEW ev
  PROVE  LET u == ManageSteps(tr, ev)
         IN /\ Says(tr, u) /\ SameCalls(tr, u) /\ SameMessage(tr, u) /\ SameSubagent(tr, u)
            /\ \A s0 \in States : \A live, whole : Good(s0, tr, live, whole) => Good(s0, u, live, whole)
<1> DEFINE v == CloseStep(tr)
<1>1. LlmStep \in {LlmStep, ToolsStep} /\ ToolsStep \in {LlmStep, ToolsStep}
  OBVIOUS
<1>2. /\ Says(tr, v) /\ SameCalls(tr, v) /\ SameMessage(tr, v) /\ SameSubagent(tr, v)
      /\ v.step = None /\ v \in Translators
      /\ \A s0 \in States : \A live, whole : Good(s0, tr, live, whole) => Good(s0, v, live, whole)
  BY CloseStepFacts, CloseStepKeeps DEF Says
<1>3. ASSUME NEW k \in {LlmStep, ToolsStep}, NEW w \in Translators, w.step = None
      PROVE  LET u == StartStep(w, k)
             IN /\ Says(w, u) /\ SameCalls(w, u) /\ SameMessage(w, u) /\ SameSubagent(w, u)
                /\ \A s0 \in States : \A live, whole : Good(s0, w, live, whole) => Good(s0, u, live, whole)
  BY <1>3, StartStepFacts, StartStepKeeps
<1> HIDE DEF v
<1>4. ASSUME NEW k \in {LlmStep, ToolsStep}
      PROVE  LET u == StartStep(v, k)
             IN /\ Says(tr, u) /\ SameCalls(tr, u) /\ SameMessage(tr, u) /\ SameSubagent(tr, u)
                /\ \A s0 \in States : \A live, whole : Good(s0, tr, live, whole) => Good(s0, u, live, whole)
  <2> DEFINE u == StartStep(v, k)
  <2>1. /\ Says(v, u) /\ SameCalls(v, u) /\ SameMessage(v, u) /\ SameSubagent(v, u)
        /\ \A s0 \in States : \A live, whole : Good(s0, v, live, whole) => Good(s0, u, live, whole)
    BY <1>2, <1>3
  <2> HIDE DEF u
  <2>2. Says(tr, u)
    BY <1>2, <2>1, SaysTrans
  <2> QED
    BY <1>2, <2>1, <2>2 DEF SameCalls, SameMessage, SameSubagent, u
<1>5. Says(tr, tr) /\ SameCalls(tr, tr) /\ SameMessage(tr, tr) /\ SameSubagent(tr, tr)
  BY DEF Says, SameCalls, SameMessage, SameSubagent
<1>6. ManageSteps(tr, ev) \in {tr, StartStep(v, LlmStep), StartStep(v, ToolsStep)} \/ (tr.step = None /\ ManageSteps(tr, ev) = StartStep(tr, LlmStep))
  BY DEF ManageSteps, v
<1> QED
  BY <1>1, <1>3, <1>4, <1>5, <1>6

\* The sub-agent of the event is the one that runs; its events name a new run if it was not.
LEMMA SubagentLifecycleKeeps ==
  ASSUME NEW tr \in Translators, NEW a \in Agents
  PROVE  LET u == SubagentLifecycle(tr, a)
         IN /\ Says(tr, u) /\ SameCalls(tr, u) /\ SameMessage(tr, u)
            /\ \A s0 \in States : \A live, whole : Good(s0, tr, live, whole) => Good(s0, u, live, whole)
<1> DEFINE u == SubagentLifecycle(tr, a)
           v == CloseSubagent(tr)
<1>1. /\ Says(tr, v) /\ SameCalls(tr, v) /\ SameMessage(tr, v) /\ v \in Translators
      /\ v.run = Base /\ v.next = tr.next
      /\ \A s0 \in States : \A live, whole : Good(s0, tr, live, whole) => Good(s0, v, live, whole)
  BY CloseSubagentFacts, CloseSubagentKeeps DEF Says
<1>2. CASE a = Root
  BY <1>1, <1>2 DEF SubagentLifecycle
<1>3. CASE a = tr.author /\ a # Root
  BY <1>3 DEF SubagentLifecycle, Says, SameCalls, SameMessage
<1>4. CASE a # tr.author /\ a # Root
  <2> DEFINE e == Event("start", "subagent", v.next, Base, <<>>)
  <2>1. v.next \in Nat /\ v.next + 1 \in Nat \ {0} /\ Base \in Nat
    BY <1>1, Fields DEF Base, Protocol!Base
  <2>2. e \in Events /\ e.op = "start"
    BY <2>1, EmptyText, EventType, Kinds DEF Event
  <2>3. u = [v EXCEPT !.out = v.out \o <<e>>, !.author = a, !.run = v.next, !.next = v.next + 1]
    BY <1>4 DEF SubagentLifecycle, CloseSubagent, EndSubagent, Fresh, EmitAs, EmitAll, Translators
  <2>4. v.out \o <<e>> \in Seq(Events)
    BY <1>1, <2>2, Emitted
  <2> HIDE DEF e, u, v
  <2>5. u \in Translators
    BY <1>1, <2>1, <2>3, <2>4 DEF Translators
  <2>6. /\ u.out = v.out \o <<e>> /\ u.known = v.known /\ u.byName = v.byName
        /\ u.msg = v.msg /\ u.reasoning = v.reasoning /\ u.step = v.step /\ u.next = v.next + 1
        /\ u.started = v.started /\ u.opened = v.opened /\ u.run = v.next
    BY <1>1, <2>3 DEF Translators
  <2>7. Says(v, u) /\ SameCalls(v, u) /\ SameMessage(v, u)
    BY <1>1, <2>2, <2>5, <2>6, SaysOne DEF SameCalls, SameMessage
  <2>8. ASSUME NEW s0 \in States, NEW live, NEW whole, Good(s0, v, live, whole)
        PROVE  Good(s0, u, live, whole)
    <3>1. v.next # Base /\ v.next \in Nat
      BY <1>1, Fields DEF Base, Protocol!Base
    <3>2. \A b \in Blocks : IsOpen(u, b) <=> IsOpen(v, b) \/ b = [kind |-> "subagent", id |-> v.next]
      BY <1>1, <2>6, <3>1 DEF IsOpen, Blocks
    <3>3. CanStart(v, "subagent", v.next, live)
      BY <1>1 DEF CanStart
    <3>4. IsFiniteSet(u.opened) /\ whole \cap (u.started \cup u.opened) = {} /\ \A i \in live : i \in u.started => i \in u.opened
      BY <2>6, <2>8 DEF Good, Shows
    <3>5. /\ u.next >= v.next /\ v.next < u.next /\ u.started = v.started
          /\ "subagent" \in Protocol!Kinds /\ Base \in {Base, v.run} /\ live \subseteq live
          /\ "subagent" # "tool"
      BY <2>6, <3>1, Kinds
    <3> QED
      BY <2>5, <2>6, <2>8, <3>1, <3>2, <3>3, <3>4, <3>5, GoodStart DEF e, StartedBy
  <2>9. Says(tr, u)
    BY <1>1, <2>7, SaysTrans
  <2> QED
    BY <1>1, <2>7, <2>8, <2>9 DEF SameCalls, SameMessage, u
<1> QED
  BY <1>2, <1>3, <1>4
-----------------------------------------------------------------------------
(* Several events at once.                                                 *)

\* A sequence made place by place.
LEMMA SeqFrom ==
  ASSUME NEW S, NEW n \in Nat, NEW f, f = [i \in 1..n |-> f[i]], \A i \in 1..n : f[i] \in S
  PROVE  f \in Seq(S) /\ Len(f) = n
<1> DEFINE g == [i \in 1..n |-> f[i]]
<1>1. g \in [1..n -> S]
  OBVIOUS
<1> HIDE DEF g
<1>2. g \in Seq(S) /\ DOMAIN g = 1..n
  BY <1>1
<1>3. Len(g) = n
  BY <1>2
<1> QED
  BY <1>2, <1>3 DEF g

\* More events, none of which is a result of another call.
LEMMA MatchingConcat ==
  ASSUME NEW out \in Seq(Events), NEW more \in Seq(Events), Matching(out), Matching(more)
  PROVE  Matching(out \o more)
<1>1. /\ out \o more \in Seq(Events) /\ Len(out \o more) = Len(out) + Len(more)
      /\ Len(out) \in Nat /\ Len(more) \in Nat
      /\ \A i \in 1..(Len(out) + Len(more)) : (out \o more)[i] = IF i <= Len(out) THEN out[i] ELSE more[i - Len(out)]
  BY ConcatProperties, LenProperties
<1>2. /\ DOMAIN out = 1..Len(out) /\ DOMAIN more = 1..Len(more)
      /\ DOMAIN (out \o more) = 1..(Len(out) + Len(more))
  BY <1>1, LenProperties
<1> SUFFICES ASSUME NEW i \in 1..(Len(out) + Len(more)) PROVE Belongs((out \o more)[i])
  BY <1>2 DEF Matching
<1>3. CASE i <= Len(out)
  BY <1>1, <1>2, <1>3 DEF Matching
<1>4. CASE ~(i <= Len(out))
  <2>1. i - Len(out) \in 1..Len(more)
    BY <1>1, <1>4
  <2> QED
    BY <1>1, <1>2, <1>4, <2>1 DEF Matching
<1> QED
  BY <1>3, <1>4

\* More events that are no results change nothing about results.
LEMMA SaysMore ==
  ASSUME NEW tr \in Translators, NEW more \in Seq(Events), \A i \in DOMAIN more : more[i].op # "result",
         NEW u \in Translators, u.out = tr.out \o more, u.known = tr.known, u.byName = tr.byName
  PROVE  Says(tr, u)
<1>1. Matching(more)
  BY DEF Matching, Belongs
<1> QED
  BY <1>1, Fields, MatchingConcat DEF Says

\* The client takes content of blocks that are open and has them open still.
LEMMA LegalContent ==
  ASSUME NEW s \in States, NEW more \in Seq(Events),
         \A i \in 1..Len(more) : more[i].op = "content" /\ Allowed(s, more[i])
  PROVE  Legal(s, more, s)
<1> DEFINE h == [n \in 0..Len(more) |-> s]
<1>1. Len(more) \in Nat
  BY LenProperties
<1>2. ASSUME NEW i \in 1..Len(more) PROVE After(s, more[i]) = s
  BY <1>2 DEF After, States
<1>3. h \in [0..Len(more) -> States] /\ h[0] = s /\ h[Len(more)] = s
  BY <1>1
<1>4. ASSUME NEW i \in 1..Len(more) PROVE h[i - 1] = s /\ h[i] = s
  <2>1. i - 1 \in 0..Len(more) /\ i \in 0..Len(more)
    BY <1>1
  <2> QED
    BY <2>1
<1> HIDE DEF h
<1>5. Receives(h, s, more, s)
  BY <1>2, <1>3, <1>4 DEF Receives
<1> QED
  BY <1>5 DEF Legal

Without(s, n, ids) == [s EXCEPT !.open = {b \in s.open : \A i \in 1..n : b # [kind |-> "tool", id |-> ids[i]]}]

\* It takes the ends of different calls that are open, in any order.
LEMMA LegalEnds ==
  ASSUME NEW s \in States, ~s.over, NEW n \in Nat, NEW ids \in [1..n -> Nat],
         \A i, j \in 1..n : ids[i] = ids[j] => i = j,
         \A i \in 1..n : [kind |-> "tool", id |-> ids[i]] \in s.open,
         NEW r \in Nat, r # Base => [kind |-> "subagent", id |-> r] \in s.open,
         NEW more \in Seq(Events), Len(more) = n,
         \A i \in 1..n : more[i] = Event("end", "tool", ids[i], r, <<>>)
  PROVE  Legal(s, more, Without(s, n, ids)) /\ Without(s, n, ids) \in States
<1> DEFINE B(i) == [kind |-> "tool", id |-> ids[i]]
           h == [k \in 0..n |-> Without(s, k, ids)]
<1>1. \A k \in 0..n : /\ Without(s, k, ids) \in States /\ Without(s, k, ids).begun = s.begun
                      /\ Without(s, k, ids).over = s.over
                      /\ Without(s, k, ids).open = {b \in s.open : \A i \in 1..k : b # B(i)}
  BY DEF Without, States
<1>2. Without(s, 0, ids) = s
  <2>1. \A i : i \notin 1..0
    OBVIOUS
  <2>2. {b \in s.open : \A i \in 1..0 : b # B(i)} = s.open
    BY <2>1
  <2> QED
    BY <2>2 DEF Without, States
<1>3. ASSUME NEW i \in 1..n
      PROVE  Allowed(Without(s, i - 1, ids), more[i]) /\ Without(s, i, ids) = After(Without(s, i - 1, ids), more[i])
  <2> DEFINE v == Without(s, i - 1, ids)
             w == Without(s, i, ids)
             e == more[i]
  <2>1. i - 1 \in 0..n /\ i \in 0..n /\ i \notin 1..(i - 1)
    OBVIOUS
  <2>2. e.op = "end" /\ e.kind = "tool" /\ e.run = r /\ Block(e) = B(i)
    BY DEF Event, Block, Protocol!Block
  <2>3. B(i) \in v.open
    <3>1. \A j \in 1..(i - 1) : j \in 1..n /\ j # i
      BY <2>1
    <3>2. \A j \in 1..(i - 1) : B(i) # B(j)
      BY <3>1
    <3> QED
      BY <1>1, <2>1, <3>2
  <2>4. r # Base => [kind |-> "subagent", id |-> r] \in v.open
    BY <1>1, <2>1
  <2>5. Allowed(v, e)
    BY <1>1, <2>1, <2>2, <2>3, <2>4 DEF Allowed
  <2>6. w.open = v.open \ {B(i)}
    <3>1. \A j : j \in 1..i <=> j \in 1..(i - 1) \/ j = i
      BY <2>1
    <3>2. \A b : (\A j \in 1..i : b # B(j)) <=> (\A j \in 1..(i - 1) : b # B(j)) /\ b # B(i)
      BY <3>1
    <3> HIDE DEF B
    <3>3. w.open = {b \in s.open : \A j \in 1..i : b # B(j)}
      BY <1>1, <2>1
    <3>4. v.open = {b \in s.open : \A j \in 1..(i - 1) : b # B(j)}
      BY <1>1, <2>1
    <3> HIDE DEF v, w
    <3>5. \A b : b \in w.open <=> b \in v.open /\ b # B(i)
      BY <3>2, <3>3, <3>4
    <3> QED
      BY <3>5
  <2>7. After(v, e) = [open |-> v.open \ {B(i)}, begun |-> v.begun, over |-> v.over]
    <3>1. v.over = FALSE
      BY <1>1, <2>1 DEF States
    <3> HIDE DEF v, e, B
    <3> QED
      BY <2>2, <3>1 DEF After
  <2>8. w = [open |-> w.open, begun |-> w.begun, over |-> w.over]
    BY <1>1, <2>1 DEF States
  <2> QED
    BY <1>1, <2>1, <2>5, <2>6, <2>7, <2>8
<1>4. h \in [0..n -> States] /\ h[0] = s /\ h[n] = Without(s, n, ids)
  <2>1. 0 \in 0..n /\ n \in 0..n
    OBVIOUS
  <2> HIDE DEF B
  <2> QED
    BY <1>1, <1>2, <2>1
<1>5. ASSUME NEW i \in 1..n PROVE Allowed(h[i - 1], more[i]) /\ h[i] = After(h[i - 1], more[i])
  <2>1. i - 1 \in 0..n /\ i \in 0..n
    OBVIOUS
  <2> QED
    BY <1>3, <2>1
<1> HIDE DEF h
<1>6. Receives(h, s, more, Without(s, n, ids))
  BY <1>4, <1>5 DEF Receives
<1>7. n \in 0..n
  OBVIOUS
<1> QED
  BY <1>1, <1>6, <1>7 DEF Legal

\* The elements of a finite set as a sequence, each once.
LEMMA SeqOfSet ==
  ASSUME NEW S, IsFiniteSet(S)
  PROVE  /\ Cardinality(S) \in Nat
         /\ SetToSeq(S) \in [1..Cardinality(S) -> S]
         /\ \A i, j \in 1..Cardinality(S) : SetToSeq(S)[i] = SetToSeq(S)[j] => i = j
         /\ \A x \in S : \E i \in 1..Cardinality(S) : SetToSeq(S)[i] = x
         /\ Len(SetToSeq(S)) = Cardinality(S)
<1> DEFINE n == Cardinality(S)
           f == SetToSeq(S)
<1>1. n \in Nat /\ ExistsBijection(1..n, S)
  <2>1. PICK m \in Nat : ExistsBijection(1..m, S)
    BY FS_NatBijection
  <2>2. Cardinality(S) = m
    BY <2>1, FS_CountingElements
  <2> QED
    BY <2>1, <2>2
<1>2. \E g \in [1..n -> S] : IsInjective(g)
  BY <1>1 DEF ExistsBijection, Bijection, Injection
<1>3. f \in [1..n -> S] /\ IsInjective(f)
  BY <1>2 DEF SetToSeq
<1> HIDE DEF f
<1>4. f \in Injection(1..n, S)
  BY <1>3 DEF Injection
<1>5. IsFiniteSet(1..n) /\ Cardinality(1..n) = n
  BY <1>1, FS_Interval
<1>6. f \in Surjection(1..n, S)
  BY <1>4, <1>5, FS_Injection
<1>7. f \in Seq(S) /\ Len(f) = n
  BY <1>1, <1>3
<1> QED
  BY <1>1, <1>3, <1>6, <1>7 DEF IsInjective, Surjection, f

\* closeStreamedToolCalls: one END for each call that is open, and none is open.
LEMMA CloseCallsFacts ==
  ASSUME NEW tr \in Translators, IsFiniteSet(tr.opened)
  PROVE  LET u == CloseStreamedToolCalls(tr)
         IN /\ Says(tr, u) /\ SameMessage(tr, u) /\ SameSubagent(tr, u)
            /\ u.started = tr.started /\ u.opened = {} /\ u.step = tr.step /\ u.next = tr.next
            /\ \E n \in Nat : \E ids \in [1..n -> Nat], more \in Seq(Events) :
                 /\ \A i, j \in 1..n : ids[i] = ids[j] => i = j
                 /\ \A x : x \in tr.opened <=> \E i \in 1..n : ids[i] = x
                 /\ Len(more) = n /\ \A i \in 1..n : more[i] = Event("end", "tool", ids[i], tr.run, <<>>)
                 /\ u.out = tr.out \o more
<1> DEFINE u == CloseStreamedToolCalls(tr)
           n == Cardinality(tr.opened)
           ids == SetToSeq(tr.opened)
           more == [i \in 1..n |-> Event("end", "tool", ids[i], tr.run, <<>>)]
<1>1. /\ n \in Nat /\ ids \in [1..n -> tr.opened] /\ Len(ids) = n
      /\ \A i, j \in 1..n : ids[i] = ids[j] => i = j
      /\ \A x \in tr.opened : \E i \in 1..n : ids[i] = x
  BY SeqOfSet
<1>2. u = [tr EXCEPT !.out = tr.out \o more, !.opened = {}, !.hadArgs = tr.hadArgs \ tr.opened]
  BY <1>1 DEF CloseStreamedToolCalls, EmitAll, Translators
<1> HIDE DEF n, ids
<1>3. \A i \in 1..n : more[i] = Event("end", "tool", ids[i], tr.run, <<>>)
  OBVIOUS
<1> HIDE DEF u
<1>4. ids \in [1..n -> Nat] /\ tr.run \in Nat
  BY <1>1, Fields
<1>5. \A i \in 1..n : Event("end", "tool", ids[i], tr.run, <<>>) \in Events
  BY <1>4, EmptyText, EventType, Kinds
<1>6. more \in Seq(Events) /\ Len(more) = n
  BY <1>1, <1>5, SeqFrom
<1> HIDE DEF more
<1>7. tr.out \o more \in Seq(Events) /\ tr.hadArgs \ tr.opened \subseteq Nat
  BY <1>6, Fields, ConcatProperties
<1>8. u \in Translators
  BY <1>2, <1>7 DEF Translators
<1>9. /\ u.out = tr.out \o more /\ u.known = tr.known /\ u.byName = tr.byName
      /\ u.msg = tr.msg /\ u.reasoning = tr.reasoning /\ u.step = tr.step /\ u.next = tr.next
      /\ u.started = tr.started /\ u.opened = {} /\ u.run = tr.run /\ u.author = tr.author
  BY <1>2 DEF Translators
<1>10. \A i \in DOMAIN more : more[i].op # "result"
  BY <1>3, <1>6, LenProperties DEF Event
<1>11. Says(tr, u)
  BY <1>6, <1>8, <1>9, <1>10, SaysMore
<1>12. \A x : x \in tr.opened <=> \E i \in 1..n : ids[i] = x
  BY <1>1
<1>13. \E k \in Nat : \E f \in [1..k -> Nat], ends \in Seq(Events) :
         /\ \A i, j \in 1..k : f[i] = f[j] => i = j
         /\ \A x : x \in tr.opened <=> \E i \in 1..k : f[i] = x
         /\ Len(ends) = k /\ \A i \in 1..k : ends[i] = Event("end", "tool", f[i], tr.run, <<>>)
         /\ u.out = tr.out \o ends
  <2>1. n \in Nat /\ ids \in [1..n -> Nat] /\ more \in Seq(Events)
    BY <1>1, <1>4, <1>6
  <2> USE <2>1
  <2> WITNESS n \in Nat
  <2> WITNESS ids \in [1..n -> Nat], more \in Seq(Events)
  <2> QED
    BY <1>1, <1>3, <1>6, <1>9, <1>12
<1> QED
  BY <1>9, <1>11, <1>13 DEF SameMessage, SameSubagent, u

\* The calls that were streaming have ended, those that are left have not begun.
LEMMA CloseCallsKeeps ==
  ASSUME NEW s0 \in States, NEW tr, NEW live, NEW whole, Good(s0, tr, live, whole),
         NEW left, left \subseteq live, left \cap tr.started = {}
  PROVE  Good(s0, CloseStreamedToolCalls(tr), left, whole)
<1> DEFINE u == CloseStreamedToolCalls(tr)
<1>1. tr \in Translators /\ IsFiniteSet(tr.opened) /\ whole \cap (tr.started \cup tr.opened) = {} /\ tr.out \in Seq(Events)
  BY Fields DEF Good
<1>2. /\ u \in Translators /\ SameMessage(tr, u) /\ SameSubagent(tr, u)
      /\ u.started = tr.started /\ u.opened = {} /\ u.step = tr.step /\ u.next = tr.next
  BY <1>1, CloseCallsFacts DEF Says
<1>3. PICK n \in Nat : \E ids \in [1..n -> Nat], more \in Seq(Events) :
                 /\ \A i, j \in 1..n : ids[i] = ids[j] => i = j
                 /\ \A x : x \in tr.opened <=> \E i \in 1..n : ids[i] = x
                 /\ Len(more) = n /\ \A i \in 1..n : more[i] = Event("end", "tool", ids[i], tr.run, <<>>)
                 /\ u.out = tr.out \o more
  BY <1>1, CloseCallsFacts
<1>4. PICK ids \in [1..n -> Nat], more \in Seq(Events) :
                 /\ \A i, j \in 1..n : ids[i] = ids[j] => i = j
                 /\ \A x : x \in tr.opened <=> \E i \in 1..n : ids[i] = x
                 /\ Len(more) = n /\ \A i \in 1..n : more[i] = Event("end", "tool", ids[i], tr.run, <<>>)
                 /\ u.out = tr.out \o more
  BY <1>3
<1> HIDE DEF u
<1>5. PICK s \in States : Legal(s0, tr.out, s) /\ Shows(tr, s, live)
  BY DEF Good
<1> DEFINE v == Without(s, n, ids)
<1>6. ~s.over /\ tr.run \in Nat
  BY <1>1, <1>5, Fields DEF Shows
<1>7. \A i \in 1..n : [kind |-> "tool", id |-> ids[i]] \in s.open
  <2> SUFFICES ASSUME NEW i \in 1..n PROVE [kind |-> "tool", id |-> ids[i]] \in s.open
    OBVIOUS
  <2>1. ids[i] \in Nat /\ ids[i] \in tr.opened
    BY <1>4
  <2>2. [kind |-> "tool", id |-> ids[i]] \in Blocks
    BY <2>1, Kinds DEF Blocks
  <2> QED
    BY <1>5, <2>1, <2>2 DEF Shows, IsOpen
<1>8. tr.run # Base => [kind |-> "subagent", id |-> tr.run] \in s.open
  <2>1. [kind |-> "subagent", id |-> tr.run] \in Blocks
    BY <1>6, Kinds DEF Blocks
  <2> QED
    BY <1>5, <2>1 DEF Shows, IsOpen
<1>9. Legal(s, more, v) /\ v \in States
  BY <1>4, <1>6, <1>7, <1>8, LegalEnds
<1>10. /\ v.begun = s.begun /\ v.over = s.over
       /\ v.open = {b \in s.open : \A i \in 1..n : b # [kind |-> "tool", id |-> ids[i]]}
  BY DEF Without, States
<1> HIDE DEF v
<1>11. Legal(s0, u.out, v)
  BY <1>1, <1>4, <1>5, <1>9, LegalConcat
<1>12. \A b \in Blocks : b \in v.open <=> IsOpen(u, b)
  <2> SUFFICES ASSUME NEW b \in Blocks PROVE b \in v.open <=> IsOpen(u, b)
    OBVIOUS
  <2>1. b \in s.open <=> IsOpen(tr, b)
    BY <1>5 DEF Shows
  <2>2. CASE b.kind = "tool"
    <3>1. b = [kind |-> "tool", id |-> b.id]
      BY <2>2 DEF Blocks
    <3>2. ~IsOpen(u, b)
      BY <1>2, <2>2 DEF IsOpen
    <3>3. ASSUME b \in v.open PROVE FALSE
      <4>1. b.id \in tr.opened
        BY <1>10, <2>1, <2>2, <3>3 DEF IsOpen
      <4>2. PICK i \in 1..n : ids[i] = b.id
        BY <1>4, <4>1
      <4> QED
        BY <1>10, <3>1, <3>3, <4>2
    <3> QED
      BY <3>2, <3>3
  <2>3. CASE b.kind # "tool"
    <3>1. IsOpen(tr, b) <=> IsOpen(u, b)
      BY <1>2, <2>3 DEF IsOpen, SameMessage, SameSubagent
    <3>2. b \in v.open <=> b \in s.open
      BY <1>10, <2>3
    <3> QED
      BY <2>1, <3>1, <3>2
  <2> QED
    BY <2>2, <2>3
<1>13. Shows(u, v, left)
  BY <1>2, <1>5, <1>10, <1>12 DEF Shows, Taken
<1>14. IsFiniteSet(u.opened)
  BY <1>2, FS_EmptySet
<1>15. Good(s0, u, left, whole)
  BY <1>1, <1>2, <1>9, <1>11, <1>13, <1>14 DEF Good
<1> QED
  BY <1>15 DEF u

\* Everything is closed.
LEMMA CloseAllKeeps ==
  ASSUME NEW tr \in Translators, IsFiniteSet(tr.opened)
  PROVE  LET u == CloseAll(tr)
         IN /\ Says(tr, u) /\ u.started = tr.started /\ u.opened = {}
            /\ u.msg = None /\ u.reasoning = None /\ u.step = None /\ u.run = Base
            /\ \A s0 \in States : \A live, whole, left :
                 Good(s0, tr, live, whole) /\ left \subseteq live /\ left \cap tr.started = {} =>
                   Good(s0, u, left, whole)
<1> DEFINE m == CloseMessage(tr)
           c == CloseStreamedToolCalls(m)
           p == CloseStep(c)
           u == CloseSubagent(p)
<1>1. /\ Says(tr, m) /\ SameCalls(tr, m) /\ m.msg = None /\ m.reasoning = None /\ m \in Translators
      /\ m.started = tr.started /\ m.opened = tr.opened
      /\ \A s0 \in States : \A live, whole : Good(s0, tr, live, whole) => Good(s0, m, live, whole)
  BY CloseMessageKeeps DEF Says, SameCalls
<1> HIDE DEF m
<1>2. /\ Says(m, c) /\ SameMessage(m, c) /\ c \in Translators /\ c.started = m.started /\ c.opened = {}
      /\ c.msg = None /\ c.reasoning = None
      /\ \A s0 \in States : \A live, whole, left :
           Good(s0, m, live, whole) /\ left \subseteq live /\ left \cap m.started = {} => Good(s0, c, left, whole)
  BY <1>1, CloseCallsFacts, CloseCallsKeeps DEF Says, SameMessage
<1> HIDE DEF c
<1>3. /\ Says(c, p) /\ SameMessage(c, p) /\ SameCalls(c, p) /\ p \in Translators /\ p.step = None
      /\ p.started = c.started /\ p.opened = {} /\ p.msg = None /\ p.reasoning = None
      /\ \A s0 \in States : \A live, whole : Good(s0, c, live, whole) => Good(s0, p, live, whole)
  BY <1>2, CloseStepFacts, CloseStepKeeps DEF Says, SameMessage, SameCalls
<1> HIDE DEF p
<1>4. /\ Says(p, u) /\ u.step = None /\ u.run = Base
      /\ u.started = p.started /\ u.opened = {} /\ u.msg = None /\ u.reasoning = None
      /\ \A s0 \in States : \A live, whole : Good(s0, p, live, whole) => Good(s0, u, live, whole)
  BY <1>3, CloseSubagentFacts, CloseSubagentKeeps DEF SameMessage, SameCalls
<1>5. u = CloseAll(tr)
  BY DEF u, p, c, m, CloseAll
<1> HIDE DEF u
<1>6. Says(tr, u)
  BY <1>1, <1>2, <1>3, <1>4, SaysTrans
<1>7. ASSUME NEW s0 \in States, NEW live, NEW whole, NEW left,
             Good(s0, tr, live, whole), left \subseteq live, left \cap tr.started = {}
      PROVE  Good(s0, u, left, whole)
  <2>1. Good(s0, m, live, whole) /\ left \cap m.started = {}
    BY <1>1, <1>7
  <2>2. Good(s0, c, left, whole)
    BY <1>2, <1>7, <2>1
  <2> QED
    BY <1>3, <1>4, <2>2
<1> QED
  BY <1>1, <1>2, <1>3, <1>4, <1>5, <1>6, <1>7

\* Content comes for blocks that are open.
LEMMA GoodMore ==
  ASSUME NEW s0 \in States, NEW tr, NEW live, NEW whole, Good(s0, tr, live, whole),
         NEW more \in Seq(Events),
         \A i \in 1..Len(more) :
           more[i].op = "content" /\ more[i].run = tr.run /\ IsOpen(tr, Block(more[i])),
         NEW u \in Translators, u.out = tr.out \o more,
         \A b : IsOpen(u, b) <=> IsOpen(tr, b),
         u.next = tr.next, u.started = tr.started, u.opened = tr.opened
  PROVE  Good(s0, u, live, whole)
<1>1. PICK s \in States : Legal(s0, tr.out, s) /\ Shows(tr, s, live)
  BY DEF Good
<1>2. /\ tr \in Translators /\ IsFiniteSet(tr.opened) /\ whole \cap (tr.started \cup tr.opened) = {}
      /\ tr.out \in Seq(Events)
  BY Fields DEF Good
<1>3. ASSUME NEW i \in 1..Len(more) PROVE Allowed(s, more[i])
  <2>1. more[i] \in Events
    BY ElementOfSeq
  <2>2. Block(more[i]) \in Blocks /\ (tr.run # Base => [kind |-> "subagent", id |-> tr.run] \in Blocks)
    BY <1>1, <1>2, <2>1, AfterIsState, Fields, Kinds DEF Blocks
  <2>3. Block(more[i]) \in s.open /\ (tr.run # Base => [kind |-> "subagent", id |-> tr.run] \in s.open)
    BY <1>1, <1>3, <2>2 DEF Shows, IsOpen
  <2> QED
    BY <1>1, <1>3, <2>3 DEF Allowed, Shows
<1>4. Legal(s, more, s)
  BY <1>3, LegalContent
<1>5. Legal(s0, u.out, s)
  BY <1>1, <1>2, <1>4, LegalConcat
<1>6. Shows(u, s, live)
  BY <1>1 DEF Shows, Taken
<1> QED
  BY <1>2, <1>5, <1>6 DEF Good

-----------------------------------------------------------------------------
(* Text and thought.                                                       *)

\* The rest of a text is a text.
LEMMA DeltaIsText ==
  ASSUME NEW prev \in Text, NEW text \in Text
  PROVE  Delta(prev, text) \in Text /\ prev \o Delta(prev, text) \in Text
<1>1. SubSeq(text, Len(prev) + 1, Len(text)) \in Text
  BY SubSeqProperties, LenProperties DEF Text
<1>2. Delta(prev, text) \in Text
  BY <1>1 DEF Delta
<1> QED
  BY <1>2, ConcatProperties DEF Text

\* Content of a block that is open, or none at all.
LEMMA ContentKeeps ==
  ASSUME NEW tr \in Translators, NEW kind \in Protocol!Kinds, NEW id \in Nat, NEW data \in Text,
         IsOpen(tr, [kind |-> kind, id |-> id])
  PROVE  LET u == Content(tr, kind, id, data)
         IN /\ Says(tr, u) /\ SameMessage(tr, u) /\ SameCalls(tr, u) /\ SameSubagent(tr, u)
            /\ u.prevText = tr.prevText /\ u.prevThought = tr.prevThought
            /\ \A s0 \in States : \A live, whole : Good(s0, tr, live, whole) => Good(s0, u, live, whole)
<1>1. CASE data = <<>>
  BY <1>1 DEF Content, Says, SameMessage, SameCalls, SameSubagent
<1>2. CASE data # <<>>
  <2> DEFINE e == Event("content", kind, id, tr.run, data)
             u == Content(tr, kind, id, data)
  <2>1. e \in Events
    BY Fields, EventType
  <2>2. e.op = "content" /\ e.run = tr.run /\ Block(e) = [kind |-> kind, id |-> id]
    BY DEF Event, Block, Protocol!Block
  <2>3. u = [tr EXCEPT !.out = tr.out \o <<e>>]
    BY <1>2 DEF Content, Emit, EmitAs, EmitAll, Translators
  <2>4. tr.out \o <<e>> \in Seq(Events)
    BY <2>1, Emitted
  <2> HIDE DEF e, u
  <2>5. u \in Translators
    BY <2>3, <2>4 DEF Translators
  <2>6. /\ u.out = tr.out \o <<e>> /\ u.known = tr.known /\ u.byName = tr.byName
        /\ u.msg = tr.msg /\ u.reasoning = tr.reasoning /\ u.step = tr.step /\ u.next = tr.next
        /\ u.started = tr.started /\ u.opened = tr.opened /\ u.run = tr.run /\ u.author = tr.author
        /\ u.prevText = tr.prevText /\ u.prevThought = tr.prevThought
    BY <2>3 DEF Translators
  <2>7. Says(tr, u)
    BY <2>1, <2>2, <2>5, <2>6, SaysOne
  <2>8. \A b : IsOpen(u, b) <=> IsOpen(tr, b)
    BY <2>6 DEF IsOpen
  <2>9. ASSUME NEW s0 \in States, NEW live, NEW whole, Good(s0, tr, live, whole)
        PROVE  Good(s0, u, live, whole)
    <3>1. e.op \in {"content", "result"} /\ IsOpen(tr, Block(e))
      BY <2>2
    <3> QED
      BY <2>1, <2>2, <2>5, <2>6, <2>8, <2>9, <3>1, GoodGoOn
  <2> QED
    BY <2>6, <2>7, <2>9 DEF SameMessage, SameCalls, SameSubagent, u
<1> QED
  BY <1>1, <1>2

\* The start of emitText: a text is open, where neither text nor reasoning was or a text was.
LEMMA OpenTextKeeps ==
  ASSUME NEW tr \in Translators
  PROVE  LET u == OpenText(tr)
         IN /\ Says(tr, u) /\ SameCalls(tr, u) /\ SameSubagent(tr, u)
            /\ u.msg # None /\ u.msg \in Nat /\ u.reasoning = tr.reasoning
            /\ tr.reasoning = None =>
                 \A s0 \in States : \A live, whole : Good(s0, tr, live, whole) => Good(s0, u, live, whole)
<1>1. CASE tr.msg # None
  BY <1>1, Fields DEF OpenText, Says, SameCalls, SameSubagent
<1>2. CASE tr.msg = None
  <2> DEFINE e == Event("start", "text", tr.next, tr.run, <<>>)
             u == OpenText(tr)
  <2>1. tr.next \in Nat /\ tr.next + 1 \in Nat \ {0} /\ tr.next # None /\ tr.run \in Nat
    BY Fields DEF None
  <2>2. e \in Events /\ e.op = "start"
    BY <2>1, EmptyText, EventType, Kinds DEF Event
  <2>3. u = [tr EXCEPT !.out = tr.out \o <<e>>, !.next = tr.next + 1, !.msg = tr.next, !.prevText = <<>>]
    BY <1>2 DEF OpenText, Fresh, Emit, EmitAs, EmitAll, Translators
  <2>4. tr.out \o <<e>> \in Seq(Events)
    BY <2>2, Emitted
  <2> HIDE DEF e, u
  <2>5. u \in Translators
    BY <2>1, <2>3, <2>4, EmptyText DEF Translators
  <2>6. /\ u.out = tr.out \o <<e>> /\ u.known = tr.known /\ u.byName = tr.byName
        /\ u.msg = tr.next /\ u.reasoning = tr.reasoning /\ u.step = tr.step /\ u.next = tr.next + 1
        /\ u.started = tr.started /\ u.opened = tr.opened /\ u.run = tr.run /\ u.author = tr.author
    BY <2>3 DEF Translators
  <2>7. Says(tr, u)
    BY <2>2, <2>5, <2>6, SaysOne
  <2>8. ASSUME tr.reasoning = None, NEW s0 \in States, NEW live, NEW whole, Good(s0, tr, live, whole)
        PROVE  Good(s0, u, live, whole)
    <3>1. \A b \in Blocks : IsOpen(u, b) <=> IsOpen(tr, b) \/ b = [kind |-> "text", id |-> tr.next]
      BY <1>2, <2>1, <2>6 DEF IsOpen, Blocks
    <3>2. CanStart(tr, "text", tr.next, live)
      BY <1>2, <2>8 DEF CanStart
    <3>3. IsFiniteSet(u.opened) /\ whole \cap (u.started \cup u.opened) = {} /\ \A i \in live : i \in u.started => i \in u.opened
      BY <2>6, <2>8 DEF Good, Shows
    <3>4. /\ u.next >= tr.next /\ tr.next < u.next /\ u.started = tr.started
          /\ "text" \in Protocol!Kinds /\ tr.run \in {Base, tr.run} /\ live \subseteq live
          /\ "text" # "tool"
      BY <2>1, <2>6, Kinds
    <3> QED
      BY <2>1, <2>5, <2>6, <2>8, <3>1, <3>2, <3>3, <3>4, GoodStart DEF e, StartedBy
  <2> QED
    BY <2>1, <2>6, <2>7, <2>8 DEF SameCalls, SameSubagent, u
<1> QED
  BY <1>1, <1>2

\* The start of emitThought: a reasoning is open, where neither was or a reasoning was.
LEMMA OpenReasoningKeeps ==
  ASSUME NEW tr \in Translators
  PROVE  LET u == OpenReasoning(tr)
         IN /\ Says(tr, u) /\ SameCalls(tr, u) /\ SameSubagent(tr, u)
            /\ u.reasoning # None /\ u.reasoning \in Nat /\ u.msg = tr.msg
            /\ tr.msg = None =>
                 \A s0 \in States : \A live, whole : Good(s0, tr, live, whole) => Good(s0, u, live, whole)
<1>1. CASE tr.reasoning # None
  BY <1>1, Fields DEF OpenReasoning, Says, SameCalls, SameSubagent
<1>2. CASE tr.reasoning = None
  <2> DEFINE e == Event("start", "reasoning", tr.next, tr.run, <<>>)
             u == OpenReasoning(tr)
  <2>1. tr.next \in Nat /\ tr.next + 1 \in Nat \ {0} /\ tr.next # None /\ tr.run \in Nat
    BY Fields DEF None
  <2>2. e \in Events /\ e.op = "start"
    BY <2>1, EmptyText, EventType, Kinds DEF Event
  <2>3. u = [tr EXCEPT !.out = tr.out \o <<e>>, !.next = tr.next + 1, !.reasoning = tr.next, !.prevThought = <<>>]
    BY <1>2 DEF OpenReasoning, Fresh, Emit, EmitAs, EmitAll, Translators
  <2>4. tr.out \o <<e>> \in Seq(Events)
    BY <2>2, Emitted
  <2> HIDE DEF e, u
  <2>5. u \in Translators
    BY <2>1, <2>3, <2>4, EmptyText DEF Translators
  <2>6. /\ u.out = tr.out \o <<e>> /\ u.known = tr.known /\ u.byName = tr.byName
        /\ u.reasoning = tr.next /\ u.msg = tr.msg /\ u.step = tr.step /\ u.next = tr.next + 1
        /\ u.started = tr.started /\ u.opened = tr.opened /\ u.run = tr.run /\ u.author = tr.author
    BY <2>3 DEF Translators
  <2>7. Says(tr, u)
    BY <2>2, <2>5, <2>6, SaysOne
  <2>8. ASSUME tr.msg = None, NEW s0 \in States, NEW live, NEW whole, Good(s0, tr, live, whole)
        PROVE  Good(s0, u, live, whole)
    <3>1. \A b \in Blocks : IsOpen(u, b) <=> IsOpen(tr, b) \/ b = [kind |-> "reasoning", id |-> tr.next]
      BY <1>2, <2>1, <2>6 DEF IsOpen, Blocks
    <3>2. CanStart(tr, "reasoning", tr.next, live)
      BY <1>2, <2>8 DEF CanStart
    <3>3. IsFiniteSet(u.opened) /\ whole \cap (u.started \cup u.opened) = {} /\ \A i \in live : i \in u.started => i \in u.opened
      BY <2>6, <2>8 DEF Good, Shows
    <3>4. /\ u.next >= tr.next /\ tr.next < u.next /\ u.started = tr.started
          /\ "reasoning" \in Protocol!Kinds /\ tr.run \in {Base, tr.run} /\ live \subseteq live
          /\ "reasoning" # "tool"
      BY <2>1, <2>6, Kinds
    <3> QED
      BY <2>1, <2>5, <2>6, <2>8, <3>1, <3>2, <3>3, <3>4, GoodStart DEF e, StartedBy
  <2> QED
    BY <2>1, <2>6, <2>7, <2>8 DEF SameCalls, SameSubagent, u
<1> QED
  BY <1>1, <1>2

\* The record of what has been said does not show.
LEMMA EmitTextKeeps ==
  ASSUME NEW tr \in Translators, NEW text \in Text, NEW partial \in BOOLEAN
  PROVE  LET u == EmitText(tr, text, partial)
         IN /\ Says(tr, u) /\ SameCalls(tr, u) /\ SameSubagent(tr, u)
            /\ \A s0 \in States : \A live, whole : Good(s0, tr, live, whole) => Good(s0, u, live, whole)
<1> DEFINE r == CloseReasoning(tr)
           o == OpenText(r)
           delta == Delta(o.prevText, text)
           c == Content(o, "text", o.msg, delta)
           n == [c EXCEPT !.prevText = c.prevText \o delta]
           u == IF partial THEN n ELSE CloseText(c)
<1>1. /\ Says(tr, r) /\ SameCalls(tr, r) /\ SameSubagent(tr, r) /\ r.reasoning = None /\ r \in Translators
      /\ \A s0 \in States : \A live, whole : Good(s0, tr, live, whole) => Good(s0, r, live, whole)
  BY CloseReasoningFacts, CloseReasoningKeeps DEF Says
<1> HIDE DEF r
<1>2. /\ Says(r, o) /\ SameCalls(r, o) /\ SameSubagent(r, o) /\ o.msg # None /\ o.msg \in Nat
      /\ o \in Translators
      /\ \A s0 \in States : \A live, whole : Good(s0, r, live, whole) => Good(s0, o, live, whole)
  BY <1>1, OpenTextKeeps DEF Says
<1> HIDE DEF o
<1>3. delta \in Text /\ o.prevText \o delta \in Text
  BY <1>2, Fields, DeltaIsText
<1> HIDE DEF delta
<1>4. IsOpen(o, [kind |-> "text", id |-> o.msg]) /\ "text" \in Protocol!Kinds
  BY <1>2, Kinds DEF IsOpen
<1>5. /\ Says(o, c) /\ SameMessage(o, c) /\ SameCalls(o, c) /\ SameSubagent(o, c) /\ c \in Translators
      /\ c.prevText = o.prevText
      /\ \A s0 \in States : \A live, whole : Good(s0, o, live, whole) => Good(s0, c, live, whole)
  BY <1>2, <1>3, <1>4, ContentKeeps DEF Says
<1> HIDE DEF c
<1>6. n \in Translators
  BY <1>3, <1>5 DEF Translators
<1>7. /\ n.out = c.out /\ n.known = c.known /\ n.byName = c.byName
      /\ n.msg = c.msg /\ n.reasoning = c.reasoning /\ n.step = c.step /\ n.next = c.next
      /\ n.started = c.started /\ n.opened = c.opened /\ n.run = c.run /\ n.author = c.author
  BY <1>5 DEF Translators
<1> HIDE DEF n
<1>8. Says(c, n) /\ SameCalls(c, n) /\ SameSubagent(c, n)
  BY <1>6, <1>7 DEF Says, SameCalls, SameSubagent
<1>9. \A b : IsOpen(n, b) <=> IsOpen(c, b)
  BY <1>7 DEF IsOpen
<1>10. \A s0 \in States : \A live, whole : Good(s0, c, live, whole) => Good(s0, n, live, whole)
  BY <1>6, <1>7, <1>9, GoodSame
<1>11. /\ Says(c, u) /\ SameCalls(c, u) /\ SameSubagent(c, u)
       /\ \A s0 \in States : \A live, whole : Good(s0, c, live, whole) => Good(s0, u, live, whole)
  <2>1. Says(c, c) /\ SameCalls(c, c) /\ SameSubagent(c, c)
    BY <1>5, <1>6 DEF Says, SameCalls, SameSubagent
  <2> QED
    BY <1>5, <1>6, <1>8, <1>10, <2>1, CloseTextFacts, CloseTextKeeps
<1>12. u = EmitText(tr, text, partial)
  BY <1>5 DEF EmitText, u, n, c, delta, o, r
<1> HIDE DEF u
<1>13. Says(tr, u)
  BY <1>1, <1>2, <1>5, <1>8, <1>11, SaysTrans
<1>14. SameCalls(tr, u) /\ SameSubagent(tr, u)
  BY <1>1, <1>2, <1>5, <1>8, <1>11 DEF SameCalls, SameSubagent
<1> QED
  BY <1>1, <1>2, <1>5, <1>10, <1>11, <1>12, <1>13, <1>14

\* The record of what has been said does not show.
LEMMA EmitThoughtKeeps ==
  ASSUME NEW tr \in Translators, NEW text \in Text, NEW partial \in BOOLEAN
  PROVE  LET u == EmitThought(tr, text, partial)
         IN /\ Says(tr, u) /\ SameCalls(tr, u) /\ SameSubagent(tr, u)
            /\ \A s0 \in States : \A live, whole : Good(s0, tr, live, whole) => Good(s0, u, live, whole)
<1> DEFINE r == CloseText(tr)
           o == OpenReasoning(r)
           delta == Delta(o.prevThought, text)
           c == Content(o, "reasoning", o.reasoning, delta)
           n == [c EXCEPT !.prevThought = c.prevThought \o delta]
           u == IF partial THEN n ELSE CloseReasoning(n)
<1>1. /\ Says(tr, r) /\ SameCalls(tr, r) /\ SameSubagent(tr, r) /\ r.msg = None /\ r \in Translators
      /\ \A s0 \in States : \A live, whole : Good(s0, tr, live, whole) => Good(s0, r, live, whole)
  BY CloseTextFacts, CloseTextKeeps DEF Says
<1> HIDE DEF r
<1>2. /\ Says(r, o) /\ SameCalls(r, o) /\ SameSubagent(r, o) /\ o.reasoning # None /\ o.reasoning \in Nat
      /\ o \in Translators
      /\ \A s0 \in States : \A live, whole : Good(s0, r, live, whole) => Good(s0, o, live, whole)
  BY <1>1, OpenReasoningKeeps DEF Says
<1> HIDE DEF o
<1>3. delta \in Text /\ o.prevThought \o delta \in Text
  BY <1>2, Fields, DeltaIsText
<1> HIDE DEF delta
<1>4. IsOpen(o, [kind |-> "reasoning", id |-> o.reasoning]) /\ "reasoning" \in Protocol!Kinds
  BY <1>2, Kinds DEF IsOpen
<1>5. /\ Says(o, c) /\ SameMessage(o, c) /\ SameCalls(o, c) /\ SameSubagent(o, c) /\ c \in Translators
      /\ c.prevThought = o.prevThought
      /\ \A s0 \in States : \A live, whole : Good(s0, o, live, whole) => Good(s0, c, live, whole)
  BY <1>2, <1>3, <1>4, ContentKeeps DEF Says
<1> HIDE DEF c
<1>6. n \in Translators
  BY <1>3, <1>5 DEF Translators
<1>7. /\ n.out = c.out /\ n.known = c.known /\ n.byName = c.byName
      /\ n.msg = c.msg /\ n.reasoning = c.reasoning /\ n.step = c.step /\ n.next = c.next
      /\ n.started = c.started /\ n.opened = c.opened /\ n.run = c.run /\ n.author = c.author
  BY <1>5 DEF Translators
<1> HIDE DEF n
<1>8. Says(c, n) /\ SameCalls(c, n) /\ SameSubagent(c, n)
  BY <1>6, <1>7 DEF Says, SameCalls, SameSubagent
<1>9. \A b : IsOpen(n, b) <=> IsOpen(c, b)
  BY <1>7 DEF IsOpen
<1>10. \A s0 \in States : \A live, whole : Good(s0, c, live, whole) => Good(s0, n, live, whole)
  BY <1>6, <1>7, <1>9, GoodSame
<1>11. /\ Says(n, u) /\ SameCalls(n, u) /\ SameSubagent(n, u)
       /\ \A s0 \in States : \A live, whole : Good(s0, n, live, whole) => Good(s0, u, live, whole)
  <2>1. Says(n, n) /\ SameCalls(n, n) /\ SameSubagent(n, n)
    BY <1>5, <1>6 DEF Says, SameCalls, SameSubagent
  <2> QED
    BY <1>5, <1>6, <1>8, <1>10, <2>1, CloseReasoningFacts, CloseReasoningKeeps
<1>12. u = EmitThought(tr, text, partial)
  BY <1>5 DEF EmitThought, u, n, c, delta, o, r
<1> HIDE DEF u
<1>13. Says(tr, u)
  BY <1>1, <1>2, <1>5, <1>8, <1>11, SaysTrans
<1>14. SameCalls(tr, u) /\ SameSubagent(tr, u)
  BY <1>1, <1>2, <1>5, <1>8, <1>11 DEF SameCalls, SameSubagent
<1> QED
  BY <1>1, <1>2, <1>5, <1>10, <1>11, <1>12, <1>13, <1>14
-----------------------------------------------------------------------------
(* Tool calls.                                                             *)

Calls == [id : Nat, tool : Tools \cup {Nameless}, deltas : Text]

\* Results that are given back find their calls, as far as they did before.
Tells(tr, u) ==
  /\ u \in Translators /\ tr.known \subseteq u.known
  /\ Matching(tr.out) => Matching(u.out)

\* Tells goes from method to method.
LEMMA TellsTrans ==
  ASSUME NEW tr, NEW u, NEW v, Tells(tr, u), Tells(u, v)
  PROVE  Tells(tr, v)
BY DEF Tells

\* What says nothing about calls keeps what is known of them.
LEMMA SaysTells ==
  ASSUME NEW tr, NEW u, Says(tr, u)
  PROVE  Tells(tr, u)
BY DEF Says, Tells

\* A call without an id gets one that is not taken; any other keeps its own.
LEMMA NumberedKeeps ==
  ASSUME NEW tr \in Translators, NEW c \in Calls
  PROVE  LET u == Numbered(tr, c)
             k == Identified(tr, c)
         IN /\ k \in Calls /\ k.tool = c.tool /\ k.deltas = c.deltas /\ (~Anonymous(c) => k = c)
            /\ Anonymous(c) => k.id > MaxAnswers
            /\ Says(tr, u) /\ u \in Translators /\ SameCalls(tr, u) /\ SameSubagent(tr, u)
            /\ u.hadArgs = tr.hadArgs
            /\ \A s0 \in States : \A live, whole : Good(s0, tr, live, whole) =>
                 /\ Good(s0, u, live, whole)
                 /\ Anonymous(c) => Good(s0, u, live \cup {k.id}, whole \cup {k.id}) /\ k.id \notin live
<1> DEFINE u == Numbered(tr, c)
           k == Identified(tr, c)
           id == MaxAnswers + tr.next
<1>1. CASE ~Anonymous(c)
  BY <1>1 DEF Numbered, Identified, Says, SameCalls, SameSubagent
<1>2. CASE Anonymous(c)
  <2>1. MaxAnswers \in Nat /\ tr.next \in Nat \ {0} /\ tr.next + 1 \in Nat \ {0} /\ id \in Nat /\ id > MaxAnswers
    BY Fields, EventTranslatorAssumption
  <2>2. k = [c EXCEPT !.id = id] /\ u = [tr EXCEPT !.next = tr.next + 1]
    BY <1>2 DEF Numbered, Identified, Fresh, Translators
  <2>3. k \in Calls /\ k.id = id /\ k.tool = c.tool /\ k.deltas = c.deltas
    BY <2>1, <2>2 DEF Calls
  <2>4. u \in Translators
    BY <2>1, <2>2 DEF Translators
  <2>5. /\ u.out = tr.out /\ u.known = tr.known /\ u.byName = tr.byName
        /\ u.msg = tr.msg /\ u.reasoning = tr.reasoning /\ u.step = tr.step /\ u.next = tr.next + 1
        /\ u.started = tr.started /\ u.opened = tr.opened /\ u.run = tr.run /\ u.author = tr.author
        /\ u.hadArgs = tr.hadArgs
    BY <2>2 DEF Translators
  <2> HIDE DEF u, k, id
  <2>6. \A b : IsOpen(u, b) <=> IsOpen(tr, b)
    BY <2>5 DEF IsOpen
  <2>7. ~Taken(tr, id) /\ Taken(u, id) /\ \A i \in Nat : Taken(tr, i) => Taken(u, i)
    BY <2>1, <2>5 DEF Taken, id
  <2>8. ASSUME NEW s0 \in States, NEW live, NEW whole, Good(s0, tr, live, whole)
        PROVE  Good(s0, u, live \cup {id}, whole \cup {id}) /\ id \notin live
    <3>1. PICK s \in States : Legal(s0, tr.out, s) /\ Shows(tr, s, live)
      BY <2>8 DEF Good
    <3>2. tr.started \subseteq Nat /\ tr.opened \subseteq Nat /\ \A b \in s.begun : b.id \in Nat
      BY Fields DEF States, Blocks
    <3>3. id \notin live /\ id \notin tr.started /\ id \notin tr.opened /\ [kind |-> "tool", id |-> id] \notin s.begun
      BY <2>7, <3>1 DEF Shows
    <3>4. \A b \in s.begun : b.kind \in {"text", "reasoning", "subagent"} => b.id < u.next
      BY <2>1, <2>5, <3>1, <3>2 DEF Shows
    <3>5. \A i \in live : Taken(u, i)
      <4>1. \A i \in live : Taken(tr, i)
        BY <3>1 DEF Shows
      <4> QED
        BY <2>5, <4>1, <2>1 DEF Taken
    <3>6. Shows(u, s, live \cup {id})
      BY <2>5, <2>6, <2>7, <3>1, <3>2, <3>3, <3>4, <3>5 DEF Shows
    <3>7. (whole \cup {id}) \cap (u.started \cup u.opened) = {} /\ IsFiniteSet(u.opened)
      BY <2>5, <2>8, <3>3 DEF Good
    <3> QED
      BY <2>4, <2>5, <3>1, <3>3, <3>6, <3>7 DEF Good
  <2>9. ASSUME NEW s0 \in States, NEW live, NEW whole, Good(s0, tr, live, whole)
        PROVE  Good(s0, u, live, whole)
    <3>1. live \subseteq live \cup {id} /\ whole \subseteq whole \cup {id}
      OBVIOUS
    <3> QED
      BY <2>8, <2>9, <3>1, GoodLess
  <2>10. Says(tr, u) /\ SameCalls(tr, u) /\ SameSubagent(tr, u)
    BY <2>4, <2>5 DEF Says, SameCalls, SameSubagent
  <2> QED
    BY <1>2, <2>1, <2>3, <2>4, <2>5, <2>8, <2>9, <2>10 DEF u, k, id
<1> QED
  BY <1>1, <1>2

\* toolCallIDs gets the call: the response to one with an id will be found.
LEMMA RememberKeeps ==
  ASSUME NEW tr \in Translators, NEW c \in Calls, NEW id \in Nat
  PROVE  LET u == Remember(tr, c, id)
         IN /\ u \in Translators /\ (~Anonymous(c) => id \in u.known) /\ SameCalls(tr, u) /\ SameSubagent(tr, u)
            /\ u.hadArgs = tr.hadArgs /\ Tells(tr, u)
            /\ \A s0 \in States : \A live, whole : Good(s0, tr, live, whole) => Good(s0, u, live, whole)
<1> DEFINE u == Remember(tr, c, id)
           ids == IF Anonymous(c) THEN tr.known ELSE tr.known \cup {id}
           names == IF c.tool = Nameless THEN tr.byName ELSE [tr.byName EXCEPT ![c.tool] = id]
<1>1. c.tool \in Tools \cup {Nameless}
  BY DEF Calls
<1>2. u = [tr EXCEPT !.known = ids, !.byName = names]
  BY DEF Remember, Translators
<1>3. names \in [Tools -> Nat]
  BY <1>1, Fields
<1>4. ids \subseteq Nat /\ tr.known \subseteq ids /\ (~Anonymous(c) => id \in ids)
  BY Fields
<1> HIDE DEF u, names, ids
<1>5. u \in Translators
  BY <1>2, <1>3, <1>4 DEF Translators
<1>6. /\ u.out = tr.out /\ u.known = ids /\ u.byName = names
      /\ u.msg = tr.msg /\ u.reasoning = tr.reasoning /\ u.step = tr.step /\ u.next = tr.next
      /\ u.started = tr.started /\ u.opened = tr.opened /\ u.run = tr.run /\ u.author = tr.author
      /\ u.hadArgs = tr.hadArgs
  BY <1>2 DEF Translators
<1>8. Tells(tr, u)
  BY <1>4, <1>5, <1>6 DEF Tells
<1>9. \A b : IsOpen(u, b) <=> IsOpen(tr, b)
  BY <1>6 DEF IsOpen
<1>10. \A s0 \in States : \A live, whole : Good(s0, tr, live, whole) => Good(s0, u, live, whole)
  BY <1>5, <1>6, <1>9, GoodSame
<1> QED
  BY <1>4, <1>5, <1>6, <1>8, <1>10 DEF SameCalls, SameSubagent, u

\* A call begins as "id" in place of "own".
InPlace(live, whole, own, id) == live \ {own} \subseteq (live \cup {id}) \ {id} /\ whole \ {own} \subseteq whole \ {id}

\* The two together: the call may begin under the id the client knows it by.
LEMMA NotedKeeps ==
  ASSUME NEW tr \in Translators, NEW c \in Calls
  PROVE  LET u == Noted(tr, c)
             id == Identified(tr, c).id
         IN /\ u \in Translators /\ (~Anonymous(c) => c.id \in u.known) /\ SameCalls(tr, u) /\ SameSubagent(tr, u)
            /\ u.hadArgs = tr.hadArgs /\ Tells(tr, u)
            /\ \A s0 \in States : \A live, whole : Good(s0, tr, live, whole) => Good(s0, u, live, whole)
            /\ \A s0 \in States : \A live, whole :
                 Good(s0, tr, live, whole) /\ c.id \in live /\ whole \subseteq Own =>
                   /\ Good(s0, u, live \cup {id}, whole)
                   /\ c.id \in whole => Good(s0, u, live \cup {id}, whole \cup {id})
                   /\ c.id \notin whole => id \notin whole
                   /\ InPlace(live, whole, c.id, id)
<1> DEFINE m == Numbered(tr, c)
           id == Identified(tr, c).id
           u == Noted(tr, c)
<1>1. /\ id \in Nat /\ (~Anonymous(c) => id = c.id) /\ (Anonymous(c) => id > MaxAnswers)
      /\ Says(tr, m) /\ m \in Translators /\ SameCalls(tr, m) /\ SameSubagent(tr, m) /\ m.hadArgs = tr.hadArgs
      /\ \A s0 \in States : \A live, whole : Good(s0, tr, live, whole) =>
           /\ Good(s0, m, live, whole)
           /\ Anonymous(c) => Good(s0, m, live \cup {id}, whole \cup {id}) /\ id \notin live
  BY NumberedKeeps DEF Calls
<1>2. u = Remember(m, c, id)
  BY DEF Noted
<1> HIDE DEF m, id, u
<1>3. /\ u \in Translators /\ (~Anonymous(c) => id \in u.known) /\ SameCalls(m, u) /\ SameSubagent(m, u)
      /\ u.hadArgs = m.hadArgs /\ Tells(m, u)
      /\ \A s0 \in States : \A live, whole : Good(s0, m, live, whole) => Good(s0, u, live, whole)
  BY <1>1, <1>2, RememberKeeps
<1>4. Tells(tr, u) /\ SameCalls(tr, u) /\ SameSubagent(tr, u) /\ u.hadArgs = tr.hadArgs
  BY <1>1, <1>3, SaysTells, TellsTrans DEF SameCalls, SameSubagent
<1>5. ASSUME NEW s0 \in States, NEW live, NEW whole, Good(s0, tr, live, whole), c.id \in live, whole \subseteq Own
      PROVE  /\ Good(s0, u, live \cup {id}, whole)
             /\ c.id \in whole => Good(s0, u, live \cup {id}, whole \cup {id})
             /\ c.id \notin whole => id \notin whole
             /\ InPlace(live, whole, c.id, id)
  <2>1. CASE ~Anonymous(c)
    <3>1. live \cup {id} = live /\ (c.id \in whole => whole \cup {id} = whole)
      BY <1>1, <1>5, <2>1
    <3> QED
      BY <1>1, <1>3, <1>5, <2>1, <3>1 DEF InPlace
  <2>2. CASE Anonymous(c)
    <3>1. id \notin whole /\ whole \subseteq whole \cup {id}
      BY <1>1, <1>5, <2>2, EventTranslatorAssumption DEF Own
    <3>2. Good(s0, u, live \cup {id}, whole \cup {id}) /\ id \notin live
      BY <1>1, <1>3, <1>5, <2>2
    <3>3. Good(s0, u, live \cup {id}, whole)
      BY <3>1, <3>2, GoodLess
    <3>4. InPlace(live, whole, c.id, id)
      BY <3>1, <3>2 DEF InPlace
    <3> QED
      BY <3>1, <3>2, <3>3, <3>4
  <2> QED
    BY <2>1, <2>2
<1> QED
  BY <1>1, <1>3, <1>4, <1>5 DEF u, id

\* A call begins.  What streams is remembered as started, what comes whole is not.
Opening(tr, id) == [Emit(tr, "start", "tool", id, <<>>) EXCEPT !.opened = @ \cup {id}]
Announcing(tr, id) == [Opening(tr, id) EXCEPT !.started = @ \cup {id}]

\* GoodStart for a call.
LEMMA GoodStartCall ==
  ASSUME NEW s0 \in States, NEW tr, NEW live, NEW whole, Good(s0, tr, live, whole),
         NEW id \in Nat, CanStart(tr, "tool", id, live),
         NEW u \in Translators, u.out = tr.out \o <<Event("start", "tool", id, tr.run, <<>>)>>,
         \A b \in Blocks : IsOpen(u, b) <=> IsOpen(tr, b) \/ b = [kind |-> "tool", id |-> id],
         u.next >= tr.next, u.started = tr.started \/ u.started = tr.started \cup {id},
         whole \cap (u.started \cup u.opened) = {}, IsFiniteSet(u.opened),
         NEW left, left \subseteq live, \A i \in left : i \in u.started => i \in u.opened,
         "tool" = "tool" /\ id \in left => id \in u.started
  PROVE  Good(s0, u, left, whole)
<1> DEFINE kind == "tool"
<1>1. /\ kind \in Protocol!Kinds /\ tr.run \in {Base, tr.run} /\ CanStart(tr, kind, id, live)
      /\ u.out = tr.out \o <<Event("start", kind, id, tr.run, <<>>)>>
      /\ \A b \in Blocks : IsOpen(u, b) <=> IsOpen(tr, b) \/ b = [kind |-> kind, id |-> id]
      /\ kind \in {"text", "reasoning", "subagent"} => id < u.next
      /\ StartedBy(tr, u, kind, id)
      /\ kind = "tool" /\ id \in left => id \in u.started
  BY Kinds DEF StartedBy
<1> HIDE DEF kind
<1> QED
  BY <1>1, GoodStart, ZenonT(120)

\* TOOL_CALL_START of a call that is still to come: it is open.
LEMMA OpeningKeeps ==
  ASSUME NEW tr \in Translators, NEW id \in Nat
  PROVE  LET u == Opening(tr, id)
             v == Announcing(tr, id)
         IN /\ Says(tr, u) /\ SameSubagent(tr, u) /\ IsOpen(u, [kind |-> "tool", id |-> id])
            /\ u.opened = tr.opened \cup {id} /\ u.started = tr.started /\ u.hadArgs = tr.hadArgs
            /\ Says(tr, v) /\ SameSubagent(tr, v) /\ IsOpen(v, [kind |-> "tool", id |-> id])
            /\ v.opened = tr.opened \cup {id} /\ v.started = tr.started \cup {id} /\ v.hadArgs = tr.hadArgs
            /\ \A s0 \in States : \A live, whole :
                 Good(s0, tr, live, whole) /\ id \in live /\ id \notin tr.started =>
                   /\ Good(s0, u, live \ {id}, whole \ {id})
                   /\ Good(s0, v, live, whole \ {id})
<1> DEFINE e == Event("start", "tool", id, tr.run, <<>>)
           u == Opening(tr, id)
           v == Announcing(tr, id)
<1>1. e \in Events /\ e.op = "start"
  BY Fields, EmptyText, EventType, Kinds DEF Event
<1>2. /\ u = [tr EXCEPT !.out = tr.out \o <<e>>, !.opened = tr.opened \cup {id}]
      /\ v = [tr EXCEPT !.out = tr.out \o <<e>>, !.opened = tr.opened \cup {id}, !.started = tr.started \cup {id}]
  BY DEF Opening, Announcing, Emit, EmitAs, EmitAll, Translators
<1>3. tr.out \o <<e>> \in Seq(Events)
  BY <1>1, Emitted
<1> HIDE DEF e, u, v
<1>4. u \in Translators /\ v \in Translators
  <2>1. tr.opened \cup {id} \subseteq Nat /\ tr.started \cup {id} \subseteq Nat
    BY Fields
  <2> QED
    BY <1>2, <1>3, <2>1 DEF Translators
<1>5. /\ u.out = tr.out \o <<e>> /\ u.known = tr.known /\ u.byName = tr.byName
      /\ u.msg = tr.msg /\ u.reasoning = tr.reasoning /\ u.step = tr.step /\ u.next = tr.next
      /\ u.started = tr.started /\ u.opened = tr.opened \cup {id} /\ u.run = tr.run /\ u.author = tr.author
      /\ u.hadArgs = tr.hadArgs
  BY <1>2 DEF Translators
<1>6. /\ v.out = tr.out \o <<e>> /\ v.known = tr.known /\ v.byName = tr.byName
      /\ v.msg = tr.msg /\ v.reasoning = tr.reasoning /\ v.step = tr.step /\ v.next = tr.next
      /\ v.started = tr.started \cup {id} /\ v.opened = tr.opened \cup {id} /\ v.run = tr.run /\ v.author = tr.author
      /\ v.hadArgs = tr.hadArgs
  BY <1>2 DEF Translators
<1>7. Says(tr, u) /\ Says(tr, v)
  BY <1>1, <1>4, <1>5, <1>6, SaysOne
<1>8. IsOpen(u, [kind |-> "tool", id |-> id]) /\ IsOpen(v, [kind |-> "tool", id |-> id])
  BY <1>5, <1>6 DEF IsOpen
<1>9. ASSUME NEW s0 \in States, NEW live, NEW whole,
             Good(s0, tr, live, whole), id \in live, id \notin tr.started
      PROVE  Good(s0, u, live \ {id}, whole \ {id}) /\ Good(s0, v, live, whole \ {id})
  <2> DEFINE rest == whole \ {id}
  <2>1. /\ Good(s0, tr, live, rest) /\ IsFiniteSet(tr.opened) /\ rest \cap (tr.started \cup tr.opened) = {}
        /\ \A i \in live : i \in tr.started => i \in tr.opened
    BY <1>9, GoodLess DEF Good, Shows
  <2>2. rest \cap (tr.started \cup tr.opened \cup {id}) = {}
    BY <2>1
  <2> HIDE DEF rest
  <2>3. CanStart(tr, "tool", id, live)
    BY <1>9 DEF CanStart
  <2>4. \A w : w \in {u, v} => \A b \in Blocks : IsOpen(w, b) <=> IsOpen(tr, b) \/ b = [kind |-> "tool", id |-> id]
    BY <1>5, <1>6 DEF IsOpen, Blocks
  <2>5. IsFiniteSet(tr.opened \cup {id})
    BY <2>1, FS_AddElement
  <2>6. /\ "tool" \in Protocol!Kinds /\ tr.run \in {Base, tr.run} /\ tr.next >= tr.next
        /\ "tool" \notin {"text", "reasoning", "subagent"}
    BY Kinds, Fields
  <2> DEFINE left == live \ {id}
  <2>7. Good(s0, u, left, rest)
    <3>1. /\ left \subseteq live /\ ("tool" = "tool" /\ id \in left => id \in u.started)
          /\ \A i \in left : i \in u.started => i \in u.opened
      BY <1>5, <2>1
    <3>4. u.out = tr.out \o <<Event("start", "tool", id, tr.run, <<>>)>>
      BY <1>5 DEF e
    <3>2. IsFiniteSet(u.opened) /\ rest \cap (u.started \cup u.opened) = {} /\ u.started = tr.started
      BY <1>5, <2>2, <2>5
    <3>3. u.next >= tr.next /\ \A b \in Blocks : IsOpen(u, b) <=> IsOpen(tr, b) \/ b = [kind |-> "tool", id |-> id]
      BY <1>5, <2>4, <2>6
    <3> HIDE DEF left
    <3> QED
      BY <1>4, <2>1, <2>3, <2>6, <3>1, <3>2, <3>3, <3>4, GoodStartCall
  <2>8. Good(s0, v, live, rest)
    <3>1. /\ live \subseteq live /\ ("tool" = "tool" /\ id \in live => id \in v.started)
          /\ \A i \in live : i \in v.started => i \in v.opened
      BY <1>6, <2>1
    <3>4. v.out = tr.out \o <<Event("start", "tool", id, tr.run, <<>>)>>
      BY <1>6 DEF e
    <3>2. IsFiniteSet(v.opened) /\ rest \cap (v.started \cup v.opened) = {} /\ v.started = tr.started \cup {id}
      BY <1>6, <2>2, <2>5
    <3>3. v.next >= tr.next /\ \A b \in Blocks : IsOpen(v, b) <=> IsOpen(tr, b) \/ b = [kind |-> "tool", id |-> id]
      BY <1>6, <2>4, <2>6
    <3> QED
      BY <1>4, <2>1, <2>3, <2>6, <3>1, <3>2, <3>3, <3>4, GoodStartCall
  <2> QED
    BY <2>7, <2>8 DEF rest, left
<1> QED
  BY <1>5, <1>6, <1>7, <1>8, <1>9 DEF SameSubagent, u, v

\* GoodEnd for a call.
LEMMA GoodEndCall ==
  ASSUME NEW s0 \in States, NEW tr, NEW live, NEW whole, Good(s0, tr, live, whole),
         NEW id \in Nat, IsOpen(tr, [kind |-> "tool", id |-> id]),
         NEW u \in Translators, u.out = tr.out \o <<Event("end", "tool", id, tr.run, <<>>)>>,
         \A b \in Blocks : IsOpen(u, b) <=> IsOpen(tr, b) /\ b # [kind |-> "tool", id |-> id],
         u.next = tr.next, u.started = tr.started,
         NEW left, left \subseteq live, id \notin left
  PROVE  Good(s0, u, left, whole)
<1>1. "tool" \in Protocol!Kinds /\ tr.run \in {Base, tr.run} /\ ("tool" = "tool" => id \notin left)
  BY Kinds
<1> QED
  BY <1>1, GoodEnd, ZenonT(60)

\* TOOL_CALL_END of a call that is open, and is not to come any more.
LEMMA EndCallKeeps ==
  ASSUME NEW tr \in Translators, NEW id \in Nat
  PROVE  LET u == EndCall(tr, id)
         IN /\ Says(tr, u) /\ SameSubagent(tr, u)
            /\ u.opened = tr.opened \ {id} /\ u.started = tr.started
            /\ \A s0 \in States : \A live, whole :
                 Good(s0, tr, live, whole) /\ id \in tr.opened => Good(s0, u, live \ {id}, whole)
<1> DEFINE e == Event("end", "tool", id, tr.run, <<>>)
           u == EndCall(tr, id)
<1>1. e \in Events /\ e.op = "end"
  BY Fields, EmptyText, EventType, Kinds DEF Event
<1>2. u = [tr EXCEPT !.out = tr.out \o <<e>>, !.opened = tr.opened \ {id}, !.hadArgs = tr.hadArgs \ {id}]
  BY DEF EndCall, Emit, EmitAs, EmitAll, Translators
<1>3. tr.out \o <<e>> \in Seq(Events) /\ tr.opened \ {id} \subseteq Nat /\ tr.hadArgs \ {id} \subseteq Nat
  BY <1>1, Emitted, Fields
<1>4. u.out = tr.out \o <<Event("end", "tool", id, tr.run, <<>>)>>
  BY <1>2 DEF Translators
<1> HIDE DEF e, u
<1>5. u \in Translators
  BY <1>2, <1>3 DEF Translators
<1>6. /\ u.out = tr.out \o <<e>> /\ u.known = tr.known /\ u.byName = tr.byName
      /\ u.msg = tr.msg /\ u.reasoning = tr.reasoning /\ u.step = tr.step /\ u.next = tr.next
      /\ u.started = tr.started /\ u.opened = tr.opened \ {id} /\ u.run = tr.run /\ u.author = tr.author
  BY <1>2 DEF Translators
<1>7. Says(tr, u)
  BY <1>1, <1>5, <1>6, SaysOne
<1>8. \A b \in Blocks : IsOpen(u, b) <=> IsOpen(tr, b) /\ b # [kind |-> "tool", id |-> id]
  BY <1>6 DEF IsOpen, Blocks
<1>9. ASSUME NEW s0 \in States, NEW live, NEW whole, Good(s0, tr, live, whole), id \in tr.opened
      PROVE  Good(s0, u, live \ {id}, whole)
  <2> DEFINE left == live \ {id}
  <2>1. IsOpen(tr, [kind |-> "tool", id |-> id]) /\ tr.run \in {Base, tr.run} /\ "tool" \in Protocol!Kinds
    BY <1>9, Kinds DEF IsOpen
  <2>2. left \subseteq live /\ ("tool" = "tool" => id \notin left)
    OBVIOUS
  <2> HIDE DEF left
  <2>3. Good(s0, u, left, whole)
    BY <1>4, <1>5, <1>6, <1>8, <1>9, <2>1, <2>2, GoodEndCall
  <2> QED
    BY <2>3 DEF left
<1> QED
  BY <1>6, <1>7, <1>9 DEF SameSubagent, u

\* A call whose arguments stream: it is announced once, and goes on.
LEMMA EmitPartialCallKeeps ==
  ASSUME NEW tr \in Translators, NEW c \in Calls
  PROVE  LET u == EmitPartialCall(tr, c)
         IN /\ Says(tr, u) /\ SameSubagent(tr, u)
            /\ \A s0 \in States : \A live, whole :
                 Good(s0, tr, live, whole) /\ c.id \in live \ whole => Good(s0, u, live, whole)
<1> DEFINE id == c.id
           a == IF id \in tr.started THEN tr ELSE Announcing(tr, id)
           more == [i \in 1..Len(c.deltas) |-> Event("content", "tool", id, tr.run, <<c.deltas[i]>>)]
           had == IF c.deltas = <<>> THEN a.hadArgs ELSE a.hadArgs \cup {id}
           u == [a EXCEPT !.out = a.out \o more, !.hadArgs = had]
<1>1. id \in Nat /\ c.deltas \in Text /\ Len(c.deltas) \in Nat
  BY LenProperties DEF Calls, Text
<1>2. /\ Says(tr, a) /\ SameSubagent(tr, a) /\ a \in Translators
      /\ id \in tr.started => a = tr
      /\ id \notin tr.started => a.opened = tr.opened \cup {id}
  BY <1>1, OpeningKeeps DEF Says, SameSubagent
<1>3. ASSUME NEW s0 \in States, NEW live, NEW whole, Good(s0, tr, live, whole), id \in live \ whole
      PROVE  Good(s0, a, live, whole) /\ id \in a.opened
  <2>1. CASE id \in tr.started
    <3>1. id \in tr.opened
      BY <1>3, <2>1 DEF Good, Shows
    <3> QED
      BY <1>2, <1>3, <2>1, <3>1
  <2>2. CASE id \notin tr.started
    <3>1. Good(s0, a, live, whole \ {id})
      BY <1>1, <1>3, <2>2, OpeningKeeps
    <3>2. whole \ {id} = whole
      BY <1>3
    <3> QED
      BY <1>2, <2>2, <3>1, <3>2
  <2> QED
    BY <2>1, <2>2
<1>4. u = EmitPartialCall(tr, c)
  <2>1. /\ Announcing(tr, id) = [Emit(tr, "start", "tool", id, <<>>) EXCEPT !.started = @ \cup {id}, !.opened = @ \cup {id}]
    BY DEF Announcing, Opening, Emit, EmitAs, EmitAll, Translators
  <2> QED
    BY <1>2, <2>1 DEF EmitPartialCall, EmitAll, Translators
<1> HIDE DEF a
<1>5. ASSUME NEW i \in 1..Len(c.deltas)
      PROVE  Event("content", "tool", id, tr.run, <<c.deltas[i]>>) \in Events
  <2>1. c.deltas[i] \in STRING
    BY <1>1, ElementOfSeq DEF Text
  <2>2. <<c.deltas[i]>> \in Text /\ tr.run \in Nat
    BY <2>1, Fields DEF Text
  <2> QED
    BY <1>1, <2>2, EventType, Kinds
<1>6. more \in Seq(Events) /\ Len(more) = Len(c.deltas)
  BY <1>1, <1>5, SeqFrom
<1>7. \A i \in 1..Len(more) :
        /\ more[i].op = "content" /\ more[i].run = tr.run
        /\ Block(more[i]) = [kind |-> "tool", id |-> id]
  BY <1>6 DEF Event, Block, Protocol!Block
<1> HIDE DEF more
<1>8. had \subseteq Nat /\ a.out \o more \in Seq(Events)
  BY <1>1, <1>2, <1>6, Fields, ConcatProperties
<1> HIDE DEF had
<1>9. u \in Translators
  BY <1>2, <1>8 DEF Translators
<1>10. /\ u.out = a.out \o more /\ u.known = a.known /\ u.byName = a.byName
       /\ u.msg = a.msg /\ u.reasoning = a.reasoning /\ u.step = a.step /\ u.next = a.next
       /\ u.started = a.started /\ u.opened = a.opened /\ u.run = a.run /\ u.author = a.author
  BY <1>2 DEF Translators
<1> HIDE DEF u
<1>11. \A i \in DOMAIN more : more[i].op # "result"
  BY <1>6, <1>7, LenProperties
<1>12. Says(a, u)
  BY <1>2, <1>6, <1>9, <1>10, <1>11, SaysMore
<1>13. Says(tr, u) /\ SameSubagent(tr, u)
  BY <1>2, <1>10, <1>12, SaysTrans DEF SameSubagent
<1>14. ASSUME NEW s0 \in States, NEW live, NEW whole, Good(s0, tr, live, whole), id \in live \ whole
       PROVE  Good(s0, u, live, whole)
  <2>1. Good(s0, a, live, whole) /\ IsOpen(a, [kind |-> "tool", id |-> id]) /\ a.run = tr.run
    BY <1>2, <1>3, <1>14 DEF IsOpen, SameSubagent
  <2>2. \A i \in 1..Len(more) : more[i].op = "content" /\ more[i].run = a.run /\ IsOpen(a, Block(more[i]))
    BY <1>7, <2>1
  <2>3. \A b : IsOpen(u, b) <=> IsOpen(a, b)
    BY <1>10 DEF IsOpen
  <2> QED
    BY <1>6, <1>9, <1>10, <2>1, <2>2, <2>3, GoodMore
<1> QED
  BY <1>4, <1>13, <1>14

\* Emitting leaves a translator.
LEMMA EmitType ==
  ASSUME NEW tr \in Translators, NEW op \in {"start", "content", "end"}, NEW kind \in Protocol!Kinds,
         NEW id \in Nat, NEW data \in Text
  PROVE  LET u == Emit(tr, op, kind, id, data) IN u \in Translators /\ u.hadArgs = tr.hadArgs
<1> DEFINE e == Event(op, kind, id, tr.run, data)
           u == Emit(tr, op, kind, id, data)
<1>1. e \in Events
  BY Fields, EventType
<1>2. u = [tr EXCEPT !.out = tr.out \o <<e>>]
  BY DEF Emit, EmitAs, EmitAll, Translators
<1>3. tr.out \o <<e>> \in Seq(Events)
  BY <1>1, Emitted
<1> HIDE DEF e, u
<1>4. u \in Translators /\ u.hadArgs = tr.hadArgs
  BY <1>2, <1>3 DEF Translators
<1> QED
  BY <1>4 DEF u

\* The arguments of a call are a text that is not empty.
LEMMA ArgsAreText == Args \in Text /\ Args # <<>>
BY EventTranslatorAssumption DEF Text

\* A call that comes whole, or the rest of one that streamed: it is done.  What a final event
\* begins is not put down as open; the ghost g has it so.
LEMMA EmitFinalCallKeeps ==
  ASSUME NEW tr \in Translators, NEW c \in Calls
  PROVE  LET u == EmitFinalCall(tr, c)
         IN /\ Says(tr, u) /\ SameSubagent(tr, u)
            /\ \A s0 \in States : \A live, whole :
                 Good(s0, tr, live, whole) /\ c.id \in live => Good(s0, u, live \ {c.id}, whole \ {c.id})
<1> DEFINE id == c.id
           q == [tr EXCEPT !.opened = tr.opened \cup {id}]
           g == IF id \in tr.started THEN q ELSE Opening(tr, id)
           h == IF id \in tr.hadArgs THEN g ELSE Content(g, "tool", id, Args)
           u == EndCall(h, id)
<1>1. id \in Nat
  BY DEF Calls
<1>2. /\ q \in Translators /\ q.out = tr.out /\ q.known = tr.known /\ q.byName = tr.byName
      /\ q.msg = tr.msg /\ q.reasoning = tr.reasoning /\ q.step = tr.step /\ q.next = tr.next
      /\ q.started = tr.started /\ q.opened = tr.opened \cup {id} /\ q.run = tr.run /\ q.author = tr.author
  <2>1. tr.opened \cup {id} \subseteq Nat
    BY <1>1, Fields
  <2> QED
    BY <2>1 DEF Translators
<1>3. /\ Says(tr, g) /\ SameSubagent(tr, g) /\ g \in Translators
      /\ g.opened = tr.opened \cup {id} /\ IsOpen(g, [kind |-> "tool", id |-> id])
  <2>1. CASE id \in tr.started
    BY <1>2, <2>1 DEF Says, SameSubagent, IsOpen
  <2>2. CASE id \notin tr.started
    BY <1>1, <2>2, OpeningKeeps DEF Says
  <2> QED
    BY <2>1, <2>2
<1>4. ASSUME NEW s0 \in States, NEW live, NEW whole, Good(s0, tr, live, whole), id \in live
      PROVE  Good(s0, g, live, whole \ {id}) \/ Good(s0, g, live \ {id}, whole \ {id})
  <2>1. CASE id \in tr.started
    <3>1. id \in tr.opened
      BY <1>4, <2>1 DEF Good, Shows
    <3>2. q.opened = tr.opened
      BY <1>2, <3>1
    <3>3. \A b : IsOpen(q, b) <=> IsOpen(tr, b)
      BY <1>2, <3>2 DEF IsOpen
    <3>4. Good(s0, q, live, whole)
      BY <1>2, <1>4, <3>2, <3>3, GoodSame
    <3>5. Good(s0, q, live, whole \ {id})
      BY <3>4, GoodLess
    <3> QED
      BY <2>1, <3>5
  <2>2. CASE id \notin tr.started
    BY <1>1, <1>4, <2>2, OpeningKeeps
  <2> QED
    BY <2>1, <2>2
<1>5. u = EmitFinalCall(tr, c)
  <2> DEFINE a == IF id \in tr.started THEN tr ELSE Emit(tr, "start", "tool", id, <<>>)
             w == IF id \in tr.hadArgs THEN a ELSE Emit(a, "content", "tool", id, Args)
  <2>1. a \in Translators /\ g = [a EXCEPT !.opened = @ \cup {id}] /\ a.hadArgs = tr.hadArgs
    <3>1. CASE id \in tr.started
      BY <3>1 DEF Translators
    <3>2. CASE id \notin tr.started
      <4>3. Emit(tr, "start", "tool", id, <<>>) \in Translators /\ Emit(tr, "start", "tool", id, <<>>).hadArgs = tr.hadArgs
        <5>1. "start" \in {"start", "content", "end"} /\ "tool" \in Protocol!Kinds /\ <<>> \in Text
          BY EmptyText, Kinds
        <5> QED
          BY <1>1, <5>1, EmitType, Zenon
      <4>1. a \in Translators /\ a.hadArgs = tr.hadArgs
        BY <3>2, <4>3
      <4> QED
        BY <3>2, <4>1 DEF Opening
    <3> QED
      BY <3>1, <3>2
  <2> HIDE DEF a, g
  <2>2. w \in Translators /\ h = [w EXCEPT !.opened = @ \cup {id}]
    <3>1. CASE id \in tr.hadArgs
      BY <2>1, <3>1
    <3>2. CASE id \notin tr.hadArgs
      <4>1. w \in Translators
        BY <1>1, <2>1, <3>2, EmitType, ArgsAreText, Kinds
      <4>2. Emit(g, "content", "tool", id, Args) = [Emit(a, "content", "tool", id, Args) EXCEPT !.opened = @ \cup {id}]
        BY <2>1 DEF Emit, EmitAs, EmitAll, Translators
      <4> QED
        BY <3>2, <4>1, <4>2, ArgsAreText DEF Content
    <3> QED
      BY <3>1, <3>2
  <2> HIDE DEF w, h
  <2>3. EndCall(h, id) = EndCall(w, id)
    BY <2>2 DEF EndCall, Emit, EmitAs, EmitAll, Translators
  <2> QED
    BY <2>3 DEF EmitFinalCall, w, a
<1> HIDE DEF g
<1>6. /\ Says(g, h) /\ SameSubagent(g, h) /\ h \in Translators /\ h.opened = g.opened
      /\ \A s0 \in States : \A live, whole : Good(s0, g, live, whole) => Good(s0, h, live, whole)
  <2>1. Says(g, g) /\ SameSubagent(g, g)
    BY <1>3 DEF Says, SameSubagent
  <2> QED
    BY <1>1, <1>3, <2>1, ContentKeeps, ArgsAreText, Kinds DEF Says, SameCalls
<1> HIDE DEF h
<1>7. /\ Says(h, u) /\ SameSubagent(h, u)
      /\ \A s0 \in States : \A live, whole :
           Good(s0, h, live, whole) /\ id \in h.opened => Good(s0, u, live \ {id}, whole)
  BY <1>1, <1>6, EndCallKeeps
<1> HIDE DEF u
<1>8. Says(tr, u) /\ SameSubagent(tr, u)
  BY <1>3, <1>6, <1>7, SaysTrans DEF SameSubagent
<1>9. ASSUME NEW s0 \in States, NEW live, NEW whole, Good(s0, tr, live, whole), id \in live
      PROVE  Good(s0, u, live \ {id}, whole \ {id})
  <2> DEFINE rest == whole \ {id}
             left == live \ {id}
  <2>1. id \in h.opened
    BY <1>3, <1>6
  <2>2. Good(s0, g, live, rest) \/ Good(s0, g, left, rest)
    BY <1>4, <1>9
  <2>3. left \ {id} = left
    OBVIOUS
  <2>4. Good(s0, h, live, rest) \/ Good(s0, h, left, rest)
    BY <1>6, <2>2
  <2> HIDE DEF rest
  <2>5. Good(s0, u, left, rest)
    BY <1>7, <2>1, <2>3, <2>4
  <2> QED
    BY <2>5 DEF rest
<1> QED
  BY <1>5, <1>8, <1>9

\* The response to a call that is done finds it, if the client knows of the call.
Correlates(tr, c) == c.id \in tr.known \/ c.tool = Nameless \/ Unknown(c.id)

\* The call is that of the answer with its number.
Asking(c) == c.id \in DOMAIN asked /\ c.tool = asked[c.id].tool

\* A call of the provider comes whole and leaves nothing behind.
LEMMA EmitBuiltinToolCallKeeps ==
  ASSUME NEW tr \in Translators, NEW c \in Calls, c.tool = Builtin
  PROVE  LET u == EmitBuiltinToolCall(tr, c)
         IN /\ Tells(tr, u) /\ SameSubagent(tr, u) /\ (Asking(c) => Correlates(u, c))
            /\ \A s0 \in States : \A live, whole :
                 Good(s0, tr, live, whole) /\ c.id \in live \cap whole /\ whole \subseteq Own =>
                   Good(s0, u, live \ {c.id}, whole \ {c.id})
<1> DEFINE id == Identified(tr, c).id
           r == Noted(tr, c)
           g == Opening(r, id)
           h == Content(g, "tool", id, Args)
           e == EndCall(h, id)
           u == Emit(Emit(Emit(r, "start", "tool", id, <<>>), "content", "tool", id, Args), "end", "tool", id, <<>>)
<1>1. id \in Nat
  BY NumberedKeeps DEF Calls
<1>2. /\ r \in Translators /\ (~Anonymous(c) => c.id \in r.known) /\ SameCalls(tr, r) /\ SameSubagent(tr, r)
      /\ Tells(tr, r)
      /\ \A s0 \in States : \A live, whole : Good(s0, tr, live, whole) => Good(s0, r, live, whole)
      /\ \A s0 \in States : \A live, whole :
           Good(s0, tr, live, whole) /\ c.id \in live /\ whole \subseteq Own =>
             /\ Good(s0, r, live \cup {id}, whole)
             /\ c.id \in whole => Good(s0, r, live \cup {id}, whole \cup {id})
             /\ c.id \notin whole => id \notin whole
             /\ InPlace(live, whole, c.id, id)
  BY NotedKeeps
<1> HIDE DEF r, id
<1>6. r \in Translators
  BY <1>2
<1>5. Asking(c) => Correlates(r, c)
  BY <1>2 DEF Asking, Correlates, Unknown, Anonymous
<1>3. CASE ServerSide(c.tool)
  <2>1. EmitBuiltinToolCall(tr, c) = r
    BY <1>3 DEF EmitBuiltinToolCall, r
  <2>2. ASSUME NEW s0 \in States, NEW live, NEW whole, Good(s0, tr, live, whole)
        PROVE  Good(s0, r, live \ {c.id}, whole \ {c.id})
    BY <1>2, <2>2, GoodLess
  <2> QED
    BY <1>2, <1>5, <2>1, <2>2
<1>4. CASE ~ServerSide(c.tool)
  <2>1. EmitBuiltinToolCall(tr, c) = u
    BY <1>4 DEF EmitBuiltinToolCall, r, u, id
  <2>2. /\ Says(r, g) /\ SameSubagent(r, g) /\ IsOpen(g, [kind |-> "tool", id |-> id]) /\ g \in Translators
        /\ g.opened = r.opened \cup {id} /\ g.started = r.started
        /\ \A s0 \in States : \A live, whole :
             Good(s0, r, live, whole) /\ id \in live /\ id \notin r.started => Good(s0, g, live \ {id}, whole \ {id})
    BY <1>1, <1>2, OpeningKeeps DEF Says
  <2>3. g = [Emit(r, "start", "tool", id, <<>>) EXCEPT !.opened = @ \cup {id}]
    BY DEF Opening
  <2> HIDE DEF g
  <2>4. /\ Says(g, h) /\ SameCalls(g, h) /\ SameSubagent(g, h) /\ h \in Translators
        /\ \A s0 \in States : \A live, whole : Good(s0, g, live, whole) => Good(s0, h, live, whole)
    BY <1>1, <2>2, ContentKeeps, ArgsAreText, Kinds DEF Says
  <2>5. h = Emit(g, "content", "tool", id, Args)
    BY ArgsAreText DEF Content
  <2> HIDE DEF h
  <2>6. /\ Says(h, e) /\ SameSubagent(h, e) /\ e \in Translators
        /\ e.opened = h.opened \ {id} /\ e.started = h.started
        /\ \A s0 \in States : \A live, whole :
             Good(s0, h, live, whole) /\ id \in h.opened => Good(s0, e, live \ {id}, whole)
    BY <1>1, <2>4, EndCallKeeps DEF Says
  <2>7. e.out = u.out /\ u = [r EXCEPT !.out = u.out]
    BY <1>2, <2>3, <2>5 DEF e, u, EndCall, Emit, EmitAs, EmitAll, Translators
  <2>8. /\ e.known = r.known /\ e.byName = r.byName /\ e.out = u.out
        /\ e.msg = r.msg /\ e.reasoning = r.reasoning /\ e.step = r.step
        /\ e.run = r.run /\ e.author = r.author
    BY <1>2, <2>3, <2>5, <2>7 DEF e, EndCall, Emit, EmitAs, EmitAll, Translators
  <2>9. e.next = r.next
    BY <1>2, <2>3, <2>5 DEF e, EndCall, Emit, EmitAs, EmitAll, Translators
  <2> HIDE DEF e, u
  <2>10. u.out \in Seq(Events)
    BY <2>6, <2>7, Fields
  <2>11. u \in Translators
    BY <1>6, <2>7, <2>10 DEF Translators
  <2>12. /\ u.known = r.known /\ u.byName = r.byName /\ u.started = r.started /\ u.opened = r.opened
         /\ u.msg = r.msg /\ u.reasoning = r.reasoning /\ u.step = r.step /\ u.next = r.next
         /\ u.run = r.run /\ u.author = r.author
    BY <1>2, <2>7 DEF Translators
  <2>13. Says(r, u)
    <3>1. Says(r, e)
      BY <2>2, <2>4, <2>6, SaysTrans
    <3> QED
      BY <2>7, <2>11, <2>12, <3>1 DEF Says
  <2>14. Tells(tr, u) /\ SameSubagent(tr, u) /\ (Asking(c) => Correlates(u, c))
    BY <1>2, <1>5, <2>12, <2>13, SaysTells, TellsTrans DEF SameSubagent, Correlates
  <2>15. ASSUME NEW s0 \in States, NEW live, NEW whole, Good(s0, tr, live, whole), c.id \in live, c.id \in whole,
                whole \subseteq Own
         PROVE  Good(s0, u, live \ {c.id}, whole \ {c.id})
    <3> DEFINE all == live \cup {id}
               more == whole \cup {id}
               rest == more \ {id}
               left == all \ {id}
    <3>11. Good(s0, r, all, more) /\ InPlace(live, whole, c.id, id)
      BY <1>2, <2>15
    <3>9. Good(s0, r, all, more) /\ live \ {c.id} \subseteq left /\ whole \ {c.id} \subseteq rest
      BY <3>11 DEF InPlace
    <3>10. id \in all /\ id \in more
      OBVIOUS
    <3> HIDE DEF all, more
    <3>1. id \notin r.started /\ id \notin r.opened
      BY <3>9, <3>10 DEF Good
    <3>2. Good(s0, g, left, rest)
      BY <2>2, <3>1, <3>9, <3>10
    <3>3. Good(s0, h, left, rest) /\ id \in h.opened
      BY <2>2, <2>4, <3>2 DEF SameCalls
    <3>4. left \ {id} = left
      OBVIOUS
    <3> HIDE DEF rest
    <3>5. Good(s0, e, left, rest)
      BY <2>6, <3>3, <3>4
    <3>6. e.opened = u.opened /\ e.started = u.started
      BY <2>2, <2>4, <2>6, <2>12, <3>1 DEF SameCalls
    <3>7. \A b : IsOpen(u, b) <=> IsOpen(e, b)
      BY <2>8, <2>12, <3>6 DEF IsOpen
    <3> HIDE DEF left
    <3>8. Good(s0, u, left, rest)
      BY <2>7, <2>9, <2>11, <2>12, <3>5, <3>6, <3>7, GoodSame
    <3> QED
      BY <3>8, <3>9, GoodLess
  <2> QED
    BY <2>1, <2>14, <2>15
<1> QED
  BY <1>3, <1>4

\* A call that will be done by the client, or be ignored: it goes on, or is done.
LEMMA EmitFunctionCallKeeps ==
  ASSUME NEW tr \in Translators, NEW c \in Calls, c.tool # Builtin, NEW partial \in BOOLEAN
  PROVE  LET u == EmitFunctionCall(tr, c, partial)
         IN /\ Tells(tr, u) /\ SameSubagent(tr, u) /\ (~partial /\ Asking(c) => Correlates(u, c))
            /\ \A s0 \in States : \A live, whole :
                 Good(s0, tr, live, whole) /\ c.id \in live /\ whole \subseteq Own =>
                   /\ partial /\ c.id \notin whole => Good(s0, u, live, whole)
                   /\ ~partial => Good(s0, u, live \ {c.id}, whole \ {c.id})
<1> DEFINE k == Identified(tr, c)
           m == Numbered(tr, c)
           r == Noted(tr, c)
           mute == conf.suppress /\ (partial \/ Mapped(c))
           u == EmitFunctionCall(tr, c, partial)
<1>1. k \in Calls /\ k.id \in Nat /\ c.tool \in Tools \cup {Nameless}
  BY NumberedKeeps DEF Calls
<1>2. /\ Says(tr, m) /\ m \in Translators /\ SameSubagent(tr, m)
      /\ \A s0 \in States : \A live, whole : Good(s0, tr, live, whole) => Good(s0, m, live, whole)
  BY NumberedKeeps
<1>3. /\ r \in Translators /\ (~Anonymous(c) => c.id \in r.known) /\ SameSubagent(tr, r) /\ Tells(tr, r)
      /\ \A s0 \in States : \A live, whole : Good(s0, tr, live, whole) => Good(s0, r, live, whole)
      /\ \A s0 \in States : \A live, whole :
           Good(s0, tr, live, whole) /\ c.id \in live /\ whole \subseteq Own =>
             /\ Good(s0, r, live \cup {k.id}, whole)
             /\ c.id \in whole => Good(s0, r, live \cup {k.id}, whole \cup {k.id})
             /\ c.id \notin whole => k.id \notin whole
             /\ InPlace(live, whole, c.id, k.id)
  BY NotedKeeps
<1>4. Tells(tr, tr) /\ SameSubagent(tr, tr)
  BY DEF Tells, SameSubagent
<1>5. ASSUME NEW w, NEW s0 \in States, NEW live, NEW whole, Good(s0, w, live, whole)
      PROVE  Good(s0, w, live \ {c.id}, whole \ {c.id})
  BY <1>5, GoodLess
<1>11. Asking(c) => Correlates(r, c)
  BY <1>3 DEF Asking, Correlates, Unknown, Anonymous
<1> HIDE DEF k, m, r
<1>6. CASE mute
  <2>1. u = tr
    BY <1>6 DEF EmitFunctionCall
  <2>2. ~partial /\ Asking(c) => Correlates(tr, c)
    BY <1>6 DEF Correlates, Asking, Unknown, Suppressed, Mapped
  <2> HIDE DEF u
  <2> QED
    BY <1>4, <1>5, <2>1, <2>2 DEF u
<1>7. CASE ~mute /\ ServerSide(c.tool)
  <2>1. u = r
    BY <1>7 DEF EmitFunctionCall, r
  <2> HIDE DEF u
  <2> QED
    BY <1>3, <1>5, <1>7, <1>11, <2>1 DEF u
<1>8. CASE ~mute /\ ~ServerSide(c.tool) /\ partial
  <2>1. u = EmitPartialCall(r, k)
    BY <1>8 DEF EmitFunctionCall, r, k
  <2> HIDE DEF u
  <2>2. /\ Says(r, u) /\ SameSubagent(r, u)
        /\ \A s0 \in States : \A live, whole :
             Good(s0, r, live, whole) /\ k.id \in live \ whole => Good(s0, u, live, whole)
    BY <1>1, <1>3, <2>1, EmitPartialCallKeeps
  <2>3. Tells(tr, u) /\ SameSubagent(tr, u)
    BY <1>3, <1>8, <2>2, SaysTells, TellsTrans DEF SameSubagent
  <2>4. ASSUME NEW s0 \in States, NEW live, NEW whole, Good(s0, tr, live, whole), c.id \in live, c.id \notin whole,
               whole \subseteq Own
        PROVE  Good(s0, u, live, whole)
    <3>1. Good(s0, r, live \cup {k.id}, whole) /\ k.id \in (live \cup {k.id}) \ whole
      BY <1>3, <2>4
    <3>2. Good(s0, u, live \cup {k.id}, whole)
      BY <2>2, <3>1
    <3> QED
      BY <3>2, GoodLess
  <2> QED
    BY <1>8, <2>3, <2>4 DEF u
<1>9. CASE ~mute /\ ~ServerSide(c.tool) /\ ~partial /\ c.tool = Nameless
  <2> DEFINE e == Event("result", "tool", k.id, m.run, <<>>)
  <2>2. e \in Events /\ e.op = "result" /\ e.of = e.id /\ e.run = m.run
    BY <1>1, <1>2, EmptyText, Fields, EventType, Kinds DEF Event
  <2>3. u = [m EXCEPT !.out = m.out \o <<e>>]
    BY <1>2, <1>9 DEF EmitFunctionCall, Emit, EmitAs, EmitAll, Translators, k, m
  <2>4. m.out \o <<e>> \in Seq(Events)
    BY <1>2, <2>2, Emitted
  <2> HIDE DEF e, u
  <2>5. u \in Translators
    BY <1>2, <2>3, <2>4 DEF Translators
  <2>6. /\ u.out = m.out \o <<e>> /\ u.known = m.known /\ u.byName = m.byName
        /\ u.msg = m.msg /\ u.reasoning = m.reasoning /\ u.step = m.step /\ u.next = m.next
        /\ u.started = m.started /\ u.opened = m.opened /\ u.run = m.run /\ u.author = m.author
    BY <1>2, <2>3 DEF Translators
  <2>7. \A b : IsOpen(u, b) <=> IsOpen(m, b)
    BY <2>6 DEF IsOpen
  <2>8. Tells(tr, u) /\ SameSubagent(tr, u) /\ Correlates(u, c)
    <3>1. Says(m, u)
      BY <1>2, <2>2, <2>5, <2>6, SaysOne
    <3> QED
      BY <1>2, <1>9, <2>6, <3>1, SaysTrans, SaysTells DEF SameSubagent, Correlates
  <2>9. \A s0 \in States : \A live, whole : Good(s0, m, live, whole) => Good(s0, u, live, whole)
    <3>1. e.op \in {"content", "result"} /\ (e.op = "content" => IsOpen(m, Block(e)))
      BY <2>2
    <3> QED
      BY <2>2, <2>5, <2>6, <2>7, <3>1, GoodGoOn
  <2> QED
    BY <1>2, <1>5, <1>9, <2>8, <2>9 DEF u
<1>10. CASE ~mute /\ ~ServerSide(c.tool) /\ ~partial /\ c.tool # Nameless
  <2>1. u = EmitFinalCall(r, k)
    BY <1>10 DEF EmitFunctionCall, r, k
  <2> HIDE DEF u
  <2>2. /\ Says(r, u) /\ SameSubagent(r, u)
        /\ \A s0 \in States : \A live, whole :
             Good(s0, r, live, whole) /\ k.id \in live => Good(s0, u, live \ {k.id}, whole \ {k.id})
    BY <1>1, <1>3, <2>1, EmitFinalCallKeeps
  <2>3. Tells(tr, u) /\ SameSubagent(tr, u)
    BY <1>3, <1>10, <2>2, SaysTells, TellsTrans DEF SameSubagent
  <2>4. Asking(c) => Correlates(u, c)
    BY <1>11, <2>2 DEF Says, Correlates
  <2>5. ASSUME NEW s0 \in States, NEW live, NEW whole, Good(s0, tr, live, whole), c.id \in live, whole \subseteq Own
        PROVE  Good(s0, u, live \ {c.id}, whole \ {c.id})
    <3> DEFINE all == live \cup {k.id}
               left == all \ {k.id}
               rest == whole \ {k.id}
    <3>1. k.id \in all
      OBVIOUS
    <3>4. Good(s0, r, all, whole) /\ InPlace(live, whole, c.id, k.id)
      BY <1>3, <2>5
    <3>2. Good(s0, r, all, whole) /\ live \ {c.id} \subseteq left /\ whole \ {c.id} \subseteq rest
      BY <3>4 DEF InPlace
    <3> HIDE DEF all
    <3>3. Good(s0, u, left, rest)
      BY <2>2, <3>1, <3>2
    <3> HIDE DEF left, rest
    <3> QED
      BY <3>2, <3>3, GoodLess
  <2> QED
    BY <1>10, <2>3, <2>4, <2>5 DEF u
<1> QED
  BY <1>6, <1>7, <1>8, <1>9, <1>10

\* A result that is given goes to the call it is the result of.
LEMMA EmitResponseKeeps ==
  ASSUME NEW tr \in Translators, NEW c \in Calls
  PROVE  LET u == EmitResponse(tr, c)
         IN /\ u \in Translators /\ SameSubagent(tr, u)
            /\ Correlates(tr, c) => Tells(tr, u)
            /\ \A s0 \in States : \A live, whole : Good(s0, tr, live, whole) => Good(s0, u, live, whole)
<1> DEFINE id == Correlate(tr, c)
           u == EmitResponse(tr, c)
           e == [Event("result", "tool", id, tr.run, <<>>) EXCEPT !.of = c.id]
<1>1. id \in Nat
  BY Fields DEF Correlate, Calls, None
<1>2. CASE id = None
  <2>1. u = tr
    BY <1>2 DEF EmitResponse
  <2> QED
    BY <2>1 DEF Tells, SameSubagent
<1>3. CASE id # None
  <2>1. e \in Events /\ e.op = "result" /\ e.run = tr.run /\ e.id = id /\ e.of = c.id
    <3>1. e = [op |-> "result", kind |-> "tool", id |-> id, of |-> c.id, run |-> tr.run, data |-> <<>>]
      BY DEF Event
    <3>2. c.id \in Nat /\ tr.run \in Nat /\ <<>> \in Seq(STRING)
      BY Fields DEF Calls
    <3> HIDE DEF id
    <3> QED
      BY <1>1, <3>1, <3>2, Kinds DEF Events, Protocol!Event
  <2>2. u = [tr EXCEPT !.out = tr.out \o <<e>>]
    BY <1>3 DEF EmitResponse, EmitAll, Translators
  <2>3. tr.out \o <<e>> \in Seq(Events)
    BY <2>1, Emitted
  <2>4. Correlates(tr, c) => Unknown(c.id) \/ id = c.id
    BY <1>3 DEF Correlates, Correlate
  <2> HIDE DEF e, u, id
  <2>5. u \in Translators
    BY <2>2, <2>3 DEF Translators
  <2>6. /\ u.out = tr.out \o <<e>> /\ u.known = tr.known /\ u.byName = tr.byName
        /\ u.msg = tr.msg /\ u.reasoning = tr.reasoning /\ u.step = tr.step /\ u.next = tr.next
        /\ u.started = tr.started /\ u.opened = tr.opened /\ u.run = tr.run /\ u.author = tr.author
    BY <2>2 DEF Translators
  <2>7. \A b : IsOpen(u, b) <=> IsOpen(tr, b)
    BY <2>6 DEF IsOpen
  <2>8. Correlates(tr, c) => Tells(tr, u)
    BY <2>1, <2>4, <2>5, <2>6, SaysOne, SaysTells
  <2>9. \A s0 \in States : \A live, whole : Good(s0, tr, live, whole) => Good(s0, u, live, whole)
    <3>1. e.op \in {"content", "result"} /\ (e.op = "content" => IsOpen(tr, Block(e)))
      BY <2>1
    <3> QED
      BY <2>1, <2>5, <2>6, <2>7, <3>1, GoodGoOn
  <2> QED
    BY <2>5, <2>6, <2>8, <2>9 DEF SameSubagent, u
<1> QED
  BY <1>2, <1>3

\* At most the call itself is open that was not.
LEMMA CallsOpened ==
  ASSUME NEW tr \in Translators, NEW c \in Calls, NEW partial \in BOOLEAN
  PROVE  /\ EmitFunctionCall(tr, c, partial).opened \subseteq tr.opened \cup {Identified(tr, c).id}
         /\ EmitBuiltinToolCall(tr, c).opened = tr.opened
         /\ EmitResponse(tr, c).opened = tr.opened
<1> DEFINE r == Noted(tr, c)
           m == Numbered(tr, c)
           k == Identified(tr, c)
           e == Emit(m, "result", "tool", k.id, <<>>)
<1>1. r \in Translators /\ r.opened = tr.opened /\ m \in Translators /\ m.opened = tr.opened
  BY NotedKeeps, NumberedKeeps DEF SameCalls
<1>6. EmitBuiltinToolCall(tr, c).opened = tr.opened
  <2> HIDE DEF r, k
  <2> QED
    BY <1>1 DEF EmitBuiltinToolCall, r, Emit, EmitAs, EmitAll, Translators
<1>5. EmitFunctionCall(tr, c, partial) \in {tr, r, EmitPartialCall(r, k), EmitFinalCall(r, k), e}
  BY DEF EmitFunctionCall
<1> HIDE DEF r, m, k
<1>2. EmitPartialCall(r, k).opened \subseteq tr.opened \cup {k.id}
  BY <1>1 DEF EmitPartialCall, Emit, EmitAs, EmitAll, Translators
<1>3. EmitFinalCall(r, k).opened \subseteq tr.opened
  BY <1>1 DEF EmitFinalCall, EndCall, Emit, EmitAs, EmitAll, Translators
<1>4. e.opened = tr.opened
  BY <1>1 DEF Emit, EmitAs, EmitAll, Translators
<1>7. EmitResponse(tr, c).opened = tr.opened
  BY DEF EmitResponse, EmitAll, Translators
<1>8. EmitFunctionCall(tr, c, partial).opened \subseteq tr.opened \cup {k.id}
  <2> HIDE DEF e
  <2> QED
    BY <1>1, <1>2, <1>3, <1>4, <1>5
<1> QED
  BY <1>6, <1>7, <1>8 DEF k

-----------------------------------------------------------------------------
(* The parts of an event.                                                  *)

IsCall(p) == p.kind \in {"call", "builtinCall"}
IsResponse(p) == p.kind \in {"response", "builtinResponse"}
PartOk(p) ==
  \/ p.kind \in {"thought", "text"} /\ p.text \in Text
  \/ /\ IsCall(p) \/ IsResponse(p)
     /\ p.call \in Calls
     /\ p.kind = "call" => p.call.tool # Builtin
     /\ p.kind = "builtinCall" => p.call.tool = Builtin

\* The calls that are done with p, and what must be known of those it is about.
Ends(p, partial) == IF IsCall(p) /\ ~partial THEN {p.call.id} ELSE {}
MayCome(p, partial, live, whole) ==
  /\ IsCall(p) => p.call.id \in live /\ whole \subseteq Own
  /\ p.kind = "call" /\ partial => p.call.id \notin whole
  /\ p.kind = "builtinCall" => ~partial /\ p.call.id \in whole

\* One part of an event, of whatever kind.
LEMMA TranslatePartKeeps ==
  ASSUME NEW tr \in Translators, NEW p, PartOk(p), NEW partial \in BOOLEAN
  PROVE  LET u == TranslatePart(tr, p, partial)
         IN /\ u \in Translators /\ (IsFiniteSet(tr.opened) => IsFiniteSet(u.opened))
            /\ (IsResponse(p) => Correlates(tr, p.call)) => Tells(tr, u)
            /\ IsCall(p) /\ ~partial /\ Asking(p.call) => Correlates(u, p.call)
            /\ \A s0 \in States : \A live, whole :
                 Good(s0, tr, live, whole) /\ MayCome(p, partial, live, whole) =>
                   Good(s0, u, live \ Ends(p, partial), whole \ Ends(p, partial))
<1> DEFINE u == TranslatePart(tr, p, partial)
           m == CloseMessage(tr)
<1>1. /\ Says(tr, m) /\ m \in Translators /\ m.opened = tr.opened /\ m.known = tr.known /\ m.byName = tr.byName
      /\ \A s0 \in States : \A live, whole : Good(s0, tr, live, whole) => Good(s0, m, live, whole)
  BY CloseMessageKeeps DEF Says, SameCalls
<1>2. Tells(tr, m)
  BY <1>1, SaysTells
<1>3. \A live : live \ {} = live
  OBVIOUS
<1>4. CASE p.kind \in {"thought", "text"}
  <2>1. p.text \in Text /\ Ends(p, partial) = {} /\ ~IsCall(p) /\ ~IsResponse(p)
    BY <1>4 DEF PartOk, Ends, IsCall, IsResponse
  <2>2. u = IF p.kind = "thought" THEN EmitThought(tr, p.text, partial) ELSE EmitText(tr, p.text, partial)
    BY <1>4 DEF TranslatePart
  <2> HIDE DEF u
  <2>3. /\ Says(tr, u) /\ SameCalls(tr, u)
        /\ \A s0 \in States : \A live, whole : Good(s0, tr, live, whole) => Good(s0, u, live, whole)
    BY <2>1, <2>2, EmitTextKeeps, EmitThoughtKeeps
  <2>4. Tells(tr, u) /\ u \in Translators /\ u.opened = tr.opened
    BY <2>3, SaysTells DEF Tells, SameCalls
  <2> QED
    BY <1>3, <2>1, <2>3, <2>4 DEF u
<1>5. CASE p.kind = "call"
  <2>1. p.call \in Calls /\ p.call.tool # Builtin /\ p.call.id \in Nat /\ IsCall(p) /\ ~IsResponse(p)
    BY <1>5 DEF PartOk, IsCall, IsResponse, Calls
  <2>2. u = EmitFunctionCall(m, p.call, partial)
    BY <1>5 DEF TranslatePart
  <2> HIDE DEF u, m
  <2>3. /\ Tells(m, u) /\ (~partial /\ Asking(p.call) => Correlates(u, p.call))
        /\ \A s0 \in States : \A live, whole :
             Good(s0, m, live, whole) /\ p.call.id \in live /\ whole \subseteq Own =>
               /\ partial /\ p.call.id \notin whole => Good(s0, u, live, whole)
               /\ ~partial => Good(s0, u, live \ {p.call.id}, whole \ {p.call.id})
    BY <1>1, <2>1, <2>2, EmitFunctionCallKeeps
  <2>4. u.opened \subseteq tr.opened \cup {Identified(m, p.call).id}
    BY <1>1, <2>1, <2>2, CallsOpened
  <2>5. IsFiniteSet(tr.opened) => IsFiniteSet(u.opened)
    BY <2>4, FS_AddElement, FS_Subset
  <2>6. Tells(tr, u) /\ u \in Translators
    BY <1>2, <2>3, TellsTrans DEF Tells
  <2>7. ASSUME NEW s0 \in States, NEW live, NEW whole, Good(s0, tr, live, whole), MayCome(p, partial, live, whole)
        PROVE  Good(s0, u, live \ Ends(p, partial), whole \ Ends(p, partial))
    <3>1. p.call.id \in live /\ whole \subseteq Own /\ (partial => p.call.id \notin whole)
      BY <1>5, <2>1, <2>7 DEF MayCome
    <3>2. Ends(p, partial) = IF partial THEN {} ELSE {p.call.id}
      BY <2>1 DEF Ends
    <3>3. Good(s0, m, live, whole)
      BY <1>1, <2>7
    <3>4. CASE partial
      <4>1. Good(s0, u, live, whole)
        BY <2>3, <3>1, <3>3, <3>4
      <4> QED
        BY <1>3, <3>2, <3>4, <4>1
    <3>5. CASE ~partial
      BY <2>3, <3>1, <3>2, <3>3, <3>5
    <3> QED
      BY <3>4, <3>5
  <2> QED
    BY <2>1, <2>3, <2>5, <2>6, <2>7 DEF u
<1>6. CASE p.kind = "builtinCall"
  <2>1. p.call \in Calls /\ p.call.tool = Builtin /\ p.call.id \in Nat /\ IsCall(p) /\ ~IsResponse(p)
    BY <1>6 DEF PartOk, IsCall, IsResponse, Calls
  <2>2. u = EmitBuiltinToolCall(m, p.call)
    BY <1>6 DEF TranslatePart
  <2> HIDE DEF u, m
  <2>3. /\ Tells(m, u) /\ (Asking(p.call) => Correlates(u, p.call))
        /\ \A s0 \in States : \A live, whole :
             Good(s0, m, live, whole) /\ p.call.id \in live \cap whole /\ whole \subseteq Own =>
               Good(s0, u, live \ {p.call.id}, whole \ {p.call.id})
    BY <1>1, <2>1, <2>2, EmitBuiltinToolCallKeeps
  <2>4. u.opened = tr.opened
    BY <1>1, <2>1, <2>2, CallsOpened
  <2>5. IsFiniteSet(tr.opened) => IsFiniteSet(u.opened)
    BY <2>4
  <2>6. Tells(tr, u) /\ u \in Translators
    BY <1>2, <2>3, TellsTrans DEF Tells
  <2>7. ASSUME NEW s0 \in States, NEW live, NEW whole, Good(s0, tr, live, whole), MayCome(p, partial, live, whole)
        PROVE  Good(s0, u, live \ Ends(p, partial), whole \ Ends(p, partial))
    <3>1. p.call.id \in live \cap whole /\ whole \subseteq Own /\ ~partial
      BY <1>6, <2>1, <2>7 DEF MayCome
    <3>2. Ends(p, partial) = {p.call.id}
      BY <2>1, <3>1 DEF Ends
    <3>3. Good(s0, m, live, whole)
      BY <1>1, <2>7
    <3> QED
      BY <2>3, <3>1, <3>2, <3>3
  <2> QED
    BY <2>1, <2>3, <2>5, <2>6, <2>7 DEF u
<1>7. CASE p.kind \in {"response", "builtinResponse"}
  <2>1. p.call \in Calls /\ IsResponse(p) /\ ~IsCall(p) /\ Ends(p, partial) = {}
    BY <1>7 DEF PartOk, IsCall, IsResponse, Ends
  <2>2. u = EmitResponse(m, p.call)
    BY <1>7 DEF TranslatePart
  <2> HIDE DEF u, m
  <2>3. /\ u \in Translators /\ (Correlates(m, p.call) => Tells(m, u))
        /\ \A s0 \in States : \A live, whole : Good(s0, m, live, whole) => Good(s0, u, live, whole)
    BY <1>1, <2>1, <2>2, EmitResponseKeeps
  <2>4. u.opened = tr.opened
    BY <1>1, <2>1, <2>2, CallsOpened
  <2>5. Correlates(tr, p.call) => Tells(tr, u)
    BY <1>1, <1>2, <2>3, TellsTrans DEF Correlates
  <2> QED
    BY <1>1, <1>3, <2>1, <2>3, <2>4, <2>5 DEF u
<1> QED
  BY <1>4, <1>5, <1>6, <1>7 DEF PartOk, IsCall, IsResponse
-----------------------------------------------------------------------------
(* The events of an agent.                                                 *)

\* Induction up to n, over a set.
LEMMA UpTo ==
  ASSUME NEW n \in Nat, NEW S, 0 \in S, \A i \in 1..n : i - 1 \in S => i \in S
  PROVE  \A i \in 0..n : i \in S
<1> DEFINE not == {i \in 0..n : i \notin S}
<1> SUFFICES ASSUME not # {} PROVE FALSE
  OBVIOUS
<1>1. not \subseteq Nat
  OBVIOUS
<1>2. PICK m \in not : \A y \in not : ~(<<y, m>> \in OpToRel(<, Nat))
  BY <1>1, NatLessThanWellFounded, WFMin
<1>3. m \in 1..n /\ m - 1 \in 0..n /\ m - 1 < m /\ m \in Nat /\ m - 1 \in Nat
  OBVIOUS
<1>4. <<m - 1, m>> \in OpToRel(<, Nat) <=> m - 1 < m
  BY <1>3, Zenon DEF OpToRel
<1>5. m - 1 \in S
  BY <1>2, <1>3, <1>4
<1> QED
  BY <1>3, <1>5

\* What the parts of an event make of start, one after the other.
IsFold(g, n, start, parts, partial) ==
  g = [i \in 0..n |-> IF i = 0 THEN start ELSE TranslatePart(g[i - 1], parts[i], partial)]

\* There is a function that gives the translator after each part.
LEMMA FoldExists ==
  ASSUME NEW start, NEW parts, NEW partial, NEW n \in Nat
  PROVE  \E g : IsFold(g, n, start, parts, partial)
<1> DEFINE S == {m \in 0..n : \E g : IsFold(g, m, start, parts, partial)}
<1>1. 0 \in S
  <2> DEFINE g == [i \in 0..0 |-> start]
  <2>1. IsFold(g, 0, start, parts, partial)
    BY DEF IsFold
  <2> QED
    BY <2>1
<1>2. ASSUME NEW m \in 1..n, m - 1 \in S PROVE m \in S
  <2>1. m - 1 \in Nat /\ m \in Nat
    OBVIOUS
  <2>2. PICK f : IsFold(f, m - 1, start, parts, partial)
    BY <1>2
  <2> DEFINE g == [i \in 0..m |-> IF i = m THEN TranslatePart(f[m - 1], parts[m], partial) ELSE f[i]]
  <2>3. f[0] = start /\ \A i \in 1..(m - 1) : f[i] = TranslatePart(f[i - 1], parts[i], partial)
    BY <2>1, <2>2 DEF IsFold
  <2>4. ASSUME NEW i \in 0..m
        PROVE  g[i] = IF i = 0 THEN start ELSE TranslatePart(g[i - 1], parts[i], partial)
    <3>1. CASE i = 0
      BY <2>1, <2>3, <3>1
    <3>2. CASE i # 0 /\ i # m
      <4>1. i \in 1..(m - 1) /\ i - 1 \in 0..m /\ i - 1 # m
        BY <2>1, <3>2
      <4> QED
        BY <2>3, <3>2, <4>1
    <3>3. CASE i = m
      <4>1. m - 1 \in 0..m /\ m - 1 # m
        BY <2>1
      <4> QED
        BY <3>3, <4>1
    <3> QED
      BY <3>1, <3>2, <3>3
  <2>5. g = [i \in 0..m |-> g[i]]
    OBVIOUS
  <2> HIDE DEF g
  <2>6. IsFold(g, m, start, parts, partial)
    BY <2>4, <2>5 DEF IsFold
  <2> QED
    BY <2>6
<1> HIDE DEF S
<1>3. n \in S
  BY <1>1, <1>2, UpTo
<1> QED
  BY <1>3 DEF S

\* translate is that function at the last part, or the end of a sub-agent that failed.
LEMMA TranslateIsFold ==
  ASSUME NEW tr, NEW ev, Len(ev.parts) \in Nat
  PROVE  LET ready == ManageSteps(SubagentLifecycle(tr, ev.author), ev)
         IN \E g : /\ IsFold(g, Len(ev.parts), ready, ev.parts, ev.partial)
                   /\ Translate(tr, ev) = IF ev.failed /\ ev.author # Root THEN FailSubagent(ready)
                                          ELSE g[Len(ev.parts)]
<1> DEFINE ready == ManageSteps(SubagentLifecycle(tr, ev.author), ev)
           n == Len(ev.parts)
           g == CHOOSE g : g = [i \in 0..n |-> IF i = 0 THEN ready
                                               ELSE TranslatePart(g[i - 1], ev.parts[i], ev.partial)]
<1> HIDE DEF ready
<1>1. \E f : IsFold(f, n, ready, ev.parts, ev.partial)
  BY FoldExists
<1>2. IsFold(g, n, ready, ev.parts, ev.partial)
  BY <1>1 DEF IsFold
<1>3. Translate(tr, ev) = IF ev.failed /\ ev.author # Root THEN FailSubagent(ready) ELSE g[n]
  BY DEF Translate, ready
<1> HIDE DEF g
<1> QED
  BY <1>2, <1>3 DEF ready

\* An event of the runner: it holds one call at most, and none that the provider executes if partial.
EventOk(ev) ==
  /\ ev.author \in Agents /\ ev.partial \in BOOLEAN /\ ev.failed \in BOOLEAN
  /\ Len(ev.parts) \in Nat /\ \A i \in 1..Len(ev.parts) : PartOk(ev.parts[i])
  /\ ev.failed => Len(ev.parts) = 0
  /\ \A i, j \in 1..Len(ev.parts) : IsCall(ev.parts[i]) /\ IsCall(ev.parts[j]) => i = j

Done(ev, n) == UNION {Ends(ev.parts[i], ev.partial) : i \in 1..n}
ResultsFound(tr, ev) ==
  \A i \in 1..Len(ev.parts) : IsResponse(ev.parts[i]) => Correlates(tr, ev.parts[i].call)

\* The parts leave a translator that finds the calls they hold.
LEMMA FoldTells ==
  ASSUME NEW ev, EventOk(ev), NEW tr \in Translators, IsFiniteSet(tr.opened),
         NEW n \in Nat, n = Len(ev.parts), NEW g, IsFold(g, n, tr, ev.parts, ev.partial)
  PROVE  /\ g[n] \in Translators /\ IsFiniteSet(g[n].opened)
         /\ ResultsFound(tr, ev) =>
              /\ Tells(tr, g[n])
              /\ \A i \in 1..n : IsCall(ev.parts[i]) /\ ~ev.partial /\ Asking(ev.parts[i].call) => Correlates(g[n], ev.parts[i].call)
<1> DEFINE P(i) ==
             /\ g[i] \in Translators /\ IsFiniteSet(g[i].opened)
             /\ ResultsFound(tr, ev) =>
                  /\ Tells(tr, g[i])
                  /\ \A j \in 1..i : IsCall(ev.parts[j]) /\ ~ev.partial /\ Asking(ev.parts[j].call) => Correlates(g[i], ev.parts[j].call)
           S == {i \in 0..n : P(i)}
<1>1. g[0] = tr /\ \A i \in 1..n : g[i] = TranslatePart(g[i - 1], ev.parts[i], ev.partial)
  <2>1. \A i \in 0..n : g[i] = IF i = 0 THEN tr ELSE TranslatePart(g[i - 1], ev.parts[i], ev.partial)
    BY DEF IsFold
  <2> QED
    BY <2>1
<1>2. P(0)
  BY <1>1 DEF Tells
<1>3. ASSUME NEW i \in 1..n, P(i - 1) PROVE P(i)
  <2> DEFINE v == g[i - 1]
             p == ev.parts[i]
             u == TranslatePart(v, p, ev.partial)
  <2>1. PartOk(p) /\ ev.partial \in BOOLEAN
    BY DEF EventOk
  <2>2. v \in Translators /\ IsFiniteSet(v.opened)
    BY <1>3
  <2>3. /\ ResultsFound(tr, ev) =>
             /\ Tells(tr, v)
             /\ \A j \in 1..(i - 1) : IsCall(ev.parts[j]) /\ ~ev.partial /\ Asking(ev.parts[j].call) => Correlates(v, ev.parts[j].call)
    BY <1>3
  <2>4. ResultsFound(tr, ev) => (IsResponse(p) => Correlates(tr, p.call))
    BY DEF ResultsFound
  <2>5. u = g[i]
    BY <1>1
  <2> HIDE DEF v, p
  <2>6. /\ u \in Translators /\ IsFiniteSet(u.opened)
        /\ (IsResponse(p) => Correlates(v, p.call)) => Tells(v, u)
        /\ IsCall(p) /\ ~ev.partial /\ Asking(p.call) => Correlates(u, p.call)
    BY <2>1, <2>2, TranslatePartKeeps
  <2> HIDE DEF u
  <2>7. ASSUME ResultsFound(tr, ev)
        PROVE  /\ Tells(tr, u)
               /\ \A j \in 1..i : IsCall(ev.parts[j]) /\ ~ev.partial /\ Asking(ev.parts[j].call) => Correlates(u, ev.parts[j].call)
    <3>1. Tells(v, u)
      BY <2>3, <2>4, <2>6, <2>7 DEF Tells, Correlates
    <3>2. Tells(tr, u)
      BY <2>3, <2>7, <3>1, TellsTrans
    <3>3. ASSUME NEW j \in 1..i, IsCall(ev.parts[j]), ~ev.partial, Asking(ev.parts[j].call) PROVE Correlates(u, ev.parts[j].call)
      <4>1. CASE j = i
        BY <2>6, <3>3, <4>1 DEF p
      <4>2. CASE j # i
        <5>1. j \in 1..(i - 1)
          BY <4>2
        <5>2. Correlates(v, ev.parts[j].call)
          BY <2>3, <2>7, <3>3, <5>1
        <5> QED
          BY <3>1, <5>2 DEF Correlates, Tells
      <4> QED
        BY <4>1, <4>2
    <3> QED
      BY <3>2, <3>3
  <2> QED
    BY <2>5, <2>6, <2>7
<1>4. \A i \in 1..n : i - 1 \in S => i \in S
  <2> HIDE DEF P
  <2> QED
    BY <1>3
<1>5. 0 \in S
  BY <1>2
<1>6. P(n)
  <2> HIDE DEF P
  <2>1. \A i \in 0..n : i \in S
    <3> HIDE DEF S
    <3> QED
      BY <1>4, <1>5, UpTo
  <2> QED
    BY <2>1
<1> QED
  BY <1>6

\* The parts keep what the client and the translator agree on.
LEMMA FoldGood ==
  ASSUME NEW ev, EventOk(ev), NEW s0 \in States, NEW tr, NEW live, NEW whole, Good(s0, tr, live, whole),
         NEW n \in Nat, n = Len(ev.parts), NEW g, IsFold(g, n, tr, ev.parts, ev.partial),
         \A i \in 1..n : MayCome(ev.parts[i], ev.partial, live, whole)
  PROVE  Good(s0, g[n], live \ Done(ev, n), whole \ Done(ev, n))
<1> DEFINE P(i) == Good(s0, g[i], live \ Done(ev, i), whole \ Done(ev, i))
           S == {i \in 0..n : P(i)}
<1>1. g[0] = tr /\ \A i \in 1..n : g[i] = TranslatePart(g[i - 1], ev.parts[i], ev.partial)
  <2>1. \A i \in 0..n : g[i] = IF i = 0 THEN tr ELSE TranslatePart(g[i - 1], ev.parts[i], ev.partial)
    BY DEF IsFold
  <2> QED
    BY <2>1
<1>2. P(0)
  <2>1. Done(ev, 0) = {}
    BY DEF Done
  <2>2. live \ {} = live /\ whole \ {} = whole
    OBVIOUS
  <2> QED
    BY <1>1, <2>1, <2>2
<1>3. ASSUME NEW i \in 1..n, P(i - 1) PROVE P(i)
  <2> DEFINE v == g[i - 1]
             p == ev.parts[i]
             D == Done(ev, i - 1)
             E == Ends(p, ev.partial)
             l == live \ D
             w == whole \ D
  <2>1. PartOk(p) /\ ev.partial \in BOOLEAN
    BY DEF EventOk
  <2>2. Good(s0, v, l, w) /\ v \in Translators
    BY <1>3 DEF Good
  <2>3. g[i] = TranslatePart(v, p, ev.partial)
    BY <1>1
  <2>4. Done(ev, i) = D \cup E
    <3>1. 1..i = 1..(i - 1) \cup {i}
      OBVIOUS
    <3> QED
      BY <3>1 DEF Done
  <2>5. IsCall(p) => D = {}
    <3> SUFFICES ASSUME IsCall(p), NEW j \in 1..(i - 1) PROVE Ends(ev.parts[j], ev.partial) = {}
      BY DEF Done
    <3>1. ~IsCall(ev.parts[j])
      BY DEF EventOk
    <3> QED
      BY <3>1 DEF Ends
  <2>6. MayCome(p, ev.partial, l, w)
    BY <2>5 DEF MayCome, IsCall
  <2> HIDE DEF v, p, D, E
  <2>7. l \ E = live \ (D \cup E) /\ w \ E = whole \ (D \cup E)
    OBVIOUS
  <2> HIDE DEF l, w
  <2>8. Good(s0, TranslatePart(v, p, ev.partial), l \ E, w \ E)
    BY <2>1, <2>2, <2>6, TranslatePartKeeps DEF E
  <2> QED
    BY <2>3, <2>4, <2>7, <2>8
<1>4. \A i \in 1..n : i - 1 \in S => i \in S
  <2> HIDE DEF P
  <2> QED
    BY <1>3
<1>5. 0 \in S
  BY <1>2
<1>6. P(n)
  <2> HIDE DEF P
  <2>1. \A i \in 0..n : i \in S
    <3> HIDE DEF S
    <3> QED
      BY <1>4, <1>5, UpTo
  <2> QED
    BY <2>1
<1> QED
  BY <1>6

\* translate leaves a translator that finds the calls of the event.
LEMMA TranslateTells ==
  ASSUME NEW ev, EventOk(ev), NEW tr \in Translators, IsFiniteSet(tr.opened)
  PROVE  LET u == Translate(tr, ev)
         IN /\ u \in Translators /\ IsFiniteSet(u.opened)
            /\ ResultsFound(tr, ev) =>
                 /\ Tells(tr, u)
                 /\ \A i \in 1..Len(ev.parts) :
                      IsCall(ev.parts[i]) /\ ~ev.partial /\ Asking(ev.parts[i].call) => Correlates(u, ev.parts[i].call)
<1> DEFINE l == SubagentLifecycle(tr, ev.author)
           r == ManageSteps(l, ev)
           u == Translate(tr, ev)
           n == Len(ev.parts)
<1>1. n \in Nat /\ ev.author \in Agents /\ (ev.failed => n = 0)
  BY DEF EventOk
<1>2. PICK g : IsFold(g, n, r, ev.parts, ev.partial) /\ u = IF ev.failed /\ ev.author # Root THEN FailSubagent(r) ELSE g[n]
  BY <1>1, TranslateIsFold
<1>3. Says(tr, l) /\ l.opened = tr.opened /\ l \in Translators
  BY <1>1, SubagentLifecycleKeeps DEF SameCalls, Says
<1> HIDE DEF l
<1>4. Says(l, r) /\ r.opened = tr.opened /\ r \in Translators
  BY <1>3, ManageStepsKeeps DEF SameCalls, Says
<1> HIDE DEF r
<1>5. Says(tr, r)
  BY <1>3, <1>4, SaysTrans
<1> HIDE DEF u
<1>6. CASE ev.failed /\ ev.author # Root
  <2>1. u = CloseAll(r) /\ n = 0
    BY <1>1, <1>2, <1>6 DEF FailSubagent
  <2>2. Says(r, u) /\ u.opened = {}
    BY <1>4, <2>1, CloseAllKeeps
  <2>3. Tells(tr, u) /\ u \in Translators
    BY <1>5, <2>2, SaysTrans, SaysTells DEF Says
  <2>4. IsFiniteSet(u.opened)
    BY <2>2, FS_EmptySet
  <2>5. \A i : i \notin 1..n
    BY <2>1
  <2> QED
    BY <2>3, <2>4, <2>5 DEF u
<1>7. CASE ~(ev.failed /\ ev.author # Root)
  <2>1. u = g[n]
    BY <1>2, <1>7
  <2>2. ResultsFound(tr, ev) => ResultsFound(r, ev)
    BY <1>5 DEF Says, ResultsFound, Correlates
  <2>3. /\ u \in Translators /\ IsFiniteSet(u.opened)
        /\ ResultsFound(r, ev) =>
             /\ Tells(r, u)
             /\ \A i \in 1..n : IsCall(ev.parts[i]) /\ ~ev.partial /\ Asking(ev.parts[i].call) => Correlates(u, ev.parts[i].call)
    BY <1>1, <1>2, <1>4, <2>1, FoldTells
  <2> QED
    BY <1>5, <2>2, <2>3, SaysTells, TellsTrans DEF u
<1> QED
  BY <1>6, <1>7

\* translate keeps what the client and the translator agree on.
LEMMA TranslateGood ==
  ASSUME NEW ev, EventOk(ev), NEW s0 \in States, NEW tr, NEW live, NEW whole, Good(s0, tr, live, whole),
         \A i \in 1..Len(ev.parts) : MayCome(ev.parts[i], ev.partial, live, whole),
         NEW left, left \subseteq live \ Done(ev, Len(ev.parts)),
         ev.failed => left \subseteq whole
  PROVE  Good(s0, Translate(tr, ev), left, whole \ Done(ev, Len(ev.parts)))
<1> DEFINE l == SubagentLifecycle(tr, ev.author)
           r == ManageSteps(l, ev)
           u == Translate(tr, ev)
           n == Len(ev.parts)
<1>1. n \in Nat /\ ev.author \in Agents /\ (ev.failed => n = 0)
  BY DEF EventOk
<1>2. PICK g : IsFold(g, n, r, ev.parts, ev.partial) /\ u = IF ev.failed /\ ev.author # Root THEN FailSubagent(r) ELSE g[n]
  BY <1>1, TranslateIsFold
<1>3. tr \in Translators
  BY DEF Good
<1>4. Good(s0, l, live, whole) /\ l \in Translators
  BY <1>1, <1>3, SubagentLifecycleKeeps DEF Good
<1> HIDE DEF l
<1>5. Good(s0, r, live, whole)
  BY <1>4, ManageStepsKeeps
<1> HIDE DEF r, u
<1>6. CASE ev.failed /\ ev.author # Root
  <2>1. u = CloseAll(r) /\ n = 0
    BY <1>1, <1>2, <1>6 DEF FailSubagent
  <2>2. Done(ev, n) = {}
    BY <2>1 DEF Done
  <2>3. whole \ Done(ev, n) = whole /\ left \subseteq live
    BY <2>2
  <2>4. r \in Translators /\ IsFiniteSet(r.opened) /\ left \cap r.started = {}
    BY <1>5, <1>6 DEF Good
  <2>5. Good(s0, u, left, whole)
    BY <1>5, <2>1, <2>3, <2>4, CloseAllKeeps
  <2> QED
    BY <2>3, <2>5 DEF u
<1>7. CASE ~(ev.failed /\ ev.author # Root)
  <2>1. u = g[n]
    BY <1>2, <1>7
  <2>4. n = Len(ev.parts) /\ \A i \in 1..n : MayCome(ev.parts[i], ev.partial, live, whole)
    OBVIOUS
  <2> HIDE DEF n
  <2>2. Good(s0, u, live \ Done(ev, n), whole \ Done(ev, n))
    <3>1. IsFold(g, n, r, ev.parts, ev.partial)
      BY <1>2
    <3>2. Good(s0, g[n], live \ Done(ev, n), whole \ Done(ev, n))
      BY <1>1, <1>5, <2>4, <3>1, FoldGood
    <3> QED
      BY <2>1, <3>2
  <2>3. Good(s0, u, left, whole \ Done(ev, n))
    BY <2>2, GoodLess DEF n
  <2> QED
    BY <2>3 DEF u, n
<1> QED
  BY <1>6, <1>7

\* The end of the run.
LEMMA TerminalKeeps ==
  ASSUME NEW tr \in Translators, IsFiniteSet(tr.opened)
  PROVE  LET u == Terminal(tr)
         IN /\ u \in Translators /\ IsFiniteSet(u.opened) /\ (Matching(tr.out) => Matching(u.out))
            /\ \A s0 \in States : \A live, whole :
                 Good(s0, tr, live, whole) => \E s \in States : Legal(s0, u.out, s)
<1> DEFINE c == CloseAll(tr)
           e == Event("finish", "run", 0, Base, <<>>)
           u == Terminal(tr)
<1>1. /\ Says(tr, c) /\ c \in Translators /\ c.opened = {}
      /\ c.msg = None /\ c.reasoning = None /\ c.step = None /\ c.run = Base
      /\ \A s0 \in States : \A live, whole, left :
           Good(s0, tr, live, whole) /\ left \subseteq live /\ left \cap tr.started = {} => Good(s0, c, left, whole)
  BY CloseAllKeeps DEF Says
<1>2. u = [c EXCEPT !.out = c.out \o <<e>>]
  BY <1>1 DEF Terminal, EmitAs, EmitAll, Translators
<1> HIDE DEF c
<1>3. e \in Events /\ e.op = "finish" /\ e.run = Base
  <2>1. Base \in Nat /\ 0 \in Nat
    BY DEF Base, Protocol!Base
  <2> QED
    BY <2>1, EmptyText, EventType, Kinds DEF Event
<1> HIDE DEF e
<1>4. c.out \o <<e>> \in Seq(Events) /\ c.out \in Seq(Events)
  BY <1>1, <1>3, Emitted, Fields
<1> HIDE DEF u
<1>5. u \in Translators /\ u.out = c.out \o <<e>> /\ u.known = c.known /\ u.byName = c.byName /\ u.opened = {}
  BY <1>1, <1>2, <1>4 DEF Translators
<1>6. Says(tr, u)
  BY <1>1, <1>3, <1>5, SaysOne, SaysTrans
<1>7. IsFiniteSet(u.opened)
  BY <1>5, FS_EmptySet
<1>8. ASSUME NEW s0 \in States, NEW live, NEW whole, Good(s0, tr, live, whole)
      PROVE  \E s \in States : Legal(s0, u.out, s)
  <2>1. {} \subseteq live /\ {} \cap tr.started = {}
    OBVIOUS
  <2>2. Good(s0, c, {}, whole)
    BY <1>1, <1>8, <2>1
  <2>3. PICK s \in States : Legal(s0, c.out, s) /\ Shows(c, s, {})
    BY <2>2 DEF Good
  <2>4. s.open \subseteq Blocks
    BY DEF States
  <2>5. s.open = {}
    BY <1>1, <2>3, <2>4 DEF Shows, IsOpen
  <2>6. Allowed(s, e)
    BY <1>3, <2>3, <2>5 DEF Allowed, Shows
  <2>7. Legal(s, <<e>>, After(s, e)) /\ After(s, e) \in States
    BY <1>3, <2>6, LegalOne, AfterIsState
  <2>8. <<e>> \in Seq(Events)
    BY <1>3
  <2>9. Legal(s0, u.out, After(s, e))
    <3> DEFINE v == After(s, e)
               more == <<e>>
    <3>1. v \in States /\ more \in Seq(Events) /\ Legal(s, more, v)
      BY <2>7, <2>8
    <3> HIDE DEF v, more
    <3>2. Legal(s0, c.out \o more, v)
      BY <1>4, <2>3, <3>1, LegalConcat
    <3> QED
      BY <1>5, <3>2 DEF v, more
  <2> QED
    BY <2>7, <2>9
<1> QED
  BY <1>5, <1>6, <1>7, <1>8 DEF Says, u
-----------------------------------------------------------------------------
(* What the agents answer.                                                 *)

TextParts == [kind : {"thought", "text"}, text : Text]
CallParts == [kind : {"call", "builtinCall", "response", "builtinResponse"}, call : Calls]

\* The parts of an answer are about one call.
PartsOf(id, tool) ==
  TextParts \cup
  {p \in CallParts :
     /\ p.call.id = id /\ p.call.tool = tool
     /\ p.kind = "call" => tool # Builtin
     /\ p.kind = "builtinCall" => tool = Builtin}
AdkEvents(a, id, tool) ==
  [author : {a}, partial : BOOLEAN, parts : Seq(PartsOf(id, tool)),
   complete : BOOLEAN, long : BOOLEAN, failed : BOOLEAN]

OneCall(ev) == \A i, j \in 1..Len(ev.parts) : IsCall(ev.parts[i]) /\ IsCall(ev.parts[j]) => i = j
HasCall(ev) == \E i \in 1..Len(ev.parts) : IsCall(ev.parts[i])
HasResponse(ev) == \E i \in 1..Len(ev.parts) : IsResponse(ev.parts[i])
BuiltinWhole(ev) ==
  \A i \in 1..Len(ev.parts) : BuiltinsComeWhole /\ ev.parts[i].kind = "builtinCall" => ~ev.partial

\* What is still to come of an answer: once the call is there in whole, it does not come again.
AnswerOk(s, a, id, tool) ==
  /\ s \in Seq(AdkEvents(a, id, tool))
  /\ \A k \in 1..Len(s) :
       /\ OneCall(s[k]) /\ BuiltinWhole(s[k])
       /\ s[k].failed => conf.errors /\ Len(s) = 1 /\ Len(s[k].parts) = 0
  /\ \A k, l \in 1..Len(s) : k < l /\ HasCall(s[k]) /\ HasCall(s[l]) => s[k].partial

\* A response comes after its call, or the translator knows the call.
Answered(tr, s, id, tool) ==
  \A k \in 1..Len(s) :
    HasResponse(s[k]) =>
      \/ Correlates(tr, [id |-> id, tool |-> tool])
      \/ \E l \in 1..(k - 1) : HasCall(s[l]) /\ ~s[l].partial

\* The parts of an answer are parts that translate knows.
LEMMA PartsOfOk ==
  ASSUME NEW id \in Nat, NEW tool, NEW p \in PartsOf(id, tool)
  PROVE  PartOk(p) /\ (IsCall(p) \/ IsResponse(p) => p.call.id = id /\ p.call.tool = tool)
<1>1. CASE p \in TextParts
  BY <1>1 DEF TextParts, PartOk, IsCall, IsResponse
<1>2. CASE p \notin TextParts
  <2>1. /\ p \in CallParts /\ p.call.id = id /\ p.call.tool = tool
        /\ (p.kind = "call" => tool # Builtin) /\ (p.kind = "builtinCall" => tool = Builtin)
    BY <1>2 DEF PartsOf
  <2>2. p.call \in Calls /\ p.kind \in {"call", "builtinCall", "response", "builtinResponse"}
    BY <2>1 DEF CallParts
  <2>3. IsCall(p) \/ IsResponse(p)
    BY <2>2 DEF IsCall, IsResponse
  <2> QED
    BY <2>1, <2>2, <2>3 DEF PartOk
<1> QED
  BY <1>1, <1>2

\* What is said or thought is one part or none.
LEMMA SaidIsPart ==
  ASSUME NEW id, NEW tool, NEW kind \in {"thought", "text"}, NEW text \in Text
  PROVE  LET said == Said(kind, text)
         IN /\ said \in Seq(PartsOf(id, tool)) /\ Len(said) \in {0, 1}
            /\ said = <<>> \/ said = <<[kind |-> kind, text |-> text]>>
            /\ \A i \in 1..Len(said) : ~IsCall(said[i]) /\ ~IsResponse(said[i])
<1> DEFINE p == [kind |-> kind, text |-> text]
<1>1. p \in PartsOf(id, tool) /\ ~IsCall(p) /\ ~IsResponse(p)
  BY DEF PartsOf, TextParts, IsCall, IsResponse
<1> HIDE DEF p
<1>2. Said(kind, text) = IF text = <<>> THEN <<>> ELSE <<p>>
  BY DEF Said, p
<1>3. CASE text = <<>>
  <2>1. Said(kind, text) = <<>> /\ Len(<<>>) = 0 /\ <<>> \in Seq(PartsOf(id, tool)) /\ \A i : i \notin 1..0
    BY <1>2, <1>3
  <2> QED
    BY <2>1
<1>4. CASE text # <<>>
  <2>1. Said(kind, text) = <<p>> /\ Len(<<p>>) = 1 /\ <<p>> \in Seq(PartsOf(id, tool)) /\ <<p>>[1] = p
    BY <1>1, <1>2, <1>4
  <2> QED
    BY <1>1, <2>1 DEF p
<1> QED
  BY <1>3, <1>4

\* The call of a plan, if it has one.
LEMMA CalledIsPart ==
  ASSUME NEW id \in Nat, NEW plan \in Plans, NEW deltas \in Text
  PROVE  LET called == Called(plan, id, deltas)
         IN /\ called \in Seq(PartsOf(id, plan.tool)) /\ Len(called) \in {0, 1}
            /\ plan.tool = "none" => called = <<>>
            /\ \A i \in 1..Len(called) :
                 /\ IsCall(called[i]) /\ ~IsResponse(called[i])
                 /\ called[i].kind = "builtinCall" => plan.tool = Builtin
            /\ plan.tool # "none" => Len(called) = 1
<1> DEFINE k == IF plan.tool = Builtin THEN "builtinCall" ELSE "call"
           c == [id |-> id, tool |-> plan.tool, deltas |-> deltas]
           p == [kind |-> k, call |-> c]
<1>1. plan.tool \in Tools \cup {Nameless, "none"}
  BY EventTranslatorAssumption DEF PlanType
<1>2. Called(plan, id, deltas) = IF plan.tool = "none" THEN <<>> ELSE <<p>>
  BY DEF Called
<1>3. CASE plan.tool = "none"
  <2>1. Called(plan, id, deltas) = <<>> /\ Len(<<>>) = 0 /\ <<>> \in Seq(PartsOf(id, plan.tool)) /\ \A i : i \notin 1..0
    BY <1>2, <1>3
  <2> QED
    BY <1>3, <2>1
<1>4. CASE plan.tool # "none"
  <2>1. c \in Calls /\ c.id = id /\ c.tool = plan.tool
    BY <1>1, <1>4 DEF Calls
  <2> HIDE DEF c
  <2>2. p \in CallParts /\ p.call = c /\ p.kind = k
    BY <2>1 DEF CallParts
  <2>3. p \in PartsOf(id, plan.tool) /\ IsCall(p) /\ ~IsResponse(p) /\ (p.kind = "builtinCall" => plan.tool = Builtin)
    BY <2>1, <2>2 DEF PartsOf, IsCall, IsResponse
  <2> HIDE DEF p
  <2>4. Called(plan, id, deltas) = <<p>> /\ Len(<<p>>) = 1 /\ <<p>> \in Seq(PartsOf(id, plan.tool)) /\ <<p>>[1] = p
    BY <1>2, <1>4, <2>3
  <2> QED
    BY <1>4, <2>3, <2>4
<1> QED
  BY <1>3, <1>4

\* A response is one part, about its call.
LEMMA RespondedIsPart ==
  ASSUME NEW id \in Nat, NEW plan \in Plans, plan.tool # "none"
  PROVE  LET rs == Responded(plan, id)
         IN /\ rs \in Seq(PartsOf(id, plan.tool)) /\ Len(rs) = 1
            /\ \A i \in 1..1 : ~IsCall(rs[i]) /\ rs[i].kind # "builtinCall"
<1> DEFINE k == IF plan.tool = Builtin THEN "builtinResponse" ELSE "response"
           c == [id |-> id, tool |-> plan.tool, deltas |-> <<>>]
           p == [kind |-> k, call |-> c]
<1>1. plan.tool \in Tools \cup {Nameless}
  BY EventTranslatorAssumption DEF PlanType
<1>2. c \in Calls /\ c.id = id /\ c.tool = plan.tool
  BY <1>1, EmptyText DEF Calls
<1>3. Responded(plan, id) = <<p>>
  BY DEF Responded
<1> HIDE DEF c
<1>4. p \in CallParts /\ p.call = c /\ p.kind = k
  BY <1>2 DEF CallParts
<1>5. p \in PartsOf(id, plan.tool) /\ ~IsCall(p) /\ p.kind # "builtinCall"
  BY <1>2, <1>4 DEF PartsOf, IsCall
<1> HIDE DEF p
<1>6. Len(<<p>>) = 1 /\ <<p>> \in Seq(PartsOf(id, plan.tool)) /\ <<p>>[1] = p
  BY <1>5
<1> QED
  BY <1>3, <1>5, <1>6

\* The content of a partial event.
Bits(id, tool) ==
  {x \in Seq(PartsOf(id, tool)) :
     /\ Len(x) \in {0, 1}
     /\ \A i \in 1..Len(x) : ~IsResponse(x[i]) /\ (BuiltinsComeWhole => x[i].kind # "builtinCall")}

\* The partial events of an answer have one part at most, and no response.
LEMMA StreamedIsBits ==
  ASSUME NEW id \in Nat, NEW plan \in Plans
  PROVE  Streamed(plan, id) \in Seq(Bits(id, plan.tool))
<1> DEFINE B == Bits(id, plan.tool)
           Each(kind, text) == [i \in DOMAIN text |-> Said(kind, Chunks(text)[i])]
           fragments == [i \in DOMAIN Args |-> Called(plan, id, <<Args[i]>>)]
           bare == <<Called(plan, id, <<>>)>>
           calls == CASE plan.how = "deltas" -> fragments
                      [] plan.how = "bare" -> bare
                      [] plan.how = "final" -> <<>>
<1>1. /\ plan.thought \in Text /\ plan.text \in Text /\ plan.how \in {"deltas", "bare", "final"}
      /\ Args \in Text
  BY EventTranslatorAssumption DEF PlanType, Text
<1>2. ASSUME NEW text \in Text
      PROVE  /\ Len(text) \in Nat /\ DOMAIN text = 1..Len(text)
             /\ \A i \in 1..Len(text) : <<text[i]>> \in Text /\ SubSeq(text, 1, i) \in Text
  <2>1. Len(text) \in Nat /\ DOMAIN text = 1..Len(text)
    BY LenProperties DEF Text
  <2>2. ASSUME NEW i \in 1..Len(text) PROVE <<text[i]>> \in Text /\ SubSeq(text, 1, i) \in Text
    <3>1. text[i] \in STRING
      BY <2>1, ElementOfSeq DEF Text
    <3>2. SubSeq(text, 1, i) \in Text
      BY <2>1, SubSeqProperties DEF Text
    <3> QED
      BY <3>1, <3>2 DEF Text
  <2> QED
    BY <2>1, <2>2
<1>3. ASSUME NEW kind \in {"thought", "text"}, NEW text \in Text
      PROVE  Each(kind, text) \in Seq(B)
  <2>1. ASSUME NEW i \in 1..Len(text) PROVE Said(kind, Chunks(text)[i]) \in B
    <3>1. Chunks(text)[i] \in {SubSeq(text, 1, i), <<text[i]>>}
      BY <1>2 DEF Chunks
    <3>2. Chunks(text)[i] \in Text
      BY <1>2, <3>1
    <3> DEFINE said == Said(kind, Chunks(text)[i])
    <3>3. /\ said \in Seq(PartsOf(id, plan.tool)) /\ Len(said) \in {0, 1}
          /\ \A j \in 1..Len(said) : ~IsCall(said[j]) /\ ~IsResponse(said[j])
      BY <3>2, SaidIsPart
    <3> HIDE DEF said
    <3>4. said \in B
      BY <3>3 DEF Bits, IsCall
    <3> QED
      BY <3>4 DEF said
  <2>2. DOMAIN text = 1..Len(text) /\ Len(text) \in Nat
    BY <1>2
  <2> DEFINE f == Each(kind, text)
  <2>3. f = [i \in 1..Len(text) |-> f[i]] /\ \A i \in 1..Len(text) : f[i] \in B
    BY <2>1, <2>2
  <2> HIDE DEF f, B
  <2>4. f \in Seq(B)
    BY <2>2, <2>3, SeqFrom
  <2> QED
    BY <2>4 DEF f
<1>4. ASSUME NEW deltas \in Text, plan.how # "final" PROVE Called(plan, id, deltas) \in B
  <2> DEFINE called == Called(plan, id, deltas)
  <2>1. /\ called \in Seq(PartsOf(id, plan.tool)) /\ Len(called) \in {0, 1}
        /\ \A i \in 1..Len(called) :
             /\ IsCall(called[i]) /\ ~IsResponse(called[i])
             /\ called[i].kind = "builtinCall" => plan.tool = Builtin
    BY CalledIsPart
  <2>2. BuiltinsComeWhole => plan.tool # Builtin
    BY <1>4 DEF BuiltinsComeWhole
  <2> HIDE DEF called
  <2>3. called \in B
    BY <2>1, <2>2 DEF Bits
  <2> QED
    BY <2>3 DEF called
<1>5. calls \in Seq(B)
  <2>1. CASE plan.how = "deltas"
    <3>1. Len(Args) \in Nat /\ DOMAIN Args = 1..Len(Args)
      BY <1>1, <1>2
    <3>2. ASSUME NEW i \in 1..Len(Args) PROVE Called(plan, id, <<Args[i]>>) \in B
      BY <1>1, <1>2, <1>4, <2>1
    <3>3. fragments = [i \in 1..Len(Args) |-> fragments[i]] /\ \A i \in 1..Len(Args) : fragments[i] \in B
      BY <3>1, <3>2
    <3> HIDE DEF fragments, B
    <3>4. fragments \in Seq(B)
      BY <3>1, <3>3, SeqFrom
    <3> QED
      BY <2>1, <3>4
  <2>2. CASE plan.how = "bare"
    <3>1. Called(plan, id, <<>>) \in B
      BY <1>4, <2>2, EmptyText
    <3> HIDE DEF B
    <3>2. bare \in Seq(B)
      BY <3>1
    <3> QED
      BY <2>2, <3>2
  <2>3. CASE plan.how = "final"
    BY <2>3
  <2> QED
    BY <1>1, <2>1, <2>2, <2>3
<1>6. Streamed(plan, id) =
        CASE conf.style = "whole" -> <<>>
          [] conf.style = "chat" -> Each("text", plan.text)
          [] OTHER -> Each("thought", plan.thought) \o Each("text", plan.text) \o calls
  BY DEF Streamed
<1>7. Each("text", plan.text) \in Seq(B) /\ Each("thought", plan.thought) \in Seq(B)
  BY <1>1, <1>3
<1> HIDE DEF Each, calls, B
<1>8. Each("thought", plan.thought) \o Each("text", plan.text) \o calls \in Seq(B)
  BY <1>5, <1>7
<1>9. <<>> \in Seq(B)
  OBVIOUS
<1> QED
  BY <1>6, <1>7, <1>8, <1>9 DEF B

\* The final event of an answer holds the call, if there is one.
LEMMA FinalPartsFacts ==
  ASSUME NEW id \in Nat, NEW plan \in Plans
  PROVE  LET f == FinalParts(plan, id)
         IN /\ f \in Seq(PartsOf(id, plan.tool))
            /\ \A i, j \in 1..Len(f) : IsCall(f[i]) /\ IsCall(f[j]) => i = j
            /\ \A i \in 1..Len(f) : ~IsResponse(f[i])
            /\ plan.tool # "none" => \E i \in 1..Len(f) : IsCall(f[i])
<1> DEFINE S == PartsOf(id, plan.tool)
           x == Said("thought", plan.thought)
           y == Said("text", plan.text)
           w == IF conf.style = "chat" THEN <<>> ELSE x \o y
           c == Called(plan, id, <<>>)
           f == FinalParts(plan, id)
<1>1. plan.thought \in Text /\ plan.text \in Text
  BY EventTranslatorAssumption DEF PlanType, Text
<1>2. /\ x \in Seq(S) /\ Len(x) \in Nat /\ \A i \in 1..Len(x) : ~IsCall(x[i]) /\ ~IsResponse(x[i])
      /\ y \in Seq(S) /\ Len(y) \in Nat /\ \A i \in 1..Len(y) : ~IsCall(y[i]) /\ ~IsResponse(y[i])
  BY <1>1, SaidIsPart
<1>3. /\ c \in Seq(S) /\ Len(c) \in {0, 1} /\ (plan.tool # "none" => Len(c) = 1)
      /\ \A i \in 1..Len(c) : IsCall(c[i]) /\ ~IsResponse(c[i])
  BY CalledIsPart, EmptyText
<1>4. f = w \o c
  BY DEF FinalParts
<1> HIDE DEF x, y, c, S, f
<1>5. /\ x \o y \in Seq(S) /\ Len(x \o y) = Len(x) + Len(y)
      /\ \A i \in 1..(Len(x) + Len(y)) : (x \o y)[i] = IF i <= Len(x) THEN x[i] ELSE y[i - Len(x)]
  BY <1>2, ConcatProperties
<1>6. w \in Seq(S) /\ Len(w) \in Nat /\ \A i \in 1..Len(w) : ~IsCall(w[i]) /\ ~IsResponse(w[i])
  <2>1. ASSUME NEW i \in 1..(Len(x) + Len(y)) PROVE ~IsCall((x \o y)[i]) /\ ~IsResponse((x \o y)[i])
    <3>1. CASE i <= Len(x)
      BY <1>2, <1>5, <3>1
    <3>2. CASE ~(i <= Len(x))
      <4>1. i - Len(x) \in 1..Len(y)
        BY <1>2, <3>2
      <4> QED
        BY <1>2, <1>5, <3>2, <4>1
    <3> QED
      BY <3>1, <3>2
  <2>2. <<>> \in Seq(S) /\ Len(<<>>) = 0 /\ \A i : i \notin 1..0
    OBVIOUS
  <2>3. Len(x) + Len(y) \in Nat
    BY <1>2
  <2>4. CASE conf.style = "chat"
    BY <2>2, <2>4
  <2>5. CASE conf.style # "chat"
    <3>1. w = x \o y
      BY <2>5
    <3> HIDE DEF w
    <3> QED
      BY <1>5, <2>1, <2>3, <3>1
  <2> QED
    BY <2>4, <2>5
<1> HIDE DEF w
<1>7. /\ f \in Seq(S) /\ Len(f) = Len(w) + Len(c)
      /\ \A i \in 1..(Len(w) + Len(c)) : f[i] = IF i <= Len(w) THEN w[i] ELSE c[i - Len(w)]
  BY <1>3, <1>4, <1>6, ConcatProperties
<1>8. ASSUME NEW i \in 1..Len(f) PROVE (IsCall(f[i]) => i = Len(w) + 1) /\ ~IsResponse(f[i])
  <2>1. CASE i <= Len(w)
    BY <1>3, <1>6, <1>7, <2>1
  <2>2. CASE ~(i <= Len(w))
    <3>1. i = Len(w) + 1 /\ i - Len(w) = 1 /\ Len(c) = 1
      BY <1>3, <1>6, <1>7, <2>2
    <3> QED
      BY <1>3, <1>7, <2>2, <3>1
  <2> QED
    BY <2>1, <2>2
<1>9. plan.tool # "none" => \E i \in 1..Len(f) : IsCall(f[i])
  <2> SUFFICES ASSUME plan.tool # "none" PROVE \E i \in 1..Len(f) : IsCall(f[i])
    OBVIOUS
  <2>3. Len(c) = 1 /\ Len(w) \in Nat /\ Len(f) = Len(w) + 1
    BY <1>3, <1>6, <1>7
  <2>1. Len(c) = 1 /\ Len(w) + 1 \in 1..Len(f) /\ ~(Len(w) + 1 <= Len(w)) /\ (Len(w) + 1) - Len(w) = 1
    BY <2>3
  <2>2. f[Len(w) + 1] = c[1]
    BY <1>6, <1>7, <2>1
  <2> QED
    BY <1>3, <2>1, <2>2
<1> QED
  BY <1>7, <1>8, <1>9 DEF f, S

\* The call streams, comes in whole, and is answered, in this order.
LEMMA AnswerIsOk ==
  ASSUME NEW a \in Agents, NEW plan \in Plans, NEW id \in Nat, NEW tr
  PROVE  LET s == Answer(a, plan, id)
         IN AnswerOk(s, a, id, plan.tool) /\ Answered(tr, s, id, plan.tool)
<1> DEFINE T == PartsOf(id, plan.tool)
           E == AdkEvents(a, id, plan.tool)
           b == Streamed(plan, id)
           m == Len(b)
           p == [i \in DOMAIN b |-> AdkEvent(a, TRUE, b[i])]
           fin == [AdkEvent(a, FALSE, FinalParts(plan, id)) EXCEPT !.complete = TRUE, !.long = plan.long]
           res == AdkEvent(a, FALSE, Responded(plan, id))
           q == p \o <<fin>>
           r == IF plan.tool = "none" \/ plan.long THEN <<>> ELSE <<res>>
           s == Answer(a, plan, id)
<1>1. plan.long \in BOOLEAN
  BY EventTranslatorAssumption DEF PlanType
<1>2. b \in Seq(Bits(id, plan.tool)) /\ m \in Nat /\ DOMAIN b = 1..m
  BY StreamedIsBits, LenProperties
<1>3. s = q \o r
  BY DEF Answer
<1> HIDE DEF b
<1>4. ASSUME NEW i \in 1..m
      PROVE  /\ p[i] \in E /\ p[i].partial /\ ~p[i].failed
             /\ OneCall(p[i]) /\ BuiltinWhole(p[i]) /\ ~HasResponse(p[i])
  <2>1. b[i] \in Bits(id, plan.tool)
    BY <1>2, ElementOfSeq
  <2>2. /\ b[i] \in Seq(T) /\ Len(b[i]) \in {0, 1}
        /\ \A j \in 1..Len(b[i]) : ~IsResponse(b[i][j]) /\ (BuiltinsComeWhole => b[i][j].kind # "builtinCall")
    BY <2>1 DEF Bits
  <2>3. p[i] = AdkEvent(a, TRUE, b[i])
    BY <1>2
  <2>4. /\ p[i] \in E /\ p[i].partial /\ ~p[i].failed /\ p[i].parts = b[i]
    BY <2>2, <2>3 DEF AdkEvent, AdkEvents
  <2> HIDE DEF p
  <2> QED
    BY <2>2, <2>4 DEF OneCall, BuiltinWhole, HasResponse
<1>5. p \in Seq(E) /\ Len(p) = m
  <2>1. p = [i \in 1..m |-> p[i]]
    BY <1>2
  <2> HIDE DEF p, m
  <2> QED
    BY <1>2, <1>4, <2>1, SeqFrom
<1>6. /\ fin \in E /\ ~fin.partial /\ ~fin.failed
      /\ OneCall(fin) /\ BuiltinWhole(fin) /\ ~HasResponse(fin) /\ (plan.tool # "none" => HasCall(fin))
  <2> DEFINE fp == FinalParts(plan, id)
  <2>1. /\ fp \in Seq(T)
        /\ \A i, j \in 1..Len(fp) : IsCall(fp[i]) /\ IsCall(fp[j]) => i = j
        /\ \A i \in 1..Len(fp) : ~IsResponse(fp[i])
        /\ plan.tool # "none" => \E i \in 1..Len(fp) : IsCall(fp[i])
    BY FinalPartsFacts
  <2> HIDE DEF fp
  <2>2. fin.parts = fp /\ fin \in E /\ fin.partial = FALSE /\ fin.failed = FALSE
    BY <1>1, <2>1 DEF AdkEvent, AdkEvents, fp
  <2> HIDE DEF fin
  <2> QED
    BY <2>1, <2>2 DEF OneCall, BuiltinWhole, HasResponse, HasCall
<1>7. ASSUME plan.tool # "none"
      PROVE  /\ res \in E /\ ~res.partial /\ ~res.failed
             /\ OneCall(res) /\ BuiltinWhole(res) /\ ~HasCall(res)
  <2> DEFINE rs == Responded(plan, id)
  <2>1. rs \in Seq(T) /\ Len(rs) = 1 /\ \A i \in 1..1 : ~IsCall(rs[i]) /\ rs[i].kind # "builtinCall"
    BY <1>7, RespondedIsPart
  <2> HIDE DEF rs
  <2>2. res.parts = rs /\ res \in E /\ res.partial = FALSE /\ res.failed = FALSE
    BY <2>1 DEF AdkEvent, AdkEvents, rs
  <2> HIDE DEF res
  <2> QED
    BY <2>1, <2>2 DEF OneCall, BuiltinWhole, HasCall
<1> HIDE DEF p, fin, res, m, E
<1>8. /\ q \in Seq(E) /\ Len(q) = m + 1 /\ q[m + 1] = fin
      /\ \A k \in 1..m : q[k] = p[k]
  <2>1. <<fin>> \in Seq(E) /\ Len(<<fin>>) = 1 /\ <<fin>>[1] = fin
    BY <1>6
  <2> DEFINE one == <<fin>>
  <2> HIDE DEF one
  <2>2. /\ p \o one \in Seq(E) /\ Len(p \o one) = m + 1
        /\ \A k \in 1..(m + 1) : (p \o one)[k] = IF k <= m THEN p[k] ELSE one[k - m]
    BY <1>5, <2>1, ConcatProperties DEF one
  <2>3. (m + 1) - m = 1 /\ ~(m + 1 <= m) /\ m + 1 \in 1..(m + 1)
    BY <1>2
  <2>4. (p \o one)[m + 1] = fin
    BY <2>1, <2>2, <2>3 DEF one
  <2> QED
    BY <1>2, <2>2, <2>4 DEF one
<1> HIDE DEF q
<1>9. /\ r \in Seq(E) /\ Len(r) \in {0, 1}
      /\ Len(r) = 1 => r[1] = res /\ plan.tool # "none"
  <2>1. CASE plan.tool = "none" \/ plan.long
    BY <2>1
  <2>2. CASE ~(plan.tool = "none" \/ plan.long)
    <3>1. r = <<res>> /\ res \in E
      BY <1>7, <2>2
    <3> HIDE DEF r
    <3> QED
      BY <2>2, <3>1
  <2> QED
    BY <2>1, <2>2
<1> HIDE DEF r, s
<1>10. /\ s \in Seq(E) /\ Len(s) = m + 1 + Len(r)
       /\ \A k \in 1..m : s[k] = p[k]
       /\ s[m + 1] = fin
       /\ \A k \in 1..Len(s) : k > m + 1 => k = m + 2 /\ s[k] = res /\ plan.tool # "none"
  <2>1. /\ s \in Seq(E) /\ Len(s) = m + 1 + Len(r)
        /\ \A k \in 1..(m + 1 + Len(r)) : s[k] = IF k <= m + 1 THEN q[k] ELSE r[k - (m + 1)]
    BY <1>3, <1>8, <1>9, ConcatProperties
  <2>2. ASSUME NEW k \in 1..Len(s), k > m + 1 PROVE k = m + 2 /\ s[k] = res /\ plan.tool # "none"
    <3>1. k = m + 2 /\ Len(r) = 1 /\ k - (m + 1) = 1 /\ ~(k <= m + 1)
      BY <1>2, <1>9, <2>1, <2>2
    <3> QED
      BY <1>9, <2>1, <3>1
  <2>3. \A k \in 1..(m + 1) : s[k] = q[k]
    BY <1>2, <1>9, <2>1
  <2>4. m + 1 \in 1..(m + 1) /\ \A k \in 1..m : k \in 1..(m + 1)
    BY <1>2
  <2> QED
    BY <1>8, <2>1, <2>2, <2>3, <2>4
<1>11. ASSUME NEW k \in 1..Len(s)
       PROVE  /\ OneCall(s[k]) /\ BuiltinWhole(s[k]) /\ ~s[k].failed
              /\ k <= m => s[k].partial
              /\ k <= m + 1 => ~HasResponse(s[k])
              /\ k > m + 1 => ~HasCall(s[k]) /\ plan.tool # "none"
  <2>1. k \in 1..m \/ k = m + 1 \/ k > m + 1
    BY <1>2
  <2>2. CASE k \in 1..m
    <3>1. s[k] = p[k] /\ k <= m + 1 /\ ~(k > m + 1)
      BY <1>2, <1>10, <2>2
    <3> QED
      BY <1>4, <2>2, <3>1
  <2>3. CASE k = m + 1
    <3>1. s[k] = fin /\ ~(k <= m) /\ ~(k > m + 1)
      BY <1>2, <1>10, <2>3
    <3> QED
      BY <1>6, <3>1
  <2>4. CASE k > m + 1
    <3>1. s[k] = res /\ plan.tool # "none" /\ ~(k <= m) /\ ~(k <= m + 1)
      BY <1>2, <1>10, <2>4
    <3> QED
      BY <1>7, <2>4, <3>1
  <2> QED
    BY <2>1, <2>2, <2>3, <2>4
<1>12. Len(s) \in Nat /\ m + 1 \in 1..Len(s)
  BY <1>2, <1>9, <1>10
<1>13. ASSUME NEW k \in 1..Len(s), NEW l \in 1..Len(s), k < l, HasCall(s[k]), HasCall(s[l]) PROVE s[k].partial
  <2>1. ~(l > m + 1)
    BY <1>11, <1>13
  <2>2. k <= m
    BY <1>2, <1>13, <2>1
  <2> QED
    BY <1>11, <2>2
<1>14. AnswerOk(s, a, id, plan.tool)
  BY <1>10, <1>11, <1>13 DEF AnswerOk, E
<1>15. Answered(tr, s, id, plan.tool)
  <2> SUFFICES ASSUME NEW k \in 1..Len(s), HasResponse(s[k]) PROVE \E l \in 1..(k - 1) : HasCall(s[l]) /\ ~s[l].partial
    BY DEF Answered
  <2>1. k > m + 1 /\ plan.tool # "none"
    BY <1>2, <1>11
  <2>2. m + 1 \in 1..(k - 1)
    BY <1>2, <1>12, <2>1
  <2> QED
    BY <1>6, <1>10, <2>1, <2>2
<1> QED
  BY <1>14, <1>15 DEF s

\* The next event of an answer, and the rest.
LEMMA HeadOk ==
  ASSUME NEW a \in Agents, NEW id \in Nat, NEW tool, NEW s, AnswerOk(s, a, id, tool), s # <<>>
  PROVE  LET ev == Head(s)
         IN /\ EventOk(ev) /\ ev = s[1] /\ Len(s) \in Nat \ {0}
            /\ ev.failed => conf.errors /\ Tail(s) = <<>>
            /\ \A i \in 1..Len(ev.parts) :
                 /\ IsCall(ev.parts[i]) \/ IsResponse(ev.parts[i]) => ev.parts[i].call.id = id /\ ev.parts[i].call.tool = tool
                 /\ ev.parts[i].kind = "call" => tool # Builtin
                 /\ ev.parts[i].kind = "builtinCall" => tool = Builtin /\ (BuiltinsComeWhole => ~ev.partial)
<1> DEFINE ev == Head(s)
<1>1. s \in Seq(AdkEvents(a, id, tool))
  BY DEF AnswerOk
<1>2. /\ Len(s) \in Nat \ {0} /\ ev = s[1] /\ ev \in AdkEvents(a, id, tool) /\ 1 \in 1..Len(s)
      /\ Tail(s) \in Seq(AdkEvents(a, id, tool)) /\ Len(Tail(s)) = Len(s) - 1
  BY <1>1, HeadTailProperties, EmptySeq
<1>3. /\ OneCall(ev) /\ BuiltinWhole(ev)
      /\ ev.failed => conf.errors /\ Len(s) = 1 /\ Len(ev.parts) = 0
  BY <1>2 DEF AnswerOk
<1> HIDE DEF ev
<1>4. /\ ev.author = a /\ ev.partial \in BOOLEAN /\ ev.failed \in BOOLEAN /\ ev.parts \in Seq(PartsOf(id, tool))
  BY <1>2 DEF AdkEvents
<1>5. Len(ev.parts) \in Nat /\ \A i \in 1..Len(ev.parts) : ev.parts[i] \in PartsOf(id, tool)
  BY <1>4, LenProperties, ElementOfSeq
<1>6. ASSUME NEW i \in 1..Len(ev.parts)
      PROVE  /\ PartOk(ev.parts[i])
             /\ IsCall(ev.parts[i]) \/ IsResponse(ev.parts[i]) => ev.parts[i].call.id = id /\ ev.parts[i].call.tool = tool
             /\ ev.parts[i].kind = "call" => tool # Builtin
             /\ ev.parts[i].kind = "builtinCall" => tool = Builtin /\ (BuiltinsComeWhole => ~ev.partial)
  <2>1. /\ PartOk(ev.parts[i])
        /\ IsCall(ev.parts[i]) \/ IsResponse(ev.parts[i]) => ev.parts[i].call.id = id /\ ev.parts[i].call.tool = tool
    BY <1>5, PartsOfOk
  <2>2. ev.parts[i].kind \in {"call", "builtinCall"} => IsCall(ev.parts[i])
    BY DEF IsCall
  <2>3. ev.parts[i].kind = "call" => tool # Builtin
    BY <2>1, <2>2 DEF PartOk
  <2>4. ev.parts[i].kind = "builtinCall" => tool = Builtin
    BY <2>1, <2>2 DEF PartOk
  <2>5. ev.parts[i].kind = "builtinCall" => (BuiltinsComeWhole => ~ev.partial)
    BY <1>3 DEF BuiltinWhole
  <2> QED
    BY <2>1, <2>3, <2>4, <2>5
<1>7. EventOk(ev)
  BY <1>3, <1>4, <1>5, <1>6 DEF EventOk, OneCall
<1>8. Len(s) = 1 => Tail(s) = <<>>
  <2>1. Len(s) = 1 => Len(Tail(s)) = 0
    BY <1>2
  <2> QED
    BY <1>2, <2>1, EmptySeq
<1> QED
  BY <1>2, <1>3, <1>6, <1>7, <1>8 DEF ev

\* What is still to come after the next event.
LEMMA TailOk ==
  ASSUME NEW a \in Agents, NEW id \in Nat, NEW tool, NEW s, AnswerOk(s, a, id, tool), s # <<>>
  PROVE  /\ AnswerOk(Tail(s), a, id, tool)
         /\ Len(Tail(s)) \in Nat /\ \A k \in 1..Len(Tail(s)) : k + 1 \in 1..Len(s) /\ Tail(s)[k] = s[k + 1]
         /\ HasCall(Head(s)) /\ ~Head(s).partial => \A k \in 1..Len(Tail(s)) : ~HasCall(Tail(s)[k])
<1> DEFINE r == Tail(s)
<1>1. s \in Seq(AdkEvents(a, id, tool))
  BY DEF AnswerOk
<1>2. /\ Len(s) \in Nat \ {0} /\ Head(s) = s[1] /\ 1 \in 1..Len(s)
      /\ r \in Seq(AdkEvents(a, id, tool)) /\ Len(r) = Len(s) - 1
      /\ \A k \in 1..Len(r) : r[k] = s[k + 1]
  BY <1>1, HeadTailProperties, EmptySeq
<1>3. \A k \in 1..Len(r) : k + 1 \in 1..Len(s) /\ 1 < k + 1
  BY <1>2
<1> HIDE DEF r
<1>4. \A k \in 1..Len(r) : OneCall(r[k]) /\ BuiltinWhole(r[k]) /\ ~r[k].failed
  <2> SUFFICES ASSUME NEW k \in 1..Len(r) PROVE OneCall(r[k]) /\ BuiltinWhole(r[k]) /\ ~r[k].failed
    OBVIOUS
  <2>1. Len(s) # 1
    BY <1>2
  <2> QED
    BY <1>2, <1>3, <2>1 DEF AnswerOk
<1>5. ASSUME NEW k \in 1..Len(r), NEW l \in 1..Len(r), k < l, HasCall(r[k]), HasCall(r[l]) PROVE r[k].partial
  <2>1. k + 1 < l + 1
    BY <1>2, <1>5
  <2> QED
    BY <1>2, <1>3, <1>5, <2>1 DEF AnswerOk
<1>6. AnswerOk(r, a, id, tool)
  BY <1>2, <1>4, <1>5 DEF AnswerOk
<1>7. ASSUME HasCall(Head(s)), ~Head(s).partial, NEW k \in 1..Len(r) PROVE ~HasCall(r[k])
  <2>1. \A i, j \in 1..Len(s) : i < j /\ HasCall(s[i]) /\ HasCall(s[j]) => s[i].partial
    BY DEF AnswerOk
  <2>2. HasCall(s[1]) /\ ~s[1].partial /\ r[k] = s[k + 1] /\ k + 1 \in 1..Len(s) /\ 1 < k + 1 /\ 1 \in 1..Len(s)
    BY <1>2, <1>3, <1>7
  <2> QED
    BY <2>1, <2>2
<1>8. Len(r) \in Nat
  BY <1>2
<1>9. \A k \in 1..Len(r) : k + 1 \in 1..Len(s) /\ r[k] = s[k + 1]
  BY <1>2, <1>3
<1>10. HasCall(Head(s)) /\ ~Head(s).partial => \A k \in 1..Len(r) : ~HasCall(r[k])
  BY <1>7
<1> QED
  BY <1>6, <1>8, <1>9, <1>10 DEF r

\* What is known stays known.
LEMMA AnsweredOn ==
  ASSUME NEW tr, NEW u, tr.known \subseteq u.known, NEW s, NEW id, NEW tool, Answered(tr, s, id, tool)
  PROVE  Answered(u, s, id, tool)
<1> DEFINE c == [id |-> id, tool |-> tool]
<1>1. Correlates(tr, c) => Correlates(u, c)
  BY DEF Correlates
<1> HIDE DEF c
<1> QED
  BY <1>1 DEF Answered, c

\* The responses of the next event find their calls.
LEMMA ResultsAreFound ==
  ASSUME NEW a \in Agents, NEW id \in Nat, NEW tool, NEW s, AnswerOk(s, a, id, tool), s # <<>>,
         NEW tr, Answered(tr, s, id, tool)
  PROVE  ResultsFound(tr, Head(s))
<1> DEFINE ev == Head(s)
<1>1. /\ ev = s[1] /\ 1 \in 1..Len(s)
      /\ \A i \in 1..Len(ev.parts) : IsResponse(ev.parts[i]) => ev.parts[i].call.id = id /\ ev.parts[i].call.tool = tool
  BY HeadOk
<1> HIDE DEF ev
<1>2. ASSUME NEW i \in 1..Len(ev.parts), IsResponse(ev.parts[i]) PROVE Correlates(tr, ev.parts[i].call)
  <2>1. HasResponse(s[1])
    BY <1>1, <1>2 DEF HasResponse
  <2>2. \A l : l \notin 1..(1 - 1)
    OBVIOUS
  <2>3. Correlates(tr, [id |-> id, tool |-> tool])
    BY <1>1, <2>1, <2>2 DEF Answered
  <2> QED
    BY <1>1, <1>2, <2>3 DEF Correlates
<1> QED
  BY <1>2 DEF ResultsFound, ev

\* So will those of the events after it.
LEMMA AnsweredRest ==
  ASSUME NEW a \in Agents, NEW id \in Nat, NEW tool, NEW s, AnswerOk(s, a, id, tool), s # <<>>,
         NEW tr, Answered(tr, s, id, tool), NEW u, tr.known \subseteq u.known,
         \A i \in 1..Len(Head(s).parts) :
           IsCall(Head(s).parts[i]) /\ ~Head(s).partial => Correlates(u, Head(s).parts[i].call)
  PROVE  Answered(u, Tail(s), id, tool)
<1> DEFINE r == Tail(s)
           c == [id |-> id, tool |-> tool]
<1>1. Answered(u, s, id, tool)
  BY AnsweredOn
<1>2. Len(r) \in Nat /\ \A k \in 1..Len(r) : k + 1 \in 1..Len(s) /\ r[k] = s[k + 1]
  BY TailOk
<1>3. HasCall(s[1]) /\ ~s[1].partial => Correlates(u, c)
  <2> DEFINE ev == Head(s)
  <2>1. /\ ev = s[1]
        /\ \A i \in 1..Len(ev.parts) : IsCall(ev.parts[i]) => ev.parts[i].call.id = id /\ ev.parts[i].call.tool = tool
    BY HeadOk
  <2>2. \A i \in 1..Len(ev.parts) : IsCall(ev.parts[i]) /\ ~ev.partial => Correlates(u, ev.parts[i].call)
    OBVIOUS
  <2> HIDE DEF ev
  <2> QED
    BY <2>1, <2>2 DEF HasCall, Correlates
<1>4. ASSUME NEW k \in 1..Len(r), HasResponse(r[k]), ~Correlates(u, c)
      PROVE  \E l \in 1..(k - 1) : HasCall(r[l]) /\ ~r[l].partial
  <2>1. k \in Nat /\ k + 1 \in 1..Len(s) /\ r[k] = s[k + 1] /\ (k + 1) - 1 = k
    BY <1>2
  <2> HIDE DEF r
  <2>2. PICK l \in 1..k : HasCall(s[l]) /\ ~s[l].partial
    BY <1>1, <1>4, <2>1 DEF Answered
  <2>3. l # 1
    BY <1>3, <1>4, <2>2
  <2>4. l - 1 \in 1..(k - 1) /\ l - 1 \in 1..Len(r) /\ (l - 1) + 1 = l
    BY <1>2, <2>1, <2>3
  <2>5. r[l - 1] = s[l]
    BY <1>2, <2>4
  <2> QED
    BY <2>2, <2>4, <2>5
<1> HIDE DEF r
<1> QED
  BY <1>4 DEF Answered, r
-----------------------------------------------------------------------------
(* The run loop.                                                           *)

\* Whose answer to what is still to come, by its call: who[a] is that of the answer of a.
Answerers == [Agents -> [id : Nat, tool : Tools \cup {Nameless, "none"}]]

Calling(s) == \E k \in 1..Len(s) : HasCall(s[k])
Live(todos, n, who) ==
  {i \in Own : i > n} \cup {who[a].id : a \in {a \in Agents : Calling(todos[a])}}
Whole(todos, n, who) ==
  {i \in Own : i > n} \cup {who[a].id : a \in {a \in Agents : Calling(todos[a]) /\ who[a].tool = Builtin}}

\* While the loop goes on, after n answers: what is to come fits what has been said, and the agents
\* that answer at once have different calls.
Running(tr, todos, n, s0, who) ==
  /\ n <= MaxAnswers
  /\ \A a \in Agents : /\ AnswerOk(todos[a], a, who[a].id, who[a].tool)
                       /\ Answered(tr, todos[a], who[a].id, who[a].tool)
                       /\ who[a].id <= n
  /\ \A a, b \in Agents : a # b /\ todos[a] # <<>> /\ todos[b] # <<>> =>
       conf.parallel /\ who[a].id # who[b].id
  /\ Orderly /\ BuiltinsComeWhole => Good(s0, tr, Live(todos, n, who), Whole(todos, n, who))

\* The answers are those that were asked for.
AnswersAsked(todos, who) == \A a \in Agents : todos[a] # <<>> => Asking(who[a])

\* An agent with nothing more to say.
LEMMA NothingToCome ==
  ASSUME NEW a \in Agents, NEW id \in Nat, NEW tool, NEW tr
  PROVE  AnswerOk(<<>>, a, id, tool) /\ Answered(tr, <<>>, id, tool) /\ ~Calling(<<>>)
<1>1. Len(<<>>) = 0 /\ <<>> \in Seq(AdkEvents(a, id, tool)) /\ \A k : k \notin 1..0
  OBVIOUS
<1> QED
  BY <1>1 DEF AnswerOk, Answered, Calling

\* A call can only come from an agent that has more to say.
LEMMA CallingIsSomething ==
  ASSUME NEW s, Calling(s)
  PROVE  s # <<>>
<1>1. Len(<<>>) = 0 /\ \A k : k \notin 1..0
  OBVIOUS
<1> QED
  BY <1>1 DEF Calling

\* An answer to plan begins as number n; the others go on as they were.
BeginsAs(tr, todos, n, s0, a, plan, who, w) ==
  /\ Running(tr, [todos EXCEPT ![a] = Answer(a, plan, n)], n, s0, w)
  /\ w[a] = [id |-> n, tool |-> plan.tool] /\ \A b \in Agents : b # a => w[b] = who[b]

\* An agent begins an answer, under an id nobody has used.
LEMMA BeginRuns ==
  ASSUME NEW tr, NEW todos, todos = [a \in Agents |-> todos[a]], NEW n \in Nat, NEW s0, NEW who \in Answerers,
         Running(tr, todos, n, s0, who),
         NEW a \in Agents, NEW plan \in Plans, todos[a] = <<>>,
         conf.parallel \/ \A b \in Agents : todos[b] = <<>>, n < MaxAnswers
  PROVE  \E w \in Answerers : BeginsAs(tr, todos, n + 1, s0, a, plan, who, w)
<1> DEFINE s == Answer(a, plan, n + 1)
           new == [todos EXCEPT ![a] = s]
           me == [id |-> n + 1, tool |-> plan.tool]
           w == [who EXCEPT ![a] = me]
<1>1. plan.tool \in Tools \cup {Nameless, "none"} /\ n + 1 \in Nat /\ n + 1 \in Own /\ n + 1 <= MaxAnswers
  BY EventTranslatorAssumption DEF PlanType, Own
<1>2. w \in Answerers /\ w[a].id = n + 1 /\ w[a].tool = plan.tool /\ \A b \in Agents : b # a => w[b] = who[b]
  BY <1>1 DEF Answerers
<1>11. w[a] = me
  BY DEF Answerers
<1>3. new[a] = s /\ \A b \in Agents : b # a => new[b] = todos[b]
  OBVIOUS
<1>4. AnswerOk(s, a, n + 1, plan.tool) /\ Answered(tr, s, n + 1, plan.tool)
  BY <1>1, AnswerIsOk
<1>5. \A b \in Agents : who[b].id \in Nat /\ who[b].id <= n
  BY DEF Running, Answerers
<1> HIDE DEF s, new, w
<1>6. ASSUME NEW b \in Agents
      PROVE  /\ AnswerOk(new[b], b, w[b].id, w[b].tool)
             /\ Answered(tr, new[b], w[b].id, w[b].tool)
             /\ w[b].id <= n + 1
  <2>1. CASE b = a
    BY <1>1, <1>2, <1>3, <1>4, <2>1
  <2>2. CASE b # a
    <3>1. w[b] = who[b] /\ new[b] = todos[b] /\ who[b].id <= n + 1
      BY <1>2, <1>3, <1>5, <2>2
    <3> QED
      BY <3>1 DEF Running
  <2> QED
    BY <2>1, <2>2
<1>7. ASSUME NEW b \in Agents, NEW c \in Agents, b # c, new[b] # <<>>, new[c] # <<>>
      PROVE  conf.parallel /\ w[b].id # w[c].id
  <2>1. CASE b # a /\ c # a
    BY <1>2, <1>3, <1>7, <2>1 DEF Running
  <2>2. CASE b = a \/ c = a
    <3>1. PICK d \in Agents : d # a /\ {b, c} = {a, d}
      BY <1>7, <2>2
    <3>2. todos[d] # <<>> /\ w[d].id \in Nat /\ w[d].id <= n /\ w[a].id = n + 1
      BY <1>2, <1>3, <1>5, <1>7, <3>1
    <3>3. conf.parallel /\ w[d].id # w[a].id
      BY <3>2
    <3> QED
      BY <1>7, <3>1, <3>3
  <2> QED
    BY <2>1, <2>2
<1>8. Live(new, n + 1, w) \subseteq Live(todos, n, who) /\ Whole(new, n + 1, w) \subseteq Whole(todos, n, who)
  <2>1. ASSUME NEW b \in Agents, Calling(new[b])
        PROVE  w[b].id \in Live(todos, n, who) /\ (w[b].tool = Builtin => w[b].id \in Whole(todos, n, who))
    <3>1. CASE b = a
      <4>1. w[b].id \in Own /\ w[b].id > n
        BY <1>1, <1>2, <3>1
      <4> QED
        BY <4>1 DEF Live, Whole
    <3>2. CASE b # a
      <4>1. w[b] = who[b] /\ Calling(todos[b])
        BY <1>2, <1>3, <2>1, <3>2
      <4> QED
        BY <4>1 DEF Live, Whole
    <3> QED
      BY <3>1, <3>2
  <2>2. ASSUME NEW i \in Own, i > n + 1 PROVE i \in Live(todos, n, who) /\ i \in Whole(todos, n, who)
    <3>1. i > n
      BY <2>2, EventTranslatorAssumption DEF Own
    <3> QED
      BY <3>1 DEF Live, Whole
  <2> QED
    BY <2>1, <2>2 DEF Live, Whole
<1>9. Orderly /\ BuiltinsComeWhole => Good(s0, tr, Live(new, n + 1, w), Whole(new, n + 1, w))
  BY <1>8, GoodLess DEF Running
<1>10. Running(tr, new, n + 1, s0, w)
  BY <1>1, <1>6, <1>7, <1>9 DEF Running
<1>12. BeginsAs(tr, todos, n + 1, s0, a, plan, who, w)
  BY <1>2, <1>10, <1>11 DEF BeginsAs, new, s
<1> QED
  BY <1>2, <1>12

\* The model of an agent fails: the rest of its answer is one event without parts.
LEMMA FailedAnswerOk ==
  ASSUME NEW a \in Agents, NEW id \in Nat, NEW tool, NEW tr, conf.errors
  PROVE  LET s == <<[AdkEvent(a, FALSE, <<>>) EXCEPT !.failed = TRUE]>>
         IN AnswerOk(s, a, id, tool) /\ Answered(tr, s, id, tool) /\ ~Calling(s)
<1> DEFINE ev == [AdkEvent(a, FALSE, <<>>) EXCEPT !.failed = TRUE]
           s == <<ev>>
<1>1. <<>> \in Seq(PartsOf(id, tool)) /\ Len(<<>>) = 0 /\ \A i : i \notin 1..0
  OBVIOUS
<1>2. ev \in AdkEvents(a, id, tool) /\ ev.parts = <<>>
  BY <1>1 DEF AdkEvent, AdkEvents
<1> HIDE DEF ev
<1>3. /\ s \in Seq(AdkEvents(a, id, tool)) /\ Len(s) = 1 /\ \A k \in 1..Len(s) : k = 1 /\ s[k] = ev
  BY <1>2
<1> HIDE DEF s
<1>4. OneCall(ev) /\ BuiltinWhole(ev) /\ ~HasCall(ev) /\ ~HasResponse(ev)
  BY <1>1, <1>2 DEF OneCall, BuiltinWhole, HasCall, HasResponse
<1>5. AnswerOk(s, a, id, tool)
  BY <1>1, <1>2, <1>3, <1>4 DEF AnswerOk
<1>6. Answered(tr, s, id, tool) /\ ~Calling(s)
  BY <1>3, <1>4 DEF Answered, Calling
<1> QED
  BY <1>5, <1>6 DEF s, ev

\* The model of an agent fails while the loop goes on.
LEMMA FailsRuns ==
  ASSUME NEW tr, NEW todos, todos = [a \in Agents |-> todos[a]], NEW n \in Nat, NEW s0, NEW who \in Answerers,
         Running(tr, todos, n, s0, who), conf.errors,
         NEW a \in Agents, todos[a] # <<>>
  PROVE  Running(tr, [todos EXCEPT ![a] = <<[AdkEvent(a, FALSE, <<>>) EXCEPT !.failed = TRUE]>>], n, s0, who)
<1> DEFINE s == <<[AdkEvent(a, FALSE, <<>>) EXCEPT !.failed = TRUE]>>
           new == [todos EXCEPT ![a] = s]
<1>1. who[a].id \in Nat
  BY DEF Answerers
<1>2. AnswerOk(s, a, who[a].id, who[a].tool) /\ Answered(tr, s, who[a].id, who[a].tool) /\ ~Calling(s)
  BY <1>1, FailedAnswerOk
<1> HIDE DEF s
<1>3. new[a] = s /\ \A b \in Agents : b # a => new[b] = todos[b]
  OBVIOUS
<1> HIDE DEF new
<1>4. ASSUME NEW b \in Agents
      PROVE  /\ AnswerOk(new[b], b, who[b].id, who[b].tool)
             /\ Answered(tr, new[b], who[b].id, who[b].tool)
             /\ who[b].id <= n
  BY <1>2, <1>3 DEF Running
<1>5. \A b \in Agents : new[b] # <<>> => todos[b] # <<>>
  BY <1>3
<1>6. \A b \in Agents : Calling(new[b]) => Calling(todos[b])
  BY <1>2, <1>3
<1>7. Live(new, n, who) \subseteq Live(todos, n, who) /\ Whole(new, n, who) \subseteq Whole(todos, n, who)
  BY <1>6 DEF Live, Whole
<1>8. Orderly /\ BuiltinsComeWhole => Good(s0, tr, Live(new, n, who), Whole(new, n, who))
  BY <1>7, GoodLess DEF Running
<1> QED
  BY <1>4, <1>5, <1>8 DEF Running, new, s

\* An event of an agent is translated.
LEMMA HandleRuns ==
  ASSUME conf \in Configs,
         NEW tr \in Translators, IsFiniteSet(tr.opened),
         NEW todos, todos = [a \in Agents |-> todos[a]], NEW n \in Nat, NEW s0 \in States, NEW who \in Answerers,
         Running(tr, todos, n, s0, who),
         NEW a \in Agents, todos[a] # <<>>, Asking(who[a])
  PROVE  LET u == Translate(tr, Head(todos[a]))
         IN /\ u \in Translators /\ IsFiniteSet(u.opened) /\ (Matching(tr.out) => Matching(u.out))
            /\ Running(u, [todos EXCEPT ![a] = Tail(@)], n, s0, who)
<1> DEFINE s == todos[a]
           ev == Head(s)
           new == [todos EXCEPT ![a] = Tail(@)]
           u == Translate(tr, ev)
           id == who[a].id
           tool == who[a].tool
<1>1. /\ id \in Nat /\ \A b \in Agents : who[b].id \in Nat /\ who[b].id <= n
      /\ AnswerOk(s, a, id, tool) /\ Answered(tr, s, id, tool)
      /\ n <= MaxAnswers /\ MaxAnswers \in Nat
  BY EventTranslatorAssumption DEF Answerers, Running
<1>2. new[a] = Tail(s) /\ \A b \in Agents : b # a => new[b] = todos[b]
  OBVIOUS
<1> HIDE DEF new
<1>3. ResultsFound(tr, ev)
  BY <1>1, ResultsAreFound
<1>4. /\ EventOk(ev) /\ ev = s[1] /\ Len(s) \in Nat \ {0}
      /\ ev.failed => conf.errors /\ Tail(s) = <<>>
      /\ \A i \in 1..Len(ev.parts) :
           /\ IsCall(ev.parts[i]) \/ IsResponse(ev.parts[i]) => ev.parts[i].call.id = id /\ ev.parts[i].call.tool = tool
           /\ ev.parts[i].kind = "call" => tool # Builtin
           /\ ev.parts[i].kind = "builtinCall" => tool = Builtin /\ (BuiltinsComeWhole => ~ev.partial)
  BY <1>1, HeadOk
<1>5. /\ AnswerOk(Tail(s), a, id, tool)
      /\ Len(Tail(s)) \in Nat /\ \A k \in 1..Len(Tail(s)) : k + 1 \in 1..Len(s) /\ Tail(s)[k] = s[k + 1]
      /\ HasCall(ev) /\ ~ev.partial => \A k \in 1..Len(Tail(s)) : ~HasCall(Tail(s)[k])
  BY <1>1, TailOk
<1>6. /\ u \in Translators /\ IsFiniteSet(u.opened) /\ Tells(tr, u)
      /\ \A i \in 1..Len(ev.parts) : IsCall(ev.parts[i]) /\ ~ev.partial => Correlates(u, ev.parts[i].call)
  <2>1. \A i \in 1..Len(ev.parts) : IsCall(ev.parts[i]) => Asking(ev.parts[i].call)
    BY <1>4 DEF Asking
  <2> QED
    BY <1>3, <1>4, <2>1, TranslateTells
<1>7. Answered(u, Tail(s), id, tool)
  BY <1>1, <1>6, AnsweredRest DEF Tells
<1> HIDE DEF u, ev, s
<1>8. ASSUME NEW b \in Agents
      PROVE  /\ AnswerOk(new[b], b, who[b].id, who[b].tool)
             /\ Answered(u, new[b], who[b].id, who[b].tool)
             /\ who[b].id <= n
  <2>1. CASE b = a
    BY <1>1, <1>2, <1>5, <1>7, <2>1
  <2>2. CASE b # a
    <3>1. new[b] = todos[b] /\ AnswerOk(todos[b], b, who[b].id, who[b].tool) /\ Answered(tr, todos[b], who[b].id, who[b].tool)
      BY <1>2, <2>2 DEF Running
    <3> QED
      BY <1>1, <1>6, <3>1, AnsweredOn DEF Tells
  <2> QED
    BY <2>1, <2>2
<1>9. \A b \in Agents : new[b] # <<>> => todos[b] # <<>>
  BY <1>2
<1>10. ASSUME NEW b \in Agents, NEW c \in Agents, b # c, new[b] # <<>>, new[c] # <<>>
       PROVE  conf.parallel /\ who[b].id # who[c].id
  BY <1>9, <1>10 DEF Running
<1>11. ASSUME Orderly, BuiltinsComeWhole PROVE Good(s0, u, Live(new, n, who), Whole(new, n, who))
  <2> DEFINE live == Live(todos, n, who)
             whole == Whole(todos, n, who)
             left == Live(new, n, who)
             rest == Whole(new, n, who)
             done == Done(ev, Len(ev.parts))
  <2>1. Good(s0, tr, live, whole)
    BY <1>11 DEF Running
  <2>3. HasCall(ev) => Calling(s)
    <3>1. 1 \in 1..Len(s)
      BY <1>4
    <3> QED
      BY <1>4, <3>1 DEF Calling
  <2>4. HasCall(ev) => id \in live /\ (tool = Builtin => id \in whole) /\ (tool # Builtin => id \notin whole)
    <3>1. HasCall(ev) => id \in live /\ (tool = Builtin => id \in whole)
      BY <2>3 DEF Live, Whole, s
    <3>2. ASSUME HasCall(ev), tool # Builtin, id \in whole PROVE FALSE
      <4>1. ~(id > n)
        BY <1>1
      <4>2. PICK b \in Agents : Calling(todos[b]) /\ who[b].tool = Builtin /\ id = who[b].id
        BY <3>2, <4>1 DEF Whole
      <4>3. b # a /\ todos[b] # <<>> /\ todos[a] # <<>>
        BY <3>2, <4>2, CallingIsSomething
      <4> QED
        BY <4>2, <4>3 DEF Running
    <3> QED
      BY <3>1, <3>2
  <2>13. whole \subseteq Own
    <3>1. \A b \in Agents : who[b].id \in Own
      BY <1>1 DEF Own
    <3> QED
      BY <3>1 DEF Whole
  <2> HIDE DEF live, whole
  <2>5. ASSUME NEW i \in 1..Len(ev.parts) PROVE MayCome(ev.parts[i], ev.partial, live, whole)
    <3>1. /\ IsCall(ev.parts[i]) => HasCall(ev)
          /\ ev.parts[i].kind \in {"call", "builtinCall"} => IsCall(ev.parts[i])
      BY DEF HasCall, IsCall
    <3>2. IsCall(ev.parts[i]) => ev.parts[i].call.id = id
      BY <1>4
    <3>3. ev.parts[i].kind = "call" => id \notin whole
      BY <1>4, <2>4, <3>1
    <3>4. ev.parts[i].kind = "builtinCall" => ~ev.partial /\ id \in whole
      BY <1>4, <1>11, <2>4, <3>1
    <3> QED
      BY <2>4, <2>13, <3>1, <3>2, <3>3, <3>4 DEF MayCome
  <2>6. ASSUME NEW i \in done PROVE i = id /\ HasCall(ev) /\ ~ev.partial
    <3>1. PICK k \in 1..Len(ev.parts) : i \in Ends(ev.parts[k], ev.partial)
      BY DEF Done
    <3>2. IsCall(ev.parts[k]) /\ ~ev.partial /\ i = ev.parts[k].call.id
      BY <3>1 DEF Ends
    <3> QED
      BY <1>4, <3>2 DEF HasCall
  <2> HIDE DEF done
  <2>7. \A b \in Agents : Calling(new[b]) => Calling(todos[b])
    <3>1. Calling(Tail(s)) => Calling(s)
      BY <1>5 DEF Calling
    <3> QED
      BY <1>2, <3>1 DEF s
  <2>8. ASSUME id \in done PROVE id \notin left
    <3>1. HasCall(ev) /\ ~ev.partial
      BY <2>6, <2>8
    <3>2. ~Calling(new[a])
      BY <1>2, <1>5, <3>1 DEF Calling
    <3>3. ASSUME id \in left PROVE FALSE
      <4>1. PICK b \in Agents : Calling(new[b]) /\ id = who[b].id
        BY <1>1, <3>3 DEF Live
      <4>2. b # a /\ todos[b] # <<>>
        BY <2>7, <3>2, <4>1, CallingIsSomething
      <4> QED
        BY <4>1, <4>2 DEF Running
    <3> QED
      BY <3>3
  <2>9. left \subseteq live /\ rest \subseteq whole /\ rest \subseteq left
    BY <2>7 DEF Live, Whole, live, whole
  <2>10. ev.failed => left \subseteq whole
    <3> SUFFICES ASSUME ev.failed PROVE left \subseteq whole
      OBVIOUS
    <3>1. ~conf.parallel /\ Tail(s) = <<>>
      BY <1>4, <1>11 DEF Orderly
    <3>2. \A b \in Agents : new[b] = <<>>
      BY <1>2, <3>1 DEF Running
    <3>3. \A b \in Agents : ~Calling(new[b])
      BY <3>2, CallingIsSomething
    <3> QED
      BY <3>3 DEF Live, Whole, whole
  <2> HIDE DEF left, rest
  <2>11. left \subseteq live \ done /\ rest \subseteq whole \ done
    BY <2>6, <2>8, <2>9
  <2>12. Good(s0, u, left, whole \ done)
    BY <1>4, <2>1, <2>5, <2>10, <2>11, TranslateGood DEF u, done
  <2> QED
    BY <2>11, <2>12, GoodLess DEF left, rest
<1>12. Matching(tr.out) => Matching(u.out)
  BY <1>6 DEF Tells
<1>13. Running(u, new, n, s0, who)
  BY <1>1, <1>8, <1>10, <1>11 DEF Running
<1> QED
  BY <1>6, <1>12, <1>13 DEF u, ev, s, new

\* The client takes one event.
LEMMA MatchingTail ==
  ASSUME NEW out \in Seq(Events), out # <<>>, Matching(out)
  PROVE  Matching(Tail(out))
<1>1. /\ Tail(out) \in Seq(Events) /\ DOMAIN Tail(out) = 1..Len(Tail(out)) /\ DOMAIN out = 1..Len(out)
      /\ Len(out) \in Nat /\ Len(Tail(out)) = Len(out) - 1
      /\ \A i \in 1..Len(Tail(out)) : Tail(out)[i] = out[i + 1]
  BY HeadTailProperties, LenProperties
<1>2. ASSUME NEW i \in DOMAIN Tail(out) PROVE i + 1 \in DOMAIN out /\ Tail(out)[i] = out[i + 1]
  BY <1>1
<1> QED
  BY <1>2 DEF Matching

\* The client takes an event while the loop goes on.
LEMMA DeliverRuns ==
  ASSUME NEW tr \in Translators, tr.out # <<>>, NEW todos, NEW n, NEW s0 \in States, NEW who,
         Running(tr, todos, n, s0, who)
  PROVE  Running([tr EXCEPT !.out = Tail(@)], todos, n, After(s0, Head(tr.out)), who)
<1> DEFINE u == [tr EXCEPT !.out = Tail(@)]
           s1 == After(s0, Head(tr.out))
           live == Live(todos, n, who)
           whole == Whole(todos, n, who)
<1>1. tr.out \in Seq(Events) /\ Tail(tr.out) \in Seq(Events)
  BY HeadTailProperties DEF Translators
<1>2. /\ u \in Translators /\ u.out = Tail(tr.out) /\ u.known = tr.known /\ u.byName = tr.byName
      /\ u.opened = tr.opened /\ u.started = tr.started /\ u.next = tr.next
      /\ u.msg = tr.msg /\ u.reasoning = tr.reasoning /\ u.step = tr.step /\ u.run = tr.run
  BY <1>1 DEF Translators
<1> HIDE DEF u
<1>3. ASSUME Good(s0, tr, live, whole) PROVE Good(s1, u, live, whole)
  <2>1. PICK s \in States : Legal(s0, tr.out, s) /\ Shows(tr, s, live)
    BY <1>3 DEF Good
  <2>2. Legal(s1, u.out, s)
    BY <1>1, <1>2, <2>1, LegalHead
  <2>3. Shows(u, s, live)
    BY <1>2, <2>1 DEF Shows, IsOpen, Taken
  <2> QED
    BY <1>2, <1>3, <2>2, <2>3 DEF Good
<1> HIDE DEF live, whole, s1
<1>5. \A a \in Agents : Answered(u, todos[a], who[a].id, who[a].tool)
  BY <1>2, AnsweredOn DEF Running
<1>6. Orderly /\ BuiltinsComeWhole => Good(s1, u, live, whole)
  BY <1>3 DEF Running, live, whole
<1> QED
  BY <1>5, <1>6 DEF Running, u, s1, live, whole

-----------------------------------------------------------------------------
(* The invariant of what the client may receive.                           *)

Client == [open |-> open, begun |-> begun, over |-> over]

\* What has been said and is not received yet leads the client to a state it may be in: while the
\* loop goes on, that in which the translator believes it is.
Inv ==
  /\ conf \in Configs /\ asked \in Seq(Plans) /\ looping \in BOOLEAN
  /\ todo = [a \in Agents |-> todo[a]]
  /\ t \in Translators /\ IsFiniteSet(t.opened) /\ Matching(t.out)
  /\ Client \in States
  /\ looping => \E who \in Answerers : Running(t, todo, Len(asked), Client, who) /\ AnswersAsked(todo, who)
  /\ ~looping /\ Orderly /\ BuiltinsComeWhole => \E s \in States : Legal(Client, t.out, s)

\* Answers are only ever added.
AskedOn == \A i \in DOMAIN asked : i \in DOMAIN asked' /\ asked'[i] = asked[i]

\* Results that match go on to match.
LEMMA MatchingOn ==
  ASSUME conf' = conf, AskedOn, Matching(t'.out)
  PROVE  Matching(t.out)'
<1> SUFFICES ASSUME NEW i \in DOMAIN t'.out PROVE Belongs(t.out[i])'
  BY DEF Matching
<1>1. Belongs(t'.out[i])
  BY DEF Matching
<1> QED
  BY <1>1 DEF Belongs, Unknown, Suppressed, AskedOn

\* Running mentions the setup of the run, which never changes, and the answers there were.
LEMMA RunningOn ==
  ASSUME conf' = conf, AskedOn, NEW who, Running(t', todo', Len(asked'), Client', who)
  PROVE  Running(t, todo, Len(asked), Client, who)'
<1>1. ASSUME NEW a \in Agents PROVE Answered(t, todo[a], who[a].id, who[a].tool)'
  <2>1. Answered(t', todo'[a], who[a].id, who[a].tool)
    BY DEF Running
  <2> QED
    BY <2>1 DEF Answered, Correlates, Unknown, Suppressed, AskedOn
<1> QED
  BY <1>1 DEF Running, AnswerOk

\* The loop begins with nothing said and nothing to come.
LEMMA InitInv ==
  ASSUME Init
  PROVE  Inv
<1> DEFINE tr == newEventTranslator
           who == [a \in Agents |-> [id |-> 0, tool |-> "none"]]
           live == Live(todo, 0, who)
           whole == Whole(todo, 0, who)
<1>1. Base = 0 /\ None = 0 /\ Base \in Nat
  BY DEF Base, Protocol!Base, None
<1>2. <<>> \in Seq(Events) /\ <<>> \in Text /\ DOMAIN <<>> = 1..0 /\ \A i : i \notin 1..0
  BY DEF Text
<1>3. /\ tr \in Translators /\ tr.out = <<>> /\ tr.opened = {} /\ tr.started = {} /\ tr.known = {}
      /\ tr.msg = 0 /\ tr.reasoning = 0 /\ tr.step = 0 /\ tr.run = 0
      /\ \A a \in Tools : tr.byName[a] = None
  BY <1>1, <1>2 DEF newEventTranslator, Translators, None
<1> HIDE DEF tr
<1>4. t = tr /\ todo = [a \in Agents |-> <<>>] /\ asked = <<>> /\ Len(asked) = 0 /\ asked \in Seq(Plans)
  BY DEF Init, tr
<1>5. Client \in States /\ Client.open = {} /\ Client.begun = {} /\ ~Client.over
  BY DEF Init, Protocol!Init, Client, States
<1>6. Matching(t.out) /\ IsFiniteSet(t.opened)
  BY <1>2, <1>3, <1>4, FS_EmptySet DEF Matching
<1>7. who \in Answerers /\ \A a \in Agents : who[a].id = 0 /\ who[a].id \in Nat
  BY DEF Answerers
<1> HIDE DEF who
<1>8. \A a \in Agents : /\ AnswerOk(todo[a], a, who[a].id, who[a].tool)
                        /\ Answered(t, todo[a], who[a].id, who[a].tool)
                        /\ who[a].id <= 0
  BY <1>4, <1>7, NothingToCome
<1>9. Len(asked) <= MaxAnswers /\ AnswersAsked(todo, who)
  BY <1>4, EventTranslatorAssumption DEF AnswersAsked
<1>10. Good(Client, t, live, whole)
  <2>1. Legal(Client, t.out, Client)
    BY <1>3, <1>4, <1>5, LegalEmpty
  <2>3. \A i \in live : Taken(t, i)
    <3>1. MaxAnswers \in Nat /\ t.next = 1
      BY <1>4, EventTranslatorAssumption DEF newEventTranslator, tr
    <3>2. live \subseteq Own
      BY <1>7, <3>1 DEF Live, Own
    <3> HIDE DEF live
    <3> QED
      BY <3>1, <3>2 DEF Taken, Own
  <2>2. Shows(t, Client, live)
    <3> HIDE DEF live
    <3> QED
      BY <1>1, <1>3, <1>4, <1>5, <2>3 DEF Shows, IsOpen
  <2> QED
    BY <1>3, <1>4, <1>5, <1>6, <2>1, <2>2 DEF Good
<1>11. Running(t, todo, Len(asked), Client, who)
  BY <1>4, <1>8, <1>9, <1>10 DEF Running
<1> QED
  BY <1>3, <1>4, <1>5, <1>6, <1>7, <1>9, <1>11 DEF Inv, Init

\* While the loop goes on, the client can receive what there is.
LEMMA CanReceive ==
  ASSUME Inv, Orderly, BuiltinsComeWhole
  PROVE  \E s \in States : Legal(Client, t.out, s)
BY DEF Inv, Running, Good

\* The end of the loop: what is open is closed before the terminal event.
LEMMA TerminalEnds ==
  ASSUME Inv, looping, NEW tr \in Translators, IsFiniteSet(tr.opened), Matching(tr.out),
         NEW todos, NEW n, NEW who, Running(tr, todos, n, Client, who)
  PROVE  LET u == Terminal(tr)
         IN /\ u \in Translators /\ IsFiniteSet(u.opened) /\ Matching(u.out)
            /\ Orderly /\ BuiltinsComeWhole => \E s \in States : Legal(Client, u.out, s)
<1>1. Client \in States
  BY DEF Inv
<1>2. Orderly /\ BuiltinsComeWhole => Good(Client, tr, Live(todos, n, who), Whole(todos, n, who))
  BY DEF Running
<1> QED
  BY <1>1, <1>2, TerminalKeeps

\* What taking an event does to the client.
LEMMA DeliverIs ==
  ASSUME Inv, Deliver
  PROVE  /\ t.out # <<>> /\ Head(t.out) \in Events /\ event' = Head(t.out) /\ count' = count + 1
         /\ Client' = After(Client, Head(t.out))
         /\ t' = [t EXCEPT !.out = Tail(@)]
         /\ UNCHANGED <<conf, looping, todo, asked>>
<1> DEFINE e == Head(t.out)
<1>1. e \in Events
  BY HeadTailProperties DEF Inv, Translators, Deliver
<1>2. /\ open' = (IF e.op = "start" THEN open \cup {Block(e)} ELSE IF e.op = "end" THEN open \ {Block(e)} ELSE open)
      /\ begun' = (IF e.op = "start" THEN begun \cup {Block(e)} ELSE begun)
      /\ over' = (over \/ e.op = "finish")
      /\ event' = e
  BY DEF Deliver, Block
<1> HIDE DEF e
<1>3. Client' = After(Client, e)
  BY <1>2 DEF Client, After
<1> QED
  BY <1>1, <1>2, <1>3 DEF Deliver, e

\* Every step keeps the invariant.
LEMMA StepKeepsInv ==
  ASSUME Inv, [Next]_vars
  PROVE  Inv'
<1>0. /\ conf \in Configs /\ asked \in Seq(Plans) /\ looping \in BOOLEAN
      /\ todo = [a \in Agents |-> todo[a]]
      /\ t \in Translators /\ IsFiniteSet(t.opened) /\ Matching(t.out)
      /\ Client \in States /\ Len(asked) \in Nat /\ DOMAIN asked = 1..Len(asked)
  BY LenProperties DEF Inv
<1>7. ASSUME asked' = asked PROVE AskedOn
  BY <1>7 DEF AskedOn
<1>1. ASSUME NEW a \in Agents, NEW plan \in Plans, Begin(a, plan)
      PROVE  Inv'
  <2>1. /\ looping /\ todo[a] = <<>> /\ (conf.parallel \/ \A b \in Agents : todo[b] = <<>>)
        /\ asked' = Append(asked, plan) /\ todo' = [todo EXCEPT ![a] = Answer(a, plan, Len(asked) + 1)]
        /\ UNCHANGED <<conf, t, looping, open, begun, over>>
        /\ Len(asked) < MaxAnswers /\ t.out = <<>>
    BY <1>1 DEF Begin, Quiet, Idle
  <2>2. PICK who \in Answerers : Running(t, todo, Len(asked), Client, who) /\ AnswersAsked(todo, who)
    BY <2>1 DEF Inv
  <2>11. PICK w \in Answerers : BeginsAs(t, todo, Len(asked) + 1, Client, a, plan, who, w)
    <3>1. /\ Len(asked) \in Nat /\ Len(asked) < MaxAnswers /\ todo[a] = <<>>
          /\ todo = [b \in Agents |-> todo[b]] /\ (conf.parallel \/ \A b \in Agents : todo[b] = <<>>)
          /\ Running(t, todo, Len(asked), Client, who)
      BY <1>0, <2>1, <2>2
    <3> QED
      BY <3>1, BeginRuns
  <2>3. /\ Running(t, [todo EXCEPT ![a] = Answer(a, plan, Len(asked) + 1)], Len(asked) + 1, Client, w)
        /\ w[a] = [id |-> Len(asked) + 1, tool |-> plan.tool] /\ \A b \in Agents : b # a => w[b] = who[b]
    BY <2>11 DEF BeginsAs
  <2>4. /\ asked' \in Seq(Plans) /\ Len(asked') = Len(asked) + 1
        /\ DOMAIN asked' = 1..(Len(asked) + 1) /\ asked'[Len(asked) + 1] = plan
        /\ \A i \in 1..Len(asked) : asked'[i] = asked[i]
    BY <1>0, <2>1, LenProperties
  <2>8. AskedOn
    BY <1>0, <2>4 DEF AskedOn
  <2>5. Client' = Client
    BY <2>1 DEF Client
  <2>6. Running(t', todo', Len(asked'), Client', w)
    BY <2>1, <2>3, <2>4, <2>5
  <2>7. Running(t, todo, Len(asked), Client, w)'
    BY <2>1, <2>6, <2>8, RunningOn
  <2>9. AnswersAsked(todo, w)'
    <3> SUFFICES ASSUME NEW b \in Agents, todo'[b] # <<>> PROVE Asking(w[b])'
      BY DEF AnswersAsked
    <3>1. CASE b = a
      BY <1>0, <2>3, <2>4, <3>1 DEF Asking
    <3>2. CASE b # a
      <4>1. todo[b] # <<>> /\ w[b] = who[b]
        BY <1>0, <2>1, <2>3, <3>2
      <4>2. Asking(who[b])
        BY <2>2, <4>1 DEF AnswersAsked
      <4> QED
        BY <2>8, <4>1, <4>2 DEF Asking, AskedOn
    <3> QED
      BY <3>1, <3>2
  <2>10. Matching(t.out)'
    BY <1>0, <2>1, <2>8, MatchingOn
  <2> QED
    BY <1>0, <2>1, <2>4, <2>5, <2>7, <2>9, <2>10 DEF Inv
<1>2. ASSUME NEW a \in Agents, ModelFails(a)
      PROVE  Inv'
  <2>1. /\ looping /\ conf.errors /\ todo[a] # <<>>
        /\ todo' = [todo EXCEPT ![a] = <<[AdkEvent(a, FALSE, <<>>) EXCEPT !.failed = TRUE]>>]
        /\ UNCHANGED <<conf, t, looping, asked, open, begun, over>>
    BY <1>2 DEF ModelFails, Quiet, client
  <2>2. PICK who \in Answerers : Running(t, todo, Len(asked), Client, who) /\ AnswersAsked(todo, who)
    BY <2>1 DEF Inv
  <2>3. Running(t, [todo EXCEPT ![a] = <<[AdkEvent(a, FALSE, <<>>) EXCEPT !.failed = TRUE]>>], Len(asked), Client, who)
    BY <1>0, <2>1, <2>2, FailsRuns
  <2>4. Client' = Client
    BY <2>1 DEF Client
  <2>5. Running(t', todo', Len(asked'), Client', who)
    BY <2>1, <2>3, <2>4
  <2>6. Running(t, todo, Len(asked), Client, who)'
    BY <1>7, <2>1, <2>5, RunningOn
  <2>7. AnswersAsked(todo, who)'
    BY <1>0, <2>1, <2>2 DEF AnswersAsked, Asking
  <2>8. Matching(t.out)'
    BY <1>0, <1>7, <2>1, MatchingOn
  <2> QED
    BY <1>0, <2>1, <2>4, <2>6, <2>7, <2>8 DEF Inv
<1>3. ASSUME NEW a \in Agents, HandleEvent(a)
      PROVE  Inv'
  <2> DEFINE u == Translate(t, Head(todo[a]))
             rest == [todo EXCEPT ![a] = Tail(@)]
  <2>1. /\ looping /\ todo[a] # <<>> /\ todo' = rest
        /\ looping' \in BOOLEAN /\ t' = IF looping' THEN u ELSE Terminal(u)
        /\ UNCHANGED <<conf, asked, open, begun, over>>
    BY <1>3 DEF HandleEvent, Quiet, client
  <2>2. PICK who \in Answerers : Running(t, todo, Len(asked), Client, who) /\ AnswersAsked(todo, who)
    BY <2>1 DEF Inv
  <2>3. /\ u \in Translators /\ IsFiniteSet(u.opened) /\ Matching(u.out)
        /\ Running(u, rest, Len(asked), Client, who)
    <3>1. Asking(who[a])
      BY <2>1, <2>2 DEF AnswersAsked
    <3> QED
      BY <1>0, <2>1, <2>2, <3>1, HandleRuns
  <2>8. AnswersAsked(todo, who)'
    <3>1. \A b \in Agents : rest[b] # <<>> => todo[b] # <<>>
      BY <1>0, <2>1
    <3> HIDE DEF rest
    <3> QED
      BY <2>1, <2>2, <3>1 DEF AnswersAsked, Asking
  <2>4. Client' = Client
    BY <2>1 DEF Client
  <2>5. rest = [b \in Agents |-> rest[b]]
    BY <1>0
  <2> HIDE DEF u, rest
  <2>6. CASE looping'
    <3>1. Running(t', todo', Len(asked'), Client', who)
      BY <2>1, <2>3, <2>4, <2>6
    <3>2. Running(t, todo, Len(asked), Client, who)'
      BY <1>7, <2>1, <3>1, RunningOn
    <3>3. Matching(t.out)'
      BY <1>7, <2>1, <2>3, <2>6, MatchingOn
    <3> QED
      BY <1>0, <2>1, <2>3, <2>4, <2>5, <2>6, <2>8, <3>2, <3>3 DEF Inv
  <2>7. CASE ~looping'
    <3>1. /\ t' \in Translators /\ IsFiniteSet(t'.opened) /\ Matching(t'.out)
          /\ Orderly /\ BuiltinsComeWhole => \E s \in States : Legal(Client, t'.out, s)
      BY <2>1, <2>3, <2>7, TerminalEnds
    <3>2. Matching(t.out)'
      BY <1>7, <2>1, <3>1, MatchingOn
    <3> QED
      BY <1>0, <2>1, <2>4, <2>5, <2>7, <3>1, <3>2 DEF Inv
  <2> QED
    BY <2>6, <2>7
<1>4. ASSUME RunnerFails \/ RunnerDone
      PROVE  Inv'
  <2>1. /\ looping /\ ~looping' /\ looping' \in BOOLEAN /\ t' = Terminal(t)
        /\ UNCHANGED <<conf, todo, asked, open, begun, over>>
    BY <1>4 DEF RunnerFails, RunnerDone, Quiet, client
  <2>2. PICK who \in Answerers : Running(t, todo, Len(asked), Client, who) /\ AnswersAsked(todo, who)
    BY <2>1 DEF Inv
  <2>3. Client' = Client
    BY <2>1 DEF Client
  <2>4. /\ t' \in Translators /\ IsFiniteSet(t'.opened) /\ Matching(t'.out)
        /\ Orderly /\ BuiltinsComeWhole => \E s \in States : Legal(Client, t'.out, s)
    BY <1>0, <2>1, <2>2, TerminalEnds
  <2>5. Matching(t.out)'
    BY <1>7, <2>1, <2>4, MatchingOn
  <2> QED
    BY <1>0, <2>1, <2>3, <2>4, <2>5 DEF Inv
<1>5. ASSUME Deliver
      PROVE  Inv'
  <2> DEFINE e == Head(t.out)
             u == [t EXCEPT !.out = Tail(@)]
  <2>1. /\ t.out # <<>> /\ e \in Events /\ Client' = After(Client, e) /\ t' = u
        /\ UNCHANGED <<conf, looping, todo, asked>>
    BY <1>5, DeliverIs
  <2>2. t.out \in Seq(Events) /\ Tail(t.out) \in Seq(Events)
    BY <1>0, <2>1, HeadTailProperties DEF Translators
  <2>3. u \in Translators /\ u.opened = t.opened /\ u.out = Tail(t.out)
    BY <1>0, <2>2 DEF Translators
  <2>4. Matching(u.out)
    BY <1>0, <2>1, <2>2, <2>3, MatchingTail
  <2>5. Client' \in States
    BY <1>0, <2>1, AfterIsState
  <2>6. ASSUME looping PROVE \E who \in Answerers : (Running(t, todo, Len(asked), Client, who) /\ AnswersAsked(todo, who))'
    <3>1. PICK who \in Answerers : Running(t, todo, Len(asked), Client, who) /\ AnswersAsked(todo, who)
      BY <2>6 DEF Inv
    <3>2. Running(u, todo, Len(asked), After(Client, e), who)
      BY <1>0, <2>1, <3>1, DeliverRuns
    <3>3. Running(t', todo', Len(asked'), Client', who)
      BY <2>1, <3>2
    <3>4. AnswersAsked(todo, who)'
      BY <2>1, <3>1 DEF AnswersAsked, Asking
    <3> QED
      BY <1>7, <2>1, <3>3, <3>4, RunningOn
  <2>7. ASSUME ~looping, Orderly, BuiltinsComeWhole PROVE \E s \in States : Legal(Client', t'.out, s)
    <3>1. PICK s \in States : Legal(Client, t.out, s)
      BY <2>7 DEF Inv
    <3>2. Legal(After(Client, e), Tail(t.out), s)
      BY <1>0, <2>1, <2>2, <3>1, LegalHead
    <3> QED
      BY <2>1, <2>3, <3>2
  <2> HIDE DEF u, e
  <2>8. Matching(t.out)'
    BY <1>7, <2>1, <2>4, MatchingOn
  <2> QED
    BY <1>0, <2>1, <2>3, <2>5, <2>6, <2>7, <2>8 DEF Inv
<1>6. ASSUME UNCHANGED vars
      PROVE  Inv'
  <2>1. UNCHANGED <<conf, t, todo, asked, looping, open, begun, over>>
    BY <1>6 DEF vars, client
  <2>2. Client' = Client
    BY <2>1 DEF Client
  <2>3. ASSUME looping PROVE \E who \in Answerers : (Running(t, todo, Len(asked), Client, who) /\ AnswersAsked(todo, who))'
    <3>1. PICK who \in Answerers : Running(t, todo, Len(asked), Client, who) /\ AnswersAsked(todo, who)
      BY <2>3 DEF Inv
    <3>2. Running(t', todo', Len(asked'), Client', who)
      BY <2>1, <2>2, <3>1
    <3>3. AnswersAsked(todo, who)'
      BY <2>1, <3>1 DEF AnswersAsked, Asking
    <3> QED
      BY <1>7, <2>1, <3>2, <3>3, RunningOn
  <2>4. Matching(t.out)'
    BY <1>0, <1>7, <2>1, MatchingOn
  <2> QED
    BY <1>0, <2>1, <2>2, <2>3, <2>4 DEF Inv
<1> QED
  BY <1>1, <1>2, <1>3, <1>4, <1>5, <1>6 DEF Next

\* The invariant always holds.
LEMMA AlwaysInv == Spec => []Inv
<1>1. Init => Inv
  BY InitInv
<1>2. Inv /\ [Next]_vars => Inv'
  BY StepKeepsInv
<1> QED
  BY <1>1, <1>2, PTL DEF Spec

-----------------------------------------------------------------------------
(* The theorems about what the client receives.                            *)

\* The result of a call that the client was told of names that call, whatever the agents call and
\* however many of them run at once, also if other calls of the same tool come without an id or are
\* replaced by a state delta (emitFunctionResponse, toolCallIDs).
THEOREM ResultsAlwaysMatch == Spec => []ResultsMatchTheirCalls
<1>1. Inv => ResultsMatchTheirCalls
  BY DEF Inv, Matching, Belongs, ResultsMatchTheirCalls
<1> QED
  BY <1>1, AlwaysInv, PTL

\* The client begins as the protocol does.
LEMMA InitIsProtocol ==
  ASSUME Init
  PROVE  Protocol!Init
BY DEF Init

\* Every step is one of the protocol or leaves the client alone.
LEMMA StepIsProtocol ==
  ASSUME Inv, Orderly, BuiltinsComeWhole, [Next]_vars
  PROVE  [Protocol!Next]_(Protocol!protocolVars)
<1>1. ASSUME UNCHANGED <<event, count, open, begun, over>>
      PROVE  UNCHANGED Protocol!protocolVars
  BY <1>1 DEF Protocol!protocolVars
<1>2. ASSUME Deliver
      PROVE  Protocol!Next
  <2> DEFINE e == Head(t.out)
  <2>1. PICK s \in States : Legal(Client, t.out, s)
    BY CanReceive
  <2>2. t.out # <<>> /\ e \in Events /\ event' = e /\ count' = count + 1 /\ Client' = After(Client, e)
    BY <1>2, DeliverIs
  <2>3. Allowed(Client, e)
    BY <2>1, <2>2, LegalHead DEF Inv, Translators
  <2> HIDE DEF e
  <2>4. /\ open' = (IF e.op = "start" THEN open \cup {Block(e)} ELSE IF e.op = "end" THEN open \ {Block(e)} ELSE open)
        /\ begun' = (IF e.op = "start" THEN begun \cup {Block(e)} ELSE begun)
        /\ over' = (over \/ e.op = "finish")
    BY <2>2 DEF Client, After
  <2>5. /\ ~over
        /\ e.run # Base => [kind |-> "subagent", id |-> e.run] \in open
        /\ e.op = "start" =>
             /\ Block(e) \notin (IF e.kind = "step" THEN open ELSE begun)
             /\ e.kind \in {"text", "reasoning"} => \A b \in open : b.kind \notin {"text", "reasoning"}
             /\ e.kind \in {"step", "subagent"} => \A b \in open : b.kind # e.kind
        /\ e.op \in {"content", "end"} => Block(e) \in open
        /\ e.op = "finish" => open = {}
    BY <2>3 DEF Allowed, Client
  <2>6. Protocol!Receive(event')
    BY <2>2, <2>5 DEF Protocol!Receive, Protocol!Subagent, Events, Base
  <2>7. e.op \in {"start", "content", "end", "result", "finish"}
    BY <2>2 DEF Events, Protocol!Event
  <2>8. CASE e.op = "start"
    <3>1. /\ e.kind \in {"text", "reasoning"} => Protocol!OfKind("text") \cup Protocol!OfKind("reasoning") = {}
          /\ e.kind \in {"step", "subagent"} => Protocol!OfKind(e.kind) = {}
      BY <2>5, <2>8 DEF Protocol!OfKind
    <3>2. Protocol!Start(e)
      BY <2>4, <2>5, <2>8, <3>1 DEF Protocol!Start, Block, Inv, Client, States
    <3> QED
      BY <2>2, <2>6, <3>2 DEF Protocol!Next
  <2>9. CASE e.op = "content"
    BY <2>2, <2>4, <2>5, <2>6, <2>9 DEF Protocol!Next, Protocol!Content, Block, Inv, Client, States
  <2>10. CASE e.op = "end"
    BY <2>2, <2>4, <2>5, <2>6, <2>10 DEF Protocol!Next, Protocol!End, Block, Inv, Client, States
  <2>11. CASE e.op = "result"
    BY <2>2, <2>4, <2>5, <2>6, <2>11 DEF Protocol!Next, Protocol!Result, Block, Inv, Client, States
  <2>12. CASE e.op = "finish"
    BY <2>2, <2>4, <2>5, <2>6, <2>12 DEF Protocol!Next, Protocol!Finish, Block, Inv, Client, States
  <2> QED
    BY <2>7, <2>8, <2>9, <2>10, <2>11, <2>12
<1>3. ASSUME NEW a \in Agents, NEW plan \in Plans, Begin(a, plan)
      PROVE  UNCHANGED <<event, count, open, begun, over>>
  BY <1>3 DEF Begin
<1>4. ASSUME NEW a \in Agents, ModelFails(a) \/ HandleEvent(a)
      PROVE  UNCHANGED <<event, count, open, begun, over>>
  BY <1>4 DEF ModelFails, HandleEvent, client
<1>5. ASSUME RunnerFails \/ RunnerDone \/ UNCHANGED vars
      PROVE  UNCHANGED <<event, count, open, begun, over>>
  BY <1>5 DEF RunnerFails, RunnerDone, client, vars
<1> QED
  BY <1>1, <1>2, <1>3, <1>4, <1>5 DEF Next

\* What the client receives is a run of the protocol, for whatever the agents answer and however
\* the run ends, as long as the model of one agent at a time may fail and calls that the provider
\* executes come whole (translate and the exits of the run loop).
THEOREM RunsAreProtocolRuns ==
  ASSUME Orderly, BuiltinsComeWhole
  PROVE  Spec => ImplementsProtocol
<1>1. Init => Protocol!Init
  BY InitIsProtocol
<1>2. Inv /\ [Next]_vars => [Protocol!Next]_(Protocol!protocolVars)
  BY StepIsProtocol
<1> QED
  BY <1>1, <1>2, AlwaysInv, PTL DEF Spec, ImplementsProtocol, Protocol!Spec

\* No arguments and no second end come for a call that has ended (closeStreamedToolCalls).
THEOREM EndedCallsAlwaysStayEnded ==
  ASSUME Orderly, BuiltinsComeWhole
  PROVE  Spec => []EndedCallsStayEnded
<1>1. ASSUME Inv
      PROVE  EndedCallsStayEnded
  <2>1. PICK s \in States : Legal(Client, t.out, s)
    BY <1>1, CanReceive
  <2>2. t.out # <<>> => Allowed(Client, Head(t.out))
    BY <1>1, <2>1, LegalHead DEF Inv, Translators
  <2> QED
    BY <2>2 DEF EndedCallsStayEnded, Allowed, Client, Block
<1> QED
  BY <1>1, AlwaysInv, PTL

-----------------------------------------------------------------------------
(* What the client has put together.                                       *)

\* Text, thought and arguments so far, and the calls that have begun.
Heards == [text : Text, thought : Text, args : [1..MaxAnswers -> Text], calls : SUBSET Nat]
Longer(args, e) == [args EXCEPT ![e.id] = @ \o e.data]
Took(s, e) ==
  IF e.op = "content"
    THEN IF e.kind = "text" THEN [s EXCEPT !.text = @ \o e.data]
         ELSE IF e.kind = "reasoning" THEN [s EXCEPT !.thought = @ \o e.data]
         ELSE [s EXCEPT !.args = Longer(@, e)]
  ELSE IF e.op = "start" /\ e.kind = "tool" THEN [s EXCEPT !.calls = @ \cup {e.id}]
  ELSE s

\* Only text, reasoning and calls have content.
Clear(e) == e.op = "content" => e.kind \in {"text", "reasoning", "tool"}

\* A client that has s and receives all of out has u then.
Takes(h, s, out, u) ==
  /\ h \in [0..Len(out) -> Heards] /\ h[0] = s /\ h[Len(out)] = u
  /\ \A n \in 1..Len(out) : Clear(out[n]) /\ h[n] = Took(h[n - 1], out[n])
Told(s, out, u) == \E h : Takes(h, s, out, u)

\* What goes from tr to u makes v into w, at the client that receives it.
Goes(tr, v, u, w) == \A s \in Heards : Told(s, tr.out, v) => Told(s, u.out, w)

\* An event leads from what a client may have to what it may have.
LEMMA TookIsHeard ==
  ASSUME NEW s \in Heards, NEW e \in Events
  PROVE  Took(s, e) \in Heards
<1>1. e.data \in Text /\ e.id \in Nat
  BY DEF Events, Protocol!Event, Text
<1>2. \A x \in Text : x \o e.data \in Text
  BY <1>1, ConcatProperties DEF Text
<1>3. /\ s.text \in Text /\ s.thought \in Text /\ s.args \in [1..MaxAnswers -> Text] /\ s.calls \subseteq Nat
      /\ s = [text |-> s.text, thought |-> s.thought, args |-> s.args, calls |-> s.calls]
  BY DEF Heards
<1>4. s.text \o e.data \in Text /\ s.thought \o e.data \in Text /\ s.calls \cup {e.id} \subseteq Nat
  BY <1>1, <1>2, <1>3
<1>5. Longer(s.args, e) \in [1..MaxAnswers -> Text]
  BY <1>2, <1>3 DEF Longer
<1>6. CASE e.op = "content" /\ e.kind = "text"
  <2>1. Took(s, e) = [s EXCEPT !.text = s.text \o e.data]
    BY <1>6 DEF Took
  <2> QED
    BY <1>3, <1>4, <2>1 DEF Heards
<1>7. CASE e.op = "content" /\ e.kind = "reasoning"
  <2>1. Took(s, e) = [s EXCEPT !.thought = s.thought \o e.data]
    BY <1>7 DEF Took
  <2> QED
    BY <1>3, <1>4, <2>1 DEF Heards
<1>8. CASE e.op = "content" /\ e.kind \notin {"text", "reasoning"}
  <2>1. Took(s, e) = [s EXCEPT !.args = Longer(s.args, e)]
    BY <1>8 DEF Took
  <2> QED
    BY <1>3, <1>5, <2>1 DEF Heards
<1>9. CASE e.op # "content"
  <2>1. Took(s, e) = IF e.op = "start" /\ e.kind = "tool" THEN [s EXCEPT !.calls = s.calls \cup {e.id}] ELSE s
    BY <1>9 DEF Took
  <2> QED
    BY <1>3, <1>4, <2>1 DEF Heards
<1> QED
  BY <1>6, <1>7, <1>8, <1>9

\* A client that receives nothing has what it had.
LEMMA ToldNothing ==
  ASSUME NEW s \in Heards
  PROVE  Told(s, <<>>, s) /\ \A u : Told(s, <<>>, u) => u = s
<1> DEFINE h == [n \in 0..0 |-> s]
<1>1. Len(<<>>) = 0 /\ 1..0 = {} /\ 0 \in 0..0
  OBVIOUS
<1>2. Takes(h, s, <<>>, s)
  BY <1>1 DEF Takes
<1> QED
  BY <1>1, <1>2 DEF Told, Takes

\* One event more.
LEMMA ToldOne ==
  ASSUME NEW s \in Heards, NEW out \in Seq(Events), NEW v \in Heards, Told(s, out, v),
         NEW e \in Events, Clear(e)
  PROVE  Told(s, out \o <<e>>, Took(v, e))
<1>1. PICK f : Takes(f, s, out, v)
  BY DEF Told
<1> DEFINE k == Len(out)
           w == Took(v, e)
           one == <<e>>
           all == out \o one
           h == [n \in 0..(k + 1) |-> IF n <= k THEN f[n] ELSE w]
<1>2. one \in Seq(Events) /\ Len(one) = 1 /\ one[1] = e
  OBVIOUS
<1> HIDE DEF one
<1>3. /\ k \in Nat /\ all \in Seq(Events) /\ Len(all) = k + 1
      /\ \A i \in 1..(k + 1) : all[i] = IF i <= k THEN out[i] ELSE one[i - k]
  BY <1>2, ConcatProperties, LenProperties
<1>4. f \in [0..k -> Heards] /\ f[0] = s /\ f[k] = v /\ w \in Heards
  BY <1>1, TookIsHeard DEF Takes
<1> HIDE DEF all, w, k
<1>5. h \in [0..(k + 1) -> Heards] /\ h[0] = s /\ h[k + 1] = w
  <2>1. ASSUME NEW n \in 0..(k + 1) PROVE (IF n <= k THEN f[n] ELSE w) \in Heards
    <3>1. n <= k => n \in 0..k
      BY <1>3
    <3> QED
      BY <1>4, <3>1
  <2>2. k + 1 \in 0..(k + 1) /\ ~(k + 1 <= k) /\ 0 \in 0..(k + 1) /\ 0 <= k
    BY <1>3
  <2> QED
    BY <1>4, <2>1, <2>2
<1>6. ASSUME NEW n \in 1..(k + 1) PROVE Clear(all[n]) /\ h[n] = Took(h[n - 1], all[n])
  <2>1. n \in 0..(k + 1) /\ n - 1 \in 0..(k + 1) /\ n - 1 <= k
    BY <1>3
  <2>2. h[n - 1] = f[n - 1]
    BY <2>1
  <2>3. CASE n <= k
    <3>1. n \in 1..k /\ h[n] = f[n] /\ all[n] = out[n]
      BY <1>3, <2>1, <2>3
    <3> QED
      BY <1>1, <2>2, <3>1 DEF Takes, k
  <2>4. CASE n = k + 1
    <3>1. h[n] = w /\ n - k = 1 /\ n - 1 = k /\ ~(n <= k)
      BY <1>3, <2>1, <2>4
    <3>2. all[n] = e
      BY <1>2, <1>3, <3>1
    <3> QED
      BY <1>4, <2>2, <3>1, <3>2 DEF w
  <2> QED
    BY <1>3, <2>3, <2>4
<1> HIDE DEF h
<1>7. Takes(h, s, all, w)
  BY <1>3, <1>5, <1>6 DEF Takes
<1> QED
  BY <1>7 DEF Told, all, w, one

\* What the client does: it takes the first event.
LEMMA ToldHead ==
  ASSUME NEW s \in Heards, NEW out \in Seq(Events), out # <<>>, NEW v \in Heards, Told(s, out, v)
  PROVE  Clear(Head(out)) /\ Took(s, Head(out)) \in Heards /\ Told(Took(s, Head(out)), Tail(out), v)
<1>1. PICK h : Takes(h, s, out, v)
  BY DEF Told
<1> DEFINE m == Len(out)
           rest == Tail(out)
           g == [n \in 0..(m - 1) |-> h[n + 1]]
<1>2. /\ m \in Nat \ {0} /\ Head(out) = out[1] /\ Head(out) \in Events
      /\ rest \in Seq(Events) /\ Len(rest) = m - 1 /\ \A i \in 1..(m - 1) : rest[i] = out[i + 1]
  BY HeadTailProperties, EmptySeq
<1>3. /\ h \in [0..m -> Heards] /\ h[0] = s /\ h[m] = v
      /\ \A n \in 1..m : Clear(out[n]) /\ h[n] = Took(h[n - 1], out[n])
  BY <1>1 DEF Takes
<1> HIDE DEF m, rest
<1>4. 1 \in 1..m /\ 1 - 1 = 0
  BY <1>2
<1>5. Clear(Head(out)) /\ h[1] = Took(s, Head(out))
  BY <1>2, <1>3, <1>4
<1>6. g \in [0..(m - 1) -> Heards] /\ g[0] = h[1] /\ g[m - 1] = v
  <2>1. \A n \in 0..(m - 1) : n + 1 \in 0..m
    BY <1>2
  <2>2. 0 \in 0..(m - 1) /\ m - 1 \in 0..(m - 1) /\ (m - 1) + 1 = m /\ 0 + 1 = 1
    BY <1>2
  <2> QED
    BY <1>3, <2>1, <2>2
<1>7. ASSUME NEW n \in 1..(m - 1) PROVE Clear(rest[n]) /\ g[n] = Took(g[n - 1], rest[n])
  <2>1. n + 1 \in 1..m /\ (n + 1) - 1 = n /\ n \in 0..(m - 1) /\ n - 1 \in 0..(m - 1) /\ (n - 1) + 1 = n
    BY <1>2
  <2>2. g[n] = h[n + 1] /\ g[n - 1] = h[n]
    BY <2>1
  <2> QED
    BY <1>2, <1>3, <2>1, <2>2
<1> HIDE DEF g
<1>8. Takes(g, h[1], rest, v)
  BY <1>2, <1>6, <1>7 DEF Takes
<1> QED
  BY <1>2, <1>5, <1>8, TookIsHeard DEF Told, rest

\* Goes goes from method to method.
LEMMA GoesTrans ==
  ASSUME NEW tr, NEW u, NEW x, NEW v, NEW w, NEW y, Goes(tr, v, u, w), Goes(u, w, x, y)
  PROVE  Goes(tr, v, x, y)
BY DEF Goes

\* No event, no change.
LEMMA GoesSame ==
  ASSUME NEW tr, NEW u, u.out = tr.out, NEW v
  PROVE  Goes(tr, v, u, v)
BY DEF Goes

\* One event more.
LEMMA GoesOne ==
  ASSUME NEW tr \in Translators, NEW u, NEW e \in Events, Clear(e), u.out = tr.out \o <<e>>, NEW v \in Heards
  PROVE  Took(v, e) \in Heards /\ Goes(tr, v, u, Took(v, e))
BY TookIsHeard, ToldOne, Fields DEF Goes

\* One event more that neither has content nor begins a call.
LEMMA GoesOn ==
  ASSUME NEW tr \in Translators, NEW u, NEW e \in Events, e.op # "content", ~(e.op = "start" /\ e.kind = "tool"),
         u.out = tr.out \o <<e>>, NEW v \in Heards
  PROVE  Goes(tr, v, u, v)
<1>1. Clear(e) /\ Took(v, e) = v
  BY DEF Clear, Took
<1> QED
  BY <1>1, GoesOne

SameText(tr, u) == u.msg = tr.msg /\ u.prevText = tr.prevText
SameThought(tr, u) == u.reasoning = tr.reasoning /\ u.prevThought = tr.prevThought
SameHad(tr, u) == u.hadArgs = tr.hadArgs

\* Nothing is said and nothing forgotten.
Idles(tr, u) ==
  /\ u \in Translators /\ SameText(tr, u) /\ SameThought(tr, u) /\ SameHad(tr, u)
  /\ \A v \in Heards : Goes(tr, v, u, v)

\* One step that idles after another.
LEMMA IdlesTrans ==
  ASSUME NEW tr, NEW u, NEW x, Idles(tr, u), Idles(u, x)
  PROVE  Idles(tr, x)
BY GoesTrans DEF Idles, SameText, SameThought, SameHad

\* The end of the text forgets what was said.
LEMMA CloseTextTold ==
  ASSUME NEW tr \in Translators
  PROVE  LET u == CloseText(tr)
         IN /\ u \in Translators /\ u.msg = None /\ SameThought(tr, u) /\ SameHad(tr, u)
            /\ \A v \in Heards : Goes(tr, v, u, v)
<1>1. CASE tr.msg = None
  BY <1>1, GoesSame DEF CloseText, SameThought, SameHad
<1>2. CASE tr.msg # None
  <2> DEFINE e == Event("end", "text", tr.msg, tr.run, <<>>)
             u == CloseText(tr)
  <2>1. e \in Events /\ e.op = "end"
    BY Fields, EmptyText, EventType, Kinds DEF Event
  <2>2. u = [tr EXCEPT !.out = tr.out \o <<e>>, !.msg = None, !.prevText = <<>>]
    BY <1>2 DEF CloseText, Emit, EmitAs, EmitAll, Translators
  <2>3. tr.out \o <<e>> \in Seq(Events)
    BY <2>1, Emitted
  <2> HIDE DEF e, u
  <2>4. u \in Translators
    BY <2>2, <2>3, EmptyText DEF Translators, None
  <2>5. /\ u.out = tr.out \o <<e>> /\ u.msg = None /\ u.hadArgs = tr.hadArgs
        /\ u.reasoning = tr.reasoning /\ u.prevThought = tr.prevThought
    BY <2>2 DEF Translators
  <2>6. \A v \in Heards : Goes(tr, v, u, v)
    BY <2>1, <2>5, GoesOn
  <2> QED
    BY <2>4, <2>5, <2>6 DEF SameThought, SameHad, u
<1> QED
  BY <1>1, <1>2

\* The end of the reasoning forgets what was thought.
LEMMA CloseReasoningTold ==
  ASSUME NEW tr \in Translators
  PROVE  LET u == CloseReasoning(tr)
         IN /\ u \in Translators /\ u.reasoning = None /\ SameText(tr, u) /\ SameHad(tr, u)
            /\ \A v \in Heards : Goes(tr, v, u, v)
<1>1. CASE tr.reasoning = None
  BY <1>1, GoesSame DEF CloseReasoning, SameText, SameHad
<1>2. CASE tr.reasoning # None
  <2> DEFINE e == Event("end", "reasoning", tr.reasoning, tr.run, <<>>)
             u == CloseReasoning(tr)
  <2>1. e \in Events /\ e.op = "end"
    BY Fields, EmptyText, EventType, Kinds DEF Event
  <2>2. u = [tr EXCEPT !.out = tr.out \o <<e>>, !.reasoning = None, !.prevThought = <<>>]
    BY <1>2 DEF CloseReasoning, Emit, EmitAs, EmitAll, Translators
  <2>3. tr.out \o <<e>> \in Seq(Events)
    BY <2>1, Emitted
  <2> HIDE DEF e, u
  <2>4. u \in Translators
    BY <2>2, <2>3, EmptyText DEF Translators, None
  <2>5. /\ u.out = tr.out \o <<e>> /\ u.reasoning = None /\ u.hadArgs = tr.hadArgs
        /\ u.msg = tr.msg /\ u.prevText = tr.prevText
    BY <2>2 DEF Translators
  <2>6. \A v \in Heards : Goes(tr, v, u, v)
    BY <2>1, <2>5, GoesOn
  <2> QED
    BY <2>4, <2>5, <2>6 DEF SameText, SameHad, u
<1> QED
  BY <1>1, <1>2

\* Both.
LEMMA CloseMessageTold ==
  ASSUME NEW tr \in Translators
  PROVE  LET u == CloseMessage(tr)
         IN /\ u \in Translators /\ u.msg = None /\ u.reasoning = None /\ SameHad(tr, u)
            /\ \A v \in Heards : Goes(tr, v, u, v)
<1> DEFINE m == CloseText(tr)
           u == CloseReasoning(m)
<1>1. m \in Translators /\ m.msg = None /\ SameHad(tr, m) /\ \A v \in Heards : Goes(tr, v, m, v)
  BY CloseTextTold
<1> HIDE DEF m
<1>2. u \in Translators /\ u.reasoning = None /\ SameText(m, u) /\ SameHad(m, u) /\ \A v \in Heards : Goes(m, v, u, v)
  BY <1>1, CloseReasoningTold
<1>3. u = CloseMessage(tr)
  BY DEF u, m, CloseMessage
<1> HIDE DEF u
<1> QED
  BY <1>1, <1>2, <1>3, GoesTrans DEF SameText, SameHad

\* The events of steps and sub-agents say nothing.
LEMMA StartStepIdles ==
  ASSUME NEW tr \in Translators, NEW k \in {LlmStep, ToolsStep}
  PROVE  Idles(tr, StartStep(tr, k))
<1> DEFINE e == Event("start", "step", k, tr.run, <<>>)
           u == StartStep(tr, k)
<1>1. e \in Events /\ e.kind = "step" /\ e.op = "start"
  <2>1. k \in Nat
    BY DEF LlmStep, ToolsStep
  <2> QED
    BY <2>1, Fields, EmptyText, EventType, Kinds DEF Event
<1>2. u = [tr EXCEPT !.out = tr.out \o <<e>>, !.step = k]
  BY DEF StartStep, Emit, EmitAs, EmitAll, Translators
<1>3. tr.out \o <<e>> \in Seq(Events)
  BY <1>1, Emitted
<1> HIDE DEF e, u
<1>4. u \in Translators
  BY <1>2, <1>3 DEF Translators
<1>5. /\ u.out = tr.out \o <<e>> /\ u.reasoning = tr.reasoning /\ u.hadArgs = tr.hadArgs
      /\ u.msg = tr.msg /\ u.prevText = tr.prevText /\ u.prevThought = tr.prevThought
  BY <1>2 DEF Translators
<1>6. \A v \in Heards : Goes(tr, v, u, v)
  BY <1>1, <1>5, GoesOn
<1> QED
  BY <1>4, <1>5, <1>6 DEF SameText, SameThought, SameHad, Idles, u

\* The end of a step says nothing.
LEMMA CloseStepIdles ==
  ASSUME NEW tr \in Translators
  PROVE  Idles(tr, CloseStep(tr))
<1>1. CASE tr.step = None
  BY <1>1, GoesSame DEF CloseStep, SameText, SameThought, SameHad, Idles
<1>2. CASE tr.step # None
  <2> DEFINE e == Event("end", "step", tr.step, tr.run, <<>>)
             u == CloseStep(tr)
  <2>1. e \in Events /\ e.op = "end"
    <3>1. tr.step \in Nat
      BY Fields
    <3> QED
      BY <3>1, Fields, EmptyText, EventType, Kinds DEF Event
  <2>2. u = [tr EXCEPT !.out = tr.out \o <<e>>, !.step = None]
    BY <1>2 DEF CloseStep, Emit, EmitAs, EmitAll, Translators
  <2>3. tr.out \o <<e>> \in Seq(Events)
    BY <2>1, Emitted
  <2> HIDE DEF e, u
  <2>4. u \in Translators
    BY <2>2, <2>3 DEF Translators
  <2>5. /\ u.out = tr.out \o <<e>> /\ u.reasoning = tr.reasoning /\ u.hadArgs = tr.hadArgs
        /\ u.msg = tr.msg /\ u.prevText = tr.prevText /\ u.prevThought = tr.prevThought
    BY <2>2 DEF Translators
  <2>6. \A v \in Heards : Goes(tr, v, u, v)
    BY <2>1, <2>5, GoesOn
  <2> QED
    BY <2>4, <2>5, <2>6 DEF SameText, SameThought, SameHad, Idles, u
<1> QED
  BY <1>1, <1>2

\* Nor does the step an event belongs to.
LEMMA ManageStepsIdles ==
  ASSUME NEW tr \in Translators, NEW ev
  PROVE  Idles(tr, ManageSteps(tr, ev))
<1> DEFINE m == CloseStep(tr)
<1>1. LlmStep \in {LlmStep, ToolsStep} /\ ToolsStep \in {LlmStep, ToolsStep}
  OBVIOUS
<1>2. Idles(tr, m) /\ m \in Translators
  BY CloseStepIdles DEF Idles
<1>3. Idles(tr, tr)
  BY GoesSame DEF Idles, SameText, SameThought, SameHad
<1>4. ManageSteps(tr, ev) \in {tr, StartStep(m, LlmStep), StartStep(m, ToolsStep), StartStep(tr, LlmStep)}
  BY DEF ManageSteps, m
<1> HIDE DEF m
<1>5. Idles(m, StartStep(m, LlmStep)) /\ Idles(m, StartStep(m, ToolsStep)) /\ Idles(tr, StartStep(tr, LlmStep))
  BY <1>1, <1>2, StartStepIdles
<1>6. Idles(tr, StartStep(m, LlmStep)) /\ Idles(tr, StartStep(m, ToolsStep))
  BY <1>2, <1>5, IdlesTrans
<1> QED
  BY <1>3, <1>4, <1>5, <1>6

\* Nor does the end of a sub-agent.
LEMMA CloseSubagentIdles ==
  ASSUME NEW tr \in Translators
  PROVE  Idles(tr, CloseSubagent(tr))
<1> DEFINE u == CloseSubagent(tr)
<1>0. Base \in Nat
  BY DEF Base, Protocol!Base
<1>1. CASE tr.run = Base
  <2>1. u = [tr EXCEPT !.run = Base, !.author = NoAgent]
    BY <1>1 DEF CloseSubagent, EndSubagent
  <2> HIDE DEF u
  <2>2. u \in Translators
    BY <1>0, <2>1 DEF Translators
  <2>3. /\ u.out = tr.out /\ u.reasoning = tr.reasoning /\ u.hadArgs = tr.hadArgs
        /\ u.msg = tr.msg /\ u.prevText = tr.prevText /\ u.prevThought = tr.prevThought
    BY <2>1 DEF Translators
  <2> QED
    BY <2>2, <2>3, GoesSame DEF SameText, SameThought, SameHad, Idles, u
<1>2. CASE tr.run # Base
  <2> DEFINE e == Event("end", "subagent", tr.run, Base, <<>>)
  <2>1. e \in Events /\ e.op = "end"
    BY <1>0, Fields, EmptyText, EventType, Kinds DEF Event
  <2>2. u = [tr EXCEPT !.out = tr.out \o <<e>>, !.run = Base, !.author = NoAgent]
    BY <1>2 DEF CloseSubagent, EndSubagent, EmitAs, EmitAll, Translators
  <2>3. tr.out \o <<e>> \in Seq(Events)
    BY <2>1, Emitted
  <2> HIDE DEF e, u
  <2>4. u \in Translators
    BY <1>0, <2>2, <2>3 DEF Translators
  <2>5. /\ u.out = tr.out \o <<e>> /\ u.reasoning = tr.reasoning /\ u.hadArgs = tr.hadArgs
        /\ u.msg = tr.msg /\ u.prevText = tr.prevText /\ u.prevThought = tr.prevThought
    BY <2>2 DEF Translators
  <2>6. \A v \in Heards : Goes(tr, v, u, v)
    BY <2>1, <2>5, GoesOn
  <2> QED
    BY <2>4, <2>5, <2>6 DEF SameText, SameThought, SameHad, Idles, u
<1> QED
  BY <1>1, <1>2

\* Nor does the beginning of another one.
LEMMA SubagentLifecycleIdles ==
  ASSUME NEW tr \in Translators, NEW a \in Agents
  PROVE  Idles(tr, SubagentLifecycle(tr, a))
<1> DEFINE u == SubagentLifecycle(tr, a)
           m == CloseSubagent(tr)
<1>1. Idles(tr, m) /\ m \in Translators
  BY CloseSubagentIdles DEF Idles
<1>2. CASE a = Root
  BY <1>1, <1>2 DEF SubagentLifecycle
<1>3. CASE a = tr.author /\ a # Root
  BY <1>3, GoesSame DEF SubagentLifecycle, SameText, SameThought, SameHad, Idles
<1>4. CASE a # tr.author /\ a # Root
  <2> DEFINE e == Event("start", "subagent", m.next, Base, <<>>)
  <2>1. m.next \in Nat /\ m.next + 1 \in Nat \ {0} /\ Base \in Nat
    BY <1>1, Fields DEF Base, Protocol!Base
  <2>2. e \in Events /\ e.op = "start" /\ e.kind = "subagent"
    BY <2>1, EmptyText, EventType, Kinds DEF Event
  <2>3. u = [m EXCEPT !.out = m.out \o <<e>>, !.author = a, !.run = m.next, !.next = m.next + 1]
    <3>1. CASE tr.run = Base
      BY <1>4, <3>1 DEF SubagentLifecycle, CloseSubagent, EndSubagent, Fresh, EmitAs, EmitAll, Translators
    <3>2. CASE tr.run # Base
      BY <1>4, <3>2 DEF SubagentLifecycle, CloseSubagent, EndSubagent, Fresh, EmitAs, EmitAll, Translators
    <3> QED
      BY <3>1, <3>2
  <2>4. m.out \o <<e>> \in Seq(Events)
    BY <1>1, <2>2, Emitted
  <2> HIDE DEF e, u, m
  <2>5. u \in Translators
    BY <1>1, <2>1, <2>3, <2>4 DEF Translators
  <2>6. /\ u.out = m.out \o <<e>> /\ u.reasoning = m.reasoning /\ u.hadArgs = m.hadArgs
        /\ u.msg = m.msg /\ u.prevText = m.prevText /\ u.prevThought = m.prevThought
    BY <1>1, <2>3 DEF Translators
  <2>7. \A v \in Heards : Goes(m, v, u, v)
    BY <1>1, <2>2, <2>6, GoesOn
  <2>8. Idles(m, u)
    BY <2>5, <2>6, <2>7 DEF SameText, SameThought, SameHad, Idles
  <2> QED
    BY <1>1, <2>8, IdlesTrans DEF u
<1> QED
  BY <1>2, <1>3, <1>4

\* What content and the beginning of a call add.
LEMMA TookText ==
  ASSUME NEW v \in Heards, NEW e, e.op = "content", e.kind = "text"
  PROVE  LET w == Took(v, e)
         IN w.text = v.text \o e.data /\ w.thought = v.thought /\ w.args = v.args /\ w.calls = v.calls
BY DEF Took, Heards

\* What a chunk of a thought adds.
LEMMA TookThought ==
  ASSUME NEW v \in Heards, NEW e, e.op = "content", e.kind = "reasoning"
  PROVE  LET w == Took(v, e)
         IN w.text = v.text /\ w.thought = v.thought \o e.data /\ w.args = v.args /\ w.calls = v.calls
BY DEF Took, Heards

\* What a fragment of the arguments adds.
LEMMA TookArgs ==
  ASSUME NEW v \in Heards, NEW e, e.op = "content", e.kind = "tool"
  PROVE  LET w == Took(v, e)
         IN /\ w.text = v.text /\ w.thought = v.thought /\ w.calls = v.calls
            /\ \A i \in 1..MaxAnswers : w.args[i] = IF i = e.id THEN v.args[i] \o e.data ELSE v.args[i]
<1>1. Took(v, e) = [v EXCEPT !.args = Longer(v.args, e)]
  BY DEF Took
<1>2. \A i \in 1..MaxAnswers : Longer(v.args, e)[i] = IF i = e.id THEN v.args[i] \o e.data ELSE v.args[i]
  BY DEF Longer, Heards
<1> QED
  BY <1>1, <1>2 DEF Heards

\* What the start of a call adds.
LEMMA TookStart ==
  ASSUME NEW v \in Heards, NEW e, e.op = "start", e.kind = "tool"
  PROVE  LET w == Took(v, e)
         IN w.text = v.text /\ w.thought = v.thought /\ w.args = v.args /\ w.calls = v.calls \cup {e.id}
BY DEF Took, Heards

\* Text and thought are as they were in w.
SameWords(v, w) == w.text = v.text /\ w.thought = v.thought
SameCallings(v, w) == w.args = v.args /\ w.calls = v.calls

\* A text without its end or its beginning.
LEMMA NoRest == \A x \in Text : x \o <<>> = x /\ <<>> \o x = x
BY DEF Text

\* The block goes on by data, which may be nothing.
LEMMA ContentTold ==
  ASSUME NEW tr \in Translators, NEW kind \in {"text", "reasoning"}, NEW id \in Nat, NEW data \in Text
  PROVE  LET u == Content(tr, kind, id, data)
         IN /\ u \in Translators /\ SameText(tr, u) /\ SameThought(tr, u) /\ SameHad(tr, u)
            /\ \A v \in Heards : \E w \in Heards :
                 /\ Goes(tr, v, u, w) /\ SameCallings(v, w)
                 /\ kind = "text" => w.text = v.text \o data /\ w.thought = v.thought
                 /\ kind = "reasoning" => w.thought = v.thought \o data /\ w.text = v.text
<1>1. CASE data = <<>>
  <2>1. \A v \in Heards : v.text \o data = v.text /\ v.thought \o data = v.thought
    BY <1>1, NoRest DEF Heards
  <2>2. Content(tr, kind, id, data) = tr
    BY <1>1 DEF Content
  <2>3. \A v \in Heards : Goes(tr, v, tr, v)
    BY GoesSame
  <2> QED
    BY <2>1, <2>2, <2>3 DEF SameText, SameThought, SameHad, SameCallings
<1>2. CASE data # <<>>
  <2> DEFINE e == Event("content", kind, id, tr.run, data)
             u == Content(tr, kind, id, data)
  <2>1. e \in Events
    BY Fields, EventType, Kinds
  <2>2. e.op = "content" /\ e.kind = kind /\ e.data = data /\ Clear(e)
    BY DEF Event, Clear
  <2>3. u = [tr EXCEPT !.out = tr.out \o <<e>>]
    BY <1>2 DEF Content, Emit, EmitAs, EmitAll, Translators
  <2>4. tr.out \o <<e>> \in Seq(Events)
    BY <2>1, Emitted
  <2> HIDE DEF e, u
  <2>5. u \in Translators
    BY <2>3, <2>4 DEF Translators
  <2>6. /\ u.out = tr.out \o <<e>> /\ u.reasoning = tr.reasoning /\ u.hadArgs = tr.hadArgs
        /\ u.msg = tr.msg /\ u.prevText = tr.prevText /\ u.prevThought = tr.prevThought
    BY <2>3 DEF Translators
  <2>7. ASSUME NEW v \in Heards
        PROVE  \E w \in Heards : /\ Goes(tr, v, u, w) /\ SameCallings(v, w)
                                 /\ kind = "text" => w.text = v.text \o data /\ w.thought = v.thought
                                 /\ kind = "reasoning" => w.thought = v.thought \o data /\ w.text = v.text
    <3> DEFINE w == Took(v, e)
    <3>1. w \in Heards /\ Goes(tr, v, u, w) /\ w = Took(v, e)
      BY <2>1, <2>2, <2>6, GoesOne
    <3> HIDE DEF w
    <3>2. /\ kind = "text" => SameCallings(v, w) /\ w.text = v.text \o data /\ w.thought = v.thought
          /\ kind = "reasoning" => SameCallings(v, w) /\ w.thought = v.thought \o data /\ w.text = v.text
      <4>1. CASE kind = "text"
        BY <2>2, <3>1, <4>1, TookText DEF SameCallings
      <4>2. CASE kind = "reasoning"
        BY <2>2, <3>1, <4>2, TookThought DEF SameCallings
      <4> QED
        BY <4>1, <4>2
    <3> QED
      BY <3>1, <3>2
  <2> QED
    BY <2>5, <2>6, <2>7 DEF SameText, SameThought, SameHad, u
<1> QED
  BY <1>1, <1>2

\* A new message has said nothing.
LEMMA OpenTextTold ==
  ASSUME NEW tr \in Translators
  PROVE  LET u == OpenText(tr)
         IN /\ u \in Translators /\ u.msg # None /\ SameThought(tr, u) /\ SameHad(tr, u)
            /\ u.prevText = IF tr.msg = None THEN <<>> ELSE tr.prevText
            /\ \A v \in Heards : Goes(tr, v, u, v)
<1>1. CASE tr.msg # None
  BY <1>1, GoesSame DEF OpenText, SameThought, SameHad
<1>2. CASE tr.msg = None
  <2> DEFINE e == Event("start", "text", tr.next, tr.run, <<>>)
             u == OpenText(tr)
  <2>1. tr.next \in Nat /\ tr.next + 1 \in Nat \ {0} /\ tr.next # None /\ tr.run \in Nat
    BY Fields DEF None
  <2>2. e \in Events /\ e.op = "start" /\ e.kind = "text"
    BY <2>1, EmptyText, EventType, Kinds DEF Event
  <2>3. u = [tr EXCEPT !.out = tr.out \o <<e>>, !.next = tr.next + 1, !.msg = tr.next, !.prevText = <<>>]
    BY <1>2 DEF OpenText, Fresh, Emit, EmitAs, EmitAll, Translators
  <2>4. tr.out \o <<e>> \in Seq(Events)
    BY <2>2, Emitted
  <2> HIDE DEF e, u
  <2>5. u \in Translators
    BY <2>1, <2>3, <2>4, EmptyText DEF Translators
  <2>6. /\ u.out = tr.out \o <<e>> /\ u.reasoning = tr.reasoning /\ u.hadArgs = tr.hadArgs
        /\ u.msg = tr.next /\ u.prevText = <<>> /\ u.prevThought = tr.prevThought
    BY <2>3 DEF Translators
  <2>7. \A v \in Heards : Goes(tr, v, u, v)
    BY <2>2, <2>6, GoesOn
  <2> QED
    BY <1>2, <2>1, <2>5, <2>6, <2>7 DEF SameThought, SameHad, u
<1> QED
  BY <1>1, <1>2

\* The beginning of the reasoning goes on with what was thought, if it is open.
LEMMA OpenReasoningTold ==
  ASSUME NEW tr \in Translators
  PROVE  LET u == OpenReasoning(tr)
         IN /\ u \in Translators /\ u.reasoning # None /\ SameText(tr, u) /\ SameHad(tr, u)
            /\ u.prevThought = IF tr.reasoning = None THEN <<>> ELSE tr.prevThought
            /\ \A v \in Heards : Goes(tr, v, u, v)
<1>1. CASE tr.reasoning # None
  BY <1>1, GoesSame DEF OpenReasoning, SameText, SameHad
<1>2. CASE tr.reasoning = None
  <2> DEFINE e == Event("start", "reasoning", tr.next, tr.run, <<>>)
             u == OpenReasoning(tr)
  <2>1. tr.next \in Nat /\ tr.next + 1 \in Nat \ {0} /\ tr.next # None /\ tr.run \in Nat
    BY Fields DEF None
  <2>2. e \in Events /\ e.op = "start" /\ e.kind = "reasoning"
    BY <2>1, EmptyText, EventType, Kinds DEF Event
  <2>3. u = [tr EXCEPT !.out = tr.out \o <<e>>, !.next = tr.next + 1, !.reasoning = tr.next, !.prevThought = <<>>]
    BY <1>2 DEF OpenReasoning, Fresh, Emit, EmitAs, EmitAll, Translators
  <2>4. tr.out \o <<e>> \in Seq(Events)
    BY <2>2, Emitted
  <2> HIDE DEF e, u
  <2>5. u \in Translators
    BY <2>1, <2>3, <2>4, EmptyText DEF Translators
  <2>6. /\ u.out = tr.out \o <<e>> /\ u.msg = tr.msg /\ u.hadArgs = tr.hadArgs
        /\ u.reasoning = tr.next /\ u.prevThought = <<>> /\ u.prevText = tr.prevText
    BY <2>3 DEF Translators
  <2>7. \A v \in Heards : Goes(tr, v, u, v)
    BY <2>2, <2>6, GoesOn
  <2> QED
    BY <1>2, <2>1, <2>5, <2>6, <2>7 DEF SameText, SameHad, u
<1> QED
  BY <1>1, <1>2

\* What a chunk adds to what the message has said: the client has it then.
Before(tr) == IF tr.msg = None THEN <<>> ELSE tr.prevText

\* A text, whole or a chunk, is told by what it adds.
LEMMA EmitTextTold ==
  ASSUME NEW tr \in Translators, NEW text \in Text, NEW partial \in BOOLEAN
  PROVE  LET u == EmitText(tr, text, partial)
             d == Delta(Before(tr), text)
         IN /\ u \in Translators /\ u.reasoning = None /\ SameHad(tr, u)
            /\ partial => u.msg # None /\ u.prevText = Before(tr) \o d
            /\ ~partial => u.msg = None
            /\ \A v \in Heards : \E w \in Heards :
                 Goes(tr, v, u, w) /\ SameCallings(v, w) /\ w.text = v.text \o d /\ w.thought = v.thought
<1> DEFINE c == CloseReasoning(tr)
           o == OpenText(c)
           d == Delta(o.prevText, text)
           k == Content(o, "text", o.msg, d)
           u == IF partial THEN [k EXCEPT !.prevText = k.prevText \o d] ELSE CloseText(k)
<1>1. /\ c \in Translators /\ c.reasoning = None /\ SameText(tr, c) /\ SameHad(tr, c)
      /\ \A v \in Heards : Goes(tr, v, c, v)
  BY CloseReasoningTold
<1>2. u = EmitText(tr, text, partial)
  BY DEF EmitText
<1> HIDE DEF c
<1>3. /\ o \in Translators /\ o.msg # None /\ o.reasoning = None /\ SameHad(c, o)
      /\ o.prevText = IF c.msg = None THEN <<>> ELSE c.prevText
      /\ \A v \in Heards : Goes(c, v, o, v)
  BY <1>1, OpenTextTold DEF SameThought
<1> HIDE DEF o
<1>4. o.msg \in Nat /\ o.prevText \in Text /\ d \in Text /\ o.prevText \o d \in Text
  BY <1>3, Fields, DeltaIsText
<1>5. o.prevText = Before(tr)
  BY <1>1, <1>3 DEF SameText, Before
<1> HIDE DEF d
<1>6. /\ k \in Translators /\ SameText(o, k) /\ SameThought(o, k) /\ SameHad(o, k)
      /\ \A v \in Heards : \E w \in Heards :
           Goes(o, v, k, w) /\ SameCallings(v, w) /\ w.text = v.text \o d /\ w.thought = v.thought
  <2>1. "text" \in {"text", "reasoning"}
    OBVIOUS
  <2>2. /\ k \in Translators /\ SameText(o, k) /\ SameThought(o, k) /\ SameHad(o, k)
        /\ \A v \in Heards : \E w \in Heards :
             /\ Goes(o, v, k, w) /\ SameCallings(v, w)
             /\ "text" = "text" => w.text = v.text \o d /\ w.thought = v.thought
             /\ "text" = "reasoning" => w.thought = v.thought \o d /\ w.text = v.text
    BY <1>3, <1>4, <2>1, ContentTold
  <2> HIDE DEF k
  <2> QED
    BY <2>1, <2>2
<1> HIDE DEF k
<1>7. /\ u \in Translators /\ u.reasoning = None /\ SameHad(k, u)
      /\ partial => u.msg # None /\ u.prevText = Before(tr) \o d
      /\ ~partial => u.msg = None
      /\ \A w \in Heards : Goes(k, w, u, w)
  <2>1. CASE partial
    <3>1. u = [k EXCEPT !.prevText = k.prevText \o d] /\ k.prevText \o d \in Text
      BY <1>4, <1>6, <2>1 DEF SameText
    <3> HIDE DEF u
    <3>2. u \in Translators
      BY <1>6, <3>1 DEF Translators
    <3>3. u.out = k.out /\ u.msg = k.msg /\ u.reasoning = k.reasoning /\ u.hadArgs = k.hadArgs /\ u.prevText = k.prevText \o d
      BY <1>6, <3>1 DEF Translators
    <3> QED
      BY <1>3, <1>5, <1>6, <2>1, <3>2, <3>3, GoesSame DEF SameText, SameThought, SameHad
  <2>2. CASE ~partial
    <3>1. u = CloseText(k)
      BY <2>2
    <3> HIDE DEF u
    <3> QED
      BY <1>3, <1>6, <2>2, <3>1, CloseTextTold DEF SameThought
  <2> QED
    BY <2>1, <2>2
<1> HIDE DEF u
<1>8. SameHad(tr, u)
  BY <1>1, <1>3, <1>6, <1>7 DEF SameHad
<1>9. ASSUME NEW v \in Heards
      PROVE  \E w \in Heards : Goes(tr, v, u, w) /\ SameCallings(v, w) /\ w.text = v.text \o d /\ w.thought = v.thought
  <2>1. PICK w \in Heards : Goes(o, v, k, w) /\ SameCallings(v, w) /\ w.text = v.text \o d /\ w.thought = v.thought
    BY <1>6
  <2>2. Goes(tr, v, c, v) /\ Goes(c, v, o, v) /\ Goes(k, w, u, w)
    BY <1>1, <1>3, <1>7
  <2>3. Goes(tr, v, u, w)
    BY <2>1, <2>2, GoesTrans
  <2> QED
    BY <2>1, <2>3
<1> QED
  BY <1>2, <1>5, <1>7, <1>8, <1>9 DEF d

\* The same for thoughts.
BeforeThought(tr) == IF tr.reasoning = None THEN <<>> ELSE tr.prevThought

\* A thought, whole or a chunk, is told by what it adds.
LEMMA EmitThoughtTold ==
  ASSUME NEW tr \in Translators, NEW text \in Text, NEW partial \in BOOLEAN
  PROVE  LET u == EmitThought(tr, text, partial)
             d == Delta(BeforeThought(tr), text)
         IN /\ u \in Translators /\ u.msg = None /\ SameHad(tr, u)
            /\ partial => u.reasoning # None /\ u.prevThought = BeforeThought(tr) \o d
            /\ ~partial => u.reasoning = None
            /\ \A v \in Heards : \E w \in Heards :
                 Goes(tr, v, u, w) /\ SameCallings(v, w) /\ w.thought = v.thought \o d /\ w.text = v.text
<1> DEFINE c == CloseText(tr)
           o == OpenReasoning(c)
           d == Delta(o.prevThought, text)
           k == Content(o, "reasoning", o.reasoning, d)
           l == [k EXCEPT !.prevThought = k.prevThought \o d]
           u == IF partial THEN l ELSE CloseReasoning(l)
<1>1. /\ c \in Translators /\ c.msg = None /\ SameThought(tr, c) /\ SameHad(tr, c)
      /\ \A v \in Heards : Goes(tr, v, c, v)
  BY CloseTextTold
<1>2. u = EmitThought(tr, text, partial)
  BY DEF EmitThought
<1> HIDE DEF c
<1>3. /\ o \in Translators /\ o.reasoning # None /\ o.msg = None /\ SameHad(c, o)
      /\ o.prevThought = IF c.reasoning = None THEN <<>> ELSE c.prevThought
      /\ \A v \in Heards : Goes(c, v, o, v)
  BY <1>1, OpenReasoningTold DEF SameText
<1> HIDE DEF o
<1>4. o.reasoning \in Nat /\ o.prevThought \in Text /\ d \in Text /\ o.prevThought \o d \in Text
  BY <1>3, Fields, DeltaIsText
<1>5. o.prevThought = BeforeThought(tr)
  BY <1>1, <1>3 DEF SameThought, BeforeThought
<1> HIDE DEF d
<1>6. /\ k \in Translators /\ SameText(o, k) /\ SameThought(o, k) /\ SameHad(o, k)
      /\ \A v \in Heards : \E w \in Heards :
           Goes(o, v, k, w) /\ SameCallings(v, w) /\ w.thought = v.thought \o d /\ w.text = v.text
  <2>1. "reasoning" \in {"text", "reasoning"} /\ "reasoning" # "text"
    OBVIOUS
  <2>2. /\ k \in Translators /\ SameText(o, k) /\ SameThought(o, k) /\ SameHad(o, k)
        /\ \A v \in Heards : \E w \in Heards :
             /\ Goes(o, v, k, w) /\ SameCallings(v, w)
             /\ "reasoning" = "text" => w.text = v.text \o d /\ w.thought = v.thought
             /\ "reasoning" = "reasoning" => w.thought = v.thought \o d /\ w.text = v.text
    BY <1>3, <1>4, <2>1, ContentTold
  <2> HIDE DEF k
  <2> QED
    BY <2>1, <2>2
<1> HIDE DEF k
<1>7. /\ l \in Translators /\ l.msg = k.msg /\ l.reasoning = k.reasoning /\ SameHad(k, l)
      /\ l.prevThought = BeforeThought(tr) \o d
      /\ \A w \in Heards : Goes(k, w, l, w)
  <2>1. k.prevThought \o d \in Text /\ k.prevThought = BeforeThought(tr)
    BY <1>4, <1>5, <1>6 DEF SameThought
  <2>2. l \in Translators
    BY <1>6, <2>1 DEF Translators
  <2>3. l.out = k.out /\ l.msg = k.msg /\ l.reasoning = k.reasoning /\ l.hadArgs = k.hadArgs /\ l.prevThought = k.prevThought \o d
    BY <1>6 DEF Translators
  <2> HIDE DEF l
  <2> QED
    BY <2>1, <2>2, <2>3, GoesSame DEF SameHad
<1> HIDE DEF l
<1>8. /\ u \in Translators /\ u.msg = None /\ SameHad(tr, u)
      /\ partial => u.reasoning # None /\ u.prevThought = BeforeThought(tr) \o d
      /\ ~partial => u.reasoning = None
      /\ \A w \in Heards : Goes(k, w, u, w)
  <2>1. l.msg = None /\ l.reasoning # None /\ SameHad(tr, l)
    BY <1>1, <1>3, <1>6, <1>7 DEF SameText, SameThought, SameHad
  <2>2. CASE partial
    <3>1. u = l
      BY <2>2
    <3> QED
      BY <1>7, <2>1, <2>2, <3>1
  <2>3. CASE ~partial
    <3>1. u = CloseReasoning(l)
      BY <2>3
    <3> HIDE DEF u
    <3>2. u \in Translators /\ u.reasoning = None /\ SameText(l, u) /\ SameHad(l, u) /\ \A v \in Heards : Goes(l, v, u, v)
      BY <1>7, <3>1, CloseReasoningTold
    <3> QED
      BY <1>7, <2>1, <2>3, <3>2, GoesTrans DEF SameText, SameHad
  <2> QED
    BY <2>2, <2>3
<1> HIDE DEF u
<1>9. ASSUME NEW v \in Heards
      PROVE  \E w \in Heards : Goes(tr, v, u, w) /\ SameCallings(v, w) /\ w.thought = v.thought \o d /\ w.text = v.text
  <2>1. PICK w \in Heards : Goes(o, v, k, w) /\ SameCallings(v, w) /\ w.thought = v.thought \o d /\ w.text = v.text
    BY <1>6
  <2>2. Goes(tr, v, c, v) /\ Goes(c, v, o, v) /\ Goes(k, w, u, w)
    BY <1>1, <1>3, <1>8
  <2>3. Goes(tr, v, u, w)
    BY <2>1, <2>2, GoesTrans
  <2> QED
    BY <2>1, <2>3
<1> QED
  BY <1>2, <1>5, <1>8, <1>9 DEF d

-----------------------------------------------------------------------------
(* What the client gets of a call.                                         *)

\* Call id gets data and may begin; nothing else is said.
OnCall(v, w, id, data) ==
  /\ SameWords(v, w) /\ w.calls \subseteq v.calls \cup {id}
  /\ \A i \in 1..MaxAnswers : w.args[i] = IF i = id THEN v.args[i] \o data ELSE v.args[i]
Gets(tr, u, id, data) == \A v \in Heards : \E w \in Heards : Goes(tr, v, u, w) /\ OnCall(v, w, id, data)
CallTold(tr, u, id, data) == u \in Translators /\ SameText(tr, u) /\ SameThought(tr, u) /\ Gets(tr, u, id, data)

\* Two texts with the same letters are the same.
LEMMA SameLetters ==
  ASSUME NEW x \in Text, NEW y \in Text, Len(x) = Len(y), \A i \in 1..Len(x) : x[i] = y[i]
  PROVE  x = y
<1>1. x \in [1..Len(x) -> STRING] /\ y \in [1..Len(x) -> STRING]
  BY LenProperties DEF Text
<1> QED
  BY <1>1

\* One text after the other.
LEMMA Joined ==
  ASSUME NEW x \in Text, NEW y \in Text
  PROVE  /\ x \o y \in Text /\ Len(x \o y) = Len(x) + Len(y) /\ Len(x) \in Nat /\ Len(y) \in Nat
         /\ \A i \in 1..(Len(x) + Len(y)) : (x \o y)[i] = IF i <= Len(x) THEN x[i] ELSE y[i - Len(x)]
BY ConcatProperties, LenProperties DEF Text

\* Texts are put together in any order.
LEMMA TextAssociative ==
  ASSUME NEW x \in Text, NEW y \in Text, NEW z \in Text
  PROVE  (x \o y) \o z = x \o (y \o z)
<1> DEFINE p == x \o y
           q == y \o z
           l == p \o z
           r == x \o q
<1>1. Len(x) \in Nat /\ Len(y) \in Nat /\ Len(z) \in Nat
  BY Joined
<1>2. /\ p \in Text /\ Len(p) = Len(x) + Len(y)
      /\ \A i \in 1..(Len(x) + Len(y)) : p[i] = IF i <= Len(x) THEN x[i] ELSE y[i - Len(x)]
  BY Joined
<1>3. /\ q \in Text /\ Len(q) = Len(y) + Len(z)
      /\ \A i \in 1..(Len(y) + Len(z)) : q[i] = IF i <= Len(y) THEN y[i] ELSE z[i - Len(y)]
  BY Joined
<1> HIDE DEF p, q
<1>4. /\ l \in Text /\ Len(l) = Len(p) + Len(z)
      /\ \A i \in 1..(Len(p) + Len(z)) : l[i] = IF i <= Len(p) THEN p[i] ELSE z[i - Len(p)]
  BY <1>2, Joined
<1>5. /\ r \in Text /\ Len(r) = Len(x) + Len(q)
      /\ \A i \in 1..(Len(x) + Len(q)) : r[i] = IF i <= Len(x) THEN x[i] ELSE q[i - Len(x)]
  BY <1>3, Joined
<1> HIDE DEF l, r
<1>6. ASSUME NEW i \in 1..Len(l) PROVE l[i] = r[i]
  <2>1. CASE i <= Len(x)
    BY <1>1, <1>2, <1>3, <1>4, <1>5, <2>1
  <2>2. CASE ~(i <= Len(x)) /\ i <= Len(x) + Len(y)
    <3>1. i - Len(x) \in 1..(Len(y) + Len(z)) /\ i - Len(x) <= Len(y)
      BY <1>1, <2>2
    <3>2. l[i] = y[i - Len(x)]
      BY <1>1, <1>2, <1>4, <2>2
    <3>3. r[i] = q[i - Len(x)]
      BY <1>1, <1>2, <1>3, <1>4, <1>5, <2>2
    <3> QED
      BY <1>3, <3>1, <3>2, <3>3
  <2>3. CASE ~(i <= Len(x) + Len(y))
    <3>1. /\ i - Len(x) \in 1..(Len(y) + Len(z)) /\ ~(i - Len(x) <= Len(y))
          /\ (i - Len(x)) - Len(y) = i - (Len(x) + Len(y))
      BY <1>1, <1>2, <1>4, <2>3
    <3>2. l[i] = z[i - (Len(x) + Len(y))]
      BY <1>1, <1>2, <1>4, <2>3
    <3>3. r[i] = q[i - Len(x)]
      BY <1>1, <1>2, <1>3, <1>4, <1>5, <2>3
    <3> QED
      BY <1>3, <3>1, <3>2, <3>3
  <2> QED
    BY <2>1, <2>2, <2>3
<1>7. Len(l) = Len(r)
  BY <1>1, <1>2, <1>3, <1>4, <1>5
<1>8. l = r
  BY <1>4, <1>5, <1>6, <1>7, SameLetters
<1> QED
  BY <1>8 DEF l, r, p, q

\* Nothing, for any call.
LEMMA GetsNothing ==
  ASSUME NEW v \in Heards, NEW w \in Heards, SameWords(v, w), SameCallings(v, w), NEW id
  PROVE  OnCall(v, w, id, <<>>)
<1>1. \A i \in 1..MaxAnswers : v.args[i] \o <<>> = v.args[i]
  BY NoRest DEF Heards
<1> QED
  BY <1>1 DEF OnCall, SameCallings

\* A step that idles tells nothing of any call.
LEMMA IdlesGets ==
  ASSUME NEW tr, NEW u, Idles(tr, u), NEW id
  PROVE  CallTold(tr, u, id, <<>>) /\ SameHad(tr, u)
<1>1. \A v \in Heards : SameWords(v, v) /\ SameCallings(v, v)
  BY DEF SameWords, SameCallings
<1> QED
  BY <1>1, GetsNothing DEF Idles, CallTold, Gets

\* First one thing, then another.
LEMMA CallToldTrans ==
  ASSUME NEW tr, NEW u, NEW x, NEW id, NEW d \in Text, NEW e \in Text, CallTold(tr, u, id, d), CallTold(u, x, id, e)
  PROVE  CallTold(tr, x, id, d \o e)
<1>1. ASSUME NEW v \in Heards PROVE \E y \in Heards : Goes(tr, v, x, y) /\ OnCall(v, y, id, d \o e)
  <2>1. PICK w \in Heards : Goes(tr, v, u, w) /\ OnCall(v, w, id, d)
    BY DEF CallTold, Gets
  <2>2. PICK y \in Heards : Goes(u, w, x, y) /\ OnCall(w, y, id, e)
    BY DEF CallTold, Gets
  <2>3. Goes(tr, v, x, y)
    BY <2>1, <2>2, GoesTrans
  <2>4. \A i \in 1..MaxAnswers : (v.args[i] \o d) \o e = v.args[i] \o (d \o e)
    <3>1. \A i \in 1..MaxAnswers : v.args[i] \in Text
      BY DEF Heards
    <3> QED
      BY <3>1, TextAssociative
  <2>5. OnCall(v, y, id, d \o e)
    BY <2>1, <2>2, <2>4 DEF OnCall, SameWords
  <2> QED
    BY <2>3, <2>5
<1> QED
  BY <1>1 DEF CallTold, Gets, SameText, SameThought

\* The translator keeps account of what it has said.
LEMMA CallToldOn ==
  ASSUME NEW tr, NEW u, NEW x \in Translators, NEW id, NEW d, CallTold(tr, u, id, d),
         x.out = u.out, SameText(u, x), SameThought(u, x)
  PROVE  CallTold(tr, x, id, d)
BY DEF CallTold, Gets, Goes, SameText, SameThought

\* An event of a call.
LEMMA CallEvent ==
  ASSUME NEW tr \in Translators, NEW u, NEW e \in Events, e.kind = "tool", u.out = tr.out \o <<e>>,
         e.op # "content" => e.data = <<>>
  PROVE  Gets(tr, u, e.id, e.data)
<1> SUFFICES ASSUME NEW v \in Heards PROVE \E w \in Heards : Goes(tr, v, u, w) /\ OnCall(v, w, e.id, e.data)
  BY DEF Gets
<1>1. CASE e.op = "content"
  <2>1. Clear(e)
    BY DEF Clear
  <2>2. Took(v, e) \in Heards /\ Goes(tr, v, u, Took(v, e))
    BY <2>1, GoesOne
  <2>3. OnCall(v, Took(v, e), e.id, e.data)
    BY <1>1, TookArgs DEF OnCall, SameWords
  <2> QED
    BY <2>2, <2>3
<1>2. CASE e.op = "start"
  <2>1. Clear(e)
    BY <1>2 DEF Clear
  <2>2. Took(v, e) \in Heards /\ Goes(tr, v, u, Took(v, e))
    BY <2>1, GoesOne
  <2>3. \A i \in 1..MaxAnswers : v.args[i] \o <<>> = v.args[i]
    BY NoRest DEF Heards
  <2>4. OnCall(v, Took(v, e), e.id, e.data)
    BY <1>2, <2>3, TookStart DEF OnCall, SameWords
  <2> QED
    BY <2>2, <2>4
<1>3. CASE e.op # "content" /\ e.op # "start"
  <2>1. Goes(tr, v, u, v)
    BY <1>3, GoesOn
  <2>2. OnCall(v, v, e.id, <<>>)
    BY GetsNothing DEF SameWords, SameCallings
  <2> QED
    BY <1>3, <2>1, <2>2
<1> QED
  BY <1>1, <1>2, <1>3

\* An event of a call, by the active emitter.
LEMMA EmitCallTold ==
  ASSUME NEW tr \in Translators, NEW op \in {"start", "content", "end", "result"}, NEW id \in Nat, NEW data \in Text,
         op # "content" => data = <<>>
  PROVE  LET u == Emit(tr, op, "tool", id, data)
         IN /\ CallTold(tr, u, id, data) /\ SameHad(tr, u) /\ u.started = tr.started /\ u.opened = tr.opened
            /\ u.run = tr.run
<1> DEFINE e == Event(op, "tool", id, tr.run, data)
           u == Emit(tr, op, "tool", id, data)
<1>1. e \in Events /\ e.op = op /\ e.kind = "tool" /\ e.id = id /\ e.data = data
  BY Fields, EventType, Kinds DEF Event
<1>2. u = [tr EXCEPT !.out = tr.out \o <<e>>]
  BY DEF Emit, EmitAs, EmitAll, Translators
<1>3. tr.out \o <<e>> \in Seq(Events)
  BY <1>1, Emitted
<1> HIDE DEF e, u
<1>4. u \in Translators
  BY <1>2, <1>3 DEF Translators
<1>5. /\ u.out = tr.out \o <<e>> /\ u.reasoning = tr.reasoning /\ u.hadArgs = tr.hadArgs
      /\ u.msg = tr.msg /\ u.prevText = tr.prevText /\ u.prevThought = tr.prevThought
      /\ u.started = tr.started /\ u.opened = tr.opened /\ u.run = tr.run
  BY <1>2 DEF Translators
<1>6. Gets(tr, u, id, data)
  BY <1>1, <1>5, CallEvent
<1> QED
  BY <1>4, <1>5, <1>6 DEF CallTold, SameText, SameThought, SameHad, u

\* A call gets its number and is noted in toolCallIDs, and nothing is said.
LEMMA NotedIdles ==
  ASSUME NEW tr \in Translators, NEW c \in Calls
  PROVE  Idles(tr, Numbered(tr, c)) /\ Idles(tr, Noted(tr, c))
<1> DEFINE m == Numbered(tr, c)
           u == Noted(tr, c)
<1>1. m \in Translators /\ u \in Translators
  BY NumberedKeeps, NotedKeeps
<1>2. /\ m.out = tr.out /\ m.reasoning = tr.reasoning /\ m.hadArgs = tr.hadArgs
      /\ m.msg = tr.msg /\ m.prevText = tr.prevText /\ m.prevThought = tr.prevThought
  BY DEF Numbered, Fresh, Translators
<1>3. u = Remember(m, c, Identified(tr, c).id)
  BY DEF Noted
<1> HIDE DEF m
<1>4. /\ u.out = tr.out /\ u.reasoning = tr.reasoning /\ u.hadArgs = tr.hadArgs
      /\ u.msg = tr.msg /\ u.prevText = tr.prevText /\ u.prevThought = tr.prevThought
  BY <1>1, <1>2, <1>3 DEF Remember, Translators
<1> HIDE DEF u
<1>5. Idles(tr, m) /\ Idles(tr, u)
  BY <1>1, <1>2, <1>4, GoesSame DEF Idles, SameText, SameThought, SameHad
<1> QED
  BY <1>5 DEF m, u

\* A call goes on by a fragment, or by none.
Fragment(deltas) == deltas = <<>> \/ \E x \in STRING : deltas = <<x>>

\* The fragments of a partial call are told as they come.
LEMMA EmitPartialCallTold ==
  ASSUME NEW tr \in Translators, NEW c \in Calls, Fragment(c.deltas)
  PROVE  LET u == EmitPartialCall(tr, c)
         IN /\ CallTold(tr, u, c.id, c.deltas)
            /\ u.hadArgs = IF c.deltas = <<>> THEN tr.hadArgs ELSE tr.hadArgs \cup {c.id}
<1> DEFINE id == c.id
           b == Emit(tr, "start", "tool", id, <<>>)
           a == IF id \in tr.started THEN tr
                ELSE [b EXCEPT !.started = b.started \cup {id}, !.opened = b.opened \cup {id}]
           more == [i \in 1..Len(c.deltas) |-> Event("content", "tool", id, tr.run, <<c.deltas[i]>>)]
           had == IF c.deltas = <<>> THEN a.hadArgs ELSE a.hadArgs \cup {id}
           u == [a EXCEPT !.out = a.out \o more, !.hadArgs = had]
<1>1. id \in Nat /\ c.deltas \in Text
  BY DEF Calls
<1>2. CallTold(tr, a, id, <<>>) /\ a \in Translators /\ SameHad(tr, a) /\ a.run = tr.run
  <2>1. CASE id \in tr.started
    <3>1. Idles(tr, tr)
      BY GoesSame DEF Idles, SameText, SameThought, SameHad
    <3> QED
      BY <2>1, <3>1, IdlesGets DEF SameHad
  <2>2. CASE id \notin tr.started
    <3>1. CallTold(tr, b, id, <<>>) /\ SameHad(tr, b) /\ b.started = tr.started /\ b.opened = tr.opened /\ b.run = tr.run
      BY <1>1, EmptyText, EmitCallTold
    <3>2. b \in Translators /\ b.started \cup {id} \subseteq Nat /\ b.opened \cup {id} \subseteq Nat
      BY <1>1, <3>1, Fields DEF CallTold
    <3>3. a = [b EXCEPT !.started = b.started \cup {id}, !.opened = b.opened \cup {id}]
      BY <2>2
    <3> HIDE DEF a, b
    <3>4. a \in Translators
      BY <3>2, <3>3 DEF Translators
    <3>5. /\ a.out = b.out /\ a.reasoning = b.reasoning /\ a.hadArgs = b.hadArgs /\ a.run = b.run
          /\ a.msg = b.msg /\ a.prevText = b.prevText /\ a.prevThought = b.prevThought
      BY <3>2, <3>3 DEF Translators
    <3>6. SameText(b, a) /\ SameThought(b, a)
      BY <3>5 DEF SameText, SameThought
    <3> QED
      BY <3>1, <3>4, <3>5, <3>6, CallToldOn DEF SameHad
  <2> QED
    BY <2>1, <2>2
<1>3. u = EmitPartialCall(tr, c)
  <2>1. id \notin tr.started => b \in Translators
    BY <1>1, EmptyText, EmitCallTold DEF CallTold
  <2> QED
    BY <1>2, <2>1 DEF EmitPartialCall, EmitAll, Translators
<1> HIDE DEF a, b
<1>4. CASE c.deltas = <<>>
  <2>1. more = <<>>
    BY <1>4
  <2>2. a.out \o more = a.out
    BY <1>2, <2>1, ConcatEmptySeq, Fields
  <2>3. u = a
    BY <1>2, <1>4, <2>2 DEF Translators
  <2> QED
    BY <1>2, <1>3, <1>4, <2>3 DEF SameHad
<1>5. CASE c.deltas # <<>>
  <2>1. PICK x \in STRING : c.deltas = <<x>>
    BY <1>5 DEF Fragment
  <2> DEFINE e == Event("content", "tool", id, tr.run, <<x>>)
  <2>2. <<x>> \in Text
    BY DEF Text
  <2>3. e \in Events /\ e.op = "content" /\ e.kind = "tool" /\ e.id = id /\ e.data = <<x>>
    BY <1>1, <2>2, Fields, EventType, Kinds DEF Event
  <2>4. more = <<e>>
    BY <2>1
  <2>5. a.out \o <<e>> \in Seq(Events) /\ a.hadArgs \cup {id} \subseteq Nat
    BY <1>1, <1>2, <2>3, Emitted, Fields
  <2>6. u = [a EXCEPT !.out = a.out \o <<e>>, !.hadArgs = a.hadArgs \cup {id}]
    BY <1>5, <2>4
  <2> HIDE DEF u, e, more
  <2>7. u \in Translators
    BY <1>2, <2>5, <2>6 DEF Translators
  <2>8. /\ u.out = a.out \o <<e>> /\ u.reasoning = a.reasoning /\ u.hadArgs = a.hadArgs \cup {id}
        /\ u.msg = a.msg /\ u.prevText = a.prevText /\ u.prevThought = a.prevThought
    BY <1>2, <2>6 DEF Translators
  <2>9. CallTold(a, u, id, <<x>>)
    BY <1>2, <2>3, <2>7, <2>8, CallEvent DEF CallTold, SameText, SameThought
  <2>10. CallTold(tr, u, id, <<>> \o <<x>>) /\ <<>> \o <<x>> = <<x>>
    BY <1>2, <2>2, <2>9, EmptyText, NoRest, CallToldTrans
  <2> QED
    BY <1>2, <1>3, <1>5, <2>1, <2>8, <2>10 DEF SameHad
<1> QED
  BY <1>4, <1>5

\* The end of a call: its arguments are done with.
LEMMA EndCallTold ==
  ASSUME NEW tr \in Translators, NEW id \in Nat
  PROVE  LET u == EndCall(tr, id)
         IN CallTold(tr, u, id, <<>>) /\ u.hadArgs = tr.hadArgs \ {id}
<1> DEFINE b == Emit(tr, "end", "tool", id, <<>>)
           u == EndCall(tr, id)
<1>1. CallTold(tr, b, id, <<>>) /\ SameHad(tr, b) /\ b.opened = tr.opened
  BY EmptyText, EmitCallTold
<1>2. u = [b EXCEPT !.opened = b.opened \ {id}, !.hadArgs = b.hadArgs \ {id}]
  BY DEF EndCall
<1> HIDE DEF b, u
<1>3. b \in Translators /\ b.opened \ {id} \subseteq Nat /\ b.hadArgs \ {id} \subseteq Nat
  BY <1>1, Fields DEF CallTold
<1>4. u \in Translators
  BY <1>2, <1>3 DEF Translators
<1>5. /\ u.out = b.out /\ u.reasoning = b.reasoning /\ u.hadArgs = b.hadArgs \ {id}
      /\ u.msg = b.msg /\ u.prevText = b.prevText /\ u.prevThought = b.prevThought
  BY <1>2, <1>3 DEF Translators
<1>6. SameText(b, u) /\ SameThought(b, u)
  BY <1>5 DEF SameText, SameThought
<1>7. CallTold(tr, u, id, <<>>)
  BY <1>1, <1>4, <1>5, <1>6, CallToldOn
<1> QED
  BY <1>1, <1>5, <1>7 DEF SameHad, u

\* The final event of a call tells the arguments, unless they streamed.
LEMMA EmitFinalCallTold ==
  ASSUME NEW tr \in Translators, NEW c \in Calls
  PROVE  LET u == EmitFinalCall(tr, c)
         IN /\ CallTold(tr, u, c.id, IF c.id \in tr.hadArgs THEN <<>> ELSE Args)
            /\ u.hadArgs = tr.hadArgs \ {c.id}
<1> DEFINE id == c.id
           a == IF id \in tr.started THEN tr ELSE Emit(tr, "start", "tool", id, <<>>)
           k == IF id \in tr.hadArgs THEN a ELSE Emit(a, "content", "tool", id, Args)
           d == IF id \in tr.hadArgs THEN <<>> ELSE Args
           u == EndCall(k, id)
<1>1. id \in Nat /\ d \in Text /\ <<>> \in Text /\ Args \in Text
  BY EmptyText, ArgsAreText DEF Calls
<1>2. Idles(tr, tr)
  BY GoesSame DEF Idles, SameText, SameThought, SameHad
<1>3. CallTold(tr, a, id, <<>>) /\ SameHad(tr, a) /\ a \in Translators
  <2>1. CASE id \in tr.started
    BY <1>2, <2>1, IdlesGets
  <2>2. CASE id \notin tr.started
    BY <1>1, <2>2, EmitCallTold DEF CallTold
  <2> QED
    BY <2>1, <2>2
<1>4. u = EmitFinalCall(tr, c)
  BY DEF EmitFinalCall
<1> HIDE DEF a
<1>5. CallTold(a, k, id, d) /\ SameHad(a, k) /\ k \in Translators
  <2>1. CASE id \in tr.hadArgs
    <3>1. Idles(a, a)
      BY <1>3, GoesSame DEF Idles, SameText, SameThought, SameHad
    <3> QED
      BY <1>3, <2>1, <3>1, IdlesGets
  <2>2. CASE id \notin tr.hadArgs
    BY <1>1, <1>3, <2>2, EmitCallTold DEF CallTold
  <2> QED
    BY <2>1, <2>2
<1> HIDE DEF k
<1>6. CallTold(k, u, id, <<>>) /\ u.hadArgs = k.hadArgs \ {id}
  BY <1>1, <1>5, EndCallTold
<1> HIDE DEF u
<1>7. CallTold(tr, k, id, <<>> \o d) /\ <<>> \o d = d /\ d \o <<>> = d
  BY <1>1, <1>3, <1>5, CallToldTrans, NoRest
<1> HIDE DEF d
<1>8. CallTold(tr, u, id, d \o <<>>)
  BY <1>1, <1>6, <1>7, CallToldTrans
<1>9. CallTold(tr, u, id, d) /\ u.hadArgs = tr.hadArgs \ {id}
  BY <1>3, <1>5, <1>6, <1>7, <1>8 DEF SameHad
<1> QED
  BY <1>4, <1>9 DEF d

\* A call that the provider executes comes at once, unless it is kept to the server.
LEMMA EmitBuiltinToolCallTold ==
  ASSUME NEW tr \in Translators, NEW c \in Calls
  PROVE  LET u == EmitBuiltinToolCall(tr, c)
         IN /\ SameHad(tr, u)
            /\ ServerSide(c.tool) => Idles(tr, u)
            /\ ~ServerSide(c.tool) => CallTold(tr, u, Identified(tr, c).id, Args)
<1> DEFINE id == Identified(tr, c).id
           r == Noted(tr, c)
           a == Emit(r, "start", "tool", id, <<>>)
           k == Emit(a, "content", "tool", id, Args)
           u == Emit(k, "end", "tool", id, <<>>)
<1>1. id \in Nat /\ <<>> \in Text /\ Args \in Text /\ <<>> \o Args = Args /\ Args \o <<>> = Args
  BY EmptyText, ArgsAreText, NoRest, NumberedKeeps DEF Calls
<1>2. Idles(tr, r) /\ r \in Translators
  BY NotedIdles DEF Idles
<1>3. EmitBuiltinToolCall(tr, c) = IF ServerSide(c.tool) THEN r ELSE u
  BY DEF EmitBuiltinToolCall
<1> HIDE DEF r, id
<1>4. CallTold(r, a, id, <<>>) /\ SameHad(r, a) /\ a \in Translators
  BY <1>1, <1>2, EmitCallTold DEF CallTold
<1> HIDE DEF a
<1>5. CallTold(a, k, id, Args) /\ SameHad(a, k) /\ k \in Translators
  BY <1>1, <1>4, EmitCallTold DEF CallTold
<1> HIDE DEF k
<1>6. CallTold(k, u, id, <<>>) /\ SameHad(k, u)
  BY <1>1, <1>5, EmitCallTold
<1> HIDE DEF u
<1>7. CallTold(tr, r, id, <<>>) /\ SameHad(tr, r)
  BY <1>2, IdlesGets
<1>8. CallTold(tr, a, id, <<>>)
  <2>1. CallTold(tr, a, id, <<>> \o <<>>)
    BY <1>1, <1>4, <1>7, CallToldTrans
  <2>2. <<>> \o <<>> = <<>>
    BY <1>1, NoRest
  <2> QED
    BY <2>1, <2>2
<1>9. CallTold(tr, k, id, Args)
  BY <1>1, <1>5, <1>8, CallToldTrans
<1>10. CallTold(tr, u, id, Args)
  BY <1>1, <1>6, <1>9, CallToldTrans
<1> QED
  BY <1>2, <1>3, <1>4, <1>5, <1>6, <1>7, <1>10 DEF SameHad, id

\* A call of a tool, as far as it is the client's to see.
Unseen(c, partial) == (conf.suppress /\ (partial \/ Mapped(c))) \/ ServerSide(c.tool)

\* What is told of a call, partial or whole, under the id the client knows it by.
LEMMA EmitFunctionCallTold ==
  ASSUME NEW tr \in Translators, NEW c \in Calls, NEW partial \in BOOLEAN, Fragment(c.deltas)
  PROVE  LET u == EmitFunctionCall(tr, c, partial)
             id == Identified(tr, c).id
         IN /\ Unseen(c, partial) => Idles(tr, u)
            /\ ~Unseen(c, partial) /\ partial =>
                 /\ CallTold(tr, u, id, c.deltas)
                 /\ u.hadArgs = IF c.deltas = <<>> THEN tr.hadArgs ELSE tr.hadArgs \cup {id}
            /\ ~Unseen(c, partial) /\ ~partial /\ c.tool = Nameless =>
                 CallTold(tr, u, id, <<>>) /\ SameHad(tr, u)
            /\ ~Unseen(c, partial) /\ ~partial /\ c.tool # Nameless =>
                 /\ CallTold(tr, u, id, IF id \in tr.hadArgs THEN <<>> ELSE Args)
                 /\ u.hadArgs = tr.hadArgs \ {id}
<1> DEFINE r == Noted(tr, c)
           m == Numbered(tr, c)
           k == Identified(tr, c)
           id == k.id
           u == EmitFunctionCall(tr, c, partial)
<1>1. /\ k \in Calls /\ id \in Nat /\ k.deltas = c.deltas /\ Fragment(k.deltas)
      /\ <<>> \in Text /\ Args \in Text /\ c.deltas \in Text
  BY EmptyText, ArgsAreText, NumberedKeeps DEF Calls
<1>2. /\ Idles(tr, r) /\ r \in Translators /\ CallTold(tr, r, id, <<>>) /\ r.hadArgs = tr.hadArgs
      /\ m \in Translators /\ CallTold(tr, m, id, <<>>) /\ m.hadArgs = tr.hadArgs
  BY NotedIdles, IdlesGets DEF Idles, SameHad
<1>3. Idles(tr, tr)
  BY GoesSame DEF Idles, SameText, SameThought, SameHad
<1>4. u = IF conf.suppress /\ (partial \/ Mapped(c)) THEN tr
          ELSE IF ServerSide(c.tool) THEN r
          ELSE IF partial THEN EmitPartialCall(r, k)
          ELSE IF c.tool = Nameless THEN Emit(m, "result", "tool", k.id, <<>>)
          ELSE EmitFinalCall(r, k)
  BY DEF EmitFunctionCall
<1> HIDE DEF r, m, u, k
<1>5. CASE Unseen(c, partial)
  BY <1>2, <1>3, <1>4, <1>5 DEF Unseen, u
<1>6. CASE ~Unseen(c, partial) /\ partial
  <2>1. u = EmitPartialCall(r, k)
    BY <1>4, <1>6 DEF Unseen
  <2>2. CallTold(r, u, id, c.deltas) /\ u.hadArgs = IF c.deltas = <<>> THEN r.hadArgs ELSE r.hadArgs \cup {id}
    BY <1>1, <1>2, <2>1, EmitPartialCallTold
  <2>3. CallTold(tr, u, id, <<>> \o c.deltas) /\ <<>> \o c.deltas = c.deltas
    BY <1>1, <1>2, <2>2, CallToldTrans, NoRest
  <2> QED
    BY <1>2, <1>6, <2>2, <2>3 DEF u, k
<1>7. CASE ~Unseen(c, partial) /\ ~partial /\ c.tool = Nameless
  <2>1. u = Emit(m, "result", "tool", id, <<>>)
    BY <1>4, <1>7 DEF Unseen
  <2>2. CallTold(m, u, id, <<>>) /\ u.hadArgs = m.hadArgs
    BY <1>1, <1>2, <2>1, EmitCallTold DEF SameHad
  <2>3. CallTold(tr, u, id, <<>> \o <<>>) /\ <<>> \o <<>> = <<>>
    BY <1>1, <1>2, <2>2, CallToldTrans, NoRest
  <2>4. CallTold(tr, u, id, <<>>) /\ SameHad(tr, u)
    BY <1>2, <2>2, <2>3 DEF SameHad
  <2> QED
    BY <1>7, <2>4 DEF u, k
<1>8. CASE ~Unseen(c, partial) /\ ~partial /\ c.tool # Nameless
  <2> DEFINE d == IF id \in tr.hadArgs THEN <<>> ELSE Args
  <2>1. u = EmitFinalCall(r, k)
    BY <1>4, <1>8 DEF Unseen
  <2>2. CallTold(r, u, id, d) /\ u.hadArgs = r.hadArgs \ {id}
    BY <1>1, <1>2, <2>1, EmitFinalCallTold
  <2>3. d \in Text
    BY <1>1
  <2> HIDE DEF d
  <2>4. CallTold(tr, u, id, <<>> \o d) /\ <<>> \o d = d
    BY <1>1, <1>2, <2>2, <2>3, CallToldTrans, NoRest
  <2> QED
    BY <1>2, <1>8, <2>2, <2>4 DEF u, d, k
<1> QED
  BY <1>5, <1>6, <1>7, <1>8

\* A result is no argument.
LEMMA EmitResponseIdles ==
  ASSUME NEW tr \in Translators, NEW c \in Calls
  PROVE  Idles(tr, EmitResponse(tr, c))
<1> DEFINE id == Correlate(tr, c)
           e == [Event("result", "tool", id, tr.run, <<>>) EXCEPT !.of = c.id]
           u == EmitResponse(tr, c)
<1>1. u \in Translators
  BY EmitResponseKeeps
<1>2. CASE id = None
  <2>1. u = tr
    BY <1>2 DEF EmitResponse
  <2> QED
    BY <2>1, GoesSame DEF Idles, SameText, SameThought, SameHad
<1>3. CASE id # None
  <2>1. id \in Nat
    BY Fields DEF Correlate, Calls, None
  <2>2. e \in Events /\ e.op = "result"
    <3>1. e = [op |-> "result", kind |-> "tool", id |-> id, of |-> c.id, run |-> tr.run, data |-> <<>>]
      BY DEF Event
    <3>2. c.id \in Nat /\ tr.run \in Nat /\ <<>> \in Seq(STRING)
      BY Fields DEF Calls
    <3> HIDE DEF id
    <3> QED
      BY <2>1, <3>1, <3>2, Kinds DEF Events, Protocol!Event
  <2>3. u = [tr EXCEPT !.out = tr.out \o <<e>>]
    BY <1>3 DEF EmitResponse, EmitAll, Translators
  <2> HIDE DEF e, u, id
  <2>4. /\ u.out = tr.out \o <<e>> /\ u.reasoning = tr.reasoning /\ u.hadArgs = tr.hadArgs
        /\ u.msg = tr.msg /\ u.prevText = tr.prevText /\ u.prevThought = tr.prevThought
    BY <2>3 DEF Translators
  <2>5. \A v \in Heards : Goes(tr, v, u, v)
    BY <2>2, <2>4, GoesOn
  <2> QED
    BY <1>1, <2>4, <2>5 DEF Idles, SameText, SameThought, SameHad, u
<1> QED
  BY <1>2, <1>3

-----------------------------------------------------------------------------
(* An event of up to three parts.                                          *)

Ready(tr, ev) == ManageSteps(SubagentLifecycle(tr, ev.author), ev)
Then(tr, x, partial) == IF x = <<>> THEN tr ELSE TranslatePart(tr, x[1], partial)

\* Before the parts nothing is said.
LEMMA ReadyIdles ==
  ASSUME NEW tr \in Translators, NEW ev, ev.author \in Agents
  PROVE  Idles(tr, Ready(tr, ev)) /\ Ready(tr, ev) \in Translators
<1> DEFINE m == SubagentLifecycle(tr, ev.author)
<1>1. Idles(tr, m) /\ m \in Translators
  BY SubagentLifecycleIdles DEF Idles
<1> HIDE DEF m
<1>2. Idles(m, ManageSteps(m, ev)) /\ ManageSteps(m, ev) \in Translators
  BY <1>1, ManageStepsIdles DEF Idles
<1>3. Ready(tr, ev) = ManageSteps(m, ev)
  BY DEF Ready, m
<1> QED
  BY <1>1, <1>2, <1>3, IdlesTrans

\* One sequence after the other.
LEMMA JoinedSeq ==
  ASSUME NEW S, NEW x \in Seq(S), NEW y \in Seq(S)
  PROVE  /\ x \o y \in Seq(S) /\ Len(x \o y) = Len(x) + Len(y) /\ Len(x) \in Nat /\ Len(y) \in Nat
         /\ \A i \in 1..(Len(x) + Len(y)) : (x \o y)[i] = IF i <= Len(x) THEN x[i] ELSE y[i - Len(x)]
BY ConcatProperties, LenProperties

\* Where the parts of an event are.
LEMMA PlacesOfParts ==
  ASSUME NEW S, NEW x \in Seq(S), NEW y \in Seq(S), NEW z \in Seq(S),
         Len(x) \in {0, 1}, Len(y) \in {0, 1}, Len(z) \in {0, 1}
  PROVE  LET w == (x \o y) \o z
         IN /\ w \in Seq(S) /\ Len(w) = Len(x) + Len(y) + Len(z)
            /\ Len(x) = 1 => w[1] = x[1]
            /\ Len(y) = 1 => w[Len(x) + 1] = y[1]
            /\ Len(z) = 1 => w[Len(x) + Len(y) + 1] = z[1]
<1> DEFINE q == x \o y
           w == q \o z
           i == Len(x)
           j == Len(y)
           k == Len(z)
<1>1. i \in {0, 1} /\ j \in {0, 1} /\ k \in {0, 1}
  OBVIOUS
<1>2. q \in Seq(S) /\ Len(q) = i + j /\ \A n \in 1..(i + j) : q[n] = IF n <= i THEN x[n] ELSE y[n - i]
  BY JoinedSeq
<1> HIDE DEF q
<1>3. /\ w \in Seq(S) /\ Len(w) = Len(q) + k
      /\ \A n \in 1..(Len(q) + k) : w[n] = IF n <= Len(q) THEN q[n] ELSE z[n - Len(q)]
  BY <1>2, JoinedSeq
<1> HIDE DEF w, i, j, k
<1>4. i = 1 => w[1] = x[1]
  <2> SUFFICES ASSUME i = 1 PROVE w[1] = x[1]
    OBVIOUS
  <2>1. 1 \in 1..(i + j) /\ 1 \in 1..(Len(q) + k) /\ 1 <= i /\ 1 <= Len(q)
    BY <1>1, <1>2
  <2> QED
    BY <1>2, <1>3, <2>1
<1>5. j = 1 => w[i + 1] = y[1]
  <2> SUFFICES ASSUME j = 1 PROVE w[i + 1] = y[1]
    OBVIOUS
  <2>1. i + 1 \in 1..(i + j) /\ i + 1 \in 1..(Len(q) + k) /\ ~(i + 1 <= i) /\ i + 1 <= Len(q) /\ (i + 1) - i = 1
    BY <1>1, <1>2
  <2> QED
    BY <1>2, <1>3, <2>1
<1>6. k = 1 => w[i + j + 1] = z[1]
  <2> SUFFICES ASSUME k = 1 PROVE w[i + j + 1] = z[1]
    OBVIOUS
  <2>1. i + j + 1 \in 1..(Len(q) + k) /\ ~(i + j + 1 <= Len(q)) /\ (i + j + 1) - Len(q) = 1
    BY <1>1, <1>2
  <2> QED
    BY <1>3, <2>1
<1> QED
  BY <1>2, <1>3, <1>4, <1>5, <1>6 DEF w, q, i, j, k

\* The parts one after the other.
LEMMA TranslateParts ==
  ASSUME NEW tr, NEW ev, ~ev.failed, NEW S,
         NEW x \in Seq(S), NEW y \in Seq(S), NEW z \in Seq(S),
         Len(x) \in {0, 1}, Len(y) \in {0, 1}, Len(z) \in {0, 1}, ev.parts = (x \o y) \o z
  PROVE  Translate(tr, ev) = Then(Then(Then(Ready(tr, ev), x, ev.partial), y, ev.partial), z, ev.partial)
<1> DEFINE r == Ready(tr, ev)
           i == Len(x)
           j == Len(x) + Len(y)
           n == Len(x) + Len(y) + Len(z)
           w == (x \o y) \o z
<1>1. i \in Nat /\ j \in Nat /\ n \in Nat /\ Len(z) \in Nat
  OBVIOUS
<1>2. /\ w \in Seq(S) /\ Len(w) = n
      /\ Len(x) = 1 => w[1] = x[1]
      /\ Len(y) = 1 => w[i + 1] = y[1]
      /\ Len(z) = 1 => w[j + 1] = z[1]
  BY PlacesOfParts
<1>3. ev.parts = w
  OBVIOUS
<1> HIDE DEF w
<1>4. PICK g : IsFold(g, n, r, w, ev.partial) /\ Translate(tr, ev) = g[n]
  <2>1. \E g : /\ IsFold(g, Len(ev.parts), Ready(tr, ev), ev.parts, ev.partial)
               /\ Translate(tr, ev) = g[Len(ev.parts)]
    <3>1. Len(ev.parts) \in Nat
      BY <1>1, <1>2, <1>3
    <3> QED
      BY <3>1, TranslateIsFold DEF Ready
  <2>2. Len(ev.parts) = n
    BY <1>2, <1>3
  <2> HIDE DEF r, n
  <2> QED
    BY <1>3, <2>1, <2>2 DEF r
<1> HIDE DEF r
<1>5. g[0] = r /\ \A k \in 1..n : g[k] = TranslatePart(g[k - 1], w[k], ev.partial)
  <2>1. 0 \in 0..n /\ \A k \in 1..n : k \in 0..n /\ k # 0
    BY <1>1
  <2> HIDE DEF n
  <2> QED
    BY <1>4, <2>1 DEF IsFold
<1>6. /\ Len(x) = 0 => x = <<>>
      /\ Len(y) = 0 => y = <<>>
      /\ Len(z) = 0 => z = <<>>
      /\ Len(<<>>) = 0
  BY EmptySeq
<1>7. g[i] = Then(r, x, ev.partial)
  <2>1. CASE i = 0
    BY <1>5, <1>6, <2>1 DEF Then
  <2>2. CASE i = 1
    <3>1. 1 \in 1..n /\ w[1] = x[1] /\ x # <<>> /\ 1 - 1 = 0
      BY <1>1, <1>2, <1>6, <2>2
    <3> QED
      BY <1>5, <2>2, <3>1 DEF Then
  <2> QED
    BY <2>1, <2>2
<1>8. g[j] = Then(g[i], y, ev.partial)
  <2>1. CASE Len(y) = 0
    <3>1. j = i
      BY <1>1, <2>1
    <3> QED
      BY <1>6, <2>1, <3>1 DEF Then
  <2>2. CASE Len(y) = 1
    <3>1. j = i + 1 /\ j \in 1..n /\ j - 1 = i
      BY <1>1, <2>2
    <3>2. w[j] = y[1] /\ y # <<>>
      BY <1>1, <1>2, <1>6, <2>2, <3>1
    <3> QED
      BY <1>5, <3>1, <3>2 DEF Then
  <2> QED
    BY <2>1, <2>2
<1>9. g[n] = Then(g[j], z, ev.partial)
  <2>1. CASE Len(z) = 0
    <3>1. n = j
      BY <1>1, <2>1
    <3> QED
      BY <1>6, <2>1, <3>1 DEF Then
  <2>2. CASE Len(z) = 1
    <3>1. n = j + 1 /\ n \in 1..n /\ n - 1 = j
      BY <1>1, <2>2
    <3>2. z # <<>> /\ w[n] = z[1]
      BY <1>2, <1>6, <2>2, <3>1
    <3> QED
      BY <1>5, <3>1, <3>2 DEF Then
  <2> QED
    BY <2>1, <2>2
<1> QED
  BY <1>4, <1>7, <1>8, <1>9 DEF r

\* Events of one part or none.
LEMMA TranslateOnePart ==
  ASSUME NEW tr, NEW ev, ~ev.failed, NEW S, NEW x \in Seq(S), Len(x) \in {0, 1}, ev.parts = x
  PROVE  Translate(tr, ev) = Then(Ready(tr, ev), x, ev.partial)
<1> DEFINE e == <<>>
<1>1. e \in Seq(S) /\ Len(e) = 0
  BY EmptySeq
<1>2. x \o e = x
  BY ConcatEmptySeq
<1> HIDE DEF e
<1>3. ev.parts = (x \o e) \o e
  BY <1>2
<1>4. Translate(tr, ev) = Then(Then(Then(Ready(tr, ev), x, ev.partial), e, ev.partial), e, ev.partial)
  BY <1>1, <1>3, TranslateParts
<1> QED
  BY <1>4 DEF Then, e

-----------------------------------------------------------------------------
(* How much of a text has been said.                                       *)

Chunk(style, text, i) == IF style = "accumulated" THEN SubSeq(text, 1, i) ELSE <<text[i]>>
SoFar(text, said, p) == \E m \in 0..Len(text) : said = SubSeq(text, 1, m) /\ (m = p \/ Len(text) <= p)

\* The beginning of a text and its rest.
LEMMA Beginning ==
  ASSUME NEW x \in Text, NEW m \in 0..Len(x)
  PROVE  LET b == SubSeq(x, 1, m)
             r == SubSeq(x, m + 1, Len(x))
         IN /\ b \in Text /\ Len(b) = m /\ \A i \in 1..m : b[i] = x[i]
            /\ r \in Text /\ Len(r) = Len(x) - m /\ \A i \in 1..(Len(x) - m) : r[i] = x[m + i]
            /\ Len(x) \in Nat
<1>1. Len(x) \in Nat /\ \A i \in 1..Len(x) : x[i] \in STRING
  BY LenProperties, ElementOfSeq DEF Text
<1>2. \A i \in 1..m : x[i] \in STRING
  BY <1>1
<1>3. \A i \in (m + 1)..Len(x) : x[i] \in STRING
  BY <1>1
<1> DEFINE b == SubSeq(x, 1, m)
           r == SubSeq(x, m + 1, Len(x))
<1>4. b \in Text /\ Len(b) = (IF 1 <= m THEN m - 1 + 1 ELSE 0) /\ \A i \in 1..(m - 1 + 1) : b[i] = x[1 + i - 1]
  BY <1>1, <1>2, SubSeqProperties DEF Text
<1>5. /\ r \in Text /\ Len(r) = (IF m + 1 <= Len(x) THEN Len(x) - (m + 1) + 1 ELSE 0)
      /\ \A i \in 1..(Len(x) - (m + 1) + 1) : r[i] = x[m + 1 + i - 1]
  BY <1>1, <1>3, SubSeqProperties DEF Text
<1> HIDE DEF b, r
<1>6. Len(b) = m /\ \A i \in 1..m : b[i] = x[i]
  BY <1>1, <1>4
<1>7. Len(r) = Len(x) - m /\ \A i \in 1..(Len(x) - m) : r[i] = x[m + i]
  BY <1>1, <1>5
<1> QED
  BY <1>1, <1>4, <1>5, <1>6, <1>7 DEF b, r

\* Nothing and all of it.
LEMMA Extremes ==
  ASSUME NEW x \in Text
  PROVE  SubSeq(x, 1, 0) = <<>> /\ SubSeq(x, 1, Len(x)) = x /\ Len(x) \in Nat /\ (Len(x) = 0 => x = <<>>) /\ Len(<<>>) = 0
<1>1. Len(x) \in Nat
  BY LenProperties DEF Text
<1> DEFINE b == SubSeq(x, 1, Len(x))
<1>2. Len(x) \in 0..Len(x)
  BY <1>1
<1>3. b \in Text /\ Len(b) = Len(x) /\ \A i \in 1..Len(x) : b[i] = x[i]
  BY <1>2, Beginning
<1> HIDE DEF b
<1>4. b = x
  BY <1>3, SameLetters
<1>5. SubSeq(x, 1, 0) = <<>>
  BY SubSeqEmpty
<1>6. (Len(x) = 0 => x = <<>>) /\ Len(<<>>) = 0
  BY EmptySeq DEF Text
<1> QED
  BY <1>1, <1>4, <1>5, <1>6 DEF b

\* What comes next is the text up to some letter: only its rest is said.
LEMMA Resumed ==
  ASSUME NEW x \in Text, NEW n \in 0..Len(x), NEW m \in 0..n
  PROVE  SubSeq(x, 1, m) \o Delta(SubSeq(x, 1, m), SubSeq(x, 1, n)) = SubSeq(x, 1, n)
<1> DEFINE b == SubSeq(x, 1, m)
           y == SubSeq(x, 1, n)
           r == SubSeq(y, m + 1, Len(y))
           c == SubSeq(y, 1, m)
           w == b \o r
<1>1. Len(x) \in Nat /\ m \in 0..Len(x)
  BY LenProperties DEF Text
<1>2. /\ b \in Text /\ Len(b) = m /\ \A i \in 1..m : b[i] = x[i]
      /\ y \in Text /\ Len(y) = n /\ \A i \in 1..n : y[i] = x[i]
  BY <1>1, Beginning
<1> HIDE DEF y
<1>3. m \in 0..Len(y)
  BY <1>2
<1>4. /\ c \in Text /\ Len(c) = m /\ \A i \in 1..m : c[i] = y[i]
      /\ r \in Text /\ Len(r) = n - m /\ \A i \in 1..(n - m) : r[i] = y[m + i]
  <2>1. /\ c \in Text /\ Len(c) = m /\ \A i \in 1..m : c[i] = y[i]
        /\ r \in Text /\ Len(r) = Len(y) - m /\ \A i \in 1..(Len(y) - m) : r[i] = y[m + i]
    BY <1>2, <1>3, Beginning
  <2> QED
    BY <1>2, <2>1
<1> DEFINE d == SubSeq(b, 1, Len(b))
<1>5. d = b
  BY <1>2, Extremes
<1>6. c = b
  <2> HIDE DEF c, b
  <2>1. \A i \in 1..Len(c) : c[i] = b[i]
    <3>1. \A i \in 1..m : i \in 1..n
      OBVIOUS
    <3> QED
      BY <1>2, <1>4, <3>1
  <2> QED
    BY <1>2, <1>4, <2>1, SameLetters
<1>7. IsPrefix(b, y)
  <2> HIDE DEF b
  <2>1. Len(b) <= Len(y) /\ SubSeq(b, 1, Len(b)) = SubSeq(y, 1, Len(b))
    BY <1>2, <1>5, <1>6
  <2> QED
    BY <2>1 DEF IsPrefix
<1>8. Delta(b, y) = r
  BY <1>2, <1>7 DEF Delta
<1> HIDE DEF b, r, c, d
<1>9. /\ w \in Text /\ Len(w) = m + (n - m)
      /\ \A i \in 1..(m + (n - m)) : w[i] = IF i <= m THEN b[i] ELSE r[i - m]
  <2>1. /\ w \in Text /\ Len(w) = Len(b) + Len(r)
        /\ \A i \in 1..(Len(b) + Len(r)) : w[i] = IF i <= Len(b) THEN b[i] ELSE r[i - Len(b)]
    BY <1>2, <1>4, Joined
  <2> QED
    BY <1>2, <1>4, <2>1
<1> HIDE DEF w
<1>10. Len(w) = Len(y) /\ \A i \in 1..Len(w) : w[i] = y[i]
  <2>1. Len(w) = Len(y) /\ Len(w) = n
    BY <1>2, <1>9
  <2>2. ASSUME NEW i \in 1..n PROVE w[i] = y[i]
    <3>0. i \in 1..(m + (n - m)) /\ i \in Nat
      OBVIOUS
    <3>1. CASE i <= m
      <4>1. i \in 1..m
        BY <3>0, <3>1
      <4> QED
        BY <1>2, <1>9, <3>0, <3>1, <4>1
    <3>2. CASE ~(i <= m)
      <4>1. i - m \in 1..(n - m) /\ m + (i - m) = i
        BY <3>0, <3>2
      <4> QED
        BY <1>4, <1>9, <3>0, <3>2, <4>1
    <3> QED
      BY <3>1, <3>2
  <2> QED
    BY <2>1, <2>2
<1>11. w = y
  BY <1>2, <1>9, <1>10, SameLetters
<1> QED
  BY <1>8, <1>11 DEF w, b, y

\* One letter more.
LEMMA OneMore ==
  ASSUME NEW x \in Text, NEW m \in 0..Len(x), m < Len(x)
  PROVE  SubSeq(x, 1, m) \o <<x[m + 1]>> = SubSeq(x, 1, m + 1) /\ <<x[m + 1]>> \in Text
<1> DEFINE b == SubSeq(x, 1, m)
           y == SubSeq(x, 1, m + 1)
           e == <<x[m + 1]>>
           w == b \o e
<1>1. Len(x) \in Nat /\ m + 1 \in 0..Len(x) /\ m + 1 \in 1..Len(x)
  BY LenProperties DEF Text
<1>2. e \in Text /\ Len(e) = 1 /\ e[1] = x[m + 1]
  <2>1. x[m + 1] \in STRING
    BY <1>1, ElementOfSeq DEF Text
  <2> QED
    BY <2>1 DEF Text
<1>3. /\ b \in Text /\ Len(b) = m /\ \A i \in 1..m : b[i] = x[i]
      /\ y \in Text /\ Len(y) = m + 1 /\ \A i \in 1..(m + 1) : y[i] = x[i]
  BY <1>1, Beginning
<1> HIDE DEF b, y, e
<1>4. /\ w \in Text /\ Len(w) = Len(b) + Len(e)
      /\ \A i \in 1..(Len(b) + Len(e)) : w[i] = IF i <= Len(b) THEN b[i] ELSE e[i - Len(b)]
  BY <1>2, <1>3, Joined
<1> HIDE DEF w
<1>5. Len(w) = m + 1
  BY <1>2, <1>3, <1>4
<1>6. ASSUME NEW i \in 1..(m + 1) PROVE w[i] = y[i]
  <2>0. i \in 1..(Len(b) + Len(e))
    BY <1>2, <1>3
  <2>1. CASE i <= m
    <3>1. i \in 1..m
      BY <2>1
    <3> QED
      BY <1>3, <1>4, <2>0, <2>1, <3>1
  <2>2. CASE ~(i <= m)
    <3>1. i = m + 1 /\ i - m = 1
      BY <2>2
    <3> QED
      BY <1>2, <1>3, <1>4, <2>0, <2>2, <3>1
  <2> QED
    BY <2>1, <2>2
<1>7. w = y
  BY <1>3, <1>4, <1>5, <1>6, SameLetters
<1> QED
  BY <1>2, <1>7 DEF w, y, e, b

\* A chunk is not empty.
LEMMA ChunkIsText ==
  ASSUME NEW style, NEW x \in Text, NEW i \in 1..Len(x)
  PROVE  Chunk(style, x, i) \in Text /\ Chunk(style, x, i) # <<>>
<1>1. Len(x) \in Nat /\ i \in 0..Len(x) /\ x[i] \in STRING
  BY LenProperties, ElementOfSeq DEF Text
<1> DEFINE b == SubSeq(x, 1, i)
           e == <<x[i]>>
<1>2. b \in Text /\ Len(b) = i
  BY <1>1, Beginning
<1>3. e \in Text /\ e # <<>>
  BY <1>1 DEF Text
<1> HIDE DEF b, e
<1>4. b # <<>>
  BY <1>1, <1>2, Extremes
<1>5. Chunk(style, x, i) = IF style = "accumulated" THEN b ELSE e
  BY DEF Chunk, b, e
<1> QED
  BY <1>2, <1>3, <1>4, <1>5

\* What has been said is a text, and the rest completes it.
LEMMA AllSaid ==
  ASSUME NEW x \in Text, NEW said, NEW p, SoFar(x, said, p)
  PROVE  said \in Text /\ said \o Delta(said, x) = x
<1>1. PICK m \in 0..Len(x) : said = SubSeq(x, 1, m)
  BY DEF SoFar
<1>2. said \in Text
  BY <1>1, Beginning
<1>3. SubSeq(x, 1, Len(x)) = x /\ Len(x) \in Nat /\ Len(x) \in 0..Len(x)
  <2>1. SubSeq(x, 1, Len(x)) = x /\ Len(x) \in Nat
    BY Extremes
  <2> QED
    BY <2>1
<1> DEFINE n == Len(x)
<1>4. n \in 0..Len(x) /\ m \in 0..n
  BY <1>3
<1> HIDE DEF n
<1>5. SubSeq(x, 1, m) \o Delta(SubSeq(x, 1, m), SubSeq(x, 1, n)) = SubSeq(x, 1, n)
  BY <1>4, Resumed
<1>6. SubSeq(x, 1, n) = x
  BY <1>3 DEF n
<1> QED
  BY <1>1, <1>2, <1>5, <1>6

\* Nothing has been said of an empty text, or before the first chunk.
LEMMA NothingSaid ==
  ASSUME NEW x \in Text, NEW said, NEW p \in Nat
  PROVE  /\ SoFar(<<>>, said, p) => said = <<>>
         /\ SoFar(<<>>, <<>>, p)
         /\ SoFar(x, <<>>, 0)
         /\ SoFar(x, said, 0) => said = <<>>
<1>1. Len(x) \in Nat /\ SubSeq(x, 1, 0) = <<>> /\ (Len(x) = 0 => x = <<>>) /\ Len(<<>>) = 0
  BY Extremes
<1>2. SubSeq(<<>>, 1, 0) = <<>>
  BY EmptyText, Extremes
<1>3. \A m \in 0..0 : m = 0
  OBVIOUS
<1>4. SoFar(<<>>, said, p) => said = <<>>
  BY <1>1, <1>2, <1>3 DEF SoFar
<1>5. SoFar(<<>>, <<>>, p)
  <2>1. 0 \in 0..Len(<<>>) /\ Len(<<>>) <= p
    BY <1>1
  <2> QED
    BY <1>2, <2>1 DEF SoFar
<1>6. SoFar(x, <<>>, 0)
  <2>1. 0 \in 0..Len(x)
    BY <1>1
  <2> QED
    BY <1>1, <2>1 DEF SoFar
<1>7. SoFar(x, said, 0) => said = <<>>
  <2> SUFFICES ASSUME SoFar(x, said, 0) PROVE said = <<>>
    OBVIOUS
  <2>1. PICK m \in 0..Len(x) : said = SubSeq(x, 1, m) /\ (m = 0 \/ Len(x) <= 0)
    BY DEF SoFar
  <2>2. m = 0
    BY <1>1, <2>1
  <2> QED
    BY <1>1, <2>1, <2>2
<1> QED
  BY <1>4, <1>5, <1>6, <1>7

\* After its last chunk a text stays as it is.
LEMMA SaidOn ==
  ASSUME NEW x \in Text, NEW said, NEW p \in Nat, SoFar(x, said, p), Len(x) <= p
  PROVE  SoFar(x, said, p + 1)
<1>1. Len(x) \in Nat
  BY Extremes
<1>2. Len(x) <= p + 1
  BY <1>1
<1> QED
  BY <1>2 DEF SoFar

\* A second letter that is not the first is not taken for a longer text.
LEMMA SecondLetter ==
  ASSUME NEW b, NEW e
  PROVE  /\ IsPrefix(<<b>>, <<e>>) <=> b = e
         /\ b = e => Delta(<<b>>, <<e>>) = <<>>
         /\ b # e => Delta(<<b>>, <<e>>) = <<e>>
<1> DEFINE x == <<b>>
           y == <<e>>
<1>1. /\ x \in Seq({b, e}) /\ Len(x) = 1 /\ x[1] = b
      /\ y \in Seq({b, e}) /\ Len(y) = 1 /\ y[1] = e
  OBVIOUS
<1>2. SubSeq(x, 1, 1) = x /\ SubSeq(y, 1, 1) = y
  BY <1>1, SubSeqFull
<1>3. x = y <=> b = e
  BY <1>1
<1>4. SubSeq(y, 2, 1) = <<>>
  BY SubSeqEmpty
<1> HIDE DEF x, y
<1>5. IsPrefix(x, y) <=> b = e
  BY <1>1, <1>2, <1>3 DEF IsPrefix
<1>6. Len(x) + 1 = 2
  BY <1>1
<1>7. Delta(x, y) = IF b = e THEN SubSeq(y, 2, 1) ELSE y
  BY <1>1, <1>5, <1>6 DEF Delta
<1> QED
  BY <1>4, <1>5, <1>7 DEF x, y

\* A chunk adds its letter, except that the second letter is lost if it is the first again.
LEMMA ChunkSaid ==
  ASSUME NEW style \in {"raw", "accumulated"}, NEW x \in Text, NEW p \in Nat, p + 1 <= Len(x),
         NEW said, SoFar(x, said, p), style = "raw" => ~Stutters(x)
  PROVE  SoFar(x, said \o Delta(said, Chunk(style, x, p + 1)), p + 1)
<1>1. Len(x) \in Nat /\ p \in 0..Len(x) /\ p + 1 \in 0..Len(x) /\ p \in 0..(p + 1) /\ p < Len(x) /\ ~(Len(x) <= p)
  BY Extremes
<1>2. said = SubSeq(x, 1, p)
  BY <1>1 DEF SoFar
<1>3. ASSUME said \o Delta(said, Chunk(style, x, p + 1)) = SubSeq(x, 1, p + 1)
      PROVE  SoFar(x, said \o Delta(said, Chunk(style, x, p + 1)), p + 1)
  BY <1>1, <1>3 DEF SoFar
<1>4. CASE style = "accumulated"
  <2>1. Chunk(style, x, p + 1) = SubSeq(x, 1, p + 1)
    BY <1>4 DEF Chunk
  <2>2. SubSeq(x, 1, p) \o Delta(SubSeq(x, 1, p), SubSeq(x, 1, p + 1)) = SubSeq(x, 1, p + 1)
    BY <1>1, Resumed
  <2> QED
    BY <1>2, <1>3, <2>1, <2>2
<1>5. CASE style = "raw"
  <2> DEFINE e == <<x[p + 1]>>
  <2>1. Chunk(style, x, p + 1) = e
    BY <1>5 DEF Chunk
  <2>2. SubSeq(x, 1, p) \o e = SubSeq(x, 1, p + 1) /\ e \in Text /\ Len(e) = 1
    BY <1>1, OneMore
  <2>3. CASE p = 0
    <3>1. said = <<>>
      BY <1>2, <2>3, Extremes
    <3>2. SoFar(e, <<>>, 0)
      BY <2>2, NothingSaid
    <3>3. <<>> \o Delta(<<>>, e) = e
      BY <2>2, <3>2, AllSaid
    <3>4. <<>> \o e = e
      BY <2>2, NoRest
    <3> HIDE DEF e
    <3> QED
      BY <1>2, <1>3, <2>1, <2>2, <3>1, <3>3, <3>4
  <2>4. CASE p = 1
    <3>1. said = <<x[1]>>
      <4>1. SubSeq(x, 1, 0) \o <<x[0 + 1]>> = SubSeq(x, 1, 0 + 1) /\ <<x[0 + 1]>> \in Text
        <5>1. 0 \in 0..Len(x) /\ 0 < Len(x)
          BY <1>1
        <5> QED
          BY <5>1, OneMore
      <4>2. SubSeq(x, 1, 0) = <<>> /\ 0 + 1 = 1
        BY Extremes
      <4> QED
        BY <1>2, <2>4, <4>1, <4>2, NoRest
    <3>2. e = <<x[2]>> /\ p + 1 = 2
      BY <2>4
    <3>3. CASE x[1] = x[2]
      <4>1. Len(x) <= 2
        <5>1. ~Stutters(x)
          BY <1>5
        <5>2. ~(Len(x) > 2)
          BY <3>3, <5>1 DEF Stutters
        <5> QED
          BY <1>1, <5>2
      <4>2. Delta(said, e) = <<>>
        BY <3>1, <3>2, <3>3, SecondLetter
      <4>3. said \in Text /\ said \o <<>> = said
        BY <1>1, <1>2, Beginning, NoRest
      <4>4. said \o Delta(said, Chunk(style, x, p + 1)) = SubSeq(x, 1, p)
        BY <1>2, <2>1, <4>2, <4>3
      <4>5. Len(x) <= p + 1
        BY <2>4, <4>1
      <4> QED
        BY <1>1, <4>4, <4>5 DEF SoFar
    <3>4. CASE x[1] # x[2]
      <4>1. Delta(said, e) = e
        BY <3>1, <3>2, <3>4, SecondLetter
      <4> HIDE DEF e
      <4> QED
        BY <1>2, <1>3, <2>1, <2>2, <4>1
    <3> QED
      BY <3>3, <3>4
  <2>5. CASE p > 1
    <3>1. said \in Text /\ Len(said) = p
      BY <1>1, <1>2, Beginning
    <3>2. ~IsPrefix(said, e)
      BY <2>2, <2>5, <3>1 DEF IsPrefix
    <3>3. Delta(said, e) = e
      BY <3>2 DEF Delta
    <3> HIDE DEF e
    <3> QED
      BY <1>2, <1>3, <2>1, <2>2, <3>3
  <2> QED
    BY <2>3, <2>4, <2>5
<1> QED
  BY <1>4, <1>5

-----------------------------------------------------------------------------
(* What has been streamed of an answer after p events.                     *)

Thoughts(style, plan) == IF style \in {"chat", "whole"} THEN 0 ELSE Len(plan.thought)
Spoken(style, plan) == Thoughts(style, plan) + (IF style = "whole" THEN 0 ELSE Len(plan.text))
Pieces(style, plan) ==
  IF style \in {"chat", "whole"} \/ plan.how = "final" THEN 0 ELSE IF plan.how = "deltas" THEN Len(Args) ELSE 1
Partials(style, plan) == Spoken(style, plan) + Pieces(style, plan)

\* The arguments that have been streamed, and what the client has of the call: before the final
\* event these, or nothing if it is not to see the call under its own id; then all of them, if it does.
Fragments(style, plan, p) == IF plan.how = "deltas" /\ p > Spoken(style, plan) THEN p - Spoken(style, plan) ELSE 0
Seen(plan) == plan.tool # "none" /\ ~plan.anon /\ ~conf.suppress /\ ~ServerSide(plan.tool)
CallDone(v, plan, id) == id \in v.calls /\ plan.tool # Nameless => v.args[id] = Args
CallUnderWay(tr, v, plan, id, p) ==
  LET k == Fragments(conf.style, plan, p)
  IN /\ Seen(plan) => v.args[id] = SubSeq(Args, 1, k) /\ (id \in tr.hadArgs <=> k > 0)
     /\ ~Seen(plan) => id \notin v.calls /\ v.args[id] = <<>> /\ id \notin tr.hadArgs
CallSo(tr, v, plan, id, p) ==
  /\ p > Partials(conf.style, plan) => CallDone(v, plan, id)
  /\ p <= Partials(conf.style, plan) => CallUnderWay(tr, v, plan, id, p)

\* What the client has of the text: no message is open before the first chunk and after the final event,
\* and what an open message has said is what the client has.
Silence(tr) == tr.msg = None /\ tr.reasoning = None
Wordless(plan) == plan.thought = <<>> /\ plan.text = <<>>
WordsUnderWay(tr, v, plan, p) ==
  /\ v.text = Before(tr) /\ SoFar(plan.text, v.text, p)
  /\ v.thought = BeforeThought(tr) /\ SoFar(plan.thought, v.thought, p)
WordsDone(v, plan) == v.text = plan.text /\ v.thought = plan.thought
WordsSo(tr, v, plan, p) ==
  /\ p > Partials(conf.style, plan) => Silence(tr) /\ (TextIsFine(plan) => WordsDone(v, plan))
  /\ p <= Partials(conf.style, plan) =>
       (Wordless(plan) => Silence(tr)) /\ (TextIsFine(plan) => WordsUnderWay(tr, v, plan, p))

\* The values of a plan.
LEMMA PlanFacts ==
  ASSUME NEW plan \in Plans
  PROVE  /\ plan.thought \in Text /\ plan.text \in Text /\ plan.how \in {"deltas", "bare", "final"}
         /\ plan.tool \in Tools \cup {Nameless, "none"} /\ plan.long \in BOOLEAN
         /\ Len(plan.thought) \in Nat /\ Len(plan.text) \in Nat /\ Len(Args) \in Nat \ {0}
         /\ Len(plan.thought) = 0 => plan.thought = <<>>
         /\ Len(plan.text) = 0 => plan.text = <<>>
<1>1. /\ plan.thought \in Text /\ plan.text \in Text /\ plan.how \in {"deltas", "bare", "final"}
      /\ plan.tool \in Tools \cup {Nameless, "none"} /\ plan.long \in BOOLEAN
  BY EventTranslatorAssumption DEF PlanType, Text
<1>2. Len(Args) \in Nat \ {0}
  BY ArgsAreText, EmptySeq DEF Text
<1>3. /\ Len(plan.thought) \in Nat /\ Len(plan.text) \in Nat
      /\ Len(plan.thought) = 0 => plan.thought = <<>>
      /\ Len(plan.text) = 0 => plan.text = <<>>
  BY <1>1, Extremes
<1> QED
  BY <1>1, <1>2, <1>3

\* How many events there are of each kind.
LEMMA Lengths ==
  ASSUME NEW style, NEW plan \in Plans
  PROVE  /\ Thoughts(style, plan) \in Nat /\ Spoken(style, plan) \in Nat /\ Pieces(style, plan) \in Nat
         /\ Partials(style, plan) \in Nat /\ Partials(style, plan) = Spoken(style, plan) + Pieces(style, plan)
         /\ Thoughts(style, plan) <= Spoken(style, plan) /\ Spoken(style, plan) <= Partials(style, plan)
         /\ style = "whole" => Partials(style, plan) = 0
         /\ style # "chat" => style = "whole" \/ Spoken(style, plan) = Len(plan.thought) + Len(plan.text)
<1>1. Len(plan.thought) \in Nat /\ Len(plan.text) \in Nat /\ Len(Args) \in Nat
  BY PlanFacts
<1>2. Thoughts(style, plan) \in Nat
  BY <1>1 DEF Thoughts
<1>3. Spoken(style, plan) \in Nat /\ Thoughts(style, plan) <= Spoken(style, plan)
  BY <1>1, <1>2 DEF Spoken
<1>4. Pieces(style, plan) \in Nat
  BY <1>1 DEF Pieces
<1>5. /\ Partials(style, plan) \in Nat /\ Partials(style, plan) = Spoken(style, plan) + Pieces(style, plan)
      /\ Spoken(style, plan) <= Partials(style, plan)
  BY <1>3, <1>4 DEF Partials
<1>6. style = "whole" => Partials(style, plan) = 0
  BY DEF Partials, Spoken, Pieces, Thoughts
<1>7. style # "chat" => style = "whole" \/ Spoken(style, plan) = Len(plan.thought) + Len(plan.text)
  BY DEF Spoken, Thoughts
<1> QED
  BY <1>2, <1>3, <1>4, <1>5, <1>6, <1>7

\* The fragments have all been streamed when the final event comes, or none is.
LEMMA AllFragments ==
  ASSUME NEW style, NEW plan \in Plans
  PROVE  LET k == Fragments(style, plan, Partials(style, plan))
         IN k \in {0, Len(Args)} /\ (plan.how # "deltas" => k = 0)
<1>1. /\ Spoken(style, plan) \in Nat /\ Partials(style, plan) = Spoken(style, plan) + Pieces(style, plan)
      /\ Len(Args) \in Nat /\ Pieces(style, plan) \in Nat
  BY Lengths, PlanFacts
<1>2. plan.how = "deltas" => Pieces(style, plan) \in {0, Len(Args)}
  BY DEF Pieces
<1> QED
  BY <1>1, <1>2 DEF Fragments

-----------------------------------------------------------------------------
(* The parts of an event and what the client puts together.                *)

\* Answer id was asked for with this plan.
Holds(id, plan) == asked[id] = plan

\* A thought, whole or a chunk.
LEMMA ThenThought ==
  ASSUME NEW tr \in Translators, NEW text \in Text, NEW partial \in BOOLEAN
  PROVE  LET u == Then(tr, Said("thought", text), partial)
         IN /\ u \in Translators /\ SameHad(tr, u)
            /\ text = <<>> => u = tr
            /\ text # <<>> => u.msg = None
            /\ text # <<>> /\ ~partial => Silence(u)
            /\ text # <<>> /\ partial => BeforeThought(u) = BeforeThought(tr) \o Delta(BeforeThought(tr), text)
            /\ \A v \in Heards : \E w \in Heards :
                 /\ Goes(tr, v, u, w) /\ SameCallings(v, w) /\ w.text = v.text
                 /\ w.thought = IF text = <<>> THEN v.thought ELSE v.thought \o Delta(BeforeThought(tr), text)
<1> DEFINE p == [kind |-> "thought", text |-> text]
           u == Then(tr, Said("thought", text), partial)
<1>1. CASE text = <<>>
  <2>1. u = tr
    BY <1>1 DEF Said, Then
  <2>2. \A v \in Heards : Goes(tr, v, tr, v) /\ SameCallings(v, v)
    BY GoesSame DEF SameCallings
  <2> HIDE DEF u
  <2> QED
    BY <1>1, <2>1, <2>2 DEF SameHad, u
<1>2. CASE text # <<>>
  <2>1. Said("thought", text) = <<p>>
    BY <1>2 DEF Said
  <2>2. <<p>> # <<>> /\ <<p>>[1] = p
    OBVIOUS
  <2>3. u = TranslatePart(tr, p, partial)
    <3> HIDE DEF p
    <3> QED
      BY <2>1, <2>2 DEF Then
  <2>4. u = EmitThought(tr, text, partial)
    BY <2>3 DEF TranslatePart
  <2> DEFINE d == Delta(BeforeThought(tr), text)
  <2>5. /\ u \in Translators /\ u.msg = None /\ SameHad(tr, u)
        /\ partial => u.reasoning # None /\ u.prevThought = BeforeThought(tr) \o d
        /\ ~partial => u.reasoning = None
        /\ \A v \in Heards : \E w \in Heards :
             Goes(tr, v, u, w) /\ SameCallings(v, w) /\ w.thought = v.thought \o d /\ w.text = v.text
    <3> DEFINE e == EmitThought(tr, text, partial)
    <3>1. /\ e \in Translators /\ e.msg = None /\ SameHad(tr, e)
          /\ partial => e.reasoning # None /\ e.prevThought = BeforeThought(tr) \o d
          /\ ~partial => e.reasoning = None
          /\ \A v \in Heards : \E w \in Heards :
               Goes(tr, v, e, w) /\ SameCallings(v, w) /\ w.thought = v.thought \o d /\ w.text = v.text
      BY EmitThoughtTold
    <3>2. u = e
      BY <2>4
    <3> HIDE DEF u, e, d
    <3> QED
      BY <3>1, <3>2
  <2> HIDE DEF u
  <2>6. partial => BeforeThought(u) = u.prevThought
    BY <2>5 DEF BeforeThought
  <2> QED
    BY <1>2, <2>5, <2>6 DEF Silence, u
<1> QED
  BY <1>1, <1>2

\* A text, whole or a chunk.
LEMMA ThenText ==
  ASSUME NEW tr \in Translators, NEW text \in Text, NEW partial \in BOOLEAN
  PROVE  LET u == Then(tr, Said("text", text), partial)
         IN /\ u \in Translators /\ SameHad(tr, u)
            /\ text = <<>> => u = tr
            /\ text # <<>> => u.reasoning = None
            /\ text # <<>> /\ ~partial => Silence(u)
            /\ text # <<>> /\ partial => Before(u) = Before(tr) \o Delta(Before(tr), text)
            /\ \A v \in Heards : \E w \in Heards :
                 /\ Goes(tr, v, u, w) /\ SameCallings(v, w) /\ w.thought = v.thought
                 /\ w.text = IF text = <<>> THEN v.text ELSE v.text \o Delta(Before(tr), text)
<1> DEFINE p == [kind |-> "text", text |-> text]
           u == Then(tr, Said("text", text), partial)
<1>1. CASE text = <<>>
  <2>1. u = tr
    BY <1>1 DEF Said, Then
  <2>2. \A v \in Heards : Goes(tr, v, tr, v) /\ SameCallings(v, v)
    BY GoesSame DEF SameCallings
  <2> HIDE DEF u
  <2> QED
    BY <1>1, <2>1, <2>2 DEF SameHad, u
<1>2. CASE text # <<>>
  <2>1. Said("text", text) = <<p>>
    BY <1>2 DEF Said
  <2>2. <<p>> # <<>> /\ <<p>>[1] = p
    OBVIOUS
  <2>3. u = TranslatePart(tr, p, partial)
    <3> HIDE DEF p
    <3> QED
      BY <2>1, <2>2 DEF Then
  <2>4. u = EmitText(tr, text, partial)
    BY <2>3 DEF TranslatePart
  <2> DEFINE d == Delta(Before(tr), text)
  <2>5. /\ u \in Translators /\ u.reasoning = None /\ SameHad(tr, u)
        /\ partial => u.msg # None /\ u.prevText = Before(tr) \o d
        /\ ~partial => u.msg = None
        /\ \A v \in Heards : \E w \in Heards :
             Goes(tr, v, u, w) /\ SameCallings(v, w) /\ w.text = v.text \o d /\ w.thought = v.thought
    <3> DEFINE e == EmitText(tr, text, partial)
    <3>1. /\ e \in Translators /\ e.reasoning = None /\ SameHad(tr, e)
          /\ partial => e.msg # None /\ e.prevText = Before(tr) \o d
          /\ ~partial => e.msg = None
          /\ \A v \in Heards : \E w \in Heards :
               Goes(tr, v, e, w) /\ SameCallings(v, w) /\ w.text = v.text \o d /\ w.thought = v.thought
      BY EmitTextTold
    <3>2. u = e
      BY <2>4
    <3> HIDE DEF u, e, d
    <3> QED
      BY <3>1, <3>2
  <2> HIDE DEF u
  <2>6. partial => Before(u) = u.prevText
    BY <2>5 DEF Before
  <2> QED
    BY <1>2, <2>5, <2>6 DEF Silence, u
<1> QED
  BY <1>1, <1>2

\* What is not about call id stays as it is.
Others(tr, u, v, w, id) ==
  \A i \in 1..MaxAnswers : i # id =>
    (i \in w.calls => i \in v.calls) /\ (i \in u.hadArgs <=> i \in tr.hadArgs) /\ w.args[i] = v.args[i]

\* The message is closed, and the call goes on by data.
GoesOnBy(tr, u, id, data) ==
  /\ u \in Translators /\ Silence(u)
  /\ \A v \in Heards : \E w \in Heards :
       /\ Goes(tr, v, u, w) /\ SameWords(v, w) /\ Others(tr, u, v, w, id)
       /\ id \in 1..MaxAnswers => w.args[id] = v.args[id] \o data

\* So it does by what is told of it.
LEMMA ClosedAndTold ==
  ASSUME NEW tr \in Translators, NEW u, NEW id, NEW data,
         CallTold(CloseMessage(tr), u, id, data), u.hadArgs \ {id} = CloseMessage(tr).hadArgs \ {id}
  PROVE  GoesOnBy(tr, u, id, data)
<1> DEFINE m == CloseMessage(tr)
<1>1. m \in Translators /\ Silence(m) /\ SameHad(tr, m) /\ \A v \in Heards : Goes(tr, v, m, v)
  BY CloseMessageTold DEF Silence
<1>2. CallTold(m, u, id, data) /\ u.hadArgs \ {id} = m.hadArgs \ {id}
  OBVIOUS
<1> HIDE DEF m
<1>3. u \in Translators /\ Silence(u)
  BY <1>1, <1>2 DEF CallTold, SameText, SameThought, Silence
<1>4. ASSUME NEW v \in Heards
      PROVE  \E w \in Heards : /\ Goes(tr, v, u, w) /\ SameWords(v, w) /\ Others(tr, u, v, w, id)
                               /\ id \in 1..MaxAnswers => w.args[id] = v.args[id] \o data
  <2>1. PICK w \in Heards : Goes(m, v, u, w) /\ OnCall(v, w, id, data)
    BY <1>2 DEF CallTold, Gets
  <2>2. Goes(tr, v, u, w)
    BY <1>1, <2>1, GoesTrans
  <2>3. SameWords(v, w) /\ Others(tr, u, v, w, id) /\ (id \in 1..MaxAnswers => w.args[id] = v.args[id] \o data)
    BY <1>1, <1>2, <2>1 DEF OnCall, Others, SameHad
  <2> QED
    BY <2>2, <2>3
<1> QED
  BY <1>3, <1>4 DEF GoesOnBy

\* The message is closed, and nothing is said.
LEMMA ClosedAndIdles ==
  ASSUME NEW tr \in Translators, NEW u, Idles(CloseMessage(tr), u)
  PROVE  /\ u \in Translators /\ Silence(u) /\ SameHad(tr, u)
         /\ \A v \in Heards : Goes(tr, v, u, v)
<1> DEFINE m == CloseMessage(tr)
<1>1. m \in Translators /\ Silence(m) /\ SameHad(tr, m) /\ \A v \in Heards : Goes(tr, v, m, v)
  BY CloseMessageTold DEF Silence
<1>2. Idles(m, u)
  OBVIOUS
<1> HIDE DEF m
<1>3. \A v \in Heards : Goes(tr, v, u, v)
  BY <1>1, <1>2, GoesTrans DEF Idles
<1> QED
  BY <1>1, <1>2, <1>3 DEF Idles, SameText, SameThought, SameHad, Silence

\* Nothing about any call.
LEMMA OthersSame ==
  ASSUME NEW tr, NEW u, NEW v, NEW w, SameHad(tr, u), SameCallings(v, w), NEW id
  PROVE  Others(tr, u, v, w, id)
BY DEF Others, SameHad, SameCallings

\* The message is closed, and nothing is told of any call that has an id.
Untold(v, w, u, tr, id) ==
  (id \in w.calls => id \in v.calls) /\ (id \in u.hadArgs <=> id \in tr.hadArgs) /\ w.args[id] = v.args[id]
GoesOnElsewhere(tr, u, id) ==
  /\ u \in Translators /\ Silence(u)
  /\ \A v \in Heards : \E w \in Heards :
       Goes(tr, v, u, w) /\ SameWords(v, w) /\ Others(tr, u, v, w, id) /\ Untold(v, w, u, tr, id)

\* What is told of a call that has no id of its own is told of no other.
LEMMA Elsewhere ==
  ASSUME NEW tr, NEW u, NEW k, k \notin 1..MaxAnswers, NEW data, GoesOnBy(tr, u, k, data), NEW id \in 1..MaxAnswers
  PROVE  GoesOnElsewhere(tr, u, id)
<1>1. ASSUME NEW v, NEW w, Others(tr, u, v, w, k)
      PROVE  Others(tr, u, v, w, id) /\ Untold(v, w, u, tr, id)
  BY <1>1 DEF Others, Untold
<1> QED
  BY <1>1 DEF GoesOnBy, GoesOnElsewhere

\* What is still to be said of the call follows what has been said of it.
Piece(plan, i) == IF plan.how = "deltas" THEN <<Args[i]>> ELSE <<>>
CallIs(plan, id, deltas) == [id |-> id, tool |-> plan.tool, deltas |-> deltas]

\* The part of a call that is not the provider's.
LEMMA ThenCalled ==
  ASSUME NEW tr, NEW plan \in Plans, NEW id \in Nat, NEW deltas \in Text, plan.tool # "none", NEW partial
  PROVE  LET c == CallIs(plan, id, deltas)
         IN /\ c \in Calls
            /\ Then(tr, Called(plan, id, deltas), partial) =
                 IF plan.tool = Builtin THEN EmitBuiltinToolCall(CloseMessage(tr), c)
                 ELSE EmitFunctionCall(CloseMessage(tr), c, partial)
<1> DEFINE c == CallIs(plan, id, deltas)
           k == IF plan.tool = Builtin THEN "builtinCall" ELSE "call"
           p == [kind |-> k, call |-> c]
<1>1. c \in Calls
  BY PlanFacts DEF Calls, CallIs
<1>2. Called(plan, id, deltas) = <<p>>
  BY DEF Called, CallIs
<1>3. p.kind = k /\ p.call = c
  OBVIOUS
<1> HIDE DEF p, c
<1>4. <<p>> # <<>> /\ <<p>>[1] = p
  OBVIOUS
<1>5. Then(tr, Called(plan, id, deltas), partial) = TranslatePart(tr, p, partial)
  BY <1>2, <1>4 DEF Then
<1>6. CASE plan.tool = Builtin
  <2>1. p.kind = "builtinCall"
    BY <1>3, <1>6
  <2>2. TranslatePart(tr, p, partial) = EmitBuiltinToolCall(CloseMessage(tr), p.call)
    BY <2>1 DEF TranslatePart
  <2> QED
    BY <1>1, <1>3, <1>5, <1>6, <2>2 DEF c
<1>7. CASE plan.tool # Builtin
  <2>1. p.kind = "call"
    BY <1>3, <1>7
  <2>2. TranslatePart(tr, p, partial) = EmitFunctionCall(CloseMessage(tr), p.call, partial)
    BY <2>1 DEF TranslatePart
  <2> QED
    BY <1>1, <1>3, <1>5, <1>7, <2>2 DEF c
<1> QED
  BY <1>6, <1>7

\* Which fragment comes with event p + 1.
LEMMA FragmentsOn ==
  ASSUME NEW style, NEW plan \in Plans, NEW p \in Nat,
         Spoken(style, plan) < p + 1, p + 1 <= Partials(style, plan)
  PROVE  LET k == Fragments(style, plan, p)
             l == Fragments(style, plan, p + 1)
         IN /\ plan.how # "final" /\ k \in 0..Len(Args)
            /\ plan.how = "deltas" => l = k + 1 /\ k < Len(Args) /\ (p + 1) - Spoken(style, plan) = k + 1
            /\ plan.how # "deltas" => k = 0 /\ l = 0
<1> DEFINE n == Spoken(style, plan)
           q == Partials(style, plan)
           j == Pieces(style, plan)
           k == Fragments(style, plan, p)
           l == Fragments(style, plan, p + 1)
<1>1. n \in Nat /\ j \in Nat /\ q = n + j /\ Len(Args) \in Nat
  BY Lengths, PlanFacts
<1>2. n < p + 1 /\ p + 1 <= q
  OBVIOUS
<1>3. /\ plan.how = "final" => j = 0
      /\ plan.how = "deltas" => j \in {0, Len(Args)}
  BY DEF Pieces
<1>4. /\ plan.how # "deltas" => k = 0 /\ l = 0
      /\ plan.how = "deltas" /\ p > n => k = p - n
      /\ plan.how = "deltas" /\ ~(p > n) => k = 0
      /\ plan.how = "deltas" /\ p + 1 > n => l = (p + 1) - n
  <2>1. k = IF plan.how = "deltas" /\ p > n THEN p - n ELSE 0
    BY DEF Fragments
  <2>2. l = IF plan.how = "deltas" /\ p + 1 > n THEN (p + 1) - n ELSE 0
    BY DEF Fragments
  <2> HIDE DEF n, q, j, k, l
  <2> QED
    BY <2>1, <2>2
<1> HIDE DEF n, q, j, k, l
<1>5. /\ plan.how # "final" /\ k \in 0..Len(Args)
      /\ plan.how = "deltas" => l = k + 1 /\ k < Len(Args) /\ (p + 1) - n = k + 1
      /\ plan.how # "deltas" => k = 0 /\ l = 0
  BY <1>1, <1>2, <1>3, <1>4
<1> QED
  BY <1>5 DEF n, k, l

\* A piece of a call that streams.
LEMMA ThenPiece ==
  ASSUME BuiltinsComeWhole, NEW tr \in Translators, NEW plan \in Plans, NEW id \in 1..MaxAnswers, Holds(id, plan),
         NEW p \in Nat,
         Spoken(conf.style, plan) < p + 1, p + 1 <= Partials(conf.style, plan)
  PROVE  LET u == Then(tr, Called(plan, id, Piece(plan, (p + 1) - Spoken(conf.style, plan))), TRUE)
         IN /\ u \in Translators
            /\ plan.tool = "none" => u = tr
            /\ plan.tool # "none" => Silence(u)
            /\ \A v \in Heards : \E w \in Heards :
                 /\ Goes(tr, v, u, w) /\ SameWords(v, w) /\ Others(tr, u, v, w, id)
                 /\ CallUnderWay(tr, v, plan, id, p) => CallUnderWay(u, w, plan, id, p + 1)
<1> DEFINE n == Spoken(conf.style, plan)
           piece == Piece(plan, (p + 1) - n)
           k == Fragments(conf.style, plan, p)
           l == Fragments(conf.style, plan, p + 1)
           u == Then(tr, Called(plan, id, piece), TRUE)
<1>0. id \in Nat
  BY EventTranslatorAssumption
<1>1. /\ plan.how # "final" /\ k \in 0..Len(Args) /\ Len(Args) \in Nat
      /\ plan.how = "deltas" => l = k + 1 /\ k < Len(Args) /\ (p + 1) - n = k + 1
      /\ plan.how # "deltas" => k = 0 /\ l = 0
  BY FragmentsOn, PlanFacts
<1>2. piece \in Text /\ Fragment(piece) /\ (plan.how = "deltas" => piece = <<Args[k + 1]>>) /\ (plan.how # "deltas" => piece = <<>>)
  <2>1. CASE plan.how = "deltas"
    <3>1. piece = <<Args[k + 1]>> /\ k + 1 \in 1..Len(Args)
      BY <1>1, <2>1 DEF Piece
    <3>2. Args[k + 1] \in STRING
      BY <3>1, ArgsAreText, ElementOfSeq DEF Text
    <3>3. <<Args[k + 1]>> \in Text
      BY <3>2 DEF Text
    <3> HIDE DEF k, piece
    <3> QED
      BY <2>1, <3>1, <3>2, <3>3 DEF Fragment
  <2>2. CASE plan.how # "deltas"
    BY <2>2, EmptyText DEF Piece, Fragment
  <2> QED
    BY <2>1, <2>2
<1> HIDE DEF piece, n, k, l
<1>3. CASE plan.tool = "none"
  <2>1. u = tr
    BY <1>3 DEF Called, Then
  <2>2. \A v : ~Seen(plan) /\ (CallUnderWay(tr, v, plan, id, p) => CallUnderWay(tr, v, plan, id, p + 1))
    BY <1>3 DEF Seen, CallUnderWay
  <2>3. ASSUME NEW v \in Heards
        PROVE  /\ Goes(tr, v, tr, v) /\ SameWords(v, v) /\ Others(tr, tr, v, v, id)
    <3>1. Goes(tr, v, tr, v) /\ SameWords(v, v) /\ SameHad(tr, tr) /\ SameCallings(v, v)
      BY GoesSame DEF SameWords, SameHad, SameCallings
    <3> QED
      BY <3>1, OthersSame
  <2> HIDE DEF u
  <2> QED
    BY <1>3, <2>1, <2>2, <2>3 DEF u, piece, n
<1>4. CASE plan.tool # "none"
  <2> DEFINE c == CallIs(plan, id, piece)
             m == CloseMessage(tr)
             e == EmitFunctionCall(m, c, TRUE)
  <2>1. plan.tool # Builtin
    BY <1>1 DEF BuiltinsComeWhole
  <2>2. c \in Calls /\ u = e
    <3>1. c \in Calls /\ Then(tr, Called(plan, id, piece), TRUE) =
             IF plan.tool = Builtin THEN EmitBuiltinToolCall(m, c) ELSE EmitFunctionCall(m, c, TRUE)
      BY <1>0, <1>2, <1>4, ThenCalled
    <3> QED
      BY <2>1, <3>1
  <2>3. c.id = id /\ c.tool = plan.tool /\ c.deltas = piece
    BY DEF CallIs
  <2>4. m \in Translators /\ SameHad(tr, m)
    BY CloseMessageTold
  <2> HIDE DEF c, m, u
  <2>5. /\ Unseen(c, TRUE) => ~Seen(plan)
        /\ Seen(plan) <=> ~Unseen(c, TRUE) /\ ~plan.anon
        /\ Anonymous(c) <=> plan.anon
    BY <1>4, <2>3 DEF Unseen, Seen, Anonymous, Holds
  <2> DEFINE g == Identified(m, c).id
  <2>9. (plan.anon => g \notin 1..MaxAnswers) /\ (~plan.anon => g = id)
    <3>1. (Anonymous(c) => g > MaxAnswers) /\ (~Anonymous(c) => g = c.id) /\ g \in Nat
      BY <2>2, <2>4, NumberedKeeps DEF Calls
    <3> HIDE DEF g
    <3> QED
      BY <2>3, <2>5, <3>1, EventTranslatorAssumption
  <2>10. ~Unseen(c, TRUE) =>
           /\ CallTold(m, e, g, piece)
           /\ e.hadArgs = IF piece = <<>> THEN m.hadArgs ELSE m.hadArgs \cup {g}
    BY <1>2, <2>2, <2>3, <2>4, EmitFunctionCallTold
  <2> HIDE DEF g
  <2>6. CASE Unseen(c, TRUE)
    <3>1. Idles(m, e)
      BY <1>2, <2>2, <2>3, <2>4, <2>6, EmitFunctionCallTold
    <3>2. /\ e \in Translators /\ Silence(e) /\ SameHad(tr, e)
          /\ \A v \in Heards : Goes(tr, v, e, v)
      <4> HIDE DEF e
      <4> QED
        BY <3>1, ClosedAndIdles DEF m
    <3>3. ASSUME NEW v \in Heards
          PROVE  /\ Goes(tr, v, u, v) /\ SameWords(v, v) /\ Others(tr, u, v, v, id)
                 /\ CallUnderWay(tr, v, plan, id, p) => CallUnderWay(u, v, plan, id, p + 1)
      <4>1. SameCallings(v, v) /\ SameWords(v, v) /\ SameHad(tr, u) /\ Goes(tr, v, u, v)
        BY <2>2, <3>2 DEF SameCallings, SameWords
      <4>2. Others(tr, u, v, v, id)
        BY <4>1, OthersSame
      <4>3. CallUnderWay(tr, v, plan, id, p) => CallUnderWay(u, v, plan, id, p + 1)
        BY <2>5, <2>6, <4>1 DEF CallUnderWay, SameHad
      <4> QED
        BY <4>1, <4>2, <4>3
    <3> QED
      BY <1>4, <2>2, <3>2, <3>3 DEF u, piece, n
  <2>8. CASE ~Unseen(c, TRUE) /\ plan.anon
    <3> HIDE DEF e
    <3>1. CallTold(m, e, g, piece) /\ e.hadArgs \ {g} = m.hadArgs \ {g} /\ g \notin 1..MaxAnswers /\ ~Seen(plan)
      BY <2>5, <2>8, <2>9, <2>10
    <3>2. GoesOnBy(tr, e, g, piece)
      <4> HIDE DEF piece
      <4> QED
        BY <3>1, ClosedAndTold DEF m
    <3>3. GoesOnElsewhere(tr, e, id)
      BY <3>1, <3>2, Elsewhere
    <3>6. e \in Translators /\ Silence(e)
      BY <3>3 DEF GoesOnElsewhere
    <3>7. \A v, w : Untold(v, w, e, tr, id) =>
            (CallUnderWay(tr, v, plan, id, p) => CallUnderWay(e, w, plan, id, p + 1))
      BY <3>1 DEF CallUnderWay, Untold
    <3>4. \A v \in Heards : \E w \in Heards :
            /\ Goes(tr, v, e, w) /\ SameWords(v, w) /\ Others(tr, e, v, w, id)
            /\ CallUnderWay(tr, v, plan, id, p) => CallUnderWay(e, w, plan, id, p + 1)
      BY <3>3, <3>7 DEF GoesOnElsewhere
    <3>5. u = e
      BY <2>2
    <3> QED
      BY <1>4, <3>4, <3>5, <3>6 DEF u, piece, n
  <2>7. CASE Seen(plan)
    <3> HIDE DEF e
    <3>1. /\ CallTold(m, e, id, piece)
          /\ e.hadArgs = IF piece = <<>> THEN m.hadArgs ELSE m.hadArgs \cup {id}
      BY <2>5, <2>7, <2>9, <2>10
    <3>2. e.hadArgs \ {id} = m.hadArgs \ {id}
      BY <3>1
    <3>3. /\ e \in Translators /\ Silence(e)
          /\ \A v \in Heards : \E w \in Heards :
               /\ Goes(tr, v, e, w) /\ SameWords(v, w) /\ Others(tr, e, v, w, id)
               /\ id \in 1..MaxAnswers => w.args[id] = v.args[id] \o piece
      <4>1. CallTold(CloseMessage(tr), e, id, piece) /\ e.hadArgs \ {id} = CloseMessage(tr).hadArgs \ {id}
        BY <3>1, <3>2 DEF m
      <4> HIDE DEF piece
      <4>2. GoesOnBy(tr, e, id, piece)
        BY <4>1, ClosedAndTold
      <4> QED
        BY <4>2 DEF GoesOnBy
    <3>4. ASSUME NEW v, NEW w, w.args[id] = v.args[id] \o piece, CallUnderWay(tr, v, plan, id, p)
          PROVE  CallUnderWay(e, w, plan, id, p + 1)
      <4>1. v.args[id] = SubSeq(Args, 1, k) /\ (id \in tr.hadArgs <=> k > 0)
        BY <2>7, <3>4 DEF CallUnderWay, k
      <4>2. id \in m.hadArgs <=> k > 0
        BY <2>4, <4>1 DEF SameHad
      <4>3. CASE plan.how = "deltas"
        <5>1. SubSeq(Args, 1, k) \o <<Args[k + 1]>> = SubSeq(Args, 1, k + 1)
          BY <1>1, <4>3, ArgsAreText, OneMore
        <5>2. w.args[id] = SubSeq(Args, 1, l)
          BY <1>1, <1>2, <3>4, <4>1, <4>3, <5>1
        <5>3. l > 0 /\ id \in e.hadArgs
          <6>1. piece # <<>>
            <7>1. <<Args[k + 1]>> # <<>>
              OBVIOUS
            <7> QED
              BY <1>2, <4>3, <7>1
          <6> QED
            BY <1>1, <3>1, <4>3, <6>1
        <5> QED
          BY <2>7, <5>2, <5>3 DEF CallUnderWay, l
      <4>4. CASE plan.how # "deltas"
        <5>1. k = 0 /\ l = 0 /\ piece = <<>> /\ SubSeq(Args, 1, 0) = <<>> /\ <<>> \o <<>> = <<>>
          BY <1>1, <1>2, <4>4, ArgsAreText, Extremes, EmptyText, NoRest
        <5>2. w.args[id] = SubSeq(Args, 1, l) /\ (id \in e.hadArgs <=> l > 0)
          BY <3>1, <3>4, <4>1, <4>2, <5>1
        <5> QED
          BY <2>7, <5>2 DEF CallUnderWay, l
      <4> QED
        BY <4>3, <4>4
    <3>5. ASSUME NEW v \in Heards
          PROVE  \E w \in Heards :
                   /\ Goes(tr, v, u, w) /\ SameWords(v, w) /\ Others(tr, u, v, w, id)
                   /\ CallUnderWay(tr, v, plan, id, p) => CallUnderWay(u, w, plan, id, p + 1)
      <4>1. PICK w \in Heards :
               /\ Goes(tr, v, e, w) /\ SameWords(v, w) /\ Others(tr, e, v, w, id)
               /\ w.args[id] = v.args[id] \o piece
        BY <3>3
      <4>2. CallUnderWay(tr, v, plan, id, p) => CallUnderWay(e, w, plan, id, p + 1)
        BY <3>4, <4>1
      <4>3. u = e
        BY <2>2
      <4> QED
        BY <4>1, <4>2, <4>3
    <3> QED
      BY <1>4, <2>2, <3>3, <3>5 DEF u, piece, n
  <2> QED
    BY <2>5, <2>6, <2>7, <2>8
<1> QED
  BY <1>3, <1>4

\* A call that is not for the client to see is not begun.
LEMMA UnseenDone ==
  ASSUME NEW tr, NEW v, NEW plan, ~Seen(plan), NEW id, NEW p, CallUnderWay(tr, v, plan, id, p)
  PROVE  CallDone(v, plan, id)
BY DEF CallUnderWay, CallDone

\* The call in the final event: the client has all arguments then.
LEMMA ThenWholeCall ==
  ASSUME BuiltinsComeWhole, NEW tr \in Translators, NEW plan \in Plans, NEW id \in 1..MaxAnswers, Holds(id, plan)
  PROVE  LET u == Then(tr, Called(plan, id, <<>>), FALSE)
         IN /\ u \in Translators
            /\ plan.tool = "none" => u = tr
            /\ plan.tool # "none" => Silence(u)
            /\ \A v \in Heards : \E w \in Heards :
                 /\ Goes(tr, v, u, w) /\ SameWords(v, w) /\ Others(tr, u, v, w, id)
                 /\ CallUnderWay(tr, v, plan, id, Partials(conf.style, plan)) => CallDone(w, plan, id)
<1> DEFINE q == Partials(conf.style, plan)
           k == Fragments(conf.style, plan, q)
           u == Then(tr, Called(plan, id, <<>>), FALSE)
           c == CallIs(plan, id, <<>>)
           m == CloseMessage(tr)
<1>0. id \in Nat /\ <<>> \in Text /\ Args \in Text /\ Fragment(<<>>)
  BY EventTranslatorAssumption, EmptyText, ArgsAreText DEF Fragment
<1>1. k \in {0, Len(Args)} /\ (plan.how # "deltas" => k = 0) /\ Len(Args) \in Nat \ {0}
  BY AllFragments, PlanFacts
<1>2. SubSeq(Args, 1, 0) = <<>> /\ SubSeq(Args, 1, Len(Args)) = Args
  BY <1>0, Extremes
<1>3. c.id = id /\ c.tool = plan.tool /\ c.deltas = <<>>
  BY DEF CallIs
<1>4. m \in Translators /\ SameHad(tr, m)
  BY CloseMessageTold
<1>5. plan.tool # "none" => c \in Calls /\ u = IF plan.tool = Builtin THEN EmitBuiltinToolCall(m, c)
                                                 ELSE EmitFunctionCall(m, c, FALSE)
  BY <1>0, ThenCalled
<1> HIDE DEF c, q, k
<1>6. ASSUME plan.tool # "none", Idles(m, u), ~Seen(plan)
      PROVE  /\ u \in Translators /\ Silence(u)
             /\ \A v \in Heards : \E w \in Heards :
                  /\ Goes(tr, v, u, w) /\ SameWords(v, w) /\ Others(tr, u, v, w, id)
                  /\ CallUnderWay(tr, v, plan, id, q) => CallDone(w, plan, id)
  <2> HIDE DEF u
  <2>1. /\ u \in Translators /\ Silence(u) /\ SameHad(tr, u)
        /\ \A v \in Heards : Goes(tr, v, u, v)
    BY <1>6, ClosedAndIdles
  <2>2. ASSUME NEW v \in Heards
        PROVE  /\ Goes(tr, v, u, v) /\ SameWords(v, v) /\ Others(tr, u, v, v, id)
               /\ CallUnderWay(tr, v, plan, id, q) => CallDone(v, plan, id)
    <3>1. SameCallings(v, v) /\ SameWords(v, v) /\ Goes(tr, v, u, v)
      BY <2>1 DEF SameCallings, SameWords
    <3>2. Others(tr, u, v, v, id)
      BY <2>1, <3>1, OthersSame
    <3>3. CallUnderWay(tr, v, plan, id, q) => CallDone(v, plan, id)
      BY <1>6, UnseenDone
    <3> QED
      BY <3>1, <3>2, <3>3
  <2> QED
    BY <2>1, <2>2
<1>7. ASSUME plan.tool # "none", NEW data, CallTold(m, u, id, data), u.hadArgs \ {id} = m.hadArgs \ {id},
             \A v : CallUnderWay(tr, v, plan, id, q) => plan.tool = Nameless \/ v.args[id] \o data = Args
      PROVE  /\ u \in Translators /\ Silence(u)
             /\ \A v \in Heards : \E w \in Heards :
                  /\ Goes(tr, v, u, w) /\ SameWords(v, w) /\ Others(tr, u, v, w, id)
                  /\ CallUnderWay(tr, v, plan, id, q) => CallDone(w, plan, id)
  <2> HIDE DEF u
  <2>1. /\ u \in Translators /\ Silence(u)
        /\ \A v \in Heards : \E w \in Heards :
             /\ Goes(tr, v, u, w) /\ SameWords(v, w) /\ Others(tr, u, v, w, id)
             /\ id \in 1..MaxAnswers => w.args[id] = v.args[id] \o data
    <3>1. GoesOnBy(tr, u, id, data)
      BY <1>7, ClosedAndTold
    <3> QED
      BY <3>1 DEF GoesOnBy
  <2>2. ASSUME NEW v \in Heards
        PROVE  \E w \in Heards :
                  /\ Goes(tr, v, u, w) /\ SameWords(v, w) /\ Others(tr, u, v, w, id)
                  /\ CallUnderWay(tr, v, plan, id, q) => CallDone(w, plan, id)
    <3>1. PICK w \in Heards : /\ Goes(tr, v, u, w) /\ SameWords(v, w) /\ Others(tr, u, v, w, id)
                              /\ w.args[id] = v.args[id] \o data
      BY <2>1
    <3>2. CallUnderWay(tr, v, plan, id, q) => CallDone(w, plan, id)
      BY <1>7, <3>1 DEF CallDone
    <3> QED
      BY <3>1, <3>2
  <2> QED
    BY <2>1, <2>2
<1> DEFINE g == Identified(m, c).id
<1>13. /\ plan.tool # "none" /\ plan.anon => g \notin 1..MaxAnswers /\ ~Seen(plan)
       /\ plan.tool # "none" /\ ~plan.anon => g = id
  <2> SUFFICES ASSUME plan.tool # "none"
               PROVE  (plan.anon => g \notin 1..MaxAnswers /\ ~Seen(plan)) /\ (~plan.anon => g = id)
    OBVIOUS
  <2>1. (Anonymous(c) => g > MaxAnswers) /\ (~Anonymous(c) => g = c.id) /\ g \in Nat
    BY <1>4, <1>5, NumberedKeeps DEF Calls
  <2>2. Anonymous(c) <=> plan.anon
    BY <1>3 DEF Anonymous, Holds
  <2> HIDE DEF g
  <2> QED
    BY <1>3, <2>1, <2>2, EventTranslatorAssumption DEF Seen
<1> HIDE DEF g
<1>14. ASSUME plan.tool # "none", plan.anon, NEW data, CallTold(m, u, g, data), u.hadArgs \ {g} = m.hadArgs \ {g}
       PROVE  /\ u \in Translators /\ Silence(u)
              /\ \A v \in Heards : \E w \in Heards :
                   /\ Goes(tr, v, u, w) /\ SameWords(v, w) /\ Others(tr, u, v, w, id)
                   /\ CallUnderWay(tr, v, plan, id, q) => CallDone(w, plan, id)
  <2> HIDE DEF u
  <2>1. GoesOnBy(tr, u, g, data)
    BY <1>14, ClosedAndTold
  <2>2. g \notin 1..MaxAnswers /\ ~Seen(plan)
    BY <1>13, <1>14
  <2>3. GoesOnElsewhere(tr, u, id)
    BY <2>1, <2>2, Elsewhere
  <2>4. \A v, w : Untold(v, w, u, tr, id) => (CallUnderWay(tr, v, plan, id, q) => CallDone(w, plan, id))
    BY <2>2 DEF CallUnderWay, CallDone, Untold
  <2> QED
    BY <2>3, <2>4 DEF GoesOnElsewhere
<1>8. \A v : CallUnderWay(tr, v, plan, id, q) /\ (~Seen(plan) \/ k = 0) => v.args[id] = <<>> /\ id \notin tr.hadArgs
  BY <1>2 DEF CallUnderWay, k
<1>9. <<>> \o Args = Args /\ Args \o <<>> = Args
  BY <1>0, NoRest
<1>10. CASE plan.tool = "none"
  <2>1. u = tr
    BY <1>10 DEF Called, Then
  <2>2. ~Seen(plan)
    BY <1>10 DEF Seen
  <2>3. ASSUME NEW v \in Heards
        PROVE  /\ Goes(tr, v, tr, v) /\ SameWords(v, v) /\ Others(tr, tr, v, v, id)
               /\ CallUnderWay(tr, v, plan, id, q) => CallDone(v, plan, id)
    <3>1. Goes(tr, v, tr, v) /\ SameWords(v, v) /\ SameHad(tr, tr) /\ SameCallings(v, v)
      BY GoesSame DEF SameWords, SameHad, SameCallings
    <3> QED
      BY <2>2, <3>1, OthersSame, UnseenDone
  <2> HIDE DEF u
  <2> QED
    BY <1>10, <2>1, <2>3 DEF u, q
<1>11. CASE plan.tool = Builtin /\ plan.tool # "none"
  <2>1. k = 0
    BY <1>1, <1>11 DEF BuiltinsComeWhole
  <2>2. u = EmitBuiltinToolCall(m, c) /\ c \in Calls
    BY <1>5, <1>11
  <2> HIDE DEF u, m
  <2>3. /\ SameHad(m, u)
        /\ ServerSide(plan.tool) => Idles(m, u)
        /\ ~ServerSide(plan.tool) => CallTold(m, u, g, Args)
    BY <1>3, <1>4, <2>2, EmitBuiltinToolCallTold DEF g
  <2>4. CASE ServerSide(plan.tool)
    <3>1. ~Seen(plan)
      BY <2>4 DEF Seen
    <3> QED
      BY <1>6, <1>11, <2>3, <2>4, <3>1 DEF u, q, m
  <2>6. CASE ~ServerSide(plan.tool) /\ plan.anon
    <3>1. u.hadArgs \ {g} = m.hadArgs \ {g}
      BY <2>3 DEF SameHad
    <3> QED
      BY <1>11, <1>14, <2>3, <2>6, <3>1 DEF u, q, m
  <2>5. CASE ~ServerSide(plan.tool) /\ ~plan.anon
    <3>1. \A v : CallUnderWay(tr, v, plan, id, q) => plan.tool = Nameless \/ v.args[id] \o Args = Args
      BY <1>8, <1>9, <2>1
    <3>2. u.hadArgs \ {id} = m.hadArgs \ {id}
      BY <2>3 DEF SameHad
    <3> QED
      BY <1>7, <1>11, <1>13, <2>3, <2>5, <3>1, <3>2 DEF u, q, m
  <2> QED
    BY <2>4, <2>5, <2>6
<1>12. CASE plan.tool # Builtin /\ plan.tool # "none"
  <2>2. u = EmitFunctionCall(m, c, FALSE) /\ c \in Calls
    BY <1>5, <1>12
  <2> DEFINE d == IF g \in m.hadArgs THEN <<>> ELSE Args
  <2> HIDE DEF u, m
  <2>3. /\ Unseen(c, FALSE) => Idles(m, u)
        /\ ~Unseen(c, FALSE) /\ plan.tool = Nameless => CallTold(m, u, g, <<>>) /\ SameHad(m, u)
        /\ ~Unseen(c, FALSE) /\ plan.tool # Nameless => CallTold(m, u, g, d) /\ u.hadArgs = m.hadArgs \ {g}
    BY <1>0, <1>3, <1>4, <2>2, EmitFunctionCallTold DEF g
  <2>7. CASE ~Unseen(c, FALSE) /\ plan.anon
    <3> HIDE DEF d
    <3>1. u.hadArgs \ {g} = m.hadArgs \ {g} /\ \E data : CallTold(m, u, g, data)
      BY <2>3, <2>7 DEF SameHad
    <3> QED
      BY <1>12, <1>14, <3>1, <2>7 DEF u, q, m
  <2>4. CASE Unseen(c, FALSE)
    <3>1. ~Seen(plan)
      BY <1>3, <2>4 DEF Seen, Unseen
    <3> QED
      BY <1>6, <1>12, <2>3, <2>4, <3>1 DEF u, q, m
  <2>5. CASE ~Unseen(c, FALSE) /\ ~plan.anon /\ plan.tool = Nameless
    <3>1. u.hadArgs \ {id} = m.hadArgs \ {id}
      BY <2>3, <2>5 DEF SameHad
    <3> QED
      BY <1>7, <1>12, <1>13, <2>3, <2>5, <3>1 DEF u, q, m
  <2>6. CASE ~Unseen(c, FALSE) /\ ~plan.anon /\ plan.tool # Nameless
    <3>1. \A v : CallUnderWay(tr, v, plan, id, q) => v.args[id] \o d = Args
      <4> TAKE v
      <4> HAVE CallUnderWay(tr, v, plan, id, q)
      <4>1. m.hadArgs = tr.hadArgs /\ g = id
        BY <1>4, <1>12, <1>13, <2>6 DEF SameHad
      <4>2. CASE ~Seen(plan) \/ k = 0
        BY <1>8, <1>9, <4>1, <4>2
      <4>3. CASE Seen(plan) /\ k # 0
        <5>1. k = Len(Args) /\ k > 0
          BY <1>1, <4>3
        <5>2. v.args[id] = Args /\ id \in tr.hadArgs
          BY <1>2, <4>3, <5>1 DEF CallUnderWay, k
        <5> QED
          BY <1>9, <4>1, <5>2
      <4> QED
        BY <4>2, <4>3
    <3>2. u.hadArgs \ {id} = m.hadArgs \ {id} /\ g = id
      BY <1>12, <1>13, <2>3, <2>6
    <3> HIDE DEF d
    <3> QED
      BY <1>7, <1>12, <2>3, <2>6, <3>1, <3>2 DEF u, q, m
  <2> QED
    BY <2>4, <2>5, <2>6, <2>7
<1> QED
  BY <1>10, <1>11, <1>12

\* A response says nothing and closes the message.
LEMMA ThenResponse ==
  ASSUME NEW tr \in Translators, NEW plan \in Plans, plan.tool # "none", NEW id \in Nat, NEW partial
  PROVE  LET u == Then(tr, Responded(plan, id), partial)
         IN /\ u \in Translators /\ Silence(u) /\ SameHad(tr, u)
            /\ \A v \in Heards : Goes(tr, v, u, v)
<1> DEFINE k == IF plan.tool = Builtin THEN "builtinResponse" ELSE "response"
           c == CallIs(plan, id, <<>>)
           p == [kind |-> k, call |-> c]
           m == CloseMessage(tr)
           u == Then(tr, Responded(plan, id), partial)
           e == EmitResponse(m, c)
<1>1. c \in Calls
  BY PlanFacts, EmptyText DEF Calls, CallIs
<1>2. Responded(plan, id) = <<p>>
  BY DEF Responded, CallIs
<1>3. p.kind \in {"response", "builtinResponse"} /\ p.call = c
  OBVIOUS
<1> HIDE DEF p, c
<1>4. <<p>> # <<>> /\ <<p>>[1] = p
  OBVIOUS
<1>5. u = TranslatePart(tr, p, partial)
  BY <1>2, <1>4 DEF Then
<1>6. TranslatePart(tr, p, partial) = EmitResponse(CloseMessage(tr), p.call)
  BY <1>3 DEF TranslatePart
<1>7. u = e
  BY <1>3, <1>5, <1>6
<1>8. m \in Translators
  BY CloseMessageTold
<1>9. Idles(m, e)
  <2> HIDE DEF m
  <2> QED
    BY <1>1, <1>8, EmitResponseIdles
<1> HIDE DEF e, u
<1>10. /\ e \in Translators /\ Silence(e) /\ SameHad(tr, e)
       /\ \A v \in Heards : Goes(tr, v, e, v)
  BY <1>9, ClosedAndIdles
<1> QED
  BY <1>7, <1>10 DEF u

\* Event p + 1 of an answer leads from what the client has after p events to what it has then.
EventGoes(tr, v, u, w, plan, id, p) ==
  /\ Goes(tr, v, u, w) /\ Others(tr, u, v, w, id)
  /\ CallSo(tr, v, plan, id, p) => CallSo(u, w, plan, id, p + 1)
  /\ conf.style # "chat" /\ WordsSo(tr, v, plan, p) => WordsSo(u, w, plan, p + 1)

\* What comes before the parts makes no difference.
LEMMA FromReady ==
  ASSUME NEW tr, NEW r, Idles(tr, r), NEW u, NEW v \in Heards, NEW w \in Heards, NEW plan, NEW id, NEW p,
         EventGoes(r, v, u, w, plan, id, p)
  PROVE  EventGoes(tr, v, u, w, plan, id, p)
<1>1. /\ SameText(tr, r) /\ SameThought(tr, r) /\ SameHad(tr, r) /\ Goes(tr, v, r, v)
  BY DEF Idles
<1>2. Goes(tr, v, u, w)
  BY <1>1, GoesTrans DEF EventGoes
<1>3. Others(tr, u, v, w, id)
  BY <1>1 DEF EventGoes, Others, SameHad
<1>4. CallSo(tr, v, plan, id, p) => CallSo(r, v, plan, id, p)
  BY <1>1 DEF CallSo, CallUnderWay, SameHad
<1>5. Before(r) = Before(tr) /\ BeforeThought(r) = BeforeThought(tr) /\ (Silence(tr) => Silence(r))
  BY <1>1 DEF Before, BeforeThought, Silence, SameText, SameThought
<1>6. WordsSo(tr, v, plan, p) => WordsSo(r, v, plan, p)
  BY <1>5 DEF WordsSo, WordsUnderWay
<1> QED
  BY <1>2, <1>3, <1>4, <1>6 DEF EventGoes

\* A chunk of text or thought leaves the call as it is.
LEMMA CallSoOn ==
  ASSUME NEW tr, NEW u, NEW v, NEW w, SameHad(tr, u), SameCallings(v, w), NEW plan \in Plans, NEW id, NEW p \in Nat,
         p + 1 <= Spoken(conf.style, plan)
  PROVE  CallSo(tr, v, plan, id, p) => CallSo(u, w, plan, id, p + 1)
<1> DEFINE n == Spoken(conf.style, plan)
           q == Partials(conf.style, plan)
<1>1. n \in Nat /\ q \in Nat /\ n <= q
  BY Lengths
<1>2. p <= q /\ ~(p + 1 > q) /\ ~(p > n) /\ ~(p + 1 > n)
  <2>1. p + 1 <= n
    OBVIOUS
  <2> HIDE DEF n, q
  <2> QED
    BY <1>1, <2>1
<1>3. Fragments(conf.style, plan, p) = 0 /\ Fragments(conf.style, plan, p + 1) = 0
  BY <1>2 DEF Fragments
<1>4. CallUnderWay(tr, v, plan, id, p) => CallUnderWay(u, w, plan, id, p + 1)
  BY <1>3 DEF CallUnderWay, SameHad, SameCallings
<1> QED
  BY <1>2, <1>4 DEF CallSo

\* A thought goes on.
LEMMA ThoughtComes ==
  ASSUME conf.style \in Styles, NEW tr \in Translators, NEW plan \in Plans, NEW id, NEW p \in Nat,
         p + 1 <= Thoughts(conf.style, plan), NEW v \in Heards
  PROVE  LET u == Then(tr, Said("thought", Chunk(conf.style, plan.thought, p + 1)), TRUE)
         IN u \in Translators /\ \E w \in Heards : EventGoes(tr, v, u, w, plan, id, p)
<1> DEFINE y == Chunk(conf.style, plan.thought, p + 1)
           u == Then(tr, Said("thought", y), TRUE)
           d == Delta(BeforeThought(tr), y)
           q == Partials(conf.style, plan)
<1>1. /\ plan.thought \in Text /\ plan.text \in Text /\ Len(plan.thought) \in Nat
      /\ Thoughts(conf.style, plan) \in Nat /\ Spoken(conf.style, plan) \in Nat /\ q \in Nat
      /\ Thoughts(conf.style, plan) <= Spoken(conf.style, plan) /\ Spoken(conf.style, plan) <= q
  BY PlanFacts, Lengths
<1>2. conf.style \in {"raw", "accumulated"} /\ Thoughts(conf.style, plan) = Len(plan.thought)
  <2>1. Thoughts(conf.style, plan) # 0
    BY <1>1
  <2> QED
    BY <2>1 DEF Thoughts, Styles
<1>3. /\ p + 1 \in 1..Len(plan.thought) /\ p + 1 <= Len(plan.thought)
      /\ p + 1 <= Spoken(conf.style, plan) /\ p <= q /\ ~(p + 1 > q)
  BY <1>1, <1>2
<1>4. y \in Text /\ y # <<>>
  BY <1>1, <1>3, ChunkIsText
<1>5. plan.thought # <<>>
  <2>1. Len(plan.thought) # 0 /\ Len(<<>>) = 0
    BY <1>1, <1>3, Extremes
  <2> QED
    BY <2>1
<1> HIDE DEF y, q
<1>6. /\ u \in Translators /\ SameHad(tr, u) /\ u.msg = None /\ BeforeThought(u) = BeforeThought(tr) \o d
      /\ \E w \in Heards : /\ Goes(tr, v, u, w) /\ SameCallings(v, w) /\ w.text = v.text
                           /\ w.thought = v.thought \o d
  <2>1. /\ u \in Translators /\ SameHad(tr, u)
        /\ y # <<>> => u.msg = None
        /\ y # <<>> /\ TRUE => BeforeThought(u) = BeforeThought(tr) \o Delta(BeforeThought(tr), y)
        /\ \E w \in Heards :
                 /\ Goes(tr, v, u, w) /\ SameCallings(v, w) /\ w.text = v.text
                 /\ w.thought = IF y = <<>> THEN v.thought ELSE v.thought \o Delta(BeforeThought(tr), y)
    BY <1>4, ThenThought
  <2> HIDE DEF u
  <2> QED
    BY <1>4, <2>1
<1> HIDE DEF u
<1>7. PICK w \in Heards : /\ Goes(tr, v, u, w) /\ SameCallings(v, w) /\ w.text = v.text
                          /\ w.thought = v.thought \o d
  BY <1>6
<1>8. CallSo(tr, v, plan, id, p) => CallSo(u, w, plan, id, p + 1)
  BY <1>3, <1>6, <1>7, CallSoOn
<1>9. WordsSo(tr, v, plan, p) => WordsSo(u, w, plan, p + 1)
  <2> SUFFICES ASSUME WordsSo(tr, v, plan, p), TextIsFine(plan) PROVE WordsUnderWay(u, w, plan, p + 1)
    BY <1>3, <1>5 DEF WordsSo, Wordless, q
  <2>1. WordsUnderWay(tr, v, plan, p)
    BY <1>3 DEF WordsSo, q
  <2>2. plan.text = <<>> /\ (conf.style = "raw" => ~Stutters(plan.thought))
    BY <1>2, <1>5 DEF TextIsFine, StreamsOneThing
  <2>3. v.text = <<>> /\ w.text = Before(u) /\ SoFar(plan.text, w.text, p + 1)
    <3>1. v.text = <<>>
      BY <1>1, <2>1, <2>2, NothingSaid DEF WordsUnderWay
    <3>2. Before(u) = <<>>
      BY <1>6 DEF Before
    <3>3. SoFar(<<>>, <<>>, p + 1)
      BY <1>1, NothingSaid
    <3> QED
      BY <1>7, <2>2, <3>1, <3>2, <3>3
  <2>4. v.thought = BeforeThought(tr) /\ SoFar(plan.thought, v.thought, p)
    BY <2>1 DEF WordsUnderWay
  <2>5. SoFar(plan.thought, v.thought \o Delta(v.thought, y), p + 1)
    BY <1>1, <1>2, <1>3, <2>2, <2>4, ChunkSaid DEF y
  <2> QED
    BY <1>6, <1>7, <2>3, <2>4, <2>5 DEF WordsUnderWay
<1>10. EventGoes(tr, v, u, w, plan, id, p)
  BY <1>6, <1>7, <1>8, <1>9, OthersSame DEF EventGoes
<1> QED
  BY <1>6, <1>10 DEF u, y

\* The text goes on.
LEMMA TextComes ==
  ASSUME conf.style \in Styles, NEW tr \in Translators, NEW plan \in Plans, NEW id, NEW p \in Nat,
         Thoughts(conf.style, plan) < p + 1, p + 1 <= Spoken(conf.style, plan), NEW v \in Heards
  PROVE  LET u == Then(tr, Said("text", Chunk(conf.style, plan.text, (p + 1) - Thoughts(conf.style, plan))), TRUE)
         IN u \in Translators /\ \E w \in Heards : EventGoes(tr, v, u, w, plan, id, p)
<1> DEFINE i == (p + 1) - Thoughts(conf.style, plan)
           y == Chunk(conf.style, plan.text, i)
           u == Then(tr, Said("text", y), TRUE)
           d == Delta(Before(tr), y)
           q == Partials(conf.style, plan)
<1>1. /\ plan.thought \in Text /\ plan.text \in Text /\ Len(plan.text) \in Nat /\ Len(plan.thought) \in Nat
      /\ Thoughts(conf.style, plan) \in Nat /\ Spoken(conf.style, plan) \in Nat /\ q \in Nat
      /\ Thoughts(conf.style, plan) <= Spoken(conf.style, plan) /\ Spoken(conf.style, plan) <= q
  BY PlanFacts, Lengths
<1>2. conf.style # "whole" /\ Spoken(conf.style, plan) = Thoughts(conf.style, plan) + Len(plan.text)
  <2>1. Spoken(conf.style, plan) # Thoughts(conf.style, plan)
    BY <1>1
  <2> QED
    BY <1>1, <2>1 DEF Spoken
<1>3. /\ i \in 1..Len(plan.text) /\ i <= Len(plan.text)
      /\ p <= q /\ ~(p + 1 > q)
  BY <1>1, <1>2
<1>4. y \in Text /\ y # <<>>
  <2> HIDE DEF i
  <2> QED
    BY <1>1, <1>3, ChunkIsText
<1>5. plan.text # <<>>
  <2>1. Len(plan.text) # 0 /\ Len(<<>>) = 0
    BY <1>1, <1>3, Extremes
  <2> QED
    BY <2>1
<1> HIDE DEF y, q, i
<1>6. /\ u \in Translators /\ SameHad(tr, u) /\ u.reasoning = None /\ Before(u) = Before(tr) \o d
      /\ \E w \in Heards : /\ Goes(tr, v, u, w) /\ SameCallings(v, w) /\ w.thought = v.thought
                           /\ w.text = v.text \o d
  <2>1. /\ u \in Translators /\ SameHad(tr, u)
        /\ y # <<>> => u.reasoning = None
        /\ y # <<>> /\ TRUE => Before(u) = Before(tr) \o Delta(Before(tr), y)
        /\ \E w \in Heards :
                 /\ Goes(tr, v, u, w) /\ SameCallings(v, w) /\ w.thought = v.thought
                 /\ w.text = IF y = <<>> THEN v.text ELSE v.text \o Delta(Before(tr), y)
    BY <1>4, ThenText
  <2> HIDE DEF u
  <2> QED
    BY <1>4, <2>1
<1> HIDE DEF u
<1>7. PICK w \in Heards : /\ Goes(tr, v, u, w) /\ SameCallings(v, w) /\ w.thought = v.thought
                          /\ w.text = v.text \o d
  BY <1>6
<1>8. CallSo(tr, v, plan, id, p) => CallSo(u, w, plan, id, p + 1)
  BY <1>6, <1>7, CallSoOn
<1>9. conf.style # "chat" /\ WordsSo(tr, v, plan, p) => WordsSo(u, w, plan, p + 1)
  <2> SUFFICES ASSUME conf.style # "chat", WordsSo(tr, v, plan, p), TextIsFine(plan)
               PROVE WordsUnderWay(u, w, plan, p + 1)
    BY <1>3, <1>5 DEF WordsSo, Wordless, q
  <2>1. WordsUnderWay(tr, v, plan, p)
    BY <1>3 DEF WordsSo, q
  <2>2. plan.thought = <<>> /\ (conf.style = "raw" => ~Stutters(plan.text)) /\ conf.style \in {"raw", "accumulated"}
    BY <1>2, <1>5 DEF TextIsFine, StreamsOneThing, Styles
  <2>3. v.thought = <<>> /\ w.thought = BeforeThought(u) /\ SoFar(plan.thought, w.thought, p + 1)
    <3>1. v.thought = <<>>
      BY <1>1, <2>1, <2>2, NothingSaid DEF WordsUnderWay
    <3>2. BeforeThought(u) = <<>>
      BY <1>6 DEF BeforeThought
    <3>3. SoFar(<<>>, <<>>, p + 1)
      BY <1>1, NothingSaid
    <3> QED
      BY <1>7, <2>2, <3>1, <3>2, <3>3
  <2>4. v.text = Before(tr) /\ SoFar(plan.text, v.text, p)
    BY <2>1 DEF WordsUnderWay
  <2>6. i = p + 1 /\ p + 1 <= Len(plan.text)
    <3>1. Thoughts(conf.style, plan) = 0
      BY <2>2, Extremes DEF Thoughts
    <3> QED
      BY <1>3, <3>1 DEF i
  <2>5. SoFar(plan.text, v.text \o Delta(v.text, y), p + 1)
    BY <1>1, <2>2, <2>4, <2>6, ChunkSaid DEF y
  <2> QED
    BY <1>6, <1>7, <2>3, <2>4, <2>5 DEF WordsUnderWay
<1>10. EventGoes(tr, v, u, w, plan, id, p)
  BY <1>6, <1>7, <1>8, <1>9, OthersSame DEF EventGoes
<1> QED
  BY <1>6, <1>10 DEF u, y, i

\* The call goes on.
LEMMA PieceComes ==
  ASSUME BuiltinsComeWhole, conf.style \in Styles, NEW tr \in Translators, NEW plan \in Plans,
         NEW id \in 1..MaxAnswers, Holds(id, plan), NEW p \in Nat,
         Spoken(conf.style, plan) < p + 1, p + 1 <= Partials(conf.style, plan), NEW v \in Heards
  PROVE  LET u == Then(tr, Called(plan, id, Piece(plan, (p + 1) - Spoken(conf.style, plan))), TRUE)
         IN u \in Translators /\ \E w \in Heards : EventGoes(tr, v, u, w, plan, id, p)
<1> DEFINE u == Then(tr, Called(plan, id, Piece(plan, (p + 1) - Spoken(conf.style, plan))), TRUE)
           n == Spoken(conf.style, plan)
           q == Partials(conf.style, plan)
<1>1. /\ u \in Translators
      /\ plan.tool = "none" => u = tr
      /\ plan.tool # "none" => Silence(u)
      /\ \E w \in Heards :
           /\ Goes(tr, v, u, w) /\ SameWords(v, w) /\ Others(tr, u, v, w, id)
           /\ CallUnderWay(tr, v, plan, id, p) => CallUnderWay(u, w, plan, id, p + 1)
  BY ThenPiece
<1>2. plan.how # "final"
  BY FragmentsOn
<1> HIDE DEF u
<1>3. PICK w \in Heards :
           /\ Goes(tr, v, u, w) /\ SameWords(v, w) /\ Others(tr, u, v, w, id)
           /\ CallUnderWay(tr, v, plan, id, p) => CallUnderWay(u, w, plan, id, p + 1)
  BY <1>1
<1>4. n \in Nat /\ q \in Nat /\ (conf.style = "whole" => q = 0) /\ Len(plan.thought) \in Nat /\ Len(plan.text) \in Nat
      /\ (conf.style # "chat" => conf.style = "whole" \/ n = Len(plan.thought) + Len(plan.text))
      /\ plan.thought \in Text /\ plan.text \in Text
  BY Lengths, PlanFacts
<1>5. n < p + 1 /\ p + 1 <= q
  OBVIOUS
<1> HIDE DEF n, q
<1>6. p <= q /\ ~(p + 1 > q) /\ conf.style # "whole"
  BY <1>4, <1>5
<1>7. conf.style # "chat" => Len(plan.thought) <= p /\ Len(plan.text) <= p
  <2> SUFFICES ASSUME conf.style # "chat" PROVE Len(plan.thought) <= p /\ Len(plan.text) <= p
    OBVIOUS
  <2> DEFINE x == Len(plan.thought)
             y == Len(plan.text)
  <2>1. n = x + y /\ x \in Nat /\ y \in Nat
    BY <1>4, <1>6
  <2> HIDE DEF x, y
  <2>2. n <= p
    BY <1>4, <1>5
  <2>3. x <= p /\ y <= p
    BY <2>1, <2>2
  <2> QED
    BY <2>3 DEF x, y
<1>8. CallSo(tr, v, plan, id, p) => CallSo(u, w, plan, id, p + 1)
  BY <1>3, <1>6 DEF CallSo, q
<1>9. conf.style # "chat" /\ WordsSo(tr, v, plan, p) => WordsSo(u, w, plan, p + 1)
  <2> SUFFICES ASSUME conf.style # "chat", WordsSo(tr, v, plan, p) PROVE WordsSo(u, w, plan, p + 1)
    OBVIOUS
  <2>1. Wordless(plan) => Silence(tr)
    BY <1>6 DEF WordsSo, q
  <2>2. Wordless(plan) => Silence(u)
    BY <1>1, <2>1
  <2>3. ASSUME TextIsFine(plan) PROVE WordsUnderWay(u, w, plan, p + 1)
    <3>1. WordsUnderWay(tr, v, plan, p)
      BY <1>6, <2>3 DEF WordsSo, q
    <3>2. SoFar(plan.text, v.text, p + 1) /\ SoFar(plan.thought, v.thought, p + 1)
      BY <1>4, <1>7, <3>1, SaidOn DEF WordsUnderWay
    <3>3. w.text = v.text /\ w.thought = v.thought
      BY <1>3 DEF SameWords
    <3>4. CASE plan.tool = "none"
      BY <1>1, <3>1, <3>2, <3>3, <3>4 DEF WordsUnderWay
    <3>5. CASE plan.tool # "none"
      <4>1. Wordless(plan)
        BY <1>2, <1>6, <2>3, <3>5 DEF TextIsFine, StreamsOneThing, Wordless
      <4>2. v.text = <<>> /\ v.thought = <<>>
        BY <1>4, <3>1, <4>1, NothingSaid DEF WordsUnderWay, Wordless
      <4>3. Before(u) = <<>> /\ BeforeThought(u) = <<>>
        BY <2>2, <4>1 DEF Silence, Before, BeforeThought
      <4> QED
        BY <3>2, <3>3, <4>2, <4>3 DEF WordsUnderWay
    <3> QED
      BY <3>4, <3>5
  <2> QED
    BY <1>6, <2>2, <2>3 DEF WordsSo, q
<1>10. EventGoes(tr, v, u, w, plan, id, p)
  BY <1>3, <1>8, <1>9 DEF EventGoes
<1> QED
  BY <1>1, <1>10 DEF u

\* What the final event repeats.
Repeated(style, text) == IF style = "chat" THEN <<>> ELSE text

\* The answer is complete.
LEMMA FinalComes ==
  ASSUME BuiltinsComeWhole, conf.style \in Styles, NEW tr \in Translators, NEW plan \in Plans,
         NEW id \in 1..MaxAnswers, Holds(id, plan), NEW p, p = Partials(conf.style, plan), NEW v \in Heards
  PROVE  LET x == Said("thought", Repeated(conf.style, plan.thought))
             y == Said("text", Repeated(conf.style, plan.text))
             u == Then(Then(Then(tr, x, FALSE), y, FALSE), Called(plan, id, <<>>), FALSE)
         IN u \in Translators /\ \E w \in Heards : EventGoes(tr, v, u, w, plan, id, p)
<1> DEFINE th == Repeated(conf.style, plan.thought)
           te == Repeated(conf.style, plan.text)
           a == Then(tr, Said("thought", th), FALSE)
           b == Then(a, Said("text", te), FALSE)
           u == Then(b, Called(plan, id, <<>>), FALSE)
<1>1. /\ plan.thought \in Text /\ plan.text \in Text /\ p \in Nat
      /\ conf.style = "whole" => p = 0
  BY PlanFacts, Lengths
<1>2. th \in Text /\ te \in Text /\ (conf.style # "chat" => th = plan.thought /\ te = plan.text)
  BY <1>1, EmptyText DEF Repeated
<1>3. p <= p /\ ~(p > p) /\ p + 1 > p /\ ~(p + 1 <= p)
  BY <1>1
<1> HIDE DEF th, te
<1>4. /\ a \in Translators /\ SameHad(tr, a)
      /\ th = <<>> => a = tr
      /\ th # <<>> => Silence(a)
      /\ \E w \in Heards :
           /\ Goes(tr, v, a, w) /\ SameCallings(v, w) /\ w.text = v.text
           /\ w.thought = IF th = <<>> THEN v.thought ELSE v.thought \o Delta(BeforeThought(tr), th)
  <2>1. /\ a \in Translators /\ SameHad(tr, a)
        /\ th = <<>> => a = tr
        /\ th # <<>> /\ ~FALSE => Silence(a)
        /\ \E w \in Heards :
             /\ Goes(tr, v, a, w) /\ SameCallings(v, w) /\ w.text = v.text
             /\ w.thought = IF th = <<>> THEN v.thought ELSE v.thought \o Delta(BeforeThought(tr), th)
    BY <1>2, ThenThought
  <2> HIDE DEF a
  <2> QED
    BY <2>1
<1> HIDE DEF a
<1>5. PICK x \in Heards :
           /\ Goes(tr, v, a, x) /\ SameCallings(v, x) /\ x.text = v.text
           /\ x.thought = IF th = <<>> THEN v.thought ELSE v.thought \o Delta(BeforeThought(tr), th)
  BY <1>4
<1>6. /\ b \in Translators /\ SameHad(a, b)
      /\ te = <<>> => b = a
      /\ te # <<>> => Silence(b)
      /\ \E w \in Heards :
           /\ Goes(a, x, b, w) /\ SameCallings(x, w) /\ w.thought = x.thought
           /\ w.text = IF te = <<>> THEN x.text ELSE x.text \o Delta(Before(a), te)
  <2>1. /\ b \in Translators /\ SameHad(a, b)
        /\ te = <<>> => b = a
        /\ te # <<>> /\ ~FALSE => Silence(b)
        /\ \E w \in Heards :
             /\ Goes(a, x, b, w) /\ SameCallings(x, w) /\ w.thought = x.thought
             /\ w.text = IF te = <<>> THEN x.text ELSE x.text \o Delta(Before(a), te)
    BY <1>2, <1>4, ThenText
  <2> HIDE DEF b
  <2> QED
    BY <2>1
<1> HIDE DEF b
<1>7. PICK y \in Heards :
           /\ Goes(a, x, b, y) /\ SameCallings(x, y) /\ y.thought = x.thought
           /\ y.text = IF te = <<>> THEN x.text ELSE x.text \o Delta(Before(a), te)
  BY <1>6
<1>8. /\ u \in Translators
      /\ plan.tool = "none" => u = b
      /\ plan.tool # "none" => Silence(u)
      /\ \E w \in Heards :
           /\ Goes(b, y, u, w) /\ SameWords(y, w) /\ Others(b, u, y, w, id)
           /\ CallUnderWay(b, y, plan, id, p) => CallDone(w, plan, id)
  BY <1>6, ThenWholeCall
<1> HIDE DEF u
<1>9. PICK w \in Heards :
           /\ Goes(b, y, u, w) /\ SameWords(y, w) /\ Others(b, u, y, w, id)
           /\ CallUnderWay(b, y, plan, id, p) => CallDone(w, plan, id)
  BY <1>8
<1>10. Goes(tr, v, u, w)
  BY <1>5, <1>7, <1>9, GoesTrans
<1>11. b.hadArgs = tr.hadArgs /\ y.calls = v.calls /\ y.args = v.args
  BY <1>4, <1>5, <1>6, <1>7 DEF SameHad, SameCallings
<1>12. Others(tr, u, v, w, id)
  BY <1>9, <1>11 DEF Others
<1>13. CallSo(tr, v, plan, id, p) => CallSo(u, w, plan, id, p + 1)
  <2>1. CallUnderWay(tr, v, plan, id, p) => CallUnderWay(b, y, plan, id, p)
    BY <1>11 DEF CallUnderWay
  <2> QED
    BY <1>3, <1>9, <2>1 DEF CallSo
<1>14. ASSUME conf.style # "chat", WordsSo(tr, v, plan, p) PROVE WordsSo(u, w, plan, p + 1)
  <2>1. th = plan.thought /\ te = plan.text
    BY <1>2, <1>14
  <2>2. Silence(u)
    <3>1. Wordless(plan) => Silence(tr)
      BY <1>3, <1>14 DEF WordsSo
    <3>2. te = <<>> /\ th = <<>> => Silence(b)
      BY <1>4, <1>6, <2>1, <3>1 DEF Wordless
    <3>3. te = <<>> /\ th # <<>> => Silence(b)
      BY <1>4, <1>6
    <3> QED
      BY <1>6, <1>8, <3>2, <3>3
  <2>3. ASSUME TextIsFine(plan) PROVE WordsDone(w, plan)
    <3>1. WordsUnderWay(tr, v, plan, p)
      BY <1>3, <1>14, <2>3 DEF WordsSo
    <3>2. /\ v.text = Before(tr) /\ v.text \in Text /\ v.text \o Delta(v.text, plan.text) = plan.text
          /\ v.thought = BeforeThought(tr) /\ v.thought \in Text /\ v.thought \o Delta(v.thought, plan.thought) = plan.thought
      BY <1>1, <3>1, AllSaid DEF WordsUnderWay
    <3>3. x.thought = plan.thought
      <4>1. CASE th = <<>>
        BY <1>1, <1>5, <2>1, <3>1, <4>1, NothingSaid DEF WordsUnderWay
      <4>2. CASE th # <<>>
        BY <1>5, <2>1, <3>2, <4>2
      <4> QED
        BY <4>1, <4>2
    <3>4. y.text = plan.text
      <4>1. CASE te = <<>>
        BY <1>1, <1>5, <1>7, <2>1, <3>1, <4>1, NothingSaid DEF WordsUnderWay
      <4>2. CASE te # <<>> /\ th = <<>>
        BY <1>4, <1>5, <1>7, <2>1, <3>2, <4>2
      <4>3. CASE te # <<>> /\ th # <<>>
        <5>1. conf.style = "whole"
          BY <2>1, <2>3, <4>3 DEF TextIsFine, StreamsOneThing
        <5>2. SoFar(plan.text, v.text, 0)
          BY <1>1, <3>1, <5>1 DEF WordsUnderWay
        <5>3. v.text = <<>>
          BY <1>1, <5>2, NothingSaid
        <5>4. Before(a) = <<>>
          BY <1>4, <4>3 DEF Silence, Before
        <5> QED
          BY <1>5, <1>7, <2>1, <3>2, <4>3, <5>3, <5>4
      <4> QED
        BY <4>1, <4>2, <4>3
    <3> QED
      BY <1>7, <1>9, <3>3, <3>4 DEF SameWords, WordsDone
  <2> QED
    BY <1>3, <2>2, <2>3 DEF WordsSo
<1>15. EventGoes(tr, v, u, w, plan, id, p)
  BY <1>10, <1>12, <1>13, <1>14 DEF EventGoes
<1> QED
  BY <1>8, <1>15 DEF u, b, a, th, te

\* The call is answered.
LEMMA ResponseComes ==
  ASSUME NEW tr \in Translators, NEW plan \in Plans, plan.tool # "none",
         NEW id \in 1..MaxAnswers, NEW p \in Nat, p > Partials(conf.style, plan), NEW v \in Heards
  PROVE  LET u == Then(tr, Responded(plan, id), FALSE)
         IN u \in Translators /\ \E w \in Heards : EventGoes(tr, v, u, w, plan, id, p)
<1> DEFINE u == Then(tr, Responded(plan, id), FALSE)
           q == Partials(conf.style, plan)
<1>1. id \in Nat
  BY EventTranslatorAssumption
<1>2. u \in Translators /\ Silence(u) /\ SameHad(tr, u) /\ Goes(tr, v, u, v)
  BY <1>1, ThenResponse
<1> HIDE DEF u
<1>3. p > q /\ p + 1 > q /\ ~(p + 1 <= q)
  <2>1. q \in Nat /\ p > q
    BY Lengths
  <2> HIDE DEF q
  <2> QED
    BY <2>1
<1> HIDE DEF q
<1>4. Others(tr, u, v, v, id)
  BY <1>2, OthersSame DEF SameCallings
<1>5. CallSo(tr, v, plan, id, p) => CallSo(u, v, plan, id, p + 1)
  BY <1>3 DEF CallSo, q
<1>6. WordsSo(tr, v, plan, p) => WordsSo(u, v, plan, p + 1)
  BY <1>2, <1>3 DEF WordsSo, q
<1>7. EventGoes(tr, v, u, v, plan, id, p)
  BY <1>2, <1>4, <1>5, <1>6 DEF EventGoes
<1> QED
  BY <1>2, <1>7 DEF u

Finals(style, plan, id) ==
  (Said("thought", Repeated(style, plan.thought)) \o Said("text", Repeated(style, plan.text))) \o Called(plan, id, <<>>)

\* ev is event number p of the answer.
Comes(ev, style, a, plan, id, p) ==
  /\ ev.author = a /\ ~ev.failed
  /\ p <= Partials(style, plan) => ev.partial = TRUE
  /\ p > Partials(style, plan) => ev.partial = FALSE
  /\ p <= Thoughts(style, plan) => ev.parts = Said("thought", Chunk(style, plan.thought, p))
  /\ Thoughts(style, plan) < p /\ p <= Spoken(style, plan) =>
       ev.parts = Said("text", Chunk(style, plan.text, p - Thoughts(style, plan)))
  /\ Spoken(style, plan) < p /\ p <= Partials(style, plan) =>
       ev.parts = Called(plan, id, Piece(plan, p - Spoken(style, plan)))
  /\ p = Partials(style, plan) + 1 => ev.parts = Finals(style, plan, id)
  /\ p > Partials(style, plan) + 1 => plan.tool # "none" /\ ev.parts = Responded(plan, id)

\* An event of one part.
LEMMA OnePartTold ==
  ASSUME NEW tr \in Translators, NEW ev, ~ev.failed, ev.author \in Agents,
         NEW S, NEW x \in Seq(S), Len(x) \in {0, 1}, ev.parts = x, NEW partial, ev.partial = partial,
         NEW v \in Heards, NEW plan, NEW id, NEW p,
         \A r \in Translators :
           LET u == Then(r, x, partial)
           IN u \in Translators /\ \E w \in Heards : EventGoes(r, v, u, w, plan, id, p)
  PROVE  LET u == Translate(tr, ev)
         IN u \in Translators /\ \E w \in Heards : EventGoes(tr, v, u, w, plan, id, p)
<1> DEFINE r == Ready(tr, ev)
           u == Then(r, x, partial)
<1>1. Idles(tr, r) /\ r \in Translators
  BY ReadyIdles
<1>2. Translate(tr, ev) = u
  BY TranslateOnePart
<1> HIDE DEF r
<1>3. u \in Translators /\ \E w \in Heards : EventGoes(r, v, u, w, plan, id, p)
  BY <1>1
<1> HIDE DEF u
<1>4. \E w \in Heards : EventGoes(tr, v, u, w, plan, id, p)
  BY <1>1, <1>3, FromReady
<1> QED
  BY <1>2, <1>3, <1>4

\* Whatever comes of an answer, the client gets it as it should.
LEMMA EventTold ==
  ASSUME BuiltinsComeWhole, conf.style \in Styles, NEW tr \in Translators, NEW plan \in Plans,
         NEW id \in 1..MaxAnswers, Holds(id, plan), NEW p \in Nat, NEW a \in Agents,
         NEW ev, Comes(ev, conf.style, a, plan, id, p + 1), NEW v \in Heards
  PROVE  LET u == Translate(tr, ev)
         IN u \in Translators /\ \E w \in Heards : EventGoes(tr, v, u, w, plan, id, p)
<1> DEFINE m == Thoughts(conf.style, plan)
           n == Spoken(conf.style, plan)
           q == Partials(conf.style, plan)
           S == PartsOf(id, plan.tool)
<1>1. /\ m \in Nat /\ n \in Nat /\ q \in Nat /\ m <= n /\ n <= q
      /\ plan.thought \in Text /\ plan.text \in Text /\ id \in Nat
      /\ Len(plan.thought) \in Nat /\ Len(plan.text) \in Nat
  <2>1. id \in Nat
    BY EventTranslatorAssumption
  <2>2. m \in Nat /\ n \in Nat /\ q \in Nat /\ m <= n /\ n <= q
    BY Lengths
  <2> QED
    BY <2>1, <2>2, PlanFacts
<1>2. /\ ~ev.failed /\ ev.author \in Agents
      /\ p + 1 <= q => ev.partial = TRUE
      /\ p + 1 > q => ev.partial = FALSE
      /\ p + 1 <= m => ev.parts = Said("thought", Chunk(conf.style, plan.thought, p + 1))
      /\ m < p + 1 /\ p + 1 <= n => ev.parts = Said("text", Chunk(conf.style, plan.text, (p + 1) - m))
      /\ n < p + 1 /\ p + 1 <= q => ev.parts = Called(plan, id, Piece(plan, (p + 1) - n))
      /\ p + 1 = q + 1 => ev.parts = Finals(conf.style, plan, id)
      /\ p + 1 > q + 1 => plan.tool # "none" /\ ev.parts = Responded(plan, id)
  BY DEF Comes
<1> DEFINE u == Translate(tr, ev)
           Good1 == u \in Translators /\ \E w \in Heards : EventGoes(tr, v, u, w, plan, id, p)
<1> HIDE DEF m, n, q, S, u
<1>3. CASE p + 1 <= m
  <2> DEFINE y == Chunk(conf.style, plan.thought, p + 1)
             x == Said("thought", y)
  <2>1. p + 1 \in 1..Len(plan.thought)
    <3>1. m = Len(plan.thought) \/ m = 0
      BY DEF Thoughts, m
    <3> QED
      BY <1>1, <1>3, <3>1
  <2>2. y \in Text
    BY <1>1, <2>1, ChunkIsText
  <2>3. x \in Seq(S) /\ Len(x) \in {0, 1}
    <3> HIDE DEF y
    <3> QED
      BY <2>2, SaidIsPart DEF S
  <2>4. \A r \in Translators : LET k == Then(r, x, TRUE)
                               IN k \in Translators /\ \E w \in Heards : EventGoes(r, v, k, w, plan, id, p)
    BY <1>3, ThoughtComes DEF m
  <2>5. ev.parts = x /\ ev.partial = TRUE
    BY <1>1, <1>2, <1>3
  <2> HIDE DEF x
  <2> QED
    BY <1>2, <2>3, <2>4, <2>5, OnePartTold DEF u
<1>4. CASE m < p + 1 /\ p + 1 <= n
  <2> DEFINE i == (p + 1) - m
             y == Chunk(conf.style, plan.text, i)
             x == Said("text", y)
  <2>1. i \in 1..Len(plan.text)
    <3>1. n = m + Len(plan.text) \/ n = m
      BY <1>1 DEF Spoken, m, n
    <3> QED
      BY <1>1, <1>4, <3>1
  <2>2. y \in Text
    <3> HIDE DEF i
    <3> QED
      BY <1>1, <2>1, ChunkIsText
  <2>3. x \in Seq(S) /\ Len(x) \in {0, 1}
    <3> HIDE DEF y
    <3> QED
      BY <2>2, SaidIsPart DEF S
  <2>4. \A r \in Translators : LET k == Then(r, x, TRUE)
                               IN k \in Translators /\ \E w \in Heards : EventGoes(r, v, k, w, plan, id, p)
    BY <1>4, TextComes DEF m, n
  <2>5. ev.parts = x /\ ev.partial = TRUE
    BY <1>1, <1>2, <1>4
  <2> HIDE DEF x
  <2> QED
    BY <1>2, <2>3, <2>4, <2>5, OnePartTold DEF u
<1>5. CASE n < p + 1 /\ p + 1 <= q
  <2> DEFINE y == Piece(plan, (p + 1) - n)
             x == Called(plan, id, y)
  <2>1. y \in Text
    <3>1. CASE plan.how = "deltas"
      <4> DEFINE i == (p + 1) - n
      <4>1. i \in 1..Len(Args) /\ Args \in Text
        <5>1. /\ (p + 1) - n = Fragments(conf.style, plan, p) + 1 /\ Fragments(conf.style, plan, p) \in 0..Len(Args)
              /\ Fragments(conf.style, plan, p) < Len(Args)
          BY <1>5, <3>1, FragmentsOn DEF n, q
        <5>2. Len(Args) \in Nat /\ Args \in Text
          BY PlanFacts, ArgsAreText
        <5> QED
          BY <1>1, <5>1, <5>2
      <4> HIDE DEF i
      <4>2. Args[i] \in STRING
        BY <4>1, ElementOfSeq DEF Text
      <4>3. y = <<Args[i]>>
        BY <3>1 DEF Piece, i
      <4> HIDE DEF y
      <4>4. <<Args[i]>> \in Text
        BY <4>2 DEF Text
      <4> QED
        BY <4>3, <4>4
    <3>2. CASE plan.how # "deltas"
      BY <3>2, EmptyText DEF Piece
    <3> QED
      BY <3>1, <3>2
  <2>3. x \in Seq(S) /\ Len(x) \in {0, 1}
    <3> HIDE DEF y
    <3> QED
      BY <1>1, <2>1, CalledIsPart DEF S
  <2>4. \A r \in Translators : LET k == Then(r, x, TRUE)
                               IN k \in Translators /\ \E w \in Heards : EventGoes(r, v, k, w, plan, id, p)
    BY <1>5, PieceComes DEF n, q
  <2>5. ev.parts = x /\ ev.partial = TRUE
    BY <1>1, <1>2, <1>5
  <2> HIDE DEF x
  <2> QED
    BY <1>2, <2>3, <2>4, <2>5, OnePartTold DEF u
<1>6. CASE p = q
  <2> DEFINE th == Repeated(conf.style, plan.thought)
             te == Repeated(conf.style, plan.text)
             x == Said("thought", th)
             y == Said("text", te)
             z == Called(plan, id, <<>>)
             r == Ready(tr, ev)
             k == Then(Then(Then(r, x, FALSE), y, FALSE), z, FALSE)
  <2>1. th \in Text /\ te \in Text
    BY <1>1, EmptyText DEF Repeated
  <2>2. x \in Seq(S) /\ Len(x) \in {0, 1} /\ y \in Seq(S) /\ Len(y) \in {0, 1}
    <3> HIDE DEF th, te
    <3> QED
      BY <2>1, SaidIsPart DEF S
  <2>3. z \in Seq(S) /\ Len(z) \in {0, 1}
    BY <1>1, EmptyText, CalledIsPart DEF S
  <2>4. Idles(tr, r) /\ r \in Translators
    BY <1>2, ReadyIdles
  <2>5. ev.parts = (x \o y) \o z /\ ev.partial = FALSE
    <3>1. p + 1 = q + 1 /\ p + 1 > q
      BY <1>1, <1>6
    <3>2. ev.parts = Finals(conf.style, plan, id) /\ ev.partial = FALSE
      BY <1>2, <3>1
    <3>3. Finals(conf.style, plan, id) = (x \o y) \o z
      BY DEF Finals
    <3> HIDE DEF x, y, z
    <3> QED
      BY <3>2, <3>3
  <2> HIDE DEF r
  <2>6. k \in Translators /\ \E w \in Heards : EventGoes(r, v, k, w, plan, id, p)
    BY <1>6, <2>4, FinalComes DEF q
  <2> HIDE DEF x, y, z
  <2>7. u = k
    <3>1. u = Then(Then(Then(Ready(tr, ev), x, ev.partial), y, ev.partial), z, ev.partial)
      BY <1>2, <2>2, <2>3, <2>5, TranslateParts DEF u
    <3> QED
      BY <2>5, <3>1 DEF r
  <2> HIDE DEF k
  <2>8. \E w \in Heards : EventGoes(tr, v, k, w, plan, id, p)
    BY <2>4, <2>6, FromReady
  <2> QED
    BY <2>6, <2>7, <2>8 DEF u
<1>7. CASE p > q
  <2> DEFINE x == Responded(plan, id)
  <2>1. plan.tool # "none" /\ ev.parts = x /\ ev.partial = FALSE
    BY <1>1, <1>2, <1>7
  <2>2. x \in Seq(S) /\ Len(x) \in {0, 1}
    BY <1>1, <2>1, RespondedIsPart DEF S
  <2>3. \A r \in Translators : LET k == Then(r, x, FALSE)
                               IN k \in Translators /\ \E w \in Heards : EventGoes(r, v, k, w, plan, id, p)
    BY <1>7, <2>1, ResponseComes DEF q
  <2> HIDE DEF x
  <2> QED
    BY <1>2, <2>1, <2>2, <2>3, OnePartTold DEF u
<1>8. (p + 1 <= m) \/ (m < p + 1 /\ p + 1 <= n) \/ (n < p + 1 /\ p + 1 <= q) \/ p = q \/ p > q
  BY <1>1
<1> QED
  BY <1>3, <1>4, <1>5, <1>6, <1>7, <1>8 DEF u

\* The chunks of a text, each in an event.
LEMMA ChunksAt ==
  ASSUME NEW kind, NEW text \in Text
  PROVE  LET x == [i \in DOMAIN text |-> Said(kind, Chunks(text)[i])]
         IN \E S : /\ x \in Seq(S) /\ Len(x) = Len(text)
                   /\ \A i \in 1..Len(text) : x[i] = Said(kind, Chunk(conf.style, text, i))
<1> DEFINE x == [i \in DOMAIN text |-> Said(kind, Chunks(text)[i])]
           n == Len(text)
           S == {Said(kind, Chunk(conf.style, text, i)) : i \in 1..n}
<1>1. n \in Nat /\ DOMAIN text = 1..n
  BY LenProperties DEF Text
<1>2. \A i \in 1..n : x[i] = Said(kind, Chunk(conf.style, text, i))
  <2> TAKE i \in 1..n
  <2>1. x[i] = Said(kind, Chunks(text)[i])
    BY <1>1
  <2>2. Chunks(text)[i] = Chunk(conf.style, text, i)
    <3>1. CASE conf.style = "accumulated"
      <4>1. Chunks(text) = [j \in DOMAIN text |-> SubSeq(text, 1, j)]
        BY <3>1 DEF Chunks
      <4> QED
        BY <1>1, <3>1, <4>1 DEF Chunk
    <3>2. CASE conf.style # "accumulated"
      <4>1. Chunks(text) = [j \in DOMAIN text |-> <<text[j]>>]
        BY <3>2 DEF Chunks
      <4> QED
        BY <1>1, <3>2, <4>1 DEF Chunk
    <3> QED
      BY <3>1, <3>2
  <2> QED
    BY <2>1, <2>2
<1>3. x = [i \in 1..n |-> x[i]]
  BY <1>1
<1>4. \A i \in 1..n : x[i] \in S
  BY <1>2
<1> HIDE DEF x, n, S
<1>5. x \in Seq(S) /\ Len(x) = n
  BY <1>1, <1>3, <1>4, SeqFrom
<1> QED
  BY <1>2, <1>5 DEF x, n

\* The pieces of a call, each in an event.
PiecesOf(plan, id) ==
  CASE plan.how = "deltas" -> [i \in DOMAIN Args |-> Called(plan, id, <<Args[i]>>)]
    [] plan.how = "bare" -> <<Called(plan, id, <<>>)>>
    [] plan.how = "final" -> <<>>

\* The events of the call, one by one.
LEMMA PiecesAt ==
  ASSUME NEW plan \in Plans, NEW id, conf.style \notin {"chat", "whole"}
  PROVE  LET x == PiecesOf(plan, id)
             n == Pieces(conf.style, plan)
         IN \E S : x \in Seq(S) /\ Len(x) = n /\ \A i \in 1..n : x[i] = Called(plan, id, Piece(plan, i))
<1> DEFINE x == PiecesOf(plan, id)
           n == Pieces(conf.style, plan)
           S == {Called(plan, id, Piece(plan, i)) : i \in 1..n}
<1>1. CASE plan.how = "deltas"
  <2>1. n = Len(Args) /\ n \in Nat /\ DOMAIN Args = 1..n
    BY <1>1, ArgsAreText, LenProperties DEF Pieces, Text
  <2>2. x = [i \in 1..n |-> Called(plan, id, <<Args[i]>>)]
    BY <1>1, <2>1 DEF PiecesOf
  <2> HIDE DEF x, n
  <2>3. \A i \in 1..n : x[i] = Called(plan, id, Piece(plan, i))
    BY <1>1, <2>2 DEF Piece
  <2>4. x = [i \in 1..n |-> x[i]] /\ \A i \in 1..n : x[i] \in S
    BY <2>2, <2>3
  <2> HIDE DEF S
  <2>5. x \in Seq(S) /\ Len(x) = n
    BY <2>1, <2>4, SeqFrom
  <2> QED
    BY <2>3, <2>5 DEF x, n
<1>2. CASE plan.how = "bare"
  <2> DEFINE c == Called(plan, id, <<>>)
  <2>1. n = 1
    BY <1>2 DEF Pieces
  <2>2. x = <<c>> /\ Piece(plan, 1) = <<>>
    BY <1>2 DEF PiecesOf, Piece
  <2>3. Called(plan, id, Piece(plan, 1)) = c
    BY <2>2
  <2> HIDE DEF x, n, c
  <2>4. x \in Seq({c}) /\ Len(x) = 1 /\ x[1] = c
    BY <2>2
  <2>5. \A i \in 1..1 : i = 1
    OBVIOUS
  <2> QED
    BY <2>1, <2>3, <2>4, <2>5 DEF x, n
<1>3. CASE plan.how = "final"
  <2>1. n = 0
    BY <1>3 DEF Pieces
  <2>2. x = <<>>
    BY <1>3 DEF PiecesOf
  <2> HIDE DEF x, n
  <2>3. x \in Seq({}) /\ Len(x) = 0 /\ \A i : i \notin 1..0
    BY <2>2
  <2> QED
    BY <2>1, <2>3 DEF x, n
<1> QED
  BY <1>1, <1>2, <1>3, PlanFacts

\* What the partial events of an answer hold.
LEMMA StreamedAt ==
  ASSUME NEW plan \in Plans, NEW id, conf.style \in Styles
  PROVE  LET b == Streamed(plan, id)
             m == Thoughts(conf.style, plan)
             n == Spoken(conf.style, plan)
             q == Partials(conf.style, plan)
         IN /\ (\E S : b \in Seq(S)) /\ Len(b) = q
            /\ \A i \in 1..q :
                 /\ i <= m => b[i] = Said("thought", Chunk(conf.style, plan.thought, i))
                 /\ m < i /\ i <= n => b[i] = Said("text", Chunk(conf.style, plan.text, i - m))
                 /\ n < i => b[i] = Called(plan, id, Piece(plan, i - n))
<1> DEFINE b == Streamed(plan, id)
           m == Thoughts(conf.style, plan)
           n == Spoken(conf.style, plan)
           q == Partials(conf.style, plan)
           x == [i \in DOMAIN plan.thought |-> Said("thought", Chunks(plan.thought)[i])]
           y == [i \in DOMAIN plan.text |-> Said("text", Chunks(plan.text)[i])]
           z == PiecesOf(plan, id)
           lx == Len(plan.thought)
           ly == Len(plan.text)
           lz == Pieces(conf.style, plan)
<1>1. lx \in Nat /\ ly \in Nat /\ lz \in Nat /\ plan.thought \in Text /\ plan.text \in Text
  BY PlanFacts, Lengths
<1>2. b = CASE conf.style = "whole" -> <<>> [] conf.style = "chat" -> y [] OTHER -> x \o y \o z
  BY DEF Streamed, PiecesOf
<1>3. /\ conf.style = "whole" => m = 0 /\ n = 0 /\ q = 0
      /\ conf.style = "chat" => m = 0 /\ n = 0 + ly /\ q = n + 0
      /\ conf.style \notin {"whole", "chat"} => m = lx /\ n = lx + ly /\ q = n + lz
  <2>1. CASE conf.style = "whole"
    BY <2>1 DEF Thoughts, Spoken, Partials, Pieces
  <2>2. CASE conf.style = "chat"
    <3>1. m = 0 /\ n = m + ly /\ q = n + lz /\ lz = 0
      BY <2>2 DEF Thoughts, Spoken, Partials, Pieces
    <3> HIDE DEF m, n, q, lz
    <3> QED
      BY <2>2, <3>1
  <2>3. CASE conf.style \notin {"whole", "chat"}
    <3>1. m = lx
      BY <2>3 DEF Thoughts
    <3>2. n = m + ly
      BY <2>3 DEF Spoken
    <3>3. q = n + lz
      BY DEF Partials
    <3> HIDE DEF m, n, q, lz
    <3> QED
      BY <2>3, <3>1, <3>2, <3>3
  <2> QED
    BY <2>1, <2>2, <2>3
<1>4. PICK Sx : x \in Seq(Sx) /\ Len(x) = lx /\ \A i \in 1..lx : x[i] = Said("thought", Chunk(conf.style, plan.thought, i))
  BY <1>1, ChunksAt
<1>5. PICK Sy : y \in Seq(Sy) /\ Len(y) = ly /\ \A i \in 1..ly : y[i] = Said("text", Chunk(conf.style, plan.text, i))
  BY <1>1, ChunksAt
<1>6. conf.style \notin {"chat", "whole"} =>
        \E S : z \in Seq(S) /\ Len(z) = lz /\ \A i \in 1..lz : z[i] = Called(plan, id, Piece(plan, i))
  BY PiecesAt
<1> HIDE DEF x, y, z, lx, ly, lz, b, m, n, q
<1> DEFINE Here(i) == /\ i <= m => b[i] = Said("thought", Chunk(conf.style, plan.thought, i))
                      /\ m < i /\ i <= n => b[i] = Said("text", Chunk(conf.style, plan.text, i - m))
                      /\ n < i => b[i] = Called(plan, id, Piece(plan, i - n))
<1>7. CASE conf.style = "whole"
  <2>1. b = <<>> /\ q = 0
    BY <1>2, <1>3, <1>7
  <2>2. b \in Seq({}) /\ Len(b) = 0 /\ \A i : i \notin 1..0
    BY <2>1
  <2> QED
    BY <2>1, <2>2 DEF b, m, n, q
<1>8. CASE conf.style = "chat"
  <2>1. b = y /\ m = 0 /\ n = ly /\ q = ly
    BY <1>1, <1>2, <1>3, <1>8
  <2>2. ASSUME NEW i \in 1..q PROVE Here(i)
    <3>1. i \in 1..ly /\ i - 0 = i /\ ~(i <= 0) /\ ~(ly < i)
      BY <1>1, <2>1
    <3> QED
      BY <1>5, <2>1, <3>1
  <2>3. b \in Seq(Sy) /\ Len(b) = q
    BY <1>5, <2>1
  <2> QED
    BY <2>2, <2>3 DEF b, m, n, q
<1>9. CASE conf.style \notin {"whole", "chat"}
  <2> DEFINE xy == x \o y
             w == xy \o z
  <2>1. PICK Sz : z \in Seq(Sz) /\ Len(z) = lz /\ \A i \in 1..lz : z[i] = Called(plan, id, Piece(plan, i))
    BY <1>6, <1>9
  <2> DEFINE S == (Sx \cup Sy) \cup Sz
  <2>2. b = w /\ m = lx /\ n = lx + ly /\ q = lx + ly + lz
    BY <1>2, <1>3, <1>9
  <2>3. x \in Seq(S) /\ y \in Seq(S) /\ z \in Seq(S)
    BY <1>4, <1>5, <2>1
  <2> HIDE DEF S
  <2>4. /\ xy \in Seq(S) /\ Len(xy) = Len(x) + Len(y)
        /\ \A i \in 1..(Len(x) + Len(y)) : xy[i] = IF i <= Len(x) THEN x[i] ELSE y[i - Len(x)]
    BY <2>3, JoinedSeq
  <2> HIDE DEF xy
  <2>5. /\ w \in Seq(S) /\ Len(w) = Len(xy) + Len(z)
        /\ \A i \in 1..(Len(xy) + Len(z)) : w[i] = IF i <= Len(xy) THEN xy[i] ELSE z[i - Len(xy)]
    <3>1. xy \in Seq(S) /\ z \in Seq(S)
      BY <2>3, <2>4
    <3> QED
      BY <3>1, JoinedSeq
  <2> HIDE DEF w
  <2>6. Len(x) = lx /\ Len(y) = ly /\ Len(z) = lz /\ Len(xy) = n
    BY <1>4, <1>5, <2>1, <2>2, <2>4
  <2>7. /\ \A i \in 1..n : xy[i] = IF i <= lx THEN x[i] ELSE y[i - lx]
        /\ \A i \in 1..q : w[i] = IF i <= n THEN xy[i] ELSE z[i - n]
        /\ Len(w) = q
    <3>1. Len(x) + Len(y) = n /\ Len(xy) + Len(z) = q
      BY <2>2, <2>6
    <3> QED
      BY <2>4, <2>5, <2>6, <3>1
  <2>8. ASSUME NEW i \in 1..q PROVE Here(i)
    <3>0. i \in Int /\ n \in Nat /\ q = n + lz
      BY <1>1, <2>2
    <3>1. CASE i <= lx
      <4>1. i \in 1..lx /\ i \in 1..n /\ i <= n /\ ~(lx < i) /\ ~(n < i)
        BY <1>1, <2>2, <3>1
      <4>2. b[i] = x[i]
        BY <2>2, <2>7, <3>1, <4>1
      <4> QED
        BY <1>4, <2>2, <4>1, <4>2
    <3>2. CASE lx < i /\ i <= n
      <4>1. i - lx \in 1..ly /\ i \in 1..n /\ ~(i <= lx) /\ ~(n < i)
        BY <1>1, <2>2, <3>2
      <4>2. b[i] = y[i - lx]
        BY <2>2, <2>7, <3>2, <4>1
      <4> QED
        BY <1>5, <2>2, <4>1, <4>2
    <3>3. CASE n < i
      <4>1. i - n \in 1..lz /\ ~(i <= n) /\ ~(i <= lx)
        BY <1>1, <2>2, <3>0, <3>3
      <4>2. b[i] = z[i - n]
        BY <2>2, <2>7, <3>3, <4>1
      <4> QED
        BY <2>1, <2>2, <4>1, <4>2
    <3>4. i <= lx \/ (lx < i /\ i <= n) \/ n < i
      BY <1>1, <3>0
    <3> QED
      BY <3>1, <3>2, <3>3, <3>4
  <2>9. b \in Seq(S) /\ Len(b) = q
    BY <2>2, <2>5, <2>7
  <2> QED
    BY <2>8, <2>9 DEF b, m, n, q
<1> QED
  BY <1>7, <1>8, <1>9

\* s is what comes after p events; the final event is not forgotten.
Rest(s, style, a, plan, id, p) ==
  /\ s \in Seq(AdkEvents(a, id, plan.tool))
  /\ \A i \in 1..Len(s) : Comes(s[i], style, a, plan, id, p + i)
  /\ p <= Partials(style, plan) => Len(s) > Partials(style, plan) - p

\* The final event repeats the text, unless the model is a chat completion.
LEMMA FinalPartsAre ==
  ASSUME NEW plan, NEW id
  PROVE  FinalParts(plan, id) = Finals(conf.style, plan, id)
<1>1. <<>> \o <<>> = <<>> /\ Said("text", <<>>) = <<>> /\ Said("thought", <<>>) = <<>>
  BY EmptyText, NoRest DEF Said
<1>2. CASE conf.style = "chat"
  <2>1. FinalParts(plan, id) = <<>> \o Called(plan, id, <<>>)
    BY <1>2 DEF FinalParts
  <2>2. Finals(conf.style, plan, id) = (Said("thought", <<>>) \o Said("text", <<>>)) \o Called(plan, id, <<>>)
    BY <1>2 DEF Finals, Repeated
  <2> QED
    BY <1>1, <2>1, <2>2
<1>3. CASE conf.style # "chat"
  BY <1>3 DEF FinalParts, Finals, Repeated
<1> QED
  BY <1>2, <1>3

\* All of an answer is still to come when it begins.
LEMMA AnswerRests ==
  ASSUME NEW a \in Agents, NEW plan \in Plans, NEW id \in Nat, conf.style \in Styles
  PROVE  Rest(Answer(a, plan, id), conf.style, a, plan, id, 0)
<1> DEFINE b == Streamed(plan, id)
           q == Partials(conf.style, plan)
           m == Thoughts(conf.style, plan)
           n == Spoken(conf.style, plan)
           e == [i \in DOMAIN b |-> AdkEvent(a, TRUE, b[i])]
           fin == [AdkEvent(a, FALSE, FinalParts(plan, id)) EXCEPT !.complete = TRUE, !.long = plan.long]
           res == AdkEvent(a, FALSE, Responded(plan, id))
           ef == e \o <<fin>>
           r == IF plan.tool = "none" \/ plan.long THEN <<>> ELSE <<res>>
           s == Answer(a, plan, id)
<1>1. s \in Seq(AdkEvents(a, id, plan.tool))
  BY AnswerIsOk DEF AnswerOk
<1>2. s = ef \o r
  BY DEF Answer
<1>3. /\ (\E S : b \in Seq(S)) /\ Len(b) = q
      /\ \A i \in 1..q :
           /\ i <= m => b[i] = Said("thought", Chunk(conf.style, plan.thought, i))
           /\ m < i /\ i <= n => b[i] = Said("text", Chunk(conf.style, plan.text, i - m))
           /\ n < i => b[i] = Called(plan, id, Piece(plan, i - n))
  BY StreamedAt
<1>4. q \in Nat /\ n \in Nat /\ m \in Nat /\ m <= n /\ n <= q
  BY Lengths
<1> HIDE DEF b, s
<1>5. DOMAIN b = 1..q
  BY <1>3, LenProperties
<1>6. \A i \in 1..q : e[i] = AdkEvent(a, TRUE, b[i])
  BY <1>5
<1> DEFINE S == {e[i] : i \in 1..q} \cup {fin, res}
<1>7. e \in Seq(S) /\ Len(e) = q
  <2>1. e = [i \in 1..q |-> e[i]]
    BY <1>5
  <2>2. \A i \in 1..q : e[i] \in S
    OBVIOUS
  <2> HIDE DEF e, S, q
  <2> QED
    BY <1>4, <2>1, <2>2, SeqFrom
<1>8. <<fin>> \in Seq(S) /\ Len(<<fin>>) = 1 /\ <<fin>>[1] = fin
  <2>1. fin \in S
    OBVIOUS
  <2> HIDE DEF fin, S
  <2> QED
    BY <2>1
<1>9. r \in Seq(S) /\ Len(r) \in {0, 1} /\ (Len(r) = 1 => r[1] = res /\ plan.tool # "none")
  <2>1. res \in S
    OBVIOUS
  <2> HIDE DEF res, S
  <2>2. <<res>> \in Seq(S) /\ Len(<<res>>) = 1 /\ <<res>>[1] = res
    BY <2>1
  <2>3. <<>> \in Seq(S) /\ Len(<<>>) = 0
    OBVIOUS
  <2>4. CASE plan.tool = "none" \/ plan.long
    <3>1. r = <<>>
      BY <2>4
    <3> HIDE DEF r
    <3> QED
      BY <2>3, <3>1
  <2>5. CASE ~(plan.tool = "none" \/ plan.long)
    <3>1. r = <<res>>
      BY <2>5
    <3> HIDE DEF r
    <3> QED
      BY <2>2, <2>5, <3>1
  <2> QED
    BY <2>4, <2>5
<1>10. fin.author = a /\ ~fin.failed /\ fin.partial = FALSE /\ fin.parts = Finals(conf.style, plan, id)
  BY FinalPartsAre DEF AdkEvent
<1>11. res.author = a /\ ~res.failed /\ res.partial = FALSE /\ res.parts = Responded(plan, id)
  BY DEF AdkEvent
<1>12. \A i \in 1..q : e[i].author = a /\ ~e[i].failed /\ e[i].partial = TRUE /\ e[i].parts = b[i]
  <2> SUFFICES ASSUME NEW i \in 1..q
               PROVE  e[i].author = a /\ ~e[i].failed /\ e[i].partial = TRUE /\ e[i].parts = b[i]
    OBVIOUS
  <2>1. e[i] = AdkEvent(a, TRUE, b[i])
    BY <1>6
  <2> HIDE DEF e, q
  <2> QED
    BY <2>1 DEF AdkEvent
<1> DEFINE f == <<fin>>
<1> HIDE DEF e, fin, res, r, S, f, q, m, n
<1>13. /\ ef \in Seq(S) /\ Len(ef) = q + 1 /\ \A i \in 1..(q + 1) : ef[i] = IF i <= q THEN e[i] ELSE fin
  <2>1. f \in Seq(S) /\ Len(f) = 1 /\ f[1] = fin
    BY <1>8 DEF f
  <2>2. e \o f \in Seq(S) /\ Len(e \o f) = Len(e) + Len(f)
        /\ \A i \in 1..(Len(e) + Len(f)) : (e \o f)[i] = IF i <= Len(e) THEN e[i] ELSE f[i - Len(e)]
    BY <1>7, <2>1, JoinedSeq
  <2>3. ef = e \o f
    BY DEF f
  <2> HIDE DEF ef
  <2>4. ASSUME NEW i \in 1..(q + 1) PROVE ef[i] = IF i <= q THEN e[i] ELSE fin
    <3>1. ~(i <= q) => i - q = 1
      BY <1>4
    <3> QED
      BY <1>7, <2>1, <2>2, <2>3, <3>1
  <2> QED
    BY <1>7, <2>1, <2>2, <2>3, <2>4
<1> HIDE DEF ef
<1>14. /\ Len(s) = q + 1 + Len(r)
       /\ \A i \in 1..(q + 1 + Len(r)) : s[i] = IF i <= q + 1 THEN ef[i] ELSE r[i - (q + 1)]
  <2>1. ef \o r \in Seq(S) /\ Len(ef \o r) = Len(ef) + Len(r)
        /\ \A i \in 1..(Len(ef) + Len(r)) : (ef \o r)[i] = IF i <= Len(ef) THEN ef[i] ELSE r[i - Len(ef)]
    BY <1>9, <1>13, JoinedSeq
  <2> QED
    BY <1>2, <1>13, <2>1
<1>15. ASSUME NEW i \in 1..Len(s) PROVE Comes(s[i], conf.style, a, plan, id, 0 + i)
  <2>0. 0 + i = i /\ i \in Nat
    BY <1>1, LenProperties
  <2>1. CASE i <= q
    <3>1. i \in 1..q /\ i \in 1..(q + 1) /\ i <= q + 1 /\ ~(i > q) /\ ~(i = q + 1) /\ ~(i > q + 1) /\ i \in 1..(q + 1 + Len(r))
      BY <1>4, <1>9, <2>1
    <3>2. s[i] = e[i]
      BY <1>13, <1>14, <2>1, <3>1
    <3> QED
      BY <1>3, <1>12, <2>0, <3>1, <3>2 DEF Comes, q, m, n
  <2>2. CASE i = q + 1
    <3>1. i \in 1..(q + 1) /\ ~(i <= q) /\ i > q /\ ~(i > q + 1) /\ ~(i <= m) /\ ~(i <= n) /\ i \in 1..(q + 1 + Len(r))
      BY <1>4, <1>9, <2>2
    <3>2. s[i] = fin
      BY <1>13, <1>14, <2>2, <3>1
    <3> QED
      BY <1>10, <2>0, <2>2, <3>1, <3>2 DEF Comes, q, m, n
  <2>3. CASE i > q + 1
    <3>1. Len(r) = 1 /\ i - (q + 1) = 1 /\ ~(i <= q + 1) /\ ~(i = q + 1) /\ i \in 1..(q + 1 + Len(r))
      BY <1>4, <1>9, <1>14, <2>0, <2>3
    <3>2. s[i] = res /\ plan.tool # "none"
      BY <1>9, <1>14, <3>1
    <3>3. ~(i <= q) /\ i > q /\ ~(i <= m) /\ ~(i <= n)
      BY <1>4, <2>0, <2>3
    <3> QED
      BY <1>11, <2>0, <2>3, <3>1, <3>2, <3>3 DEF Comes, q, m, n
  <2>4. i <= q \/ i = q + 1 \/ i > q + 1
    BY <1>4, <2>0
  <2> QED
    BY <2>1, <2>2, <2>3, <2>4
<1>16. Len(s) > q - 0
  BY <1>4, <1>9, <1>14
<1> QED
  BY <1>1, <1>15, <1>16 DEF Rest, q, s

\* Its next event comes, and the others after it.
LEMMA RestHead ==
  ASSUME NEW s, NEW style, NEW a, NEW plan \in Plans, NEW id, NEW p \in Nat, Rest(s, style, a, plan, id, p), s # <<>>
  PROVE  Comes(Head(s), style, a, plan, id, p + 1) /\ Rest(Tail(s), style, a, plan, id, p + 1)
<1> DEFINE E == AdkEvents(a, id, plan.tool)
           q == Partials(style, plan)
           r == Tail(s)
<1>1. /\ s \in Seq(E) /\ \A i \in 1..Len(s) : Comes(s[i], style, a, plan, id, p + i)
      /\ p <= q => Len(s) > q - p
  BY DEF Rest
<1>2. q \in Nat
  BY Lengths
<1> HIDE DEF E, q
<1>3. Len(s) \in Nat \ {0} /\ Head(s) = s[1]
  BY <1>1, EmptySeq
<1>4. r \in Seq(E) /\ Len(r) = Len(s) - 1 /\ \A i \in 1..Len(r) : r[i] = s[i + 1]
  BY <1>1, HeadTailProperties
<1> HIDE DEF r
<1>5. Comes(Head(s), style, a, plan, id, p + 1)
  <2>1. 1 \in 1..Len(s)
    BY <1>3
  <2> QED
    BY <1>1, <1>3, <2>1
<1>6. ASSUME NEW i \in 1..Len(r) PROVE Comes(r[i], style, a, plan, id, (p + 1) + i)
  <2>1. i + 1 \in 1..Len(s) /\ p + (i + 1) = (p + 1) + i
    BY <1>3, <1>4
  <2>2. Comes(s[i + 1], style, a, plan, id, p + (i + 1))
    BY <1>1, <2>1
  <2> QED
    BY <1>4, <2>1, <2>2
<1>7. p + 1 <= q => Len(r) > q - (p + 1)
  BY <1>1, <1>2, <1>3, <1>4
<1> QED
  BY <1>4, <1>5, <1>6, <1>7 DEF Rest, E, q, r

\* When nothing is to come, the final event has been.
LEMMA RestNothing ==
  ASSUME NEW style, NEW a, NEW plan \in Plans, NEW id, NEW p \in Nat, Rest(<<>>, style, a, plan, id, p)
  PROVE  p > Partials(style, plan)
<1> DEFINE q == Partials(style, plan)
<1>1. q \in Nat /\ Len(<<>>) = 0 /\ (p <= q => Len(<<>>) > q - p)
  BY Lengths, EmptySeq DEF Rest
<1> HIDE DEF q
<1>2. p > q
  BY <1>1
<1> QED
  BY <1>2 DEF q

-----------------------------------------------------------------------------
(* What the client has of all the answers.                                 *)

Positions == [Agents -> Nat]

\* who[a] is the answer that agent a gives, and pos[a] counts the events of it that have been translated.
Answering(tr, v, todos, plans, who, pos) ==
  \A a \in Agents : todos[a] # <<>> =>
    /\ who[a] \in 1..Len(plans)
    /\ Rest(todos[a], conf.style, a, plans[who[a]], who[a], pos[a])
    /\ CallSo(tr, v, plans[who[a]], who[a], pos[a])
Apart(todos, who) ==
  \A a, b \in Agents : a # b /\ todos[a] # <<>> /\ todos[b] # <<>> => conf.parallel /\ who[a] # who[b]
Answers(v, todos, plans, who) ==
  \A i \in 1..Len(plans) : (\A a \in Agents : todos[a] # <<>> => who[a] # i) => CallDone(v, plans[i], i)
Unasked(tr, v, n) ==
  \A i \in 1..MaxAnswers : i > n => i \notin v.calls /\ i \notin tr.hadArgs /\ v.args[i] = <<>>
Words(tr, v, todos, plans, who, pos) ==
  ~conf.parallel /\ conf.style # "chat" =>
    /\ \A a \in Agents : todos[a] # <<>> => who[a] = Len(plans) /\ WordsSo(tr, v, plans[Len(plans)], pos[a])
    /\ (\A a \in Agents : todos[a] = <<>>) =>
         Silence(tr) /\ (plans # <<>> /\ TextIsFine(plans[Len(plans)]) => WordsDone(v, plans[Len(plans)]))

\* After the answers to plans, with todos still to come, a client that has v has what it should.
Hearing(tr, v, todos, plans, who, pos) ==
  /\ Answering(tr, v, todos, plans, who, pos) /\ Apart(todos, who)
  /\ Answers(v, todos, plans, who) /\ Unasked(tr, v, Len(plans))
  /\ Words(tr, v, todos, plans, who, pos)

\* What becomes of one call leaves the others as they are.
LEMMA OthersKeep ==
  ASSUME NEW tr, NEW u, NEW v, NEW w, NEW id, Others(tr, u, v, w, id),
         NEW i \in 1..MaxAnswers, i # id, NEW plan, NEW p
  PROVE  /\ CallSo(tr, v, plan, i, p) => CallSo(u, w, plan, i, p)
         /\ CallDone(v, plan, i) => CallDone(w, plan, i)
<1>1. (i \in w.calls => i \in v.calls) /\ (i \in u.hadArgs <=> i \in tr.hadArgs) /\ w.args[i] = v.args[i]
  BY DEF Others
<1>2. CallDone(v, plan, i) => CallDone(w, plan, i)
  BY <1>1 DEF CallDone
<1>3. CallUnderWay(tr, v, plan, i, p) => CallUnderWay(u, w, plan, i, p)
  BY <1>1 DEF CallUnderWay
<1> QED
  BY <1>2, <1>3 DEF CallSo

\* Before the first event.
LEMMA NoneYet ==
  ASSUME NEW style, NEW plan \in Plans
  PROVE  /\ Fragments(style, plan, 0) = 0 /\ 0 <= Partials(style, plan) /\ ~(0 > Partials(style, plan))
         /\ \A a, id : ~Rest(<<>>, style, a, plan, id, 0)
<1> DEFINE n == Spoken(style, plan)
           q == Partials(style, plan)
<1>1. n \in Nat /\ q \in Nat
  BY Lengths
<1>2. Fragments(style, plan, 0) = IF plan.how = "deltas" /\ 0 > n THEN 0 - n ELSE 0
  BY DEF Fragments
<1> HIDE DEF n, q
<1>3. ~(0 > n) /\ ~(0 > q) /\ 0 <= q
  BY <1>1
<1>4. ASSUME NEW a, NEW id, Rest(<<>>, style, a, plan, id, 0) PROVE FALSE
  <2>1. 0 > Partials(style, plan)
    BY <1>4, RestNothing
  <2> QED
    BY <1>3, <2>1 DEF q
<1> QED
  BY <1>2, <1>3, <1>4 DEF q

\* An answer begins: the client forgets the text it has.
LEMMA BeginHears ==
  ASSUME conf.style \in Styles, NEW tr \in Translators, NEW v \in Heards,
         NEW todos, todos = [a \in Agents |-> todos[a]], NEW plans \in Seq(Plans), Len(plans) < MaxAnswers,
         NEW who \in Positions, NEW pos \in Positions, Hearing(tr, v, todos, plans, who, pos),
         NEW a \in Agents, NEW plan \in Plans, todos[a] = <<>>, conf.parallel \/ \A b \in Agents : todos[b] = <<>>
  PROVE  LET n == Len(plans) + 1
             w == [v EXCEPT !.text = <<>>, !.thought = <<>>]
         IN /\ w \in Heards
            /\ \E who2, pos2 \in Positions :
                 Hearing(tr, w, [todos EXCEPT ![a] = Answer(a, plan, n)], Append(plans, plan), who2, pos2)
<1> DEFINE k == Len(plans)
           n == k + 1
           w == [v EXCEPT !.text = <<>>, !.thought = <<>>]
           s == Answer(a, plan, n)
           new == [todos EXCEPT ![a] = s]
           all == Append(plans, plan)
           who2 == [who EXCEPT ![a] = n]
           pos2 == [pos EXCEPT ![a] = 0]
<1>1. /\ k \in Nat /\ n \in Nat /\ n <= MaxAnswers /\ n \in 1..MaxAnswers
  BY EventTranslatorAssumption, LenProperties
<1>2. /\ all \in Seq(Plans) /\ Len(all) = n /\ all[n] = plan /\ \A i \in 1..k : all[i] = plans[i]
      /\ all # <<>>
  <2>1. all \in Seq(Plans) /\ Len(all) = n /\ all[n] = plan /\ \A i \in 1..k : all[i] = plans[i]
    BY AppendProperties
  <2>2. Len(<<>>) = 0
    OBVIOUS
  <2> HIDE DEF all
  <2> QED
    BY <1>1, <2>1, <2>2
<1>3. w \in Heards /\ w.text = <<>> /\ w.thought = <<>> /\ w.args = v.args /\ w.calls = v.calls
  BY EmptyText DEF Heards
<1>4. /\ who2 \in Positions /\ pos2 \in Positions /\ who2[a] = n /\ pos2[a] = 0
      /\ \A b \in Agents : b # a => who2[b] = who[b] /\ pos2[b] = pos[b]
  BY <1>1 DEF Positions
<1>5. new[a] = s /\ \A b \in Agents : b # a => new[b] = todos[b]
  OBVIOUS
<1>6. Rest(s, conf.style, a, plan, n, 0) /\ s # <<>>
  <2>1. Rest(s, conf.style, a, plan, n, 0)
    BY <1>1, AnswerRests
  <2>2. s # <<>>
    <3> DEFINE x == s
    <3>1. Rest(x, conf.style, a, plan, n, 0)
      BY <2>1
    <3> HIDE DEF x, n
    <3>2. x # <<>>
      BY <3>1, NoneYet
    <3> QED
      BY <3>2 DEF x
  <2> QED
    BY <2>1, <2>2
<1> HIDE DEF n, w, s, new, all, who2, pos2
<1>7. n \notin v.calls /\ n \notin tr.hadArgs /\ v.args[n] = <<>>
  <2>1. n > k
    BY <1>1 DEF n
  <2> QED
    BY <1>1, <2>1 DEF Hearing, Unasked
<1>8. CallSo(tr, w, plan, n, 0)
  <2>1. Fragments(conf.style, plan, 0) = 0 /\ 0 <= Partials(conf.style, plan) /\ ~(0 > Partials(conf.style, plan))
    BY NoneYet
  <2>2. SubSeq(Args, 1, 0) = <<>>
    BY ArgsAreText, Extremes
  <2>3. CallUnderWay(tr, w, plan, n, 0)
    BY <1>3, <1>7, <2>1, <2>2 DEF CallUnderWay
  <2> QED
    BY <2>1, <2>3 DEF CallSo
<1>9. \A x, i, p : (CallSo(tr, v, x, i, p) => CallSo(tr, w, x, i, p)) /\ (CallDone(v, x, i) => CallDone(w, x, i))
  BY <1>3 DEF CallSo, CallUnderWay, CallDone
<1>10. \A b \in Agents : todos[b] # <<>> => who[b] \in 1..k /\ who[b] \in 1..n /\ who[b] # n
  <2>1. \A i \in 1..k : i \in 1..n /\ i # n
    BY <1>1 DEF n
  <2> QED
    BY <2>1 DEF Hearing, Answering
<1>11. Answering(tr, w, new, all, who2, pos2)
  <2> SUFFICES ASSUME NEW b \in Agents, new[b] # <<>>
               PROVE  /\ who2[b] \in 1..Len(all)
                      /\ Rest(new[b], conf.style, b, all[who2[b]], who2[b], pos2[b])
                      /\ CallSo(tr, w, all[who2[b]], who2[b], pos2[b])
    BY DEF Answering
  <2>1. CASE b = a
    <3>1. n \in 1..n
      BY <1>1
    <3> QED
      BY <1>2, <1>4, <1>5, <1>6, <1>8, <2>1, <3>1
  <2>2. CASE b # a
    <3>1. new[b] = todos[b] /\ who2[b] = who[b] /\ pos2[b] = pos[b]
      BY <1>4, <1>5, <2>2
    <3>2. /\ who[b] \in 1..k /\ all[who[b]] = plans[who[b]] /\ who[b] \in 1..n
          /\ Rest(todos[b], conf.style, b, plans[who[b]], who[b], pos[b])
          /\ CallSo(tr, v, plans[who[b]], who[b], pos[b])
      BY <1>2, <1>10, <3>1 DEF Hearing, Answering
    <3> QED
      BY <1>2, <1>9, <3>1, <3>2
  <2> QED
    BY <2>1, <2>2
<1>12. Apart(new, who2)
  <2> SUFFICES ASSUME NEW b \in Agents, NEW c \in Agents, b # c, new[b] # <<>>, new[c] # <<>>
               PROVE  conf.parallel /\ who2[b] # who2[c]
    BY DEF Apart
  <2>1. CASE b # a /\ c # a
    BY <1>4, <1>5, <2>1 DEF Hearing, Apart
  <2>2. CASE b = a
    <3>1. todos[c] # <<>> /\ who2[c] = who[c]
      BY <1>4, <1>5, <2>2
    <3> QED
      BY <1>4, <1>10, <2>2, <3>1
  <2>3. CASE c = a
    <3>1. todos[b] # <<>> /\ who2[b] = who[b]
      BY <1>4, <1>5, <2>3
    <3> QED
      BY <1>4, <1>10, <2>3, <3>1
  <2> QED
    BY <2>1, <2>2, <2>3
<1>13. Answers(w, new, all, who2)
  <2> SUFFICES ASSUME NEW i \in 1..Len(all), \A b \in Agents : new[b] # <<>> => who2[b] # i
               PROVE  CallDone(w, all[i], i)
    BY DEF Answers
  <2>1. i # n
    BY <1>4, <1>5, <1>6
  <2>2. i \in 1..k /\ all[i] = plans[i]
    <3>1. i \in 1..k
      BY <1>1, <1>2, <2>1 DEF n
    <3> QED
      BY <1>2, <3>1
  <2>3. \A b \in Agents : todos[b] # <<>> => who[b] # i
    BY <1>4, <1>5
  <2> QED
    BY <1>9, <2>2, <2>3 DEF Hearing, Answers
<1>14. Unasked(tr, w, Len(all))
  <2>1. \A i \in 1..MaxAnswers : i > n => i > k
    BY <1>1 DEF n
  <2> QED
    BY <1>2, <1>3, <2>1 DEF Hearing, Unasked
<1>15. Words(tr, w, new, all, who2, pos2)
  <2> SUFFICES ASSUME ~conf.parallel, conf.style # "chat"
               PROVE  /\ \A b \in Agents : new[b] # <<>> => who2[b] = n /\ WordsSo(tr, w, plan, pos2[b])
                      /\ ~(\A b \in Agents : new[b] = <<>>)
    BY <1>2 DEF Words
  <2>1. \A b \in Agents : todos[b] = <<>>
    OBVIOUS
  <2>2. Silence(tr) /\ Before(tr) = <<>> /\ BeforeThought(tr) = <<>>
    BY <2>1 DEF Hearing, Words, Silence, Before, BeforeThought
  <2>3. SoFar(plan.text, <<>>, 0) /\ SoFar(plan.thought, <<>>, 0)
    BY PlanFacts, NothingSaid
  <2>4. 0 <= Partials(conf.style, plan) /\ ~(0 > Partials(conf.style, plan))
    BY NoneYet
  <2>5. WordsSo(tr, w, plan, 0)
    BY <1>3, <2>2, <2>3, <2>4 DEF WordsSo, WordsUnderWay
  <2> QED
    BY <1>4, <1>5, <1>6, <2>1, <2>5
<1>16. Hearing(tr, w, new, all, who2, pos2)
  BY <1>11, <1>12, <1>13, <1>14, <1>15 DEF Hearing
<1>17. \E x, y \in Positions : Hearing(tr, w, new, all, x, y)
  BY <1>4, <1>16
<1> QED
  BY <1>3, <1>17 DEF n, w, s, new, all

\* An event of an agent is translated.
LEMMA HandleHears ==
  ASSUME BuiltinsComeWhole, conf.style \in Styles, NEW tr \in Translators, NEW v \in Heards,
         NEW todos, todos = [a \in Agents |-> todos[a]], NEW plans \in Seq(Plans), plans = asked, Len(plans) <= MaxAnswers,
         NEW who \in Positions, NEW pos \in Positions, Hearing(tr, v, todos, plans, who, pos),
         NEW a \in Agents, todos[a] # <<>>
  PROVE  LET u == Translate(tr, Head(todos[a]))
         IN \E w \in Heards :
              /\ Goes(tr, v, u, w)
              /\ \E who2, pos2 \in Positions : Hearing(u, w, [todos EXCEPT ![a] = Tail(@)], plans, who2, pos2)
<1> DEFINE k == Len(plans)
           id == who[a]
           p == pos[a]
           plan == plans[who[a]]
           ev == Head(todos[a])
           s == Tail(todos[a])
           u == Translate(tr, ev)
           new == [todos EXCEPT ![a] = Tail(@)]
           pos2 == [pos EXCEPT ![a] = p + 1]
<1>1. k \in Nat /\ \A i \in 1..k : i \in 1..MaxAnswers /\ plans[i] \in Plans
  BY EventTranslatorAssumption, LenProperties, ElementOfSeq
<1>2. /\ id \in 1..k /\ Rest(todos[a], conf.style, a, plan, id, p) /\ CallSo(tr, v, plan, id, p)
  BY DEF Hearing, Answering
<1>3. plan \in Plans /\ id \in 1..MaxAnswers /\ p \in Nat /\ p + 1 \in Nat /\ Holds(id, plan)
  BY <1>1, <1>2 DEF Positions, Holds
<1>4. Comes(ev, conf.style, a, plan, id, p + 1) /\ Rest(s, conf.style, a, plan, id, p + 1)
  BY <1>2, <1>3, RestHead
<1>5. pos2 \in Positions /\ pos2[a] = p + 1 /\ \A b \in Agents : b # a => pos2[b] = pos[b]
  BY <1>3 DEF Positions
<1>6. new[a] = s /\ \A b \in Agents : b # a => new[b] = todos[b]
  OBVIOUS
<1> HIDE DEF ev, s
<1>7. PICK w \in Heards : EventGoes(tr, v, u, w, plan, id, p)
  BY <1>3, <1>4, EventTold
<1> HIDE DEF u, new, pos2, id, p, plan, k
<1>8. /\ Goes(tr, v, u, w) /\ Others(tr, u, v, w, id) /\ CallSo(u, w, plan, id, p + 1)
      /\ conf.style # "chat" /\ WordsSo(tr, v, plan, p) => WordsSo(u, w, plan, p + 1)
  BY <1>2, <1>7 DEF EventGoes
<1>9. s = <<>> => p + 1 > Partials(conf.style, plan)
  BY <1>3, <1>4, RestNothing
<1>10. \A b \in Agents : new[b] # <<>> => todos[b] # <<>>
  BY <1>6
<1>11. \A b \in Agents : b # a /\ todos[b] # <<>> => conf.parallel /\ who[b] # id
  BY DEF Hearing, Apart, id
<1>12. Answering(u, w, new, plans, who, pos2)
  <2> SUFFICES ASSUME NEW b \in Agents, new[b] # <<>>
               PROVE  /\ who[b] \in 1..k
                      /\ Rest(new[b], conf.style, b, plans[who[b]], who[b], pos2[b])
                      /\ CallSo(u, w, plans[who[b]], who[b], pos2[b])
    BY DEF Answering, k
  <2>1. CASE b = a
    BY <1>2, <1>4, <1>5, <1>6, <1>8, <2>1 DEF id, plan
  <2>2. CASE b # a
    <3>1. /\ new[b] = todos[b] /\ todos[b] # <<>> /\ pos2[b] = pos[b] /\ who[b] # id
      BY <1>5, <1>6, <1>11, <2>2
    <3>2. /\ who[b] \in 1..k
          /\ Rest(todos[b], conf.style, b, plans[who[b]], who[b], pos[b])
          /\ CallSo(tr, v, plans[who[b]], who[b], pos[b])
      BY <3>1 DEF Hearing, Answering, k
    <3>3. CallSo(u, w, plans[who[b]], who[b], pos[b])
      BY <1>1, <1>8, <3>1, <3>2, OthersKeep
    <3> QED
      BY <3>1, <3>2, <3>3
  <2> QED
    BY <2>1, <2>2
<1>13. Apart(new, who)
  BY <1>10 DEF Hearing, Apart
<1>14. Answers(w, new, plans, who)
  <2> SUFFICES ASSUME NEW i \in 1..k, \A b \in Agents : new[b] # <<>> => who[b] # i
               PROVE  CallDone(w, plans[i], i)
    BY DEF Answers, k
  <2>1. CASE i = id
    <3>1. s = <<>>
      BY <1>6, <2>1 DEF id
    <3>2. CallDone(w, plan, id)
      BY <1>8, <1>9, <3>1 DEF CallSo
    <3> QED
      BY <2>1, <3>2 DEF id, plan
  <2>2. CASE i # id
    <3>1. \A b \in Agents : todos[b] # <<>> => who[b] # i
      BY <1>6, <2>2 DEF id
    <3>2. CallDone(v, plans[i], i)
      BY <3>1 DEF Hearing, Answers, k
    <3> QED
      BY <1>1, <1>8, <2>2, <3>2, OthersKeep
  <2> QED
    BY <2>1, <2>2
<1>15. Unasked(u, w, Len(plans))
  <2> SUFFICES ASSUME NEW i \in 1..MaxAnswers, i > k
               PROVE  i \notin w.calls /\ i \notin u.hadArgs /\ w.args[i] = <<>>
    BY DEF Unasked, k
  <2>1. i # id
    BY <1>1, <1>2, EventTranslatorAssumption
  <2>2. i \notin v.calls /\ i \notin tr.hadArgs /\ v.args[i] = <<>>
    BY DEF Hearing, Unasked, k
  <2> QED
    BY <1>8, <2>1, <2>2 DEF Others
<1>16. Words(u, w, new, plans, who, pos2)
  <2> SUFFICES ASSUME ~conf.parallel, conf.style # "chat"
               PROVE  /\ \A b \in Agents : new[b] # <<>> => who[b] = k /\ WordsSo(u, w, plans[k], pos2[b])
                      /\ (\A b \in Agents : new[b] = <<>>) =>
                           Silence(u) /\ (plans # <<>> /\ TextIsFine(plans[k]) => WordsDone(w, plans[k]))
    BY DEF Words, k
  <2>1. who[a] = k /\ WordsSo(tr, v, plans[k], pos[a])
    BY DEF Hearing, Words, k
  <2>2. WordsSo(u, w, plans[k], p + 1)
    BY <1>8, <2>1 DEF plan, p
  <2>3. \A b \in Agents : new[b] # <<>> => b = a
    BY <1>10, <1>11
  <2>4. (\A b \in Agents : new[b] = <<>>) => p + 1 > Partials(conf.style, plans[k])
    BY <1>6, <1>9, <2>1 DEF plan
  <2> QED
    BY <1>5, <2>1, <2>2, <2>3, <2>4 DEF WordsSo
<1>17. Hearing(u, w, new, plans, who, pos2)
  BY <1>12, <1>13, <1>14, <1>15, <1>16 DEF Hearing
<1>18. \E x, y \in Positions : Hearing(u, w, new, plans, x, y)
  BY <1>5, <1>17
<1> QED
  BY <1>8, <1>18 DEF u, ev, new

-----------------------------------------------------------------------------
(* The invariant of what the client has put together.                      *)

\* What the client has now, and what its record of it is made of.
Now == [text |-> heard.text, thought |-> heard.thought, args |-> heard.args,
        calls |-> {id \in Nat : [kind |-> "tool", id |-> id] \in begun}]
Records == [text : Text, thought : Text, args : [1..MaxAnswers -> Text]]

\* What has been said and is not received yet leads the client to what it should have after the
\* events of the answers that have been translated.
HearInv ==
  /\ Len(asked) <= MaxAnswers
  /\ looping /\ clean =>
       /\ heard \in Records
       /\ \E v \in Heards, who, pos \in Positions : Told(Now, t.out, v) /\ Hearing(t, v, todo, asked, who, pos)

\* What the client has is something a client may have.
LEMMA NowIsHeard ==
  ASSUME heard \in Records
  PROVE  Now \in Heards
BY DEF Records, Now, Heards

\* Hearing mentions the setup of the run, which never changes.
LEMMA HearingOn ==
  ASSUME conf' = conf, NEW v, NEW who, NEW pos, Hearing(t', v, todo', asked', who, pos)
  PROVE  Hearing(t, v, todo, asked, who, pos)'
BY DEF Hearing, Answering, Apart, Answers, Unasked, Words, CallSo, CallDone, CallUnderWay, Seen, ServerSide,
       WordsSo, WordsDone, WordsUnderWay, TextIsFine, Silence, Rest, Comes

\* The client knows no more of the translator than its events.
LEMMA HearingSame ==
  ASSUME NEW tr, NEW u, SameText(tr, u), SameThought(tr, u), SameHad(tr, u),
         NEW v, NEW todos, NEW plans, NEW who, NEW pos, Hearing(tr, v, todos, plans, who, pos)
  PROVE  Hearing(u, v, todos, plans, who, pos)
<1>1. Before(u) = Before(tr) /\ BeforeThought(u) = BeforeThought(tr) /\ (Silence(tr) => Silence(u))
  BY DEF Before, BeforeThought, Silence, SameText, SameThought
<1>2. u.hadArgs = tr.hadArgs
  BY DEF SameHad
<1>3. \A x, i, p : CallSo(tr, v, x, i, p) => CallSo(u, v, x, i, p)
  BY <1>2 DEF CallSo, CallUnderWay
<1>4. \A x, p : WordsSo(tr, v, x, p) => WordsSo(u, v, x, p)
  BY <1>1 DEF WordsSo, WordsUnderWay
<1>5. Answering(u, v, todos, plans, who, pos)
  BY <1>3 DEF Hearing, Answering
<1>6. Unasked(u, v, Len(plans))
  BY <1>2 DEF Hearing, Unasked
<1>7. Words(u, v, todos, plans, who, pos)
  BY <1>1, <1>4 DEF Hearing, Words
<1> QED
  BY <1>5, <1>6, <1>7 DEF Hearing

\* Taking an event does to what the client has what Took says.
LEMMA DeliverTakes ==
  ASSUME Inv, Deliver, heard \in Records, NEW v \in Heards, Told(Now, t.out, v)
  PROVE  heard' \in Records /\ Now' = Took(Now, Head(t.out)) /\ Told(Now', Tail(t.out), v)
<1> DEFINE e == Head(t.out)
<1>1. t.out # <<>> /\ t.out \in Seq(Events)
  BY DeliverIs DEF Inv, Translators
<1>2. /\ e \in Events /\ heard' = Hear(e)
      /\ begun' = (IF e.op = "start" THEN begun \cup {Protocol!Block(e)} ELSE begun)
  BY DeliverIs DEF Deliver
<1>3. Clear(e) /\ Took(Now, e) \in Heards /\ Told(Took(Now, e), Tail(t.out), v)
  BY <1>1, NowIsHeard, ToldHead
<1> HIDE DEF e
<1>4. e.id \in Nat /\ Protocol!Block(e) = [kind |-> e.kind, id |-> e.id]
  BY <1>2 DEF Events, Protocol!Event, Protocol!Block
<1>5. {id \in Nat : [kind |-> "tool", id |-> id] \in begun'}
        = (IF e.op = "start" /\ e.kind = "tool" THEN Now.calls \cup {e.id} ELSE Now.calls)
  <2>1. \A id \in Nat : [kind |-> "tool", id |-> id] = Protocol!Block(e) <=> e.kind = "tool" /\ id = e.id
    BY <1>4
  <2>2. Now.calls = {id \in Nat : [kind |-> "tool", id |-> id] \in begun}
    BY DEF Now
  <2> HIDE DEF Now
  <2> QED
    BY <1>2, <1>4, <2>1, <2>2
<1>6. Now' = [text |-> heard'.text, thought |-> heard'.thought, args |-> heard'.args,
              calls |-> {id \in Nat : [kind |-> "tool", id |-> id] \in begun'}]
  BY DEF Now
<1>7. heard = [text |-> heard.text, thought |-> heard.thought, args |-> heard.args]
  BY DEF Records
<1>8. Now' = Took(Now, e)
  <2>1. CASE e.op = "content" /\ e.kind = "text"
    <3>1. heard' = [heard EXCEPT !.text = @ \o e.data]
      BY <1>2, <2>1 DEF Hear
    <3>2. Took(Now, e) = [Now EXCEPT !.text = @ \o e.data]
      BY <2>1 DEF Took
    <3> QED
      BY <1>5, <1>6, <1>7, <2>1, <3>1, <3>2 DEF Now
  <2>2. CASE e.op = "content" /\ e.kind = "reasoning"
    <3>1. heard' = [heard EXCEPT !.thought = @ \o e.data]
      BY <1>2, <2>2 DEF Hear
    <3>2. Took(Now, e) = [Now EXCEPT !.thought = @ \o e.data]
      BY <2>2 DEF Took
    <3> QED
      BY <1>5, <1>6, <1>7, <2>2, <3>1, <3>2 DEF Now
  <2>3. CASE e.op = "content" /\ e.kind = "tool"
    <3>1. heard' = IF e.id \in 1..MaxAnswers THEN [heard EXCEPT !.args[e.id] = @ \o e.data] ELSE heard
      BY <1>2, <2>3 DEF Hear
    <3>5. heard.args \in [1..MaxAnswers -> Text] /\ (e.id \notin 1..MaxAnswers => Longer(heard.args, e) = heard.args)
      BY DEF Longer, Records
    <3>2. heard'.args = Longer(heard.args, e) /\ heard'.text = heard.text /\ heard'.thought = heard.thought
      BY <1>7, <3>1, <3>5 DEF Longer
    <3>3. Took(Now, e) = [Now EXCEPT !.args = Longer(Now.args, e)]
      BY <2>3 DEF Took
    <3>4. Took(Now, e) = [text |-> heard.text, thought |-> heard.thought, args |-> Longer(heard.args, e), calls |-> Now.calls]
      BY <3>3 DEF Now
    <3> QED
      BY <1>5, <1>6, <2>3, <3>2, <3>4
  <2>4. CASE e.op # "content"
    <3>1. heard' = heard
      BY <1>2, <2>4 DEF Hear
    <3>2. Took(Now, e) = IF e.op = "start" /\ e.kind = "tool" THEN [Now EXCEPT !.calls = @ \cup {e.id}] ELSE Now
      BY <2>4 DEF Took
    <3>3. Now.text = heard.text /\ Now.thought = heard.thought /\ Now.args = heard.args
      BY DEF Now
    <3>4. Now = [text |-> Now.text, thought |-> Now.thought, args |-> Now.args, calls |-> Now.calls]
      BY DEF Now
    <3> HIDE DEF Now
    <3>5. CASE e.op = "start" /\ e.kind = "tool"
      BY <1>5, <1>6, <3>1, <3>2, <3>3, <3>4, <3>5
    <3>6. CASE ~(e.op = "start" /\ e.kind = "tool")
      BY <1>5, <1>6, <3>1, <3>2, <3>3, <3>4, <3>6
    <3> QED
      BY <3>5, <3>6
  <2> QED
    BY <1>3, <2>1, <2>2, <2>3, <2>4 DEF Clear
<1>9. heard' \in Records
  <2>1. heard'.text = Took(Now, e).text /\ heard'.thought = Took(Now, e).thought /\ heard'.args = Took(Now, e).args
    BY <1>6, <1>8
  <2>2. heard' = [text |-> heard'.text, thought |-> heard'.thought, args |-> heard'.args]
    BY <1>2, <1>3, <1>7 DEF Hear, Clear
  <2>3. heard'.text \in Text /\ heard'.thought \in Text /\ heard'.args \in [1..MaxAnswers -> Text]
    BY <1>3, <2>1 DEF Heards
  <2> QED
    BY <2>2, <2>3 DEF Records
<1> QED
  BY <1>3, <1>8, <1>9 DEF e

\* Nothing has been said and nothing heard.
LEMMA InitHears ==
  ASSUME Init
  PROVE  HearInv
<1> DEFINE f == [a \in Agents |-> 0]
           none == [id \in 1..MaxAnswers |-> <<>>]
<1>1. Len(<<>>) = 0 /\ 1..0 = {} /\ MaxAnswers \in Nat
  BY EventTranslatorAssumption
<1>2. /\ asked = <<>> /\ todo = [a \in Agents |-> <<>>] /\ t = newEventTranslator /\ begun = {}
      /\ heard = [text |-> <<>>, thought |-> <<>>, args |-> none]
  BY DEF Init, Protocol!Init
<1>3. none \in [1..MaxAnswers -> Text]
  BY EmptyText
<1>4. heard \in Records
  BY <1>2, <1>3, EmptyText DEF Records
<1>5. Now.calls = {} /\ Now.args = none
  BY <1>2 DEF Now
<1>6. Now \in Heards
  BY <1>4, NowIsHeard
<1>7. t.out = <<>> /\ t.msg = None /\ t.reasoning = None /\ t.hadArgs = {}
  BY <1>2 DEF newEventTranslator
<1>8. Told(Now, t.out, Now)
  BY <1>6, <1>7, ToldNothing
<1>9. f \in Positions
  BY DEF Positions
<1>10. Len(asked) = 0 /\ Len(asked) <= MaxAnswers
  BY <1>1, <1>2
<1> HIDE DEF f
<1>11. Hearing(t, Now, todo, asked, f, f)
  <2>1. \A a \in Agents : todo[a] = <<>>
    BY <1>2
  <2>2. Answering(t, Now, todo, asked, f, f) /\ Apart(todo, f)
    BY <2>1 DEF Answering, Apart
  <2>3. Answers(Now, todo, asked, f)
    BY <1>1, <1>10 DEF Answers
  <2>4. Unasked(t, Now, Len(asked))
    <3>1. \A i \in 1..MaxAnswers : none[i] = <<>>
      OBVIOUS
    <3> QED
      BY <1>5, <1>7, <1>10, <3>1 DEF Unasked
  <2>5. Words(t, Now, todo, asked, f, f)
    BY <1>2, <1>7, <2>1 DEF Words, Silence
  <2> QED
    BY <2>2, <2>3, <2>4, <2>5 DEF Hearing
<1> QED
  BY <1>4, <1>6, <1>8, <1>9, <1>10, <1>11 DEF HearInv

\* Every step keeps it.
LEMMA StepKeepsHearing ==
  ASSUME BuiltinsComeWhole, Inv, HearInv, [Next]_vars
  PROVE  HearInv'
<1>1. /\ conf.style \in Styles /\ asked \in Seq(Plans) /\ todo = [a \in Agents |-> todo[a]]
      /\ t \in Translators /\ Len(asked) \in Nat /\ Len(asked) <= MaxAnswers
  BY EventTranslatorAssumption, LenProperties DEF Inv, HearInv, ConfigType
<1>2. looping /\ clean => heard \in Records /\ Now \in Heards
  BY NowIsHeard DEF HearInv
<1>3. ASSUME NEW a \in Agents, NEW plan \in Plans, Begin(a, plan)
      PROVE  HearInv'
  <2>1. /\ looping /\ t.out = <<>> /\ todo[a] = <<>> /\ (conf.parallel \/ Idle) /\ Len(asked) < MaxAnswers
        /\ asked' = Append(asked, plan) /\ todo' = [todo EXCEPT ![a] = Answer(a, plan, Len(asked) + 1)]
        /\ heard' = [heard EXCEPT !.text = <<>>, !.thought = <<>>]
        /\ conf' = conf /\ t' = t /\ looping' = looping /\ clean' = clean /\ begun' = begun
    BY <1>3 DEF Begin, Quiet
  <2>2. Len(asked') <= MaxAnswers
    <3>1. Len(Append(asked, plan)) = Len(asked) + 1
      BY <1>1, AppendProperties
    <3> QED
      BY <1>1, <2>1, <3>1, EventTranslatorAssumption
  <2>3. ASSUME looping', clean'
        PROVE  /\ heard' \in Records
               /\ (\E v \in Heards, who, pos \in Positions : Told(Now, t.out, v) /\ Hearing(t, v, todo, asked, who, pos))'
    <3>1. heard \in Records /\ Now \in Heards
      BY <1>2, <2>1, <2>3
    <3>2. PICK v \in Heards, who \in Positions, pos \in Positions : Told(Now, t.out, v) /\ Hearing(t, v, todo, asked, who, pos)
      BY <2>1, <2>3 DEF HearInv
    <3>3. v = Now
      BY <2>1, <3>1, <3>2, ToldNothing
    <3> DEFINE w == [v EXCEPT !.text = <<>>, !.thought = <<>>]
    <3>4. w \in Heards /\ \E x, y \in Positions : Hearing(t, w, todo', asked', x, y)
      BY <1>1, <2>1, <3>2, BeginHears DEF Idle
    <3>5. heard' \in Records
      BY <2>1, <3>1, EmptyText DEF Records
    <3>6. Now' = w
      <4>1. Now' = [text |-> heard'.text, thought |-> heard'.thought, args |-> heard'.args,
                    calls |-> {id \in Nat : [kind |-> "tool", id |-> id] \in begun'}]
        BY DEF Now
      <4>2. heard'.text = <<>> /\ heard'.thought = <<>> /\ heard'.args = heard.args
        BY <2>1, <3>1 DEF Records
      <4>3. w = [text |-> <<>>, thought |-> <<>>, args |-> Now.args, calls |-> Now.calls]
        <5>1. v.args = Now.args /\ v.calls = Now.calls
          BY <3>3
        <5>2. w \in Heards /\ w.text = <<>> /\ w.thought = <<>> /\ w.args = v.args /\ w.calls = v.calls
          BY EmptyText DEF Heards
        <5> HIDE DEF w
        <5>3. w = [text |-> w.text, thought |-> w.thought, args |-> w.args, calls |-> w.calls]
          BY <5>2 DEF Heards
        <5> QED
          BY <5>1, <5>2, <5>3
      <4>4. Now.args = heard.args /\ Now.calls = {id \in Nat : [kind |-> "tool", id |-> id] \in begun}
        BY DEF Now
      <4> HIDE DEF w, Now
      <4> QED
        BY <2>1, <4>1, <4>2, <4>3, <4>4
    <3> HIDE DEF w
    <3>7. Told(Now', t'.out, w)
      BY <2>1, <3>4, <3>6, ToldNothing
    <3>8. PICK x \in Positions, y \in Positions : Hearing(t', w, todo', asked', x, y)
      BY <2>1, <3>4
    <3>9. Hearing(t, w, todo, asked, x, y)'
      BY <2>1, <3>8, HearingOn
    <3> QED
      BY <3>4, <3>5, <3>7, <3>9
  <2> QED
    BY <2>2, <2>3 DEF HearInv
<1>4. ASSUME NEW a \in Agents, HandleEvent(a)
      PROVE  HearInv'
  <2> DEFINE u == Translate(t, Head(todo[a]))
  <2>1. /\ looping /\ t.out = <<>> /\ todo[a] # <<>>
        /\ looping' => t' = u
        /\ todo' = [todo EXCEPT ![a] = Tail(@)]
        /\ asked' = asked /\ heard' = heard /\ conf' = conf /\ clean' = clean /\ begun' = begun
    BY <1>4 DEF HandleEvent, Quiet, client
  <2>2. Now' = Now
    BY <2>1 DEF Now
  <2>3. ASSUME looping', clean'
        PROVE  (\E v \in Heards, who, pos \in Positions : Told(Now, t.out, v) /\ Hearing(t, v, todo, asked, who, pos))'
    <3>1. PICK v \in Heards, who \in Positions, pos \in Positions : Told(Now, t.out, v) /\ Hearing(t, v, todo, asked, who, pos)
      BY <2>1, <2>3 DEF HearInv
    <3>2. PICK w \in Heards : /\ Goes(t, v, u, w)
                              /\ \E x, y \in Positions : Hearing(u, w, todo', asked, x, y)
      BY <1>1, <2>1, <3>1, HandleHears
    <3> HIDE DEF u
    <3>3. Told(Now', t'.out, w)
      BY <1>2, <2>1, <2>2, <2>3, <3>1, <3>2 DEF Goes
    <3>4. PICK x \in Positions, y \in Positions : Hearing(t', w, todo', asked', x, y)
      BY <2>1, <2>3, <3>2
    <3>5. Hearing(t, w, todo, asked, x, y)'
      BY <2>1, <3>4, HearingOn
    <3> QED
      BY <3>3, <3>5
  <2> QED
    BY <1>1, <1>2, <2>1, <2>3 DEF HearInv
<1>5. ASSUME Deliver
      PROVE  HearInv'
  <2>1. /\ t' = [t EXCEPT !.out = Tail(@)] /\ conf' = conf /\ looping' = looping /\ todo' = todo /\ asked' = asked
        /\ clean' = clean
    BY <1>5 DEF Deliver
  <2>2. ASSUME looping', clean'
        PROVE  /\ heard' \in Records
               /\ (\E v \in Heards, who, pos \in Positions : Told(Now, t.out, v) /\ Hearing(t, v, todo, asked, who, pos))'
    <3>1. PICK v \in Heards, who \in Positions, pos \in Positions : Told(Now, t.out, v) /\ Hearing(t, v, todo, asked, who, pos)
      BY <2>1, <2>2 DEF HearInv
    <3>2. heard' \in Records /\ Told(Now', Tail(t.out), v)
      BY <1>2, <1>5, <2>1, <2>2, <3>1, DeliverTakes
    <3>3. t'.out = Tail(t.out) /\ SameText(t, t') /\ SameThought(t, t') /\ SameHad(t, t')
      BY <1>1, <2>1 DEF Translators, SameText, SameThought, SameHad
    <3>4. Hearing(t', v, todo', asked', who, pos)
      BY <2>1, <3>1, <3>3, HearingSame
    <3>5. Hearing(t, v, todo, asked, who, pos)'
      BY <2>1, <3>4, HearingOn
    <3>6. Told(Now, t.out, v)'
      BY <3>2, <3>3
    <3> QED
      BY <3>2, <3>5, <3>6
  <2> QED
    BY <1>1, <2>1, <2>2 DEF HearInv
<1>6. ASSUME NEW a \in Agents, ModelFails(a)
      PROVE  HearInv'
  BY <1>1, <1>6 DEF ModelFails, HearInv
<1>7. ASSUME RunnerFails \/ RunnerDone
      PROVE  HearInv'
  BY <1>1, <1>7 DEF RunnerFails, RunnerDone, HearInv
<1>8. ASSUME UNCHANGED vars
      PROVE  HearInv'
  <2>1. /\ t' = t /\ conf' = conf /\ looping' = looping /\ todo' = todo /\ asked' = asked /\ clean' = clean
        /\ heard' = heard /\ begun' = begun
    BY <1>8 DEF vars, client
  <2>2. Now' = Now
    BY <2>1 DEF Now
  <2>3. ASSUME looping', clean'
        PROVE  (\E v \in Heards, who, pos \in Positions : Told(Now, t.out, v) /\ Hearing(t, v, todo, asked, who, pos))'
    <3>1. PICK v \in Heards, who \in Positions, pos \in Positions : Told(Now, t.out, v) /\ Hearing(t, v, todo, asked, who, pos)
      BY <2>1, <2>3 DEF HearInv
    <3>2. Hearing(t', v, todo', asked', who, pos)
      BY <2>1, <3>1
    <3>3. Hearing(t, v, todo, asked, who, pos)'
      BY <2>1, <3>2, HearingOn
    <3>4. Told(Now, t.out, v)'
      BY <2>1, <2>2, <3>1
    <3> QED
      BY <3>3, <3>4
  <2> QED
    BY <1>1, <1>2, <2>1, <2>3 DEF HearInv
<1> QED
  BY <1>3, <1>4, <1>5, <1>6, <1>7, <1>8 DEF Next

\* The invariant always holds.
LEMMA AlwaysHearing ==
  ASSUME BuiltinsComeWhole
  PROVE  Spec => []HearInv
<1>1. Init => HearInv
  BY InitHears
<1>2. Inv /\ HearInv /\ [Next]_vars => HearInv'
  BY StepKeepsHearing
<1> QED
  BY <1>1, <1>2, AlwaysInv, PTL DEF Spec

\* When all is delivered, the client has what it should have of what was asked.
LEMMA QuietHears ==
  ASSUME Inv, HearInv, Quiet, Idle, clean
  PROVE  \E who, pos \in Positions : Hearing(t, Now, todo, asked, who, pos)
<1>1. looping /\ clean /\ t.out = <<>> /\ Now \in Heards
  BY NowIsHeard DEF Quiet, HearInv
<1>2. PICK v \in Heards, who \in Positions, pos \in Positions : Told(Now, t.out, v) /\ Hearing(t, v, todo, asked, who, pos)
  BY <1>1 DEF HearInv
<1>3. v = Now
  BY <1>1, <1>2, ToldNothing
<1> QED
  BY <1>2, <1>3

-----------------------------------------------------------------------------
(* The theorems about what the client has put together.                    *)

\* The client has the arguments of every call it was told of once, whether they were streamed, came
\* with the final event, or both, and however many agents call tools at once, as long as calls
\* that the provider executes come whole (emitFunctionCall, hadPartialArgs).
THEOREM ArgsAlwaysArriveOnce ==
  ASSUME BuiltinsComeWhole
  PROVE  Spec => []ArgsArriveOnce
<1>1. ASSUME Inv, HearInv
      PROVE  ArgsArriveOnce
  <2> SUFFICES ASSUME Quiet, Idle, clean, NEW id \in 1..Len(asked),
                      [kind |-> "tool", id |-> id] \in begun, asked[id].tool # Nameless
               PROVE  heard.args[id] = Args
    BY DEF ArgsArriveOnce
  <2>1. PICK who \in Positions, pos \in Positions : Hearing(t, Now, todo, asked, who, pos)
    BY <1>1, QuietHears
  <2>2. CallDone(Now, asked[id], id)
    BY <2>1 DEF Hearing, Answers, Idle
  <2>3. id \in Nat
    BY <1>1, LenProperties DEF Inv
  <2>4. id \in Now.calls /\ Now.args = heard.args
    BY <2>3 DEF Now
  <2> QED
    BY <2>2, <2>4 DEF CallDone
<1> QED
  BY <1>1, AlwaysInv, AlwaysHearing, PTL

\* The client has the text and the thoughts of an answer once, as they were said, when the answer is
\* done, for the answers that the delta computation copes with, whatever came before them and
\* whatever the calls (emitText, emitThought).
THEOREM TextAlwaysArrivesWhole ==
  ASSUME BuiltinsComeWhole
  PROVE  Spec => []TextArrivesWhole
<1>1. ASSUME Inv, HearInv
      PROVE  TextArrivesWhole
  <2> SUFFICES ASSUME Settled, conf.style # "chat", TextIsFine(Latest)
               PROVE  TextIsWhole
    BY DEF TextArrivesWhole
  <2>1. Quiet /\ Idle /\ clean /\ asked # <<>> /\ ~conf.parallel
    BY DEF Settled
  <2>2. PICK who \in Positions, pos \in Positions : Hearing(t, Now, todo, asked, who, pos)
    BY <1>1, <2>1, QuietHears
  <2>3. WordsDone(Now, Latest)
    BY <2>1, <2>2 DEF Hearing, Words, Idle, Latest
  <2> QED
    BY <2>3 DEF WordsDone, Now, TextIsWhole
<1> QED
  BY <1>1, AlwaysInv, AlwaysHearing, PTL
=============================================================================
