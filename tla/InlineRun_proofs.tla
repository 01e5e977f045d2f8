--------------------------- MODULE InlineRun_proofs ---------------------------
(***************************************************************************)
(* Safety of a streamed run with inline client tools, proved for any kinds *)
(* of content, any capacity of the channel, any calls and any submits:     *)
(* what the client reads is the run, whole and in order, and every result  *)
(* goes to its call.                                                       *)
(*                                                                         *)
(* The composition adds nothing to what EventStream and ToolResults do by  *)
(* themselves, so each has its own invariant.  EventStream's says where    *)
(* each event is that the run has emitted: in the channel, with the        *)
(* reader, or on the wire, and in which order.  ToolResults' follows a     *)
(* submit from the lookup of a channel to the Wait that takes its result.  *)
(***************************************************************************)
EXTENDS InlineRun, SequenceTheorems, TLAPS

-----------------------------------------------------------------------------
(* The event stream.                                                       *)

\* The reader holds an event that is not yet on the wire.
Held == reader = "locking" /\ current # Cancelled

\* What has been emitted and not been dropped.
Live ==
  {chan[n] : n \in DOMAIN chan} \cup (IF Held THEN {current} ELSE {}) \cup {wire[n] : n \in Sent}

\* The mutex is held by who is writing.
WritersLock ==
  /\ lock = "reader" <=> reader = "writing"
  /\ lock = "keepalive" <=> keepalive = "writing"

\* Events come in the order of their numbers: the wire, the reader, the channel.
InOrder ==
  /\ \A m, n \in Sent : m < n => wire[m].number < wire[n].number
  /\ \A m, n \in DOMAIN chan : m < n => chan[m].number < chan[n].number
  /\ \A m \in Sent : \A n \in DOMAIN chan : wire[m].number < chan[n].number
  /\ Held => /\ \A m \in Sent : wire[m].number < current.number
             /\ \A n \in DOMAIN chan : current.number < chan[n].number

\* Every event was counted, and a terminal one ends the producer's work.
Counted ==
  \A e \in Live :
    /\ 1 <= e.number /\ e.number <= produced
    /\ e.kind \in Terminal => e.number = produced /\ producer \in {"closing", "ended"}

\* As long as nothing is cancelled nothing is missing, and the producer has
\* ended its work with a terminal event.
NothingMissing ==
  ~gone /\ ~writeFailed =>
    /\ \A i \in 1..produced : \E e \in Live : e.number = i
    /\ producer \in {"closing", "ended"} =>
         produced > 0 /\ \A e \in Live : e.number = produced => e.kind \in Terminal
    /\ reader = "returned" => closed /\ chan = <<>>
    /\ reader \in {"locking", "writing"} => current # Cancelled

ClosedAtTheEnd == closed => producer = "ended"

StreamIInv ==
  /\ StreamTypeOK
  /\ WritersLock
  /\ InOrder
  /\ Counted
  /\ NothingMissing
  /\ ClosedAtTheEnd

Frame == Event \cup {Ping, Cancelled}

LEMMA EventIsNoOtherFrame == Ping \notin Event /\ Cancelled \notin Event
  BY StreamAssumption DEF Event, Ping, Cancelled, Kinds, Terminal

LEMMA LiveAreEvents == StreamTypeOK => Live \subseteq Event
<1> SUFFICES ASSUME StreamTypeOK PROVE Live \subseteq Event
  OBVIOUS
<1>1. \A n \in DOMAIN chan : chan[n] \in Event
  BY DEF StreamTypeOK
<1>2. Held => current \in Event
  BY DEF StreamTypeOK, Held
<1>3. \A n \in Sent : wire[n] \in Event
  <2>1. \A n \in DOMAIN wire : wire[n] \in Event \cup {Ping, Cancelled}
    BY DEF StreamTypeOK
  <2> QED
    BY <2>1 DEF Sent
<1> QED
  BY <1>1, <1>2, <1>3 DEF Live

LEMMA InitStreamIInv == StreamInit => StreamIInv
<1> SUFFICES ASSUME StreamInit PROVE StreamIInv
  OBVIOUS
<1>1. chan = <<>> /\ wire = <<>> /\ DOMAIN chan = {} /\ DOMAIN wire = {} /\ Sent = {}
  BY DEF StreamInit, Sent
<1>2. Live = {}
  BY <1>1 DEF StreamInit, Live, Held
<1>3. StreamTypeOK
  <2>1. chan \in Seq(Event) /\ Len(chan) <= Capacity /\ wire \in Seq(Event \cup {Ping, Cancelled})
    BY <1>1, StreamAssumption
  <2>2. 0 \in 0..MaxPings
    BY StreamAssumption
  <2> QED
    BY <2>1, <2>2 DEF StreamInit, StreamTypeOK
<1>4. WritersLock /\ InOrder
  BY <1>1 DEF StreamInit, WritersLock, InOrder, Held
<1>5. Counted /\ NothingMissing /\ ClosedAtTheEnd
  BY <1>1, <1>2 DEF StreamInit, Counted, NothingMissing, ClosedAtTheEnd
<1> QED
  BY <1>3, <1>4, <1>5 DEF StreamIInv

\* The frames of a longer wire.
LEMMA WireGrows ==
  ASSUME wire \in Seq(Frame), NEW f \in Frame, wire' = Append(wire, f)
  PROVE  /\ wire' \in Seq(Frame)
         /\ DOMAIN wire = 1..Len(wire) /\ Len(wire) \in Nat
         /\ DOMAIN wire' = 1..(Len(wire) + 1)
         /\ \A n \in DOMAIN wire : wire'[n] = wire[n]
         /\ wire'[Len(wire) + 1] = f
         /\ Sent \subseteq DOMAIN wire
         /\ Sent' = IF f \in {Ping, Cancelled} THEN Sent ELSE Sent \cup {Len(wire) + 1}
<1>1. /\ wire' \in Seq(Frame)
      /\ DOMAIN wire = 1..Len(wire) /\ Len(wire) \in Nat
      /\ DOMAIN wire' = 1..(Len(wire) + 1)
      /\ \A n \in DOMAIN wire : wire'[n] = wire[n]
      /\ wire'[Len(wire) + 1] = f
  OBVIOUS
<1> QED
  BY <1>1 DEF Sent

\* An event is emitted with the next number, after all that is under way, or it
\* is dropped, which only a cancellation does.
LEMMA EmitFacts ==
  ASSUME StreamIInv, NEW kind \in Kinds, Emit(kind),
         producer \in {"resolving", "starting", "running"},
         UNCHANGED <<gone, readerVars, wire>>,
         producer' \in {"starting", "running", "closing"},
         kind \in Terminal => producer' = "closing",
         producer' = "closing" => kind \in Terminal \/ chan' = chan
  PROVE  /\ chan' \in Seq(Event) /\ Len(chan') <= Capacity
         /\ produced' \in Nat
         /\ InOrder' /\ Counted' /\ NothingMissing'
<1> USE DEF StreamIInv
<1> DEFINE e == [kind |-> kind, number |-> produced + 1]
<1>1. e \in Event /\ produced \in Nat /\ produced' = produced + 1
  BY DEF StreamTypeOK, Event, Emit
<1>2. Sent' = Sent /\ Held' = Held
  BY DEF Sent, Held, readerVars
<1>3. \A x \in Live : x.number \in Nat /\ x.number < produced' /\ x.kind \notin Terminal
  <2>1. \A x \in Live : x.number <= produced /\ x.number \in Nat
    BY LiveAreEvents DEF Counted, Event
  <2>2. \A x \in Live : x.kind \notin Terminal
    BY DEF Counted
  <2> QED
    BY <1>1, <2>1, <2>2
<1>4. CASE chan' = chan
  <2>1. gone \/ writeFailed
    <3>1. Done
      <4>1. chan # Append(chan, e)
        BY <1>1 DEF StreamTypeOK
      <4> QED
        BY <1>4, <4>1 DEF Emit
    <3>2. ~gone /\ ~writeFailed => reader # "returned"
      BY DEF NothingMissing, ClosedAtTheEnd
    <3> QED
      BY <3>1, <3>2 DEF Done
  <2>2. Live' = Live
    BY <1>2, <1>4 DEF Live, readerVars
  <2>3. InOrder'
    BY <1>2, <1>4 DEF InOrder, readerVars
  <2>4. Counted'
    <3>1. \A x \in Live' : 1 <= x.number /\ x.number \in Nat /\ x.number < produced' /\ x.kind \notin Terminal
      BY <1>3, <2>2 DEF Counted
    <3> QED
      BY <1>1, <3>1 DEF Counted
  <2>5. NothingMissing'
    BY <2>1 DEF NothingMissing, readerVars
  <2> QED
    BY <1>1, <1>4, <2>3, <2>4, <2>5 DEF StreamTypeOK
<1>5. CASE chan' = Append(chan, e) /\ Len(chan) < Capacity
  <2> HIDE DEF e
  <2>1. /\ chan' \in Seq(Event) /\ Len(chan') <= Capacity
        /\ DOMAIN chan = 1..Len(chan) /\ Len(chan) \in Nat
        /\ DOMAIN chan' = 1..(Len(chan) + 1)
        /\ \A n \in DOMAIN chan : chan'[n] = chan[n]
        /\ chan'[Len(chan) + 1] = e
    BY <1>1, <1>5, StreamAssumption DEF StreamTypeOK
  <2>2. Live' = Live \cup {e}
    BY <1>2, <2>1 DEF Live, readerVars
  <2>3. e.number = produced' /\ e.kind = kind
    BY <1>1 DEF e
  <2>4. InOrder'
    <3>1. \A n \in DOMAIN chan : chan[n].number < produced'
      BY <1>3 DEF Live
    <3>2. \A n \in Sent : wire[n].number < produced'
      BY <1>3 DEF Live
    <3>3. Held => current.number < produced'
      BY <1>3 DEF Live
    <3> QED
      BY <1>2, <2>1, <2>3, <3>1, <3>2, <3>3 DEF InOrder, readerVars
  <2>5. Counted'
    <3> SUFFICES ASSUME NEW x \in Live'
                 PROVE  /\ 1 <= x.number /\ x.number <= produced'
                        /\ x.kind \in Terminal => x.number = produced' /\ producer' \in {"closing", "ended"}
      BY DEF Counted
    <3>1. CASE x \in Live
      <4>1. 1 <= x.number
        BY <3>1 DEF Counted
      <4> QED
        BY <1>1, <1>3, <3>1, <4>1
    <3>2. CASE x = e
      BY <1>1, <2>3, <3>2
    <3> QED
      BY <2>2, <3>1, <3>2
  <2>6. NothingMissing'
    <3> SUFFICES ASSUME ~gone, ~writeFailed
                 PROVE  /\ \A i \in 1..produced' : \E x \in Live' : x.number = i
                        /\ producer' \in {"closing", "ended"} =>
                             produced' > 0 /\ \A x \in Live' : x.number = produced' => x.kind \in Terminal
                        /\ reader' = "returned" => closed' /\ chan' = <<>>
                        /\ reader' \in {"locking", "writing"} => current' # Cancelled
      BY DEF NothingMissing, readerVars
    <3>1. \A i \in 1..produced' : \E x \in Live' : x.number = i
      BY <1>1, <2>2, <2>3 DEF NothingMissing
    <3>2. chan' # chan
      BY <2>1
    <3>3. producer' = "closing" => produced' > 0 /\ \A x \in Live' : x.number = produced' => x.kind \in Terminal
      BY <1>1, <1>3, <2>2, <2>3, <3>2
    <3>4. reader # "returned"
      BY DEF NothingMissing, ClosedAtTheEnd
    <3> QED
      BY <3>1, <3>3, <3>4 DEF NothingMissing, readerVars
  <2> QED
    BY <1>1, <2>1, <2>4, <2>5, <2>6
<1> QED
  BY <1>4, <1>5 DEF Emit

LEMMA ProducerSteps ==
  ASSUME StreamIInv, Producer
  PROVE  StreamIInv'
<1> USE DEF StreamIInv
<1>1. ASSUME NEW kind \in Kinds, Emit(kind),
             producer \in {"resolving", "starting", "running"},
             NEW l \in {"starting", "running", "closing"}, ProducerAt(l),
             kind \in Terminal => l = "closing",
             l = "closing" => kind \in Terminal \/ chan' = chan
      PROVE  StreamIInv'
  <2>1. /\ UNCHANGED <<closed, gone, readerVars, lock, keepaliveVars, wire>>
        /\ producer' = l
    BY <1>1 DEF ProducerAt
  <2>2. /\ chan' \in Seq(Event) /\ Len(chan') <= Capacity
        /\ produced' \in Nat
        /\ InOrder' /\ Counted' /\ NothingMissing'
    BY <1>1, <2>1, EmitFacts
  <2>3. StreamTypeOK'
    BY <1>1, <2>1, <2>2 DEF StreamTypeOK, readerVars, keepaliveVars
  <2>4. WritersLock' /\ ClosedAtTheEnd'
    BY <1>1, <2>1 DEF WritersLock, ClosedAtTheEnd, readerVars, keepaliveVars
  <2> QED
    BY <2>2, <2>3, <2>4
<1>2. ASSUME UNCHANGED <<chan, produced, gone, readerVars, lock, keepaliveVars, wire>>,
             \/ /\ producer = "resolving" /\ producer' = "starting" /\ UNCHANGED closed
             \/ /\ producer = "closing" /\ producer' = "ended" /\ closed'
      PROVE  StreamIInv'
  <2>1. Sent' = Sent /\ Held' = Held /\ Live' = Live
    BY <1>2 DEF Sent, Held, Live, readerVars
  <2>2. StreamTypeOK'
    <3>1. closed' \in BOOLEAN
      BY <1>2 DEF StreamTypeOK
    <3> QED
      BY <1>2, <3>1 DEF StreamTypeOK, readerVars, keepaliveVars
  <2>3. WritersLock' /\ InOrder' /\ ClosedAtTheEnd'
    BY <1>2, <2>1 DEF WritersLock, InOrder, ClosedAtTheEnd, readerVars, keepaliveVars
  <2>4. Counted'
    BY <1>2, <2>1 DEF Counted
  <2>5. NothingMissing'
    BY <1>2, <2>1 DEF NothingMissing, readerVars
  <2> QED
    BY <2>2, <2>3, <2>4, <2>5
<1>3. CASE ResolveSession
  <2>1. CASE Emit("error") /\ ProducerAt("closing")
    BY <1>1, <1>3, <2>1 DEF ResolveSession, Kinds, Terminal
  <2>2. CASE ProducerAt("starting") /\ UNCHANGED <<chan, produced>>
    BY <1>2, <1>3, <2>2 DEF ResolveSession, ProducerAt
  <2> QED
    BY <1>3, <2>1, <2>2 DEF ResolveSession
<1>4. CASE EmitRunStarted
  <2>1. producer = "starting" /\ Emit("started") /\ "started" \in Kinds /\ "started" \notin Terminal
    BY <1>4 DEF EmitRunStarted, Kinds, Terminal
  <2>2. CASE ProducerAt("running")
    BY <1>1, <2>1, <2>2
  <2>3. CASE chan' = chan /\ ProducerAt("closing")
    BY <1>1, <2>1, <2>3
  <2> QED
    BY <1>4, <2>2, <2>3 DEF EmitRunStarted
<1>5. ASSUME NEW kind \in Content, EmitContent(kind) PROVE StreamIInv'
  BY <1>1, <1>5, StreamAssumption DEF EmitContent, Kinds
<1>6. CASE EndRun
  BY <1>1, <1>6 DEF EndRun, Kinds
<1>7. CASE CloseChannel
  <2>1. closed'
    BY <1>7 DEF CloseChannel
  <2> QED
    BY <1>2, <1>7, <2>1 DEF CloseChannel
<1> QED
  BY <1>3, <1>4, <1>5, <1>6, <1>7 DEF Producer

\* The reader takes an event of the channel, or the cancellation, or its end.
LEMMA ReaderSelects ==
  ASSUME StreamIInv, TakeEvent \/ TakeCancellation \/ TakeClose
  PROVE  StreamIInv'
<1> USE DEF StreamIInv
<1>1. /\ UNCHANGED <<producer, produced, closed, gone, writeFailed, lock, keepaliveVars, wire>>
      /\ reader = "selecting" /\ ~Held /\ Sent' = Sent
      /\ reader' \in {"locking", "returned"}
  BY DEF TakeEvent, TakeCancellation, TakeClose, ReaderAt, Held, Sent
<1>2. WritersLock' /\ ClosedAtTheEnd'
  BY <1>1 DEF WritersLock, ClosedAtTheEnd, keepaliveVars
<1>3. CASE TakeEvent
  <2>1. chan # <<>> /\ current' = Head(chan) /\ chan' = Tail(chan) /\ reader' = "locking"
    BY <1>3 DEF TakeEvent, ReaderAt
  <2>2. /\ DOMAIN chan = 1..Len(chan) /\ Len(chan) \in Nat /\ Len(chan) >= 1
        /\ current' = chan[1] /\ current' \in Event
        /\ chan' \in Seq(Event) /\ Len(chan') = Len(chan) - 1
        /\ DOMAIN chan' = 1..(Len(chan) - 1)
        /\ \A n \in 1..(Len(chan) - 1) : chan'[n] = chan[n + 1]
    BY <2>1 DEF StreamTypeOK
  <2>3. current' # Cancelled /\ Held'
    BY <2>1, <2>2, EventIsNoOtherFrame DEF Held
  <2>4. Live' = Live
    <3>1. {chan[n] : n \in DOMAIN chan} = {chan'[n] : n \in DOMAIN chan'} \cup {current'}
      <4>1. ASSUME NEW n \in DOMAIN chan, n # 1 PROVE \E m \in DOMAIN chan' : chan'[m] = chan[n]
        <5>1. n - 1 \in DOMAIN chan' /\ chan'[n - 1] = chan[n]
          BY <2>2, <4>1
        <5> QED
          BY <5>1
      <4>2. \A m \in DOMAIN chan' : m + 1 \in DOMAIN chan /\ chan'[m] = chan[m + 1]
        BY <2>2
      <4>3. 1 \in DOMAIN chan /\ current' = chan[1]
        BY <2>2
      <4> QED
        BY <4>1, <4>2, <4>3
    <3> QED
      BY <1>1, <2>3, <3>1 DEF Live
  <2>5. StreamTypeOK'
    BY <1>1, <2>1, <2>2, StreamAssumption DEF StreamTypeOK, keepaliveVars
  <2>6. InOrder'
    <3>1. \A m \in Sent, n \in DOMAIN chan' : wire[m].number < chan'[n].number
      BY <2>2 DEF InOrder
    <3>2. \A m, n \in DOMAIN chan' : m < n => chan'[m].number < chan'[n].number
      BY <2>2 DEF InOrder
    <3>3. \A m \in Sent : wire[m].number < current'.number
      BY <2>2 DEF InOrder
    <3>4. \A n \in DOMAIN chan' : current'.number < chan'[n].number
      BY <2>2 DEF InOrder
    <3> QED
      BY <1>1, <3>1, <3>2, <3>3, <3>4 DEF InOrder
  <2>7. Counted'
    BY <1>1, <2>4 DEF Counted
  <2>8. NothingMissing'
    BY <1>1, <2>1, <2>3, <2>4 DEF NothingMissing
  <2> QED
    BY <1>2, <2>5, <2>6, <2>7, <2>8
<1>4. CASE TakeCancellation
  <2>1. UNCHANGED chan /\ current' = Cancelled /\ reader' = "locking" /\ (gone \/ writeFailed)
    BY <1>1, <1>4 DEF TakeCancellation, ReaderAt, Done
  <2>2. ~Held' /\ Live' = Live
    BY <1>1, <2>1 DEF Held, Live
  <2>3. StreamTypeOK'
    BY <1>1, <2>1 DEF StreamTypeOK, keepaliveVars
  <2>4. InOrder' /\ Counted' /\ NothingMissing'
    BY <1>1, <2>1, <2>2 DEF InOrder, Counted, NothingMissing
  <2> QED
    BY <1>2, <2>3, <2>4
<1>5. CASE TakeClose
  <2>1. UNCHANGED <<chan, current>> /\ reader' = "returned" /\ closed /\ chan = <<>>
    BY <1>5 DEF TakeClose, ReaderAt
  <2>2. ~Held' /\ Live' = Live
    BY <1>1, <2>1 DEF Held, Live
  <2>3. StreamTypeOK'
    BY <1>1, <2>1 DEF StreamTypeOK, keepaliveVars
  <2>4. InOrder' /\ Counted' /\ NothingMissing'
    BY <1>1, <2>1, <2>2 DEF InOrder, Counted, NothingMissing
  <2> QED
    BY <1>2, <2>3, <2>4
<1> QED
  BY <1>3, <1>4, <1>5

\* What the reader holds goes out: nothing newer has gone out before.
LEMMA ReaderBegins ==
  ASSUME StreamIInv, BeginWrite
  PROVE  StreamIInv'
<1> USE DEF StreamIInv
<1>1. /\ UNCHANGED <<producer, produced, closed, gone, keepaliveVars, chan, current, writeFailed>>
      /\ reader = "locking" /\ reader' = "writing" /\ ~Held'
      /\ lock = "free" /\ lock' = "reader" /\ wire' = Append(wire, current)
  BY DEF BeginWrite, ReaderAt, Held
<1>2. /\ wire \in Seq(Frame) /\ current \in Frame /\ Ping # Cancelled
      /\ current \in {Ping, Cancelled} <=> ~Held
  BY <1>1, EventIsNoOtherFrame DEF StreamTypeOK, Frame, Held, Ping, Cancelled
<1>3. /\ wire' \in Seq(Frame)
      /\ DOMAIN wire = 1..Len(wire) /\ Len(wire) \in Nat
      /\ DOMAIN wire' = 1..(Len(wire) + 1)
      /\ \A n \in DOMAIN wire : wire'[n] = wire[n]
      /\ wire'[Len(wire) + 1] = current
      /\ Sent \subseteq DOMAIN wire
      /\ Sent' = IF Held THEN Sent \cup {Len(wire) + 1} ELSE Sent
  BY <1>1, <1>2, WireGrows
<1>4. Live' = Live
  <2>1. {wire'[n] : n \in Sent'} = {wire[n] : n \in Sent} \cup (IF Held THEN {current} ELSE {})
    BY <1>3
  <2> QED
    BY <1>1, <2>1 DEF Live
<1>5. StreamTypeOK'
  BY <1>1, <1>3 DEF StreamTypeOK, keepaliveVars, Frame
<1>6. WritersLock' /\ ClosedAtTheEnd'
  BY <1>1 DEF WritersLock, ClosedAtTheEnd, keepaliveVars
<1>7. InOrder'
  <2>1. \A m, n \in Sent' : m < n => wire'[m].number < wire'[n].number
    BY <1>3 DEF InOrder
  <2>2. \A m \in Sent' : \A n \in DOMAIN chan : wire'[m].number < chan[n].number
    BY <1>3 DEF InOrder
  <2> QED
    BY <1>1, <2>1, <2>2 DEF InOrder
<1>8. Counted' /\ NothingMissing'
  BY <1>1, <1>4 DEF Counted, NothingMissing
<1> QED
  BY <1>5, <1>6, <1>7, <1>8

\* The frame is out, or lost.
LEMMA ReaderEnds ==
  ASSUME StreamIInv, EndWrite \/ FailWrite
  PROVE  StreamIInv'
<1> USE DEF StreamIInv
<1>1. /\ UNCHANGED <<producer, produced, closed, gone, keepaliveVars, chan, current, wire>>
      /\ reader \in {"writing", "locking"} /\ lock \in {"reader", "free"} /\ lock' = "free"
      /\ reader' \in {"selecting", "returned"} /\ ~Held'
      /\ Sent' = Sent
  BY DEF EndWrite, FailWrite, ReaderAt, Held, Sent, WritersLock
<1>2. Live' \subseteq Live
  BY <1>1 DEF Live
<1>3. StreamTypeOK'
  <2>1. writeFailed' \in BOOLEAN
    BY DEF StreamTypeOK, EndWrite, FailWrite
  <2> QED
    BY <1>1, <2>1 DEF StreamTypeOK, keepaliveVars
<1>4. WritersLock' /\ ClosedAtTheEnd' /\ InOrder'
  BY <1>1 DEF WritersLock, ClosedAtTheEnd, InOrder, keepaliveVars
<1>5. Counted'
  BY <1>1, <1>2 DEF Counted
<1>6. NothingMissing'
  <2>1. CASE EndWrite
    <3>1. reader = "writing" /\ writeFailed' = writeFailed /\ (reader' = "returned" => current = Cancelled)
      BY <2>1 DEF EndWrite, ReaderAt
    <3>2. Live' = Live
      BY <1>1, <3>1 DEF Live, Held
    <3> QED
      BY <1>1, <3>1, <3>2 DEF NothingMissing
  <2>2. CASE FailWrite
    BY <2>2 DEF FailWrite, NothingMissing
  <2> QED
    BY <2>1, <2>2
<1> QED
  BY <1>3, <1>4, <1>5, <1>6

\* Pings and the client's leaving move no event.
LEMMA OtherStreamSteps ==
  ASSUME StreamIInv, Keepalive \/ ClientLeaves
  PROVE  StreamIInv'
<1> USE DEF StreamIInv
<1>1. /\ UNCHANGED <<producerVars, readerVars>>
      /\ Held' = Held
      /\ gone => gone'
      /\ gone' \in BOOLEAN
  <2>1. UNCHANGED <<producerVars, readerVars>> /\ (gone' = gone \/ gone' = TRUE)
    BY DEF Keepalive, TickerFires, BeginPing, EndPing, StopKeepalive, KeepaliveAt, ClientLeaves
  <2>2. gone \in BOOLEAN
    BY DEF StreamTypeOK
  <2>3. Held' = Held
    BY <2>1 DEF readerVars, Held
  <2>4. gone => gone'
    BY <2>1, <2>2
  <2>5. gone' \in BOOLEAN
    BY <2>1, <2>2
  <2> QED
    BY <2>1, <2>3, <2>4, <2>5
<1>2. /\ wire' \in Seq(Frame)
      /\ Sent' = Sent
      /\ \A n \in Sent : wire'[n] = wire[n]
  <2>1. wire \in Seq(Frame) /\ Ping \in Frame
    BY DEF StreamTypeOK, Frame
  <2>2. CASE wire' = Append(wire, Ping)
    BY <2>1, <2>2, WireGrows
  <2>3. CASE wire' = wire
    BY <2>1, <2>3 DEF Sent
  <2> QED
    BY <2>2, <2>3 DEF Keepalive, TickerFires, BeginPing, EndPing, StopKeepalive, ClientLeaves
<1>3. /\ keepalive' \in {"selecting", "locking", "writing", "ended"}
      /\ lock' \in {"free", "reader", "keepalive"}
      /\ WritersLock'
  BY <1>1 DEF Keepalive, TickerFires, BeginPing, EndPing, StopKeepalive, KeepaliveAt, ClientLeaves,
     StreamTypeOK, WritersLock, readerVars, keepaliveVars
<1>4. pings' \in 0..MaxPings
  BY StreamAssumption DEF Keepalive, TickerFires, BeginPing, EndPing, StopKeepalive, ClientLeaves,
     keepaliveVars, StreamTypeOK
<1>5. Live' = Live
  BY <1>1, <1>2 DEF Live, producerVars, readerVars
<1>6. StreamTypeOK'
  BY <1>1, <1>2, <1>3, <1>4 DEF StreamTypeOK, producerVars, readerVars, Frame
<1>7. InOrder' /\ ClosedAtTheEnd'
  BY <1>1, <1>2 DEF InOrder, ClosedAtTheEnd, producerVars, readerVars
<1>8. Counted' /\ NothingMissing'
  BY <1>1, <1>5 DEF Counted, NothingMissing, producerVars, readerVars
<1> QED
  BY <1>3, <1>6, <1>7, <1>8

LEMMA StreamSteps == StreamIInv /\ [StreamNext]_streamVars => StreamIInv'
<1> SUFFICES ASSUME StreamIInv, [StreamNext]_streamVars PROVE StreamIInv'
  OBVIOUS
<1>1. CASE UNCHANGED streamVars
  <2>1. Sent' = Sent /\ Held' = Held /\ Live' = Live
    BY <1>1 DEF streamVars, producerVars, readerVars, Sent, Held, Live
  <2> QED
    BY <1>1, <2>1 DEF StreamIInv, streamVars, producerVars, readerVars, keepaliveVars, StreamTypeOK,
       WritersLock, InOrder, Counted, NothingMissing, ClosedAtTheEnd
<1> QED
  BY <1>1, ProducerSteps, ReaderSelects, ReaderBegins, ReaderEnds, OtherStreamSteps
     DEF StreamNext, Reader

-----------------------------------------------------------------------------
(* The results of the tools.                                               *)

\* The map leads from an id to a call of that id.
PendingMatches == \A p \in pending : p.id = IdOf[p.call]

\* SubmitResult has looked up one channel, of a call of its id.
FoundMatches ==
  \A s \in Submits : \A c \in found[s] :
    /\ IdOf[c] = IdOf[s]
    /\ \A d \in found[s] : d = c

\* What is in a slot was sent there, and nobody has taken it.
SlotsHoldSent ==
  \A c \in Calls : buffer[c] # <<>> =>
    /\ c \in found[Head(buffer[c])]
    /\ submit[Head(buffer[c])] = "accepted"
    /\ \A d \in Calls : got[d] # Head(buffer[c])

TakenWereSent ==
  \A c \in Calls : got[c] # NoSubmit => c \in found[got[c]] /\ submit[got[c]] = "accepted"

ToolIInv ==
  /\ ToolTypeOK
  /\ PendingMatches
  /\ FoundMatches
  /\ SlotsHoldSent
  /\ TakenWereSent

\* A channel of one slot, taken or free.
LEMMA SlotOfOne ==
  ASSUME NEW S, NEW q \in Seq(S), Len(q) <= 1, q # <<>>
  PROVE  Len(q) = 1 /\ Head(q) \in S /\ Tail(q) = <<>>
<1>1. Len(q) = 1
  <2>1. Len(q) \in Nat \ {0}
    BY EmptySeq
  <2> QED
    BY <2>1
<1>2. Head(q) \in S /\ Tail(q) \in Seq(S) /\ Len(Tail(q)) = 0
  BY <1>1, HeadTailProperties
<1>3. Tail(q) = <<>>
  <2>1. Tail(q) # <<>> => Len(Tail(q)) \in Nat \ {0}
    BY <1>2, EmptySeq
  <2> QED
    BY <1>2, <2>1
<1> QED
  BY <1>1, <1>2, <1>3

LEMMA InitToolIInv == ToolInit => ToolIInv
<1> SUFFICES ASSUME ToolInit PROVE ToolIInv
  OBVIOUS
<1>1. ToolTypeOK
  BY DEF ToolInit, ToolTypeOK
<1>2. PendingMatches /\ FoundMatches /\ SlotsHoldSent /\ TakenWereSent
  BY DEF ToolInit, PendingMatches, FoundMatches, SlotsHoldSent, TakenWereSent
<1> QED
  BY <1>1, <1>2 DEF ToolIInv

\* A call moves on, and at most the map changes.
LEMMA CallMovesOn ==
  ASSUME ToolIInv, NEW c \in Calls,
         NEW l \in {"idle", "announced", "selecting", "leaving", "returned"}, CallAt(c, l),
         pending' \subseteq pending \cup {[id |-> IdOf[c], call |-> c]},
         UNCHANGED <<buffer, got, submitVars>>
  PROVE  ToolIInv'
<1> USE DEF ToolIInv
<1>1. ToolTypeOK'
  BY DEF ToolTypeOK, CallAt, submitVars
<1>2. PendingMatches'
  BY DEF PendingMatches
<1>3. FoundMatches' /\ SlotsHoldSent' /\ TakenWereSent'
  BY DEF FoundMatches, SlotsHoldSent, TakenWereSent, submitVars
<1> QED
  BY <1>1, <1>2, <1>3

\* A result that is taken leaves its slot, so nobody takes it again.
LEMMA CallReceives ==
  ASSUME ToolIInv, NEW c \in Calls, Receive(c)
  PROVE  ToolIInv'
<1> USE DEF ToolIInv
<1> DEFINE s == Head(buffer[c])
<1>1. /\ UNCHANGED <<pending, submit, found>>
      /\ call' = [call EXCEPT ![c] = "leaving"]
      /\ got' = [got EXCEPT ![c] = s]
      /\ buffer[c] # <<>>
      /\ buffer' = [buffer EXCEPT ![c] = Tail(buffer[c])]
  BY DEF Receive, CallAt, submitVars
<1>2. s \in Submits /\ Tail(buffer[c]) = <<>>
  <2>1. buffer[c] \in Seq(Submits) /\ Len(buffer[c]) <= 1
    BY DEF ToolTypeOK
  <2> QED
    BY <1>1, <2>1, SlotOfOne
<1>3. c \in found[s] /\ submit[s] = "accepted"
  BY <1>1 DEF SlotsHoldSent
<1> HIDE DEF s
<1>4. \A d \in Calls : buffer'[d] # <<>> => d # c /\ buffer'[d] = buffer[d]
  BY <1>1, <1>2 DEF ToolTypeOK
<1>5. \A d \in Calls : got'[d] = IF d = c THEN s ELSE got[d]
  BY <1>1 DEF ToolTypeOK
<1>6. ToolTypeOK'
  <2>1. \A d \in Calls : buffer'[d] \in Seq(Submits) /\ Len(buffer'[d]) <= 1
    <3>1. <<>> \in Seq(Submits) /\ Len(<<>>) <= 1
      OBVIOUS
    <3>2. \A d \in Calls : buffer'[d] = IF d = c THEN <<>> ELSE buffer[d]
      BY <1>1, <1>2 DEF ToolTypeOK
    <3>3. \A d \in Calls : buffer[d] \in Seq(Submits) /\ Len(buffer[d]) <= 1
      BY DEF ToolTypeOK
    <3> TAKE d \in Calls
    <3>4. CASE d = c
      <4>1. buffer'[d] = <<>>
        BY <3>2, <3>4
      <4> QED
        BY <3>1, <4>1, Zenon
    <3>5. CASE d # c
      BY <3>2, <3>3, <3>5
    <3> QED
      BY <3>4, <3>5
  <2>2. buffer' = [d \in Calls |-> buffer'[d]]
    BY <1>1 DEF ToolTypeOK
  <2>3. buffer' \in [Calls -> Seq(Submits)]
    BY <2>1, <2>2
  <2>4. call' \in [Calls -> {"idle", "announced", "selecting", "leaving", "returned"}]
    BY <1>1 DEF ToolTypeOK
  <2>5. got' \in [Calls -> Submits \cup {NoSubmit}]
    BY <1>1, <1>2 DEF ToolTypeOK
  <2> QED
    BY <1>1, <2>1, <2>3, <2>4, <2>5 DEF ToolTypeOK
<1>7. PendingMatches' /\ FoundMatches'
  BY <1>1 DEF PendingMatches, FoundMatches
<1>8. SlotsHoldSent'
  <2> SUFFICES ASSUME NEW d \in Calls, buffer'[d] # <<>>
               PROVE  /\ d \in found[Head(buffer[d])]
                      /\ submit[Head(buffer[d])] = "accepted"
                      /\ \A x \in Calls : got'[x] # Head(buffer[d])
    BY <1>1, <1>4 DEF SlotsHoldSent
  <2>1. d # c /\ buffer[d] # <<>> /\ Head(buffer[d]) \in Submits
    BY <1>4 DEF ToolTypeOK
  <2>2. /\ d \in found[Head(buffer[d])]
        /\ submit[Head(buffer[d])] = "accepted"
        /\ \A x \in Calls : got[x] # Head(buffer[d])
    BY <2>1 DEF SlotsHoldSent
  <2>3. s # Head(buffer[d])
    BY <1>2, <1>3, <2>1, <2>2 DEF FoundMatches
  <2> QED
    BY <1>5, <2>2, <2>3
<1>9. TakenWereSent'
  BY <1>1, <1>3, <1>5 DEF TakenWereSent
<1> QED
  BY <1>6, <1>7, <1>8, <1>9

LEMMA CallSteps ==
  ASSUME ToolIInv, NEW c \in Calls, Wait(c)
  PROVE  ToolIInv'
<1>1. CASE Register(c)
  BY <1>1, CallMovesOn DEF Register
<1>2. CASE Receive(c)
  BY <1>2, CallReceives
<1>3. CASE GiveUp(c)
  BY <1>3, CallMovesOn DEF GiveUp
<1>4. CASE Unregister(c)
  BY <1>4, CallMovesOn DEF Unregister
<1> QED
  BY <1>1, <1>2, <1>3, <1>4 DEF Wait

LEMMA SubmitSteps ==
  ASSUME ToolIInv, NEW s \in Submits, SubmitResult(s)
  PROVE  ToolIInv'
<1> USE DEF ToolIInv
<1>1. CASE Refuse(s)
  <2>1. submit' = [submit EXCEPT ![s] = "refused"] /\ submit[s] = "idle"
        /\ UNCHANGED <<pending, buffer, call, got, found>>
    BY <1>1 DEF Refuse, SubmitAt, callVars
  <2>2. ToolTypeOK'
    BY <2>1 DEF ToolTypeOK
  <2>3. \A t \in Submits : submit[t] = "accepted" => submit'[t] = "accepted"
    BY <2>1 DEF ToolTypeOK
  <2>4. PendingMatches' /\ FoundMatches'
    BY <2>1 DEF PendingMatches, FoundMatches
  <2>5. SlotsHoldSent'
    <3>1. \A c \in Calls : buffer[c] # <<>> => Head(buffer[c]) \in Submits
      BY DEF ToolTypeOK
    <3> QED
      BY <2>1, <2>3, <3>1 DEF SlotsHoldSent
  <2>6. TakenWereSent'
    BY <2>1, <2>3 DEF TakenWereSent, ToolTypeOK
  <2> QED
    BY <2>2, <2>4, <2>5, <2>6
<1>2. CASE Lookup(s)
  <2>1. PICK p \in pending : p.id = IdOf[s] /\ found' = [found EXCEPT ![s] = {p.call}]
    BY <1>2 DEF Lookup
  <2>2. submit' = [submit EXCEPT ![s] = "sending"] /\ submit[s] = "idle"
        /\ UNCHANGED <<pending, buffer, call, got>>
    BY <1>2 DEF Lookup, SubmitAt, callVars
  <2>3. p.call \in Calls /\ IdOf[p.call] = IdOf[s]
    BY <2>1 DEF ToolTypeOK, PendingMatches
  <2>4. \A t \in Submits : submit[t] = "accepted" =>
          submit'[t] = "accepted" /\ found'[t] = found[t]
    BY <2>1, <2>2 DEF ToolTypeOK
  <2>5. ToolTypeOK'
    BY <2>1, <2>2, <2>3 DEF ToolTypeOK
  <2>6. PendingMatches'
    BY <2>2 DEF PendingMatches
  <2>7. FoundMatches'
    <3>1. \A t \in Submits : found'[t] = IF t = s THEN {p.call} ELSE found[t]
      BY <2>1 DEF ToolTypeOK
    <3> QED
      BY <2>3, <3>1 DEF FoundMatches
  <2>8. SlotsHoldSent'
    <3>1. \A c \in Calls : buffer[c] # <<>> => Head(buffer[c]) \in Submits
      BY DEF ToolTypeOK
    <3> QED
      BY <2>2, <2>4, <3>1 DEF SlotsHoldSent
  <2>9. TakenWereSent'
    BY <2>2, <2>4 DEF TakenWereSent, ToolTypeOK
  <2> QED
    BY <2>5, <2>6, <2>7, <2>8, <2>9
<1>3. CASE Send(s)
  <2>1. PICK c \in found[s] : Room(c) /\ buffer' = [buffer EXCEPT ![c] = Append(buffer[c], s)]
    BY <1>3 DEF Send
  <2>2. submit' = [submit EXCEPT ![s] = "accepted"] /\ submit[s] = "sending"
        /\ UNCHANGED <<pending, call, got, found>>
    BY <1>3 DEF Send, SubmitAt, callVars
  <2>3. c \in Calls /\ buffer[c] = <<>>
    BY <2>1 DEF Room, ToolTypeOK
  <2>4. \A d \in Calls : buffer'[d] = IF d = c THEN <<s>> ELSE buffer[d]
    BY <2>1, <2>3 DEF ToolTypeOK
  <2>5. \A t \in Submits : submit'[t] = IF t = s THEN "accepted" ELSE submit[t]
    BY <2>2 DEF ToolTypeOK
  <2>6. ToolTypeOK'
    <3>1. buffer' \in [Calls -> Seq(Submits)] /\ \A d \in Calls : Len(buffer'[d]) <= 1
      <4>1. <<s>> \in Seq(Submits) /\ Len(<<s>>) <= 1
        OBVIOUS
      <4>2. \A d \in Calls : buffer'[d] \in Seq(Submits) /\ Len(buffer'[d]) <= 1
        <5>1. \A d \in Calls : buffer[d] \in Seq(Submits) /\ Len(buffer[d]) <= 1
          BY DEF ToolTypeOK
        <5> TAKE d \in Calls
        <5>2. CASE d = c
          <6>1. buffer'[d] = <<s>>
            BY <2>4, <5>2
          <6> QED
            BY <4>1, <6>1, Zenon
        <5>3. CASE d # c
          BY <2>4, <5>1, <5>3
        <5> QED
          BY <5>2, <5>3
      <4>3. buffer' = [d \in Calls |-> buffer'[d]]
        BY <2>1 DEF ToolTypeOK
      <4> QED
        BY <4>2, <4>3
    <3>2. submit' \in [Submits -> {"idle", "sending", "accepted", "refused"}]
      BY <2>2 DEF ToolTypeOK
    <3> QED
      BY <2>2, <3>1, <3>2 DEF ToolTypeOK
  <2>7. PendingMatches' /\ FoundMatches'
    BY <2>2 DEF PendingMatches, FoundMatches
  <2>8. \A d \in Calls : got[d] # s
    BY <2>2, ToolResultsAssumption DEF TakenWereSent
  <2>9. SlotsHoldSent'
    <3> SUFFICES ASSUME NEW d \in Calls, buffer'[d] # <<>>
                 PROVE  /\ d \in found[Head(buffer'[d])]
                        /\ submit'[Head(buffer'[d])] = "accepted"
                        /\ \A x \in Calls : got[x] # Head(buffer'[d])
      BY <2>2 DEF SlotsHoldSent
    <3>1. CASE d = c
      <4>1. Head(buffer'[d]) = s
        BY <2>4, <3>1
      <4> QED
        BY <2>1, <2>5, <2>8, <3>1, <4>1
    <3>2. CASE d # c
      <4>1. buffer'[d] = buffer[d] /\ Head(buffer[d]) \in Submits
        BY <2>4, <3>2 DEF ToolTypeOK
      <4> QED
        BY <2>5, <4>1 DEF SlotsHoldSent
    <3> QED
      BY <3>1, <3>2
  <2>10. TakenWereSent'
    BY <2>2, <2>5 DEF TakenWereSent, ToolTypeOK
  <2> QED
    BY <2>6, <2>7, <2>9, <2>10
<1> QED
  BY <1>1, <1>2, <1>3 DEF SubmitResult

-----------------------------------------------------------------------------
(* The two together.                                                       *)

\* Every step of the composition is a step of the stream.
LEMMA StepsOfTheStream == [Next]_vars => [StreamNext]_streamVars
<1> SUFFICES ASSUME [Next]_vars PROVE [StreamNext]_streamVars
  OBVIOUS
<1>1. CASE Proceed
  BY <1>1 DEF Proceed, StreamNext, Producer
<1>2. ASSUME NEW c \in Calls, Announce(c) PROVE StreamNext
  BY <1>2, InlineAssumption DEF Announce, StreamNext, Producer
<1>3. ASSUME NEW c \in Calls, AwaitResult(c) PROVE UNCHANGED streamVars
  BY <1>3 DEF AwaitResult
<1>4. ASSUME NEW s \in Submits, PostResult(s) PROVE UNCHANGED streamVars
  BY <1>4 DEF PostResult
<1>5. CASE RestOfStream
  BY <1>5 DEF RestOfStream, StreamNext
<1>6. CASE UNCHANGED vars
  BY <1>6 DEF vars
<1> QED
  BY <1>1, <1>2, <1>3, <1>4, <1>5, <1>6 DEF Next, Run

LEMMA ToolSteps == ToolIInv /\ [Next]_vars => ToolIInv'
<1> SUFFICES ASSUME ToolIInv, [Next]_vars PROVE ToolIInv'
  OBVIOUS
<1>1. ASSUME UNCHANGED toolVars PROVE ToolIInv'
  BY <1>1 DEF toolVars, callVars, submitVars, ToolIInv, ToolTypeOK, PendingMatches, FoundMatches,
     SlotsHoldSent, TakenWereSent
<1>2. ASSUME NEW c \in Calls, Announce(c) PROVE ToolIInv'
  <2>1. PICK l \in {"announced", "returned"} : CallAt(c, l)
    BY <1>2 DEF Announce
  <2> QED
    BY <1>2, <2>1, CallMovesOn DEF Announce
<1>3. ASSUME NEW c \in Calls, AwaitResult(c) PROVE ToolIInv'
  BY <1>3, CallSteps DEF AwaitResult
<1>4. ASSUME NEW s \in Submits, PostResult(s) PROVE ToolIInv'
  BY <1>4, SubmitSteps DEF PostResult
<1> QED
  BY <1>1, <1>2, <1>3, <1>4 DEF Next, Run, Proceed, RestOfStream, vars

\* The tools in between take nothing from the stream and add nothing to it: a run
\* with inline tools (aguiadk/proxy.go) is a streamed run as aguiadk/bridge.go and
\* agui/handler.go make it.
THEOREM InlineRunIsAStreamedRun == Spec => StreamSpec
<1>1. Init => StreamInit
  BY DEF Init
<1> QED
  BY <1>1, StepsOfTheStream, PTL DEF Spec, StreamSpec

\* Where the events of a run are, whatever the interleaving of producer, reader,
\* keepalive and client (the inductive invariant of EventStream).
THEOREM StreamInvariant == StreamSpec => []StreamIInv
  BY InitStreamIInv, StreamSteps, PTL DEF StreamSpec

\* Where the results of the calls are (the inductive invariant of ToolResults in
\* the composition).
THEOREM ToolInvariant == Spec => []ToolIInv
<1>1. Init => ToolIInv
  BY InitToolIInv DEF Init
<1> QED
  BY <1>1, ToolSteps, PTL DEF Spec

\* The types, the bound of the channel and of the result slots.
THEOREM TypeCorrect == Spec => []TypeOK
<1>1. StreamIInv /\ ToolIInv => TypeOK
  BY DEF StreamIInv, ToolIInv, TypeOK
<1> QED
  BY <1>1, InlineRunIsAStreamedRun, StreamInvariant, ToolInvariant, PTL

\* What the client reads is what the run emitted, in order, complete unless
\* something was cancelled, and never with a ping inside a frame
\* (EventEmitter.emit, ChanToIter, sseSession.WriteEvent).
THEOREM WireIsAPrefix == Spec => []WireIsPrefix
<1>1. StreamIInv => WireIsPrefix
  <2> SUFFICES ASSUME StreamIInv PROVE WireIsPrefix
    OBVIOUS
  <2> USE DEF StreamIInv
  <2>1. \A m, n \in Sent : m < n => wire[m].number < wire[n].number
    BY DEF InOrder
  <2>2. ASSUME ~gone, ~writeFailed, NEW n \in Sent, NEW i \in 1..wire[n].number
        PROVE  \E m \in Sent : wire[m].number = i
    <3>1. wire[n] \in Live /\ wire[n].number \in Nat /\ produced \in Nat
      BY LiveAreEvents DEF Live, Event, StreamTypeOK
    <3>2. PICK e \in Live : e.number = i
      <4>1. i \in 1..produced
        BY <3>1 DEF Counted
      <4> QED
        BY <2>2, <4>1 DEF NothingMissing
    <3>3. CASE \E m \in DOMAIN chan : e = chan[m]
      <4>1. PICK m \in DOMAIN chan : e = chan[m]
        BY <3>3
      <4>2. wire[n].number < e.number
        BY <4>1 DEF InOrder
      <4> QED
        BY <3>1, <3>2, <4>2
    <3>4. CASE Held /\ e = current
      <4>1. wire[n].number < e.number
        BY <3>4 DEF InOrder
      <4> QED
        BY <3>1, <3>2, <4>1
    <3>5. CASE \E m \in Sent : e = wire[m]
      BY <3>2, <3>5
    <3> QED
      BY <3>3, <3>4, <3>5 DEF Live
  <2>3. ~(reader = "writing" /\ keepalive = "writing")
    BY DEF WritersLock
  <2> QED
    BY <2>1, <2>2, <2>3 DEF WireIsPrefix
<1> QED
  BY <1>1, InlineRunIsAStreamedRun, StreamInvariant, PTL

\* A handler that returns to a client that is still there has sent every event,
\* RUN_FINISHED or RUN_ERROR last (agui/handler.go, bridge.Run's deferred close).
THEOREM EveryEventIsDelivered == Spec => []EveryEventDelivered
<1>1. StreamIInv => EveryEventDelivered
  <2> SUFFICES ASSUME StreamIInv, reader = "returned", ~gone, ~writeFailed
               PROVE  /\ {wire[n].number : n \in Sent} = 1..produced /\ produced > 0
                      /\ \A n \in Sent : wire[n].kind \in Terminal <=> wire[n].number = produced
    BY DEF EveryEventDelivered
  <2> USE DEF StreamIInv
  <2>1. closed /\ chan = <<>> /\ producer = "ended" /\ produced > 0 /\ produced \in Nat
    BY DEF NothingMissing, ClosedAtTheEnd, StreamTypeOK
  <2>2. Live = {wire[n] : n \in Sent}
    BY <2>1 DEF Live, Held
  <2>3. \A n \in Sent : wire[n].number \in 1..produced
    <3>1. \A e \in Live : e.number \in Nat
      BY LiveAreEvents DEF Event
    <3> QED
      BY <2>1, <2>2, <3>1 DEF Counted
  <2>4. \A i \in 1..produced : \E n \in Sent : wire[n].number = i
    BY <2>2 DEF NothingMissing
  <2>5. \A n \in Sent : wire[n].kind \in Terminal <=> wire[n].number = produced
    BY <2>1, <2>2 DEF Counted, NothingMissing
  <2> QED
    BY <2>1, <2>3, <2>4, <2>5
<1> QED
  BY <1>1, InlineRunIsAStreamedRun, StreamInvariant, PTL

\* A result reaches the Wait it was submitted for, once, and a submit blocks only
\* behind another one of the same call (ToolResultHandler, agui/tools.go).
THEOREM ResultsReachTheirCalls == Spec => []ResultsGoToTheirCalls
<1>1. ToolIInv => ResultsGoToTheirCalls
  <2> SUFFICES ASSUME ToolIInv PROVE ResultsGoToTheirCalls
    OBVIOUS
  <2> USE DEF ToolIInv
  <2>1. ASSUME NEW c \in Calls, got[c] # NoSubmit
        PROVE  /\ IdOf[got[c]] = IdOf[c]
               /\ submit[got[c]] = "accepted"
               /\ \A d \in Calls \ {c} : got[d] # got[c]
    BY <2>1 DEF TakenWereSent, FoundMatches, ToolTypeOK
  <2>2. ASSUME NEW s \in Submits, NEW c \in found[s], submit[s] = "sending", ~Room(c)
        PROVE  \E t \in Submits \ {s} : submit[t] = "accepted" /\ IdOf[t] = IdOf[s]
    <3>1. c \in Calls /\ buffer[c] # <<>> /\ Head(buffer[c]) \in Submits
      BY <2>2 DEF Room, ToolTypeOK
    <3>2. c \in found[Head(buffer[c])] /\ submit[Head(buffer[c])] = "accepted"
      BY <3>1 DEF SlotsHoldSent
    <3>3. IdOf[Head(buffer[c])] = IdOf[s]
      BY <3>1, <3>2 DEF FoundMatches
    <3> QED
      BY <2>2, <3>1, <3>2, <3>3
  <2> QED
    BY <2>1, <2>2 DEF ResultsGoToTheirCalls
<1> QED
  BY <1>1, ToolInvariant, PTL
=============================================================================
