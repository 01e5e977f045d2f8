----------------------------- MODULE EventStream -----------------------------
(***************************************************************************)
(* The life of one streamed run, from runInternal to the wire.             *)
(*                                                                         *)
(* Three goroutines.  The producer (aguiadk/bridge.go, Run) runs           *)
(* runInternal, which emits events into a bounded channel and ends with    *)
(* RUN_FINISHED or RUN_ERROR; a panic is turned into RUN_ERROR; then the   *)
(* channel is closed.  The reader is the goroutine of the HTTP handler     *)
(* (agui/handler.go, with ChanToIter and the bridge's iterator running     *)
(* inside it): it writes what it takes from the channel.  The keepalive    *)
(* goroutine writes pings between the events.  Both write through the      *)
(* mutex of sseSession.                                                    *)
(*                                                                         *)
(* The contexts nest (request, handler, bridge); what cancels one of them  *)
(* is gone (the client left), writeFailed (WriteEvent cancels) or the      *)
(* return of the reader (deferred cancels).  Where a select finds more     *)
(* than one case ready, either may be taken.                               *)
(*                                                                         *)
(* An event is known by its kind and by its number among all the events    *)
(* the run emits, those included that a cancelled emit drops.              *)
(***************************************************************************)
EXTENDS Integers, Sequences

CONSTANTS
  Content,    \* the kinds of events between RUN_STARTED and the end
  Capacity,   \* of the channel; 64 in the code
  MaxContent, \* bound on the content events of the run
  MaxPings    \* bound on the pings

Terminal == {"finished", "error"}
Kinds == Content \cup Terminal \cup {"started"}

ASSUME StreamAssumption ==
  /\ Content \cap (Terminal \cup {"started", "ping", "cancelled"}) = {}
  /\ Capacity \in Nat \ {0}
  /\ MaxContent \in Nat
  /\ MaxPings \in Nat

VARIABLES
  producer,    \* where the producer is
  produced,    \* how many events it has emitted, or tried to
  chan,        \* the channel
  closed,      \* whether the channel is closed
  gone,        \* the request's context is cancelled: the client has left
  writeFailed, \* a WriteEvent failed and cancelled the run's context
  reader,      \* where the handler is
  current,     \* the event it holds
  lock,        \* who holds the mutex of the session
  keepalive,   \* where the keepalive goroutine is
  pings,       \* how often its ticker fired
  wire         \* the frames written, as far as begun

producerVars == <<producer, produced, chan, closed>>
readerVars == <<reader, current, writeFailed>>
keepaliveVars == <<keepalive, pings>>
streamVars == <<producerVars, gone, readerVars, lock, keepaliveVars, wire>>

Event == [kind : Kinds, number : Nat]
Ping == [kind |-> "ping", number |-> 0]
\* The RUN_ERROR the handler makes itself of the error of the iterator.
Cancelled == [kind |-> "cancelled", number |-> 0]

Done == gone \/ writeFailed \/ reader = "returned"

-----------------------------------------------------------------------------
(* The producer.                                                           *)

\* Fault: the emitter that knows no context (NewEventEmitter).
EmitUnaware(kind) ==
  /\ Len(chan) < Capacity
  /\ chan' = Append(chan, [kind |-> kind, number |-> produced + 1])
  /\ produced' = produced + 1

\* Fault: an event that finds the channel full is dropped.
EmitOrDrop(kind) ==
  /\ IF Len(chan) < Capacity
     THEN chan' = Append(chan, [kind |-> kind, number |-> produced + 1])
     ELSE UNCHANGED chan
  /\ produced' = produced + 1

\* EventEmitter.emit: it blocks while the channel is full, unless the context
\* is done; then the event is dropped, or sent if there is room.
Emit(kind) ==
  /\ \/ Done /\ UNCHANGED chan
     \/ /\ Len(chan) < Capacity
        /\ chan' = Append(chan, [kind |-> kind, number |-> produced + 1])
  /\ produced' = produced + 1

ProducerAt(l) == producer' = l /\ UNCHANGED <<closed, gone, readerVars, lock, keepaliveVars, wire>>

\* The session resolves, or the run is over before it started.
ResolveSession ==
  /\ producer = "resolving"
  /\ \/ ProducerAt("starting") /\ UNCHANGED <<chan, produced>>
     \/ Emit("error") /\ ProducerAt("closing")

\* RUN_STARTED; the run stops where the emit fails.
EmitRunStarted ==
  /\ producer = "starting"
  /\ Emit("started")
  /\ \/ chan' # chan /\ ProducerAt("running")
     \/ chan' = chan /\ ProducerAt("closing")

\* Errors of content events are ignored.
EmitContent(kind) ==
  /\ producer = "running"
  /\ produced <= MaxContent
  /\ Emit(kind)
  /\ ProducerAt("running")

\* Fault: recover only closes the channel.
EndSilently ==
  /\ producer = "running"
  /\ \/ Emit("finished")
     \/ UNCHANGED <<chan, produced>>
  /\ ProducerAt("closing")

\* RUN_FINISHED, or RUN_ERROR for a runner's error (a cancelled context among
\* them) or, in the deferred recover, for a panic.
EndRun ==
  /\ producer = "running"
  /\ \E kind \in Terminal : Emit(kind)
  /\ ProducerAt("closing")

CloseChannel ==
  /\ producer = "closing"
  /\ closed' = TRUE
  /\ producer' = "ended"
  /\ UNCHANGED <<produced, chan, gone, readerVars, lock, keepaliveVars, wire>>

-----------------------------------------------------------------------------
(* The reader.                                                             *)

ReaderAt(l) == reader' = l /\ UNCHANGED <<producer, produced, closed, gone, keepaliveVars>>

\* The select of ChanToIter.
TakeEvent ==
  /\ reader = "selecting"
  /\ chan # <<>>
  /\ current' = Head(chan)
  /\ chan' = Tail(chan)
  /\ ReaderAt("locking")
  /\ UNCHANGED <<writeFailed, lock, wire>>

TakeCancellation ==
  /\ reader = "selecting"
  /\ Done
  /\ current' = Cancelled
  /\ ReaderAt("locking")
  /\ UNCHANGED <<chan, writeFailed, lock, wire>>

\* The channel is closed and empty: the iterators end and the handler returns.
TakeClose ==
  /\ reader = "selecting"
  /\ closed /\ chan = <<>>
  /\ ReaderAt("returned")
  /\ UNCHANGED <<chan, current, writeFailed, lock, wire>>

\* WriteEvent: the frame goes out in pieces, the mutex held.
BeginWrite ==
  /\ reader = "locking"
  /\ lock = "free"
  /\ lock' = "reader"
  /\ wire' = Append(wire, current)
  /\ ReaderAt("writing")
  /\ UNCHANGED <<chan, current, writeFailed>>

\* The run is over after an error of the iterator and goes on after an event.
EndWrite ==
  /\ reader = "writing"
  /\ lock' = "free"
  /\ ReaderAt(IF current = Cancelled THEN "returned" ELSE "selecting")
  /\ UNCHANGED <<chan, current, writeFailed, wire>>

\* The frame is lost, from its beginning or after some of it.
FailWrite ==
  /\ \/ reader = "writing"
     \/ reader = "locking" /\ lock = "free"
  /\ writeFailed' = TRUE
  /\ lock' = "free"
  /\ ReaderAt("returned")
  /\ UNCHANGED <<chan, current, wire>>

-----------------------------------------------------------------------------
(* The keepalive goroutine.  Nobody waits for its end.                     *)

KeepaliveAt(l) == keepalive' = l /\ UNCHANGED <<producerVars, gone, readerVars>>

TickerFires ==
  /\ keepalive = "selecting"
  /\ pings < MaxPings
  /\ pings' = pings + 1
  /\ KeepaliveAt("locking")
  /\ UNCHANGED <<lock, wire>>

BeginPing ==
  /\ keepalive = "locking"
  /\ lock = "free"
  /\ lock' = "keepalive"
  /\ wire' = Append(wire, Ping)
  /\ KeepaliveAt("writing")
  /\ UNCHANGED pings

\* Errors of a ping are ignored.
EndPing ==
  /\ keepalive = "writing"
  /\ lock' = "free"
  /\ KeepaliveAt("selecting")
  /\ UNCHANGED <<pings, wire>>

StopKeepalive ==
  /\ keepalive = "selecting"
  /\ Done
  /\ KeepaliveAt("ended")
  /\ UNCHANGED <<pings, lock, wire>>

ClientLeaves ==
  /\ ~gone
  /\ gone' = TRUE
  /\ UNCHANGED <<producerVars, readerVars, lock, keepaliveVars, wire>>

-----------------------------------------------------------------------------
StreamInit ==
  /\ producer = "resolving"
  /\ produced = 0
  /\ chan = <<>>
  /\ closed = FALSE
  /\ gone = FALSE
  /\ writeFailed = FALSE
  /\ reader = "selecting"
  /\ current = Cancelled
  /\ lock = "free"
  /\ keepalive = "selecting"
  /\ pings = 0
  /\ wire = <<>>

Producer ==
  \/ ResolveSession
  \/ EmitRunStarted
  \/ \E kind \in Content : EmitContent(kind)
  \/ EndRun
  \/ CloseChannel

Reader ==
  TakeEvent \/ TakeCancellation \/ TakeClose \/ BeginWrite \/ EndWrite \/ FailWrite

Keepalive == TickerFires \/ BeginPing \/ EndPing \/ StopKeepalive

StreamNext == Producer \/ Reader \/ Keepalive \/ ClientLeaves

StreamSpec == StreamInit /\ [][StreamNext]_streamVars

\* Go schedules every goroutine, the runner's iteration ends, and the writes
\* to the connection return.  The mutex may be won by the other side again and
\* again, but sync.Mutex starves nobody; nothing makes the client stay or leave.
StreamFairness ==
  /\ WF_streamVars(Producer)
  /\ SF_streamVars(Reader)
  /\ SF_streamVars(Keepalive)

-----------------------------------------------------------------------------
StreamTypeOK ==
  /\ producer \in {"resolving", "starting", "running", "closing", "ended"}
  /\ produced \in Nat
  /\ chan \in Seq(Event) /\ Len(chan) <= Capacity
  /\ {closed, gone, writeFailed} \subseteq BOOLEAN
  /\ reader \in {"selecting", "locking", "writing", "returned"}
  /\ current \in Event \cup {Cancelled}
  /\ lock \in {"free", "reader", "keepalive"}
  /\ keepalive \in {"selecting", "locking", "writing", "ended"}
  /\ pings \in 0..MaxPings
  /\ wire \in Seq(Event \cup {Ping, Cancelled})

\* Where the events of the run are on the wire, without pings and the handler's
\* own error.
Sent == {n \in DOMAIN wire : wire[n] \notin {Ping, Cancelled}}

\* What the client reads is what the run emitted, in that order; nothing is
\* missing as long as nothing was cancelled; and no ping lands inside the frame
\* of an event, and no event inside a ping.
WireIsPrefix ==
  /\ \A m, n \in Sent : m < n => wire[m].number < wire[n].number
  /\ ~gone /\ ~writeFailed =>
       \A n \in Sent : \A i \in 1..wire[n].number : \E m \in Sent : wire[m].number = i
  /\ ~(reader = "writing" /\ keepalive = "writing")

\* A handler that returns to a client that is still there has sent all of the
\* run, with a terminal event at the end and nowhere else.
EveryEventDelivered ==
  reader = "returned" /\ ~gone /\ ~writeFailed =>
    /\ {wire[n].number : n \in Sent} = 1..produced /\ produced > 0
    /\ \A n \in Sent : wire[n].kind \in Terminal <=> wire[n].number = produced

\* Whether the client stays, leaves or stops reading, all three goroutines end:
\* the handler's return unblocks a producer that waits for room.
EverythingEnds ==
  <>(producer = "ended" /\ reader = "returned" /\ keepalive = "ended")

\* "sseSession ... is request-scoped" (sse_session.go:12-14): nothing is written
\* to the ResponseWriter of a request whose handler has returned.
NoWriteAfterReturn == [][reader = "returned" => wire' = wire]_wire
=============================================================================
