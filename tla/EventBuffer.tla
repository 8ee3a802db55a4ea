---------------------------- MODULE EventBuffer ----------------------------
(***************************************************************************)
(* EventBuffer of agent/streaming.py, between the threads of a streaming   *)
(* worker, which never wait, and sse_events, the generator that writes to  *)
(* the client.  put, get and close run under one condition variable.       *)
(*                                                                         *)
(* The worker's threads put events in any order; guarded_worker puts None  *)
(* when all of them are done.  The client may be slow, and may leave.      *)
(***************************************************************************)
EXTENDS Naturals, Sequences, FiniteSets, SequencesExt

CONSTANTS
  Events,
  Size,      \* bytes of an event's JSON
  EndSize,   \* bytes of the JSON of None
  MaxEvents, \* max_events
  MaxBytes,  \* max_bytes
  MaxSent    \* bound: events a worker puts

ASSUME SizeAssumption == Size \in [Events -> Nat] /\ EndSize \in Nat
ASSUME LimitsAssumption == MaxEvents \in Nat \ {0} /\ MaxBytes \in Nat
ASSUME MaxSentAssumption == MaxSent \in Nat

VARIABLES
  queue,    \* _events: what is put and not yet taken, with its size
  bytes,    \* _bytes
  closed,   \* _closed
  sent,     \* every event the worker has put, delivered or not
  finished, \* guarded_worker has put None
  received, \* events the client was sent
  client    \* "reading", "warned" of an overflow, "ended", "left"

vars == <<queue, bytes, closed, sent, finished, received, client>>
worker == <<sent, finished>>
reader == <<received, client>>

End == [kind |-> "end", size |-> EndSize]
Overflow == [kind |-> "overflow", size |-> 0]
Item(e) == [kind |-> "event", event |-> e, size |-> Size[e]]

Init ==
  /\ queue = <<>>
  /\ bytes = 0
  /\ closed = FALSE
  /\ sent = <<>>
  /\ finished = FALSE
  /\ received = <<>>
  /\ client = "reading"

-----------------------------------------------------------------------------
(* put().  An operator marked "faulty" is the one below it with a mistake  *)
(* somebody could make there; only the tests of the properties use it.     *)

RoomForEventsOnly(item) == Len(queue) < MaxEvents                 \* faulty
RoomFor(item) == Len(queue) < MaxEvents /\ bytes + item.size <= MaxBytes

SilentEnd == <<End>>                                              \* faulty
OnlyOverflow == <<Overflow>>

StillOpen == FALSE                                                \* faulty
ClosedByOverflow == TRUE

Put(item) ==
  \/ closed /\ UNCHANGED <<queue, bytes, closed>>
  \/ /\ ~closed /\ RoomFor(item)
     /\ queue' = Append(queue, item)
     /\ bytes' = bytes + item.size
     /\ closed' = (item.kind = "end")
  \/ /\ ~closed /\ ~RoomFor(item)
     /\ queue' = OnlyOverflow
     /\ bytes' = 0
     /\ closed' = ClosedByOverflow

WorkerPuts(e) ==
  /\ ~finished /\ Len(sent) < MaxSent
  /\ Put(Item(e))
  /\ sent' = Append(sent, e)
  /\ UNCHANGED <<finished, reader>>

WorkerEnds ==
  /\ ~finished
  /\ Put(End)
  /\ finished' = TRUE
  /\ UNCHANGED <<sent, reader>>

-----------------------------------------------------------------------------
(* sse_events: get(), with a heartbeat when nothing comes for a while.     *)

Reading == client \in {"reading", "warned"}

\* close(), which also runs when the generator returns.
Close ==
  /\ queue' = <<>>
  /\ bytes' = 0
  /\ closed' = TRUE

ReadEvent ==
  /\ Reading /\ queue # <<>> /\ Head(queue).kind = "event"
  /\ queue' = Tail(queue)
  /\ bytes' = bytes - Head(queue).size
  /\ received' = Append(received, Head(queue).event)
  /\ UNCHANGED <<closed, worker, client>>

ReadOverflow ==
  /\ Reading /\ queue # <<>> /\ Head(queue).kind = "overflow"
  /\ queue' = Tail(queue)
  /\ bytes' = bytes - Head(queue).size
  /\ client' = "warned"
  /\ UNCHANGED <<closed, worker, received>>

\* None, put by the worker or made up because the buffer is closed.
ReadEnd ==
  /\ Reading
  /\ \/ queue # <<>> /\ Head(queue).kind = "end"
     \/ queue = <<>> /\ closed
  /\ Close
  /\ client' = IF client = "warned" THEN "warned and ended" ELSE "ended"
  /\ UNCHANGED <<worker, received>>

\* The connection breaks: the generator or call_on_close closes the buffer.
ClientLeaves ==
  /\ Reading
  /\ Close
  /\ client' = "left"
  /\ UNCHANGED <<worker, received>>

Read == ReadEvent \/ ReadOverflow \/ ReadEnd

Next ==
  \/ \E e \in Events : WorkerPuts(e)
  \/ WorkerEnds
  \/ Read
  \/ ClientLeaves

\* The worker comes to its end (BilledRequest), and a client that stays is
\* written to: get() wakes up when something is there or the buffer closes.
Spec == Init /\ [][Next]_vars /\ WF_vars(WorkerEnds) /\ WF_vars(Read)

-----------------------------------------------------------------------------

BufferTypeOK ==
  /\ \A i \in 1..Len(queue) :
       queue[i] \in {Item(e) : e \in Events} \cup {End, Overflow}
  /\ bytes \in Nat
  /\ closed \in BOOLEAN
  /\ finished \in BOOLEAN
  /\ sent \in Seq(Events) /\ received \in Seq(Events)
  /\ client \in {"reading", "warned", "ended", "warned and ended", "left"}

QueuedBytes == FoldSeq(LAMBDA item, total : item.size + total, 0, queue)

\* A slow client costs a bounded amount of memory, and the count of bytes the
\* bound rests on is that of the events in the buffer.
MemoryBounded ==
  /\ bytes = QueuedBytes
  /\ bytes <= MaxBytes
  /\ Len(queue) <= MaxEvents

\* The client of the stream is that of EventStream.
StreamState ==
  CASE client = "reading" -> "open"
    [] client = "ended" -> "complete"
    [] client \in {"warned", "warned and ended"} -> "cut"
    [] client = "left" -> "left"

Stream == INSTANCE EventStream WITH complete <- finished, stream <- StreamState

\* No event is lost, repeated or reordered without the client being told: it
\* reads the worker's events one after the other up to the last, or is warned.
ImplementsStream == Stream!Spec

\* A client that stays sees the end of the stream, also when the worker's last
\* put finds the buffer full.
ClientSeesEnd == <>(client \in {"ended", "warned and ended", "left"})

=============================================================================
