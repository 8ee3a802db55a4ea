--------------------------- MODULE DeliveryProofs ---------------------------
(***************************************************************************)
(* Theorems about EventBuffer, for any events, sizes and limits and for a  *)
(* stream of any length; about ModelCall, for any numbers of retries; and  *)
(* about Consultation.                                                     *)
(***************************************************************************)
EXTENDS MCDelivery, SumTheorems, SequenceTheorems

Items == {Item(e) : e \in Events} \cup {End, Overflow}
Clients == {"reading", "warned", "ended", "warned and ended", "left"}

Types ==
  /\ sent \in Seq(Events)
  /\ received \in Seq(Events)
  /\ queue \in Seq(Items)
  /\ bytes \in Int
  /\ closed \in BOOLEAN
  /\ finished \in BOOLEAN
  /\ client \in Clients

\* The client has read the first of the worker's events, without a gap.
ReadsInOrder ==
  /\ Len(received) <= Len(sent)
  /\ \A i \in 1..Len(received) : received[i] = sent[i]

\* The i-th in the buffer is the i-th of those it has not read.
InOrder(i) == queue[i] = Item(sent[Len(received) + i])

\* While the client reads, the buffer is in one of three shapes.
Filling ==
  /\ ~closed /\ ~finished
  /\ Len(received) + Len(queue) = Len(sent)
  /\ \A i \in 1..Len(queue) : InOrder(i)
Draining ==
  /\ closed /\ finished
  /\ Len(received) + Len(queue) = Len(sent) + 1
  /\ \A i \in 1..Len(queue) : i # Len(queue) => InOrder(i)
  /\ queue[Len(queue)] = End
Overflown == closed /\ queue = <<Overflow>>

Shape == client = "reading" => Filling \/ Draining \/ Overflown

\* Afterwards nothing is put into it.
Emptied == client # "reading" => closed /\ queue = <<>>

BufferInv ==
  /\ Types
  /\ ReadsInOrder
  /\ Shape
  /\ Emptied

\* The buffer never holds more than its limits.
WithinLimits == bytes <= MaxBytes /\ Len(queue) <= MaxEvents

-----------------------------------------------------------------------------
\* The buffer begins empty.
LEMMA InitBuffer == Init => BufferInv /\ WithinLimits
<1> SUFFICES ASSUME Init PROVE BufferInv /\ WithinLimits
  OBVIOUS
<1> USE DEF Init
<1>1. Len(queue) = 0 /\ Len(sent) = 0 /\ Len(received) = 0
  BY EmptySeq
<1>2. Types
  <2>1. sent \in Seq(Events) /\ received \in Seq(Events) /\ queue \in Seq(Items)
    BY EmptySeq
  <2>2. bytes \in Int /\ closed \in BOOLEAN /\ finished \in BOOLEAN
    <3>1. bytes = 0
      OBVIOUS
    <3>2. bytes \in Int
      BY <3>1
    <3>3. closed \in BOOLEAN /\ finished \in BOOLEAN
      OBVIOUS
    <3> QED
      BY <3>2, <3>3
  <2>3. client \in Clients
    BY DEF Clients
  <2> QED
    BY <2>1, <2>2, <2>3 DEF Types
<1>3. ReadsInOrder /\ Shape /\ Emptied
  BY <1>1 DEF ReadsInOrder, Shape, Filling, InOrder, Emptied
<1>4. WithinLimits
  BY <1>1, LimitsAssumption DEF WithinLimits
<1> QED
  BY <1>2, <1>3, <1>4 DEF BufferInv

\* What the fields of the items are.
LEMMA Fields ==
  /\ \A e \in Events : /\ Item(e).kind = "event" /\ Item(e).event = e
                       /\ Item(e).size = Size[e] /\ Size[e] \in Nat
  /\ End.kind = "end" /\ End.size = EndSize /\ EndSize \in Nat
  /\ Overflow.kind = "overflow" /\ Overflow.size = 0
BY SizeAssumption DEF Item, End, Overflow

\* The three sequences have a length.
LEMMA Lengths ==
  ASSUME BufferInv
  PROVE  Len(sent) \in Nat /\ Len(received) \in Nat /\ Len(queue) \in Nat
BY LenProperties DEF BufferInv, Types

\* If there is more in the buffer than the end, the client lacks an event.
LEMMA OneLeft ==
  ASSUME NEW r \in Nat, NEW q \in Nat, NEW s \in Nat, r + q = s + 1, q # 1, q >= 1
  PROVE  r + 1 <= s
OBVIOUS

\* An event of the buffer is one of the worker's.
LEMMA NextIsEvent ==
  ASSUME BufferInv, NEW i \in Nat \ {0}, InOrder(i), Len(received) + i <= Len(sent)
  PROVE  /\ Len(received) + i \in 1..Len(sent)
         /\ sent[Len(received) + i] \in Events
         /\ queue[i] = Item(sent[Len(received) + i])
         /\ queue[i].kind = "event"
<1>1. Len(received) + i \in 1..Len(sent)
  BY Lengths
<1>2. sent[Len(received) + i] \in Events
  BY <1>1, ElementOfSeq DEF BufferInv, Types
<1> QED
  BY <1>1, <1>2, Fields DEF InOrder

\* What put() does to a buffer that a client reads.
LEMMA PutEvent == ASSUME BufferInv, NEW e \in Events, WorkerPuts(e) PROVE BufferInv'
<1> USE DEF BufferInv
<1>1. /\ sent' = Append(sent, e) /\ Len(sent') = Len(sent) + 1
      /\ sent'[Len(sent) + 1] = e /\ \A i \in 1..Len(sent) : sent'[i] = sent[i]
      /\ sent' \in Seq(Events)
      /\ UNCHANGED <<finished, received, client>> /\ ~finished /\ Put(Item(e))
      /\ Len(sent) \in Nat /\ Len(received) \in Nat /\ Len(queue) \in Nat
  BY DEF WorkerPuts, reader, Types
<1>2. ReadsInOrder'
  BY <1>1 DEF ReadsInOrder
<1>3. CASE closed
  <2>1. UNCHANGED <<queue, bytes, closed>>
    BY <1>1, <1>3 DEF Put
  <2>2. Types'
    BY <1>1, <2>1 DEF Types
  <2>3. Shape' /\ Emptied'
    BY <1>1, <1>3, <2>1 DEF Shape, Filling, Draining, Overflown, Emptied
  <2> QED
    BY <1>2, <2>2, <2>3
<1>4. CASE ~closed /\ RoomFor(Item(e))
  <2>1. /\ queue' = Append(queue, Item(e)) /\ ~closed' /\ bytes' = bytes + Size[e]
        /\ closed' \in BOOLEAN
    BY <1>1, <1>4 DEF Put, Item
  <2>2. Item(e) \in Items /\ Size[e] \in Nat
    BY SizeAssumption DEF Items
  <2>3. /\ queue' \in Seq(Items) /\ Len(queue') = Len(queue) + 1
        /\ queue'[Len(queue) + 1] = Item(e) /\ \A i \in 1..Len(queue) : queue'[i] = queue[i]
    BY <2>1, <2>2 DEF Types
  <2>4. Types'
    BY <1>1, <2>1, <2>2, <2>3 DEF Types
  <2>5. client = "reading" /\ Filling
    BY <1>4 DEF Emptied, Shape, Draining, Overflown
  <2>6. Filling'
    <3>1. Len(received') + Len(queue') = Len(sent')
      BY <1>1, <2>3, <2>5 DEF Filling
    <3>2. ASSUME NEW i \in 1..Len(queue') PROVE InOrder(i)'
      <4> USE DEF InOrder
      <4>1. CASE i = Len(queue) + 1
        BY <1>1, <2>3, <2>5, <4>1 DEF Filling
      <4>2. CASE i \in 1..Len(queue)
        <5>1. Len(received) + i \in 1..Len(sent)
          BY <1>1, <2>5, <4>2 DEF Filling
        <5> QED
          BY <1>1, <2>3, <2>5, <4>2, <5>1 DEF Filling
      <4>3. i \in 1..Len(queue) \/ i = Len(queue) + 1
        BY <1>1, <2>3
      <4> QED
        BY <4>1, <4>2, <4>3
    <3> QED
      BY <1>1, <2>1, <3>1, <3>2 DEF Filling
  <2> QED
    BY <1>1, <1>2, <2>4, <2>5, <2>6 DEF Shape, Emptied
<1>5. CASE ~closed /\ ~RoomFor(Item(e))
  <2>1. queue' = <<Overflow>> /\ closed' = TRUE /\ bytes' = 0
    BY <1>1, <1>5 DEF Put, OnlyOverflow, ClosedByOverflow
  <2>2. Types'
    BY <1>1, <2>1 DEF Types, Items
  <2>3. client = "reading"
    BY <1>5 DEF Emptied
  <2> QED
    BY <1>1, <1>2, <2>1, <2>2, <2>3 DEF Shape, Overflown, Emptied
<1> QED
  BY <1>3, <1>4, <1>5

\* The end is put behind the events, or there was no room for it.
LEMMA PutEnd == ASSUME BufferInv, WorkerEnds PROVE BufferInv'
<1> USE DEF BufferInv
<1>1. /\ finished' = TRUE /\ ~finished /\ UNCHANGED <<sent, received, client>> /\ Put(End)
      /\ Len(sent) \in Nat /\ Len(received) \in Nat /\ Len(queue) \in Nat
  BY DEF WorkerEnds, reader, Types
<1>2. ReadsInOrder'
  BY <1>1 DEF ReadsInOrder
<1>3. CASE closed
  <2>1. UNCHANGED <<queue, bytes, closed>>
    BY <1>1, <1>3 DEF Put
  <2>2. Types'
    BY <1>1, <2>1 DEF Types
  <2>3. Shape' /\ Emptied'
    BY <1>1, <1>3, <2>1 DEF Shape, Filling, Draining, Overflown, Emptied
  <2> QED
    BY <1>2, <2>2, <2>3
<1>4. CASE ~closed /\ RoomFor(End)
  <2>1. queue' = Append(queue, End) /\ closed' = TRUE /\ bytes' = bytes + EndSize
    BY <1>1, <1>4 DEF Put, End
  <2>2. /\ queue' \in Seq(Items) /\ Len(queue') = Len(queue) + 1
        /\ queue'[Len(queue) + 1] = End /\ \A i \in 1..Len(queue) : queue'[i] = queue[i]
    BY <2>1 DEF Types, Items
  <2>3. Types'
    BY <1>1, <2>1, <2>2, SizeAssumption DEF Types
  <2>4. client = "reading" /\ Filling
    BY <1>4 DEF Emptied, Shape, Draining, Overflown
  <2>5. Draining'
    <3>1. queue'[Len(queue')] = End
      BY <1>1, <2>2
    <3>2. Len(received') + Len(queue') = Len(sent') + 1
      BY <1>1, <2>2, <2>4 DEF Filling
    <3>3. ASSUME NEW i \in 1..Len(queue'), i # Len(queue') PROVE InOrder(i)'
      <4>1. i \in 1..Len(queue)
        BY <1>1, <2>2, <3>3
      <4> QED
        BY <1>1, <2>2, <2>4, <4>1 DEF Filling, InOrder
    <3> QED
      BY <1>1, <2>1, <3>1, <3>2, <3>3 DEF Draining
  <2> QED
    BY <1>1, <1>2, <2>3, <2>4, <2>5 DEF Shape, Emptied
<1>5. CASE ~closed /\ ~RoomFor(End)
  <2>1. queue' = <<Overflow>> /\ closed' = TRUE /\ bytes' = 0
    BY <1>1, <1>5 DEF Put, OnlyOverflow, ClosedByOverflow
  <2>2. Types'
    BY <1>1, <2>1 DEF Types, Items
  <2>3. client = "reading"
    BY <1>5 DEF Emptied
  <2> QED
    BY <1>1, <1>2, <2>1, <2>2, <2>3 DEF Shape, Overflown, Emptied
<1> QED
  BY <1>3, <1>4, <1>5

\* An event at the head of the buffer is the next of the worker's.
LEMMA HeadIsNext ==
  ASSUME BufferInv, ReadEvent
  PROVE  /\ client = "reading" /\ (Filling \/ Draining)
         /\ Len(received) + 1 \in 1..Len(sent)
         /\ Head(queue).event = sent[Len(received) + 1]
         /\ Head(queue).size \in Nat
<1> USE DEF BufferInv
<1>1. queue # <<>> /\ Head(queue) = queue[1] /\ queue[1].kind = "event" /\ Len(queue) >= 1
  BY EmptySeq DEF ReadEvent, Types
<1>2. client = "reading"
  BY <1>1 DEF Emptied
<1>3. Filling \/ Draining
  BY <1>1, <1>2, Fields DEF Shape, Overflown
<1>4. Len(sent) \in Nat /\ Len(received) \in Nat /\ Len(queue) \in Nat
  BY Lengths
<1>5. InOrder(1) /\ Len(received) + 1 <= Len(sent)
  <2>1. CASE Filling
    BY <1>1, <1>4, <2>1 DEF Filling
  <2>2. CASE Draining
    <3>1. Len(queue) # 1
      BY <1>1, <2>2, Fields DEF Draining
    <3>2. Len(received) + Len(queue) = Len(sent) + 1
      BY <2>2 DEF Draining
    <3>3. Len(queue) >= 1
      BY <1>1
    <3>4. 1 \in 1..Len(queue)
      BY <1>4, <3>3
    <3>5. InOrder(1)
      BY <2>2, <3>1, <3>4 DEF Draining
    <3>6. Len(received) + 1 <= Len(sent)
      BY <1>4, <3>1, <3>2, <3>3, OneLeft
    <3> QED
      BY <3>5, <3>6
  <2> QED
    BY <1>3, <2>1, <2>2
<1>6. /\ Len(received) + 1 \in 1..Len(sent) /\ sent[Len(received) + 1] \in Events
      /\ queue[1] = Item(sent[Len(received) + 1])
  BY <1>5, NextIsEvent
<1> QED
  BY <1>1, <1>2, <1>3, <1>6, Fields

\* Taking it keeps the shape of the rest.
LEMMA TakeEvent == ASSUME BufferInv, ReadEvent PROVE BufferInv'
<1> USE DEF BufferInv
<1>1. /\ queue' = Tail(queue) /\ queue # <<>>
      /\ received' = Append(received, Head(queue).event)
      /\ bytes' = bytes - Head(queue).size
      /\ UNCHANGED <<closed, sent, finished, client>>
  BY DEF ReadEvent, worker
<1>2. Len(sent) \in Nat /\ Len(received) \in Nat /\ Len(queue) \in Nat
  BY Lengths
<1>3. /\ queue' \in Seq(Items) /\ Len(queue) = Len(queue') + 1 /\ Len(queue') \in Nat
      /\ \A i \in 1..Len(queue') : queue'[i] = queue[i + 1]
  <2>1. /\ queue' \in Seq(Items) /\ Len(queue') = Len(queue) - 1
        /\ \A i \in 1..Len(queue') : queue'[i] = queue[i + 1]
    BY <1>1, HeadTailProperties DEF Types
  <2>2. Len(queue') \in Nat
    BY <2>1, LenProperties
  <2> QED
    BY <1>2, <2>1, <2>2
<1>4. /\ Head(queue).event = sent[Len(received) + 1] /\ sent[Len(received) + 1] \in Events
      /\ Len(received) + 1 <= Len(sent)
  BY HeadIsNext, ElementOfSeq DEF Types
<1>5. /\ received' \in Seq(Events) /\ Len(received') = Len(received) + 1
      /\ received'[Len(received) + 1] = sent[Len(received) + 1]
      /\ \A i \in 1..Len(received) : received'[i] = received[i]
  BY <1>1, <1>4 DEF Types
<1>6. Types'
  BY <1>1, <1>3, <1>5, HeadIsNext DEF Types
<1>7. ReadsInOrder'
  BY <1>1, <1>4, <1>5 DEF ReadsInOrder
<1>8. ASSUME NEW i \in 1..Len(queue'), InOrder(i + 1) PROVE InOrder(i)'
  <2>1. queue'[i] = Item(sent[Len(received) + (i + 1)])
    BY <1>3, <1>8 DEF InOrder
  <2>2. Len(received) + (i + 1) = Len(received') + i
    BY <1>2, <1>3, <1>5
  <2> QED
    BY <1>1, <2>1, <2>2 DEF InOrder
<1>8a. /\ Len(sent') = Len(sent) /\ Len(received') = Len(received) + 1
       /\ Len(queue) = Len(queue') + 1 /\ Len(queue') \in Nat
  BY <1>1, <1>3, <1>5
<1>9. CASE Filling
  <2>1. Len(received') + Len(queue') = Len(sent')
    BY <1>1, <1>2, <1>3, <1>5, <1>9 DEF Filling
  <2>2. \A i \in 1..Len(queue') : InOrder(i + 1)
    BY <1>2, <1>3, <1>9 DEF Filling
  <2>3. Filling'
    BY <1>1, <1>8, <1>9, <2>1, <2>2 DEF Filling
  <2> QED
    BY <1>1, <1>6, <1>7, <2>3, HeadIsNext DEF Shape, Emptied
<1>10. CASE Draining
  <2>0. Len(received) + Len(queue) = Len(sent) + 1
    BY <1>10 DEF Draining
  <2>1. Len(received') + Len(queue') = Len(sent') + 1
    BY <1>2, <1>8a, <2>0
  <2>2. \A i \in 1..Len(queue') : i # Len(queue') => InOrder(i + 1)
    BY <1>2, <1>3, <1>10 DEF Draining
  <2>3. Len(queue') # 0
    <3>1. Len(received) + 1 <= Len(sent)
      BY <1>4
    <3> QED
      BY <1>2, <1>8a, <2>0, <3>1
  <2>4. queue'[Len(queue')] = End
    BY <1>2, <1>3, <1>10, <2>3 DEF Draining
  <2>5. Draining'
    BY <1>1, <1>8, <1>10, <2>1, <2>2, <2>4 DEF Draining
  <2> QED
    BY <1>1, <1>6, <1>7, <2>5, HeadIsNext DEF Shape, Emptied
<1> QED
  BY <1>9, <1>10, HeadIsNext

\* The overflow event is alone in the buffer.
LEMMA TakeOverflow ==
  ASSUME BufferInv, ReadOverflow PROVE BufferInv' /\ client = "reading" /\ client' = "warned"
<1> USE DEF BufferInv
<1>1. /\ queue # <<>> /\ Head(queue) = queue[1] /\ queue[1].kind = "overflow"
      /\ client' = "warned" /\ UNCHANGED <<closed, sent, finished, received>>
      /\ queue' = Tail(queue) /\ bytes' = bytes - Head(queue).size
      /\ Len(queue) >= 1
  BY EmptySeq DEF ReadOverflow, worker, Types
<1>2. client = "reading"
  BY <1>1 DEF Emptied
<1>3. Overflown
  <2>0. Len(sent) \in Nat /\ Len(received) \in Nat /\ Len(queue) \in Nat
    BY Lengths
  <2>1. ~Filling
    BY <1>1, <2>0, Fields, NextIsEvent DEF Filling
  <2>2. ~Draining
    <3>1. CASE Len(queue) = 1
      BY <1>1, <3>1, Fields DEF Draining
    <3>2. CASE Len(queue) # 1
      <4> SUFFICES ASSUME Draining PROVE FALSE
        OBVIOUS
      <4>1. Len(received) + Len(queue) = Len(sent) + 1
        BY DEF Draining
      <4>2. Len(queue) >= 1
        BY <1>1
      <4>3. 1 \in 1..Len(queue)
        BY <2>0, <4>2
      <4>4. InOrder(1)
        BY <3>2, <4>3 DEF Draining
      <4>5. Len(received) + 1 <= Len(sent)
        BY <2>0, <3>2, <4>1, <4>2, OneLeft
      <4>6. queue[1].kind = "event"
        BY <4>4, <4>5, NextIsEvent
      <4> QED
        BY <1>1, <4>6
    <3> QED
      BY <3>1, <3>2
  <2> QED
    BY <1>2, <2>1, <2>2 DEF Shape
<1>4. queue' = <<>> /\ closed' /\ bytes' = bytes
  BY <1>1, <1>3 DEF Overflown, Overflow, Types
<1> QED
  BY <1>1, <1>2, <1>4 DEF Types, Clients, ReadsInOrder, Shape, Emptied

\* The end is read behind all of the events, or after a warning.
LEMMA TakeEnd ==
  ASSUME BufferInv, ReadEnd
  PROVE  /\ BufferInv'
         /\ \/ client = "reading" /\ client' = "ended" /\ finished /\ received = sent
            \/ client = "warned" /\ client' = "warned and ended"
<1> USE DEF BufferInv
<1>1. /\ client \in {"reading", "warned"}
      /\ queue' = <<>> /\ bytes' = 0 /\ closed' = TRUE /\ UNCHANGED <<sent, finished, received>>
      /\ client' = IF client = "warned" THEN "warned and ended" ELSE "ended"
  BY DEF ReadEnd, Reading, Close, worker
<1>2. BufferInv'
  <2>1. queue' \in Seq(Items) /\ bytes' \in Int /\ client' \in Clients
    <3>1. queue' = <<>>
      BY <1>1
    <3>2. queue' \in Seq(Items)
      BY <3>1, EmptySeq
    <3>3. client' \in Clients
      BY <1>1 DEF Clients
    <3>4. bytes' = 0
      BY <1>1
    <3>5. bytes' \in Int
      BY <3>4
    <3> QED
      BY <3>2, <3>3, <3>5
  <2>2. Types'
    BY <1>1, <2>1 DEF Types
  <2> QED
    BY <1>1, <2>2 DEF ReadsInOrder, Shape, Emptied
<1>3. ASSUME client = "reading" PROVE finished /\ received = sent
  <2>0. Len(sent) \in Nat /\ Len(received) \in Nat /\ Len(queue) \in Nat
    BY Lengths
  <2>1. CASE queue = <<>>
    <3>1. closed /\ Len(queue) = 0
      BY <2>1 DEF ReadEnd
    <3> QED
      <4>1. ~Filling /\ ~Overflown
        BY <2>1, <3>1 DEF Filling, Overflown
      <4>2. ~Draining
        BY <2>0, <3>1 DEF Draining, ReadsInOrder
      <4> QED
        BY <1>3, <4>1, <4>2 DEF Shape
  <2>2. CASE queue # <<>>
    <3>1. queue[1].kind = "end" /\ Len(queue) >= 1
      <4>1. Head(queue).kind = "end"
        BY <2>2 DEF ReadEnd
      <4>2. Len(queue) >= 1 /\ Head(queue) = queue[1]
        BY <2>2, Lengths, EmptySeq DEF Types
      <4> QED
        BY <4>1, <4>2
    <3>2. ~Filling
      BY <2>0, <3>1, NextIsEvent DEF Filling
    <3>3. ~Overflown
      BY <3>1, Fields DEF Overflown
    <3>4. Draining
      BY <1>3, <3>2, <3>3 DEF Shape
    <3>5. Len(queue) = 1
      <4> SUFFICES ASSUME Len(queue) # 1 PROVE FALSE
        OBVIOUS
      <4>1. Len(received) + Len(queue) = Len(sent) + 1
        BY <3>4 DEF Draining
      <4>2. Len(queue) >= 1
        BY <3>1
      <4>3. 1 \in 1..Len(queue)
        BY <2>0, <4>2
      <4>4. InOrder(1)
        BY <3>4, <4>3 DEF Draining
      <4>5. Len(received) + 1 <= Len(sent)
        BY <2>0, <4>1, <4>2, OneLeft
      <4>6. queue[1].kind = "event"
        BY <4>4, <4>5, NextIsEvent
      <4> QED
        BY <3>1, <4>6
    <3>6. Len(received) = Len(sent)
      BY <2>0, <3>4, <3>5 DEF Draining
    <3> QED
      BY <3>4, <3>6, SeqEqual DEF Draining, ReadsInOrder, Types
  <2> QED
    BY <2>1, <2>2
<1> QED
  BY <1>1, <1>2, <1>3

\* Leaving empties and closes the buffer.
LEMMA Leaving ==
  ASSUME BufferInv, ClientLeaves
  PROVE  BufferInv' /\ client \in {"reading", "warned"} /\ client' = "left"
<1> USE DEF BufferInv
<1>1. /\ client \in {"reading", "warned"} /\ client' = "left"
      /\ queue' = <<>> /\ bytes' = 0 /\ closed' = TRUE /\ UNCHANGED <<sent, finished, received>>
  BY DEF ClientLeaves, Reading, Close, worker
<1>2. Types'
  <2>1. queue' \in Seq(Items) /\ bytes' \in Int /\ client' \in Clients
    BY <1>1, EmptySeq DEF Clients
  <2> QED
    BY <1>1, <2>1 DEF Types
<1> QED
  BY <1>1, <1>2 DEF ReadsInOrder, Shape, Emptied

\* Every step of the worker and of the readers keeps the invariant.
LEMMA BufferStep == BufferInv /\ [Next]_vars => BufferInv'
<1> SUFFICES ASSUME BufferInv, [Next]_vars PROVE BufferInv'
  OBVIOUS
<1>1. CASE UNCHANGED vars
  BY <1>1 DEF vars, BufferInv, Types, ReadsInOrder, Shape, Filling, Draining, Overflown, InOrder, Emptied
<1>2. CASE Next
  BY <1>2, PutEvent, PutEnd, TakeEvent, TakeOverflow, TakeEnd, Leaving DEF Next, Read
<1> QED
  BY <1>1, <1>2

-----------------------------------------------------------------------------
\* Every step of the buffer is a step of the stream it stands for, or none.
LEMMA StreamStep == ASSUME BufferInv, [Next]_vars PROVE [Stream!Next]_(Stream!vars)
<1> USE DEF StreamState
<1>1. ASSUME NEW e \in Events, WorkerPuts(e) PROVE Stream!Next
  BY <1>1 DEF WorkerPuts, reader, Stream!Next, Stream!Send
<1>2. ASSUME WorkerEnds PROVE Stream!Next
  BY <1>2 DEF WorkerEnds, reader, Stream!Next, Stream!Finish
<1>3. ASSUME ReadEvent PROVE Stream!Next
  <2>1. /\ client = "reading" /\ UNCHANGED <<sent, finished, client>>
        /\ received' = Append(received, sent[Len(received) + 1])
        /\ Len(received) + 1 \in 1..Len(sent)
    <3>1. UNCHANGED <<sent, finished, client>> /\ received' = Append(received, Head(queue).event)
      BY <1>3 DEF ReadEvent, worker
    <3> QED
      BY <1>3, <3>1, HeadIsNext
  <2>2. sent[Len(received) + 1] \in Events
    BY <2>1, ElementOfSeq DEF BufferInv, Types
  <2>3. Append(received, sent[Len(received) + 1]) = SubSeq(sent, 1, Len(received) + 1)
    <3> DEFINE n == Len(received) + 1
               s == Append(received, sent[n])
    <3>1. /\ s \in Seq(Events) /\ Len(s) = n /\ n \in Nat /\ s[n] = sent[n]
          /\ \A i \in 1..Len(received) : s[i] = received[i]
          /\ Len(received) \in Nat
      BY <2>2 DEF BufferInv, Types
    <3>2. \A i \in 1..n : sent[i] \in Events
      BY <2>1, <3>1, ElementOfSeq DEF BufferInv, Types
    <3>3. /\ SubSeq(sent, 1, n) \in Seq(Events) /\ Len(SubSeq(sent, 1, n)) = n
          /\ \A i \in 1..n : SubSeq(sent, 1, n)[i] = sent[i]
      BY <3>1, <3>2, SubSeqProperties
    <3>4. \A i \in 1..n : s[i] = sent[i]
      BY <3>1 DEF BufferInv, ReadsInOrder
    <3> HIDE DEF n, s
    <3>5. s = SubSeq(sent, 1, n)
      BY <3>1, <3>3, <3>4, SeqEqual
    <3> QED
      BY <3>5 DEF n, s
  <2> QED
    BY <2>1, <2>2, <2>3 DEF Stream!Next, Stream!Receive
<1>4. ASSUME ReadOverflow PROVE Stream!Next
  BY <1>4, TakeOverflow DEF ReadOverflow, worker, Stream!Next, Stream!Cut
<1>5. ASSUME ReadEnd PROVE [Stream!Next]_(Stream!vars)
  <2>1. UNCHANGED <<sent, finished, received>>
    BY <1>5 DEF ReadEnd, worker
  <2> QED
    BY <1>5, <2>1, TakeEnd DEF Stream!Next, Stream!End, Stream!vars
<1>6. ASSUME ClientLeaves PROVE Stream!Next
  BY <1>6, Leaving DEF ClientLeaves, worker, Stream!Next, Stream!Leave
<1>7. ASSUME UNCHANGED vars PROVE UNCHANGED Stream!vars
  BY <1>7 DEF vars, Stream!vars
<1> QED
  BY <1>1, <1>2, <1>3, <1>4, <1>5, <1>6, <1>7 DEF Next, Read

\* No event is lost, repeated or reordered without the client being told,
\* whatever the limits and however slow the client.
THEOREM BufferImplementsStream == Spec => ImplementsStream
<1>1. Init => Stream!Init
  BY DEF Init, Stream!Init, StreamState
<1>2. Init => BufferInv
  BY InitBuffer
<1>3. BufferInv /\ [Next]_vars => [Stream!Next]_(Stream!vars)
  BY StreamStep
<1> QED
  BY <1>1, <1>2, <1>3, BufferStep, PTL DEF Spec, ImplementsStream, Stream!Spec

-----------------------------------------------------------------------------
(* The bytes of the buffer are those of what is in it.                     *)

Sizes(q) == [i \in DOMAIN q |-> q[i].size]
BytesOf(q) == SumFunctionOnSet(Sizes(q), 1..Len(q))

\* FoldSeq adds up the sizes as SumFunctionOnSet does.
LEMMA FoldIsSum ==
  ASSUME queue \in Seq(Items)
  PROVE  QueuedBytes = BytesOf(queue)
<1> DEFINE S == 1..Len(queue)
           f == Sizes(queue)
           h == CHOOSE h : h = [s \in SUBSET S |->
                                  IF s = {} THEN 0
                                  ELSE queue[AnyOf(s)].size + h[s \ {AnyOf(s)}]]
<1>1. DOMAIN queue = S /\ IsFiniteSet(S)
  BY FS_Interval
<1>2. QueuedBytes = h[S]
  BY <1>1 DEF QueuedBytes, FoldSeq, FoldFunction, FoldFunctionOnSet, MapThenFoldSet, AnyOf
<1>3. \A s \in SUBSET S : s # {} => f[AnyOf(s)] = queue[AnyOf(s)].size
  BY <1>1 DEF AnyOf, Sizes
<1>4. \A g : IsSum(f, g, S) <=>
        g = [s \in SUBSET S |-> IF s = {} THEN 0
                                ELSE queue[AnyOf(s)].size + g[s \ {AnyOf(s)}]]
  BY <1>3 DEF IsSum, FirstPlus
<1>5. \E g : IsSum(f, g, S)
  BY <1>1, SumExists
<1> HIDE DEF f, S
<1>6. IsSum(f, h, S)
  BY <1>4, <1>5
<1> HIDE DEF h
<1>7. SumFunctionOnSet(f, S) = h[S]
  BY <1>1, <1>6, SumIsSolution
<1> QED
  BY <1>2, <1>7 DEF BytesOf, f, S

\* The sizes of items can be added.
LEMMA SizesAdd ==
  ASSUME NEW q \in Seq(Items)
  PROVE  /\ DOMAIN Sizes(q) = 1..Len(q) /\ IsFiniteSet(1..Len(q))
         /\ \A i \in 1..Len(q) : Sizes(q)[i] = q[i].size /\ Sizes(q)[i] \in Nat
<1>1. \A item \in Items : item.size \in Nat
  BY SizeAssumption DEF Items, Item, End, Overflow
<1>2. DOMAIN q = 1..Len(q) /\ \A i \in 1..Len(q) : q[i] \in Items
  BY ElementOfSeq, LenProperties
<1> QED
  BY <1>1, <1>2, FS_Interval DEF Sizes

\* One more at the end.
LEMMA SumUpto ==
  ASSUME NEW f, NEW k \in Nat, \A i \in 1..(k + 1) : f[i] \in Nat
  PROVE  SumFunctionOnSet(f, 1..(k + 1)) = SumFunctionOnSet(f, 1..k) + f[k + 1]
<1> DEFINE S == 1..k
           y == k + 1
<1>1. 1..(k + 1) = S \cup {y} /\ y \notin S /\ y \in 1..(k + 1)
  OBVIOUS
<1>2. IsFiniteSet(S)
  BY FS_Interval
<1>3. f[y] \in Int /\ \A x \in S : f[x] \in Int
  BY <1>1
<1> HIDE DEF S, y
<1>4. SumFunctionOnSet(f, S \cup {y}) = SumFunctionOnSet(f, S) + f[y]
  BY <1>1, <1>2, <1>3, SumWith
<1> QED
  BY <1>1, <1>4 DEF S, y

\* An empty queue holds no bytes.
LEMMA BytesOfNothing == BytesOf(<<>>) = 0
<1>1. 1..Len(<<>>) = {}
  OBVIOUS
<1> QED
  BY <1>1, SumOfNothing DEF BytesOf

\* An event appended to the queue adds its own size.
LEMMA BytesOfMore ==
  ASSUME NEW q \in Seq(Items), NEW item \in Items
  PROVE  BytesOf(Append(q, item)) = BytesOf(q) + item.size
<1> DEFINE p == Append(q, item)
           n == Len(q)
<1>1. /\ n \in Nat /\ p \in Seq(Items) /\ Len(p) = n + 1 /\ p[n + 1] = item
      /\ \A i \in 1..n : p[i] = q[i]
  OBVIOUS
<1> HIDE DEF p, n
<1>3. /\ IsFiniteSet(1..n) /\ Sizes(p)[n + 1] = item.size
      /\ \A i \in 1..(n + 1) : Sizes(p)[i] \in Nat
      /\ \A i \in 1..n : Sizes(p)[i] = Sizes(q)[i]
  <2>1. IsFiniteSet(1..n) /\ \A i \in 1..n : Sizes(q)[i] = q[i].size
    BY SizesAdd DEF n
  <2>2. \A i \in 1..(n + 1) : Sizes(p)[i] = p[i].size /\ Sizes(p)[i] \in Nat
    BY <1>1, SizesAdd
  <2>3. n + 1 \in 1..(n + 1) /\ \A i \in 1..n : i \in 1..(n + 1)
    BY <1>1
  <2> QED
    BY <1>1, <2>1, <2>2, <2>3
<1>4. SumFunctionOnSet(Sizes(p), 1..(n + 1)) = SumFunctionOnSet(Sizes(p), 1..n) + Sizes(p)[n + 1]
  BY <1>1, <1>3, SumUpto
<1>5. SumFunctionOnSet(Sizes(p), 1..n) = SumFunctionOnSet(Sizes(q), 1..n)
  BY <1>3, SumSame
<1> QED
  BY <1>1, <1>3, <1>4, <1>5 DEF BytesOf, p, n

\* What is behind the head adds up to the rest.
LEMMA BytesOfTail ==
  ASSUME NEW q \in Seq(Items), q # <<>>
  PROVE  BytesOf(Tail(q)) = BytesOf(q) - Head(q).size
<1> DEFINE t == Tail(q)
           n == Len(t)
           Sum(s, k) == SumFunctionOnSet(Sizes(s), 1..k)
           A == {k \in Nat : k <= n => Sum(q, k + 1) = Sum(t, k) + Head(q).size}
<1>1. /\ t \in Seq(Items) /\ n \in Nat /\ Len(q) = n + 1
      /\ \A i \in 1..n : t[i] = q[i + 1]
      /\ Head(q) = q[1]
  BY HeadTailProperties, LenProperties
<1> HIDE DEF t, n
<1>2. /\ \A i \in 1..(n + 1) : Sizes(q)[i] \in Nat /\ Sizes(q)[i] = q[i].size
      /\ \A i \in 1..n : Sizes(t)[i] \in Nat /\ Sizes(t)[i] = t[i].size
  BY <1>1, SizesAdd DEF n
<1>3. \A i \in 1..n : Sizes(t)[i] = Sizes(q)[i + 1]
  BY <1>1, <1>2
<1>4. ASSUME NEW s, NEW k \in Nat, \A i \in 1..(k + 1) : Sizes(s)[i] \in Nat
      PROVE  Sum(s, k + 1) = Sum(s, k) + Sizes(s)[k + 1]
  BY <1>4, SumUpto
<1>5. ASSUME NEW s PROVE Sum(s, 0) = 0
  <2>1. 1..0 = {}
    OBVIOUS
  <2> QED
    BY <2>1, SumOfNothing
<1>6. ASSUME NEW k \in Nat, k <= n PROVE Sum(t, k) \in Nat
  <2>1. IsFiniteSet(1..k) /\ \A i \in 1..k : Sizes(t)[i] \in Nat
    <3>1. \A i \in 1..k : i \in 1..n
      BY <1>1, <1>6
    <3>2. \A i \in 1..k : Sizes(t)[i] \in Nat
      BY <1>2, <3>1
    <3>3. IsFiniteSet(1..k)
      BY FS_Interval
    <3> QED
      BY <3>2, <3>3
  <2>2. SumFunctionOnSet(Sizes(t), 1..k) \in Nat
    BY <2>1, SumType
  <2> QED
    BY <2>2
<1> HIDE DEF Sum
<1>7. 0 \in A
  <2>1. Sum(q, 0 + 1) = Sum(q, 0) + Sizes(q)[0 + 1]
    BY <1>1, <1>2, <1>4
  <2>2. Sum(q, 1) = Sizes(q)[1] /\ Sum(t, 0) = 0 /\ Sizes(q)[1] \in Nat
    BY <1>1, <1>2, <1>5, <2>1
  <2> QED
    BY <1>1, <1>2, <2>2
<1>8. ASSUME NEW k \in Nat, k \in A PROVE k + 1 \in A
  <2> SUFFICES ASSUME k + 1 <= n
               PROVE  Sum(q, (k + 1) + 1) = Sum(t, k + 1) + Head(q).size
    OBVIOUS
  <2>1. Sum(q, k + 1) = Sum(t, k) + Head(q).size
    BY <1>1, <1>8
  <2>2. Sum(q, (k + 1) + 1) = Sum(q, k + 1) + Sizes(q)[(k + 1) + 1]
    <3>1. \A i \in 1..((k + 1) + 1) : Sizes(q)[i] \in Nat
      BY <1>1, <1>2
    <3> QED
      BY <1>4, <3>1
  <2>3. Sum(t, k + 1) = Sum(t, k) + Sizes(t)[k + 1]
    <3>1. \A i \in 1..(k + 1) : Sizes(t)[i] \in Nat
      BY <1>1, <1>2
    <3> QED
      BY <1>4, <3>1
  <2>4. Sizes(t)[k + 1] = Sizes(q)[(k + 1) + 1] /\ Sizes(t)[k + 1] \in Nat
    BY <1>1, <1>2, <1>3
  <2>5. Sum(t, k) \in Nat /\ Head(q).size \in Nat
    BY <1>1, <1>2, <1>6
  <2> QED
    BY <2>1, <2>2, <2>3, <2>4, <2>5
<1>9. n \in A
  <2> HIDE DEF A
  <2> QED
    BY <1>1, <1>7, <1>8, NatSetInduction
<1>10. Sum(q, n + 1) = Sum(t, n) + Head(q).size
  BY <1>1, <1>9
<1>11. Sum(t, n) \in Nat /\ Head(q).size \in Nat
  BY <1>1, <1>2, <1>6
<1>12. BytesOf(t) = Sum(t, n) /\ BytesOf(q) = Sum(q, n + 1)
  BY <1>1 DEF BytesOf, Sum, n
<1> QED
  BY <1>10, <1>11, <1>12 DEF t

MemoryInv == BufferInv /\ WithinLimits /\ bytes = BytesOf(queue)

\* put() counts what it adds, and an overflow counts nothing.
LEMMA PutCounts ==
  ASSUME MemoryInv, NEW item \in Items, Put(item)
  PROVE  WithinLimits' /\ (bytes = BytesOf(queue))'
<1> USE DEF MemoryInv, WithinLimits, BufferInv, Types
<1>1. item.size \in Nat /\ Len(queue) \in Nat
  BY SizesAdd, SizeAssumption, Lengths DEF Items, Item, End, Overflow
<1>2. CASE closed
  BY <1>2 DEF Put
<1>3. CASE ~closed /\ RoomFor(item)
  <2>1. queue' = Append(queue, item) /\ bytes' = bytes + item.size
    BY <1>3 DEF Put
  <2>2. Len(queue') = Len(queue) + 1
    BY <2>1
  <2> QED
    BY <1>1, <1>3, <2>1, <2>2, BytesOfMore, LimitsAssumption DEF RoomFor
<1>4. CASE ~closed /\ ~RoomFor(item)
  <2>1. queue' = <<Overflow>> /\ bytes' = 0
    BY <1>4 DEF Put, OnlyOverflow
  <2>2. Append(<<>>, Overflow) = <<Overflow>> /\ Len(queue') = 1
    BY <2>1
  <2>3. BytesOf(queue') = BytesOf(<<>>) + Overflow.size
    <3>1. Overflow \in Items /\ <<>> \in Seq(Items)
      BY DEF Items
    <3> QED
      BY <2>1, <2>2, <3>1, BytesOfMore
  <2> QED
    BY <2>1, <2>2, <2>3, BytesOfNothing, LimitsAssumption DEF Overflow
<1> QED
  BY <1>2, <1>3, <1>4

\* put, get and close keep the count of bytes true and within the limits.
LEMMA MemoryStep == MemoryInv /\ [Next]_vars => MemoryInv'
<1> SUFFICES ASSUME MemoryInv, [Next]_vars PROVE MemoryInv'
  OBVIOUS
<1> USE DEF MemoryInv
<1>1. BufferInv'
  BY BufferStep
<1>2. ASSUME NEW item \in Items, Put(item) PROVE WithinLimits' /\ bytes' = BytesOf(queue')
  BY <1>2, PutCounts
<1>3. ASSUME queue # <<>>, queue' = Tail(queue), bytes' = bytes - Head(queue).size
      PROVE  WithinLimits' /\ bytes' = BytesOf(queue')
  <2>1. /\ Head(queue) \in Items /\ Len(queue') = Len(queue) - 1
        /\ Len(queue) \in Nat /\ bytes \in Int
    BY <1>3, HeadTailProperties, Lengths DEF BufferInv, Types
  <2>2. Head(queue).size \in Nat
    BY <2>1, SizeAssumption DEF Items, Item, End, Overflow
  <2>3. WithinLimits'
    BY <1>3, <2>1, <2>2, LimitsAssumption DEF WithinLimits
  <2> QED
    BY <1>3, <2>3, BytesOfTail DEF BufferInv, Types
<1>4. ASSUME Close PROVE WithinLimits' /\ bytes' = BytesOf(queue')
  <2>1. queue' = <<>> /\ bytes' = 0 /\ Len(queue') = 0
    BY <1>4 DEF Close
  <2> QED
    BY <2>1, BytesOfNothing, LimitsAssumption DEF WithinLimits
<1>5. ASSUME UNCHANGED vars PROVE WithinLimits' /\ bytes' = BytesOf(queue')
  BY <1>5 DEF vars, WithinLimits
<1>6. WithinLimits' /\ bytes' = BytesOf(queue')
  BY <1>2, <1>3, <1>4, <1>5
     DEF Next, WorkerPuts, WorkerEnds, Read, ReadEvent, ReadOverflow, ReadEnd, ClientLeaves, Items
<1> QED
  BY <1>1, <1>6

\* A slow client costs a bounded amount of memory, and the count of bytes the
\* bound rests on is that of what is in the buffer, after any number of puts,
\* reads, overflows and closes (streaming.py EventBuffer).
THEOREM MemoryIsBounded == Spec => []MemoryBounded
<1>1. Init => MemoryInv
  BY InitBuffer, BytesOfNothing DEF Init, MemoryInv
<1>2. MemoryInv => MemoryBounded
  BY FoldIsSum DEF MemoryInv, BufferInv, Types, WithinLimits, MemoryBounded
<1> QED
  BY <1>1, <1>2, MemoryStep, PTL DEF Spec

(***************************************************************************)
(* A call of the model, for any number of attempts and repetitions.        *)
(***************************************************************************)

Pieces == [of: Nat, n: Nat]
Phases == {"start", "post", "stream", "body", "end", "reply", "done"}
Sent == {"stream", "body", "end", "reply"}

CallTypes ==
  /\ phase \in Phases
  /\ stream \in BOOLEAN
  /\ feedback \in Nat /\ feedback <= ValidationRetries
  /\ attempt \in Nat /\ attempt <= M!MaxAttempts
  /\ requests \in Nat
  /\ content \in Seq(Pieces) /\ deltas \in Seq(Pieces)
  /\ replies \subseteq 1..requests
  /\ usages = replies

\* Each repetition has its own attempts; the one that is not sent yet is counted
\* among them already.
Bound == M!MaxAttempts * feedback
RequestsBounded ==
  /\ requests <= M!MaxAttempts * (1 + ValidationRetries)
  /\ phase = "start" => requests = 0 /\ feedback = 0
  /\ phase = "post" => requests < Bound + attempt
  /\ phase \in Sent => requests <= Bound + attempt /\ 1 <= requests

\* The parts are those of the present request, in order, and all of them ...
PartsInOrder ==
  phase \in {"stream", "end", "reply"} =>
    Len(content) <= MaxPieces /\ \A i \in 1..Len(content) : content[i] = M!Piece(i)

\* ... and they were streamed last.
EndsWith(long, short) ==
  /\ Len(short) <= Len(long)
  /\ \A i \in 1..Len(short) : long[Len(long) - Len(short) + i] = short[i]
StreamedLast ==
  /\ phase = "body" => ~M!Streaming
  /\ phase \in {"stream", "end", "reply"} /\ M!Streaming => EndsWith(deltas, content)

\* A result is there when the call is done; an answer has the text of a reply.
ResultKnown ==
  /\ phase = "reply" => content # <<>> /\ requests \in replies
  /\ phase # "done" => result = M!NoResult
  /\ result.kind \in {"none", "ok", "error", "invalid", "raised"}
  /\ result.kind = "ok" =>
       /\ result.text \in Seq(Pieces) /\ result.text # <<>>
       /\ Len(result.text) <= MaxPieces
       /\ \A i \in 1..Len(result.text) : result.text[i] = M!Piece(i)
       /\ requests > 0 => requests \in replies
       /\ M!Streaming => EndsWith(deltas, result.text)

CallInv == CallTypes /\ RequestsBounded /\ PartsInOrder /\ StreamedLast /\ ResultKnown

-----------------------------------------------------------------------------
\* The arithmetic of attempts and repetitions.
LEMMA Attempts ==
  /\ M!MaxAttempts \in Nat \ {0} /\ ValidationRetries \in Nat /\ MaxPieces \in Nat \ {0}
  /\ \A f \in Nat : /\ M!MaxAttempts * f \in Nat
                    /\ M!MaxAttempts * (f + 1) = M!MaxAttempts * f + M!MaxAttempts
<1>1. M!MaxAttempts \in Nat \ {0} /\ ValidationRetries \in Nat /\ MaxPieces \in Nat \ {0}
  BY CallAssumption DEF M!RetriesAssumption, M!BoundAssumption, M!MaxAttempts
<1> DEFINE k == M!MaxAttempts
<1> HIDE DEF k
<1>2. k \in Nat => \A f \in Nat : k * f \in Nat /\ k * (f + 1) = k * f + k
  OBVIOUS
<1> QED
  BY <1>1, <1>2 DEF k

\* The bound on what a repetition may send is within that of the call.
LEMMA RepetitionFits ==
  ASSUME NEW f \in Nat, f <= ValidationRetries
  PROVE  M!MaxAttempts * f + M!MaxAttempts <= M!MaxAttempts * (1 + ValidationRetries)
<1> DEFINE k == M!MaxAttempts
           v == ValidationRetries
<1>1. k \in Nat \ {0} /\ v \in Nat
  BY Attempts
<1> HIDE DEF k, v
<1>2. PICK d \in Nat : v = f + d
  <2>1. v - f \in Nat /\ v = f + (v - f)
    BY <1>1 DEF v
  <2> QED
    BY <2>1
<1>3. k * (1 + v) = k * f + k + k * d /\ k * d \in Nat /\ k * f \in Nat
  BY <1>1, <1>2
<1>4. k * f + k <= k * (1 + v)
  BY <1>1, <1>3
<1> QED
  BY <1>4 DEF k, v

\* A call begins with nothing sent and nothing received.
LEMMA CallInit == M!Init => CallInv
<1> SUFFICES ASSUME M!Init PROVE CallInv
  OBVIOUS
<1> USE DEF M!Init
<1>1. CallTypes
  BY Attempts DEF CallTypes, Phases
<1>2. M!MaxAttempts * (1 + ValidationRetries) \in Nat
  <2>1. 1 + ValidationRetries \in Nat
    BY Attempts
  <2> QED
    BY <2>1, Attempts
<1>3. RequestsBounded
  BY <1>2, Attempts DEF RequestsBounded, Sent
<1>4. PartsInOrder /\ StreamedLast /\ ResultKnown
  BY DEF PartsInOrder, StreamedLast, ResultKnown, M!NoResult
<1> QED
  BY <1>1, <1>3, <1>4 DEF CallInv

\* Whatever ends the call without an answer.
LEMMA FailureKeeps ==
  ASSUME CallInv, NEW kind \in {"error", "invalid", "raised"}, M!Return(M!Failure(kind)),
         UNCHANGED <<stream, feedback, attempt, requests, content, deltas, replies, usages>>
  PROVE  CallInv'
<1> USE DEF CallInv, M!Return, M!Failure
<1>1. phase' = "done" /\ result'.kind = kind
  OBVIOUS
<1>2. CallTypes'
  BY <1>1 DEF CallTypes, Phases, M!MaxAttempts
<1>3. RequestsBounded'
  BY <1>1 DEF RequestsBounded, Sent, M!MaxAttempts
<1>4. PartsInOrder' /\ StreamedLast' /\ ResultKnown'
  BY <1>1 DEF PartsInOrder, StreamedLast, ResultKnown
<1> QED
  BY <1>2, <1>3, <1>4

\* Without a key the stub answers at once, with one piece.
LEMMA StubKeeps == ASSUME CallInv, M!Stub PROVE CallInv'
<1> USE DEF CallInv
<1>1. /\ phase = "start" /\ phase' = "done" /\ result' = M!Ok(<<M!Piece(1)>>)
      /\ deltas' = IF stream THEN <<M!Piece(1)>> ELSE <<>>
      /\ UNCHANGED <<stream, feedback, attempt, requests, content, replies, usages>>
  BY DEF M!Stub, M!Return, M!WholeBody, M!options
<1>2. M!Piece(1) \in Pieces /\ requests = 0 /\ M!Piece(1)' = M!Piece(1)
  BY <1>1 DEF M!Piece, Pieces, CallTypes, RequestsBounded
<1> DEFINE p == M!Piece(1)
<1>3. /\ <<p>> \in Seq(Pieces) /\ Len(<<p>>) = 1 /\ <<p>>[1] = p /\ <<p>> # <<>>
  BY <1>2
<1>4. CallTypes'
  BY <1>1, <1>3 DEF CallTypes, Phases, M!MaxAttempts
<1>5. RequestsBounded'
  BY <1>1 DEF RequestsBounded, Sent, M!MaxAttempts
<1>6. PartsInOrder' /\ StreamedLast'
  BY <1>1 DEF PartsInOrder, StreamedLast
<1>7. result'.kind = "ok" /\ result'.text = <<p>>
  BY <1>1 DEF M!Ok
<1>8. M!Streaming' => deltas' = <<p>>
  BY <1>1 DEF M!Streaming
<1> HIDE DEF p
<1>9. \A i \in 1..1 : i = 1
  OBVIOUS
<1>10. ResultKnown'
  <2>1. EndsWith(<<p>>, <<p>>)
    BY <1>3, <1>9 DEF EndsWith
  <2>2. \A i \in 1..Len(<<p>>) : <<p>>[i] = M!Piece(i)'
    BY <1>2, <1>3, <1>9 DEF p
  <2>3. Len(<<p>>) <= MaxPieces
    BY <1>3, Attempts
  <2>4. phase' = "done" /\ ~(requests' > 0)
    BY <1>1, <1>2
  <2>5. M!Streaming' => EndsWith(deltas', result'.text)
    BY <1>7, <1>8, <2>1
  <2>6. /\ result'.text \in Seq(Pieces) /\ result'.text # <<>> /\ Len(result'.text) <= MaxPieces
        /\ \A i \in 1..Len(result'.text) : result'.text[i] = M!Piece(i)'
    BY <1>3, <1>7, <2>2, <2>3
  <2> QED
    BY <1>7, <2>4, <2>5, <2>6 DEF ResultKnown
<1> QED
  BY <1>4, <1>5, <1>6, <1>10

\* A request is sent: the parts begin anew.
LEMMA PostKeeps == ASSUME CallInv, M!Post PROVE CallInv'
<1> USE DEF CallInv
<1>1. /\ phase = "post" /\ attempt <= M!MaxAttempts /\ requests' = requests + 1 /\ content' = <<>>
      /\ phase' = IF M!Streaming THEN "stream" ELSE "body"
      /\ UNCHANGED <<stream, feedback, attempt, deltas, replies, usages, result>>
  BY DEF M!Post, M!FreshParts, M!options
<1>2. CallTypes'
  BY <1>1 DEF CallTypes, Phases, M!MaxAttempts
<1>3. RequestsBounded'
  <2>1. Bound' = Bound /\ Bound \in Nat /\ requests < Bound + attempt
    BY <1>1, Attempts DEF Bound, M!MaxAttempts, RequestsBounded, CallTypes
  <2>2. Bound + M!MaxAttempts <= M!MaxAttempts * (1 + ValidationRetries)
    BY RepetitionFits DEF Bound, CallTypes
  <2> DEFINE most == M!MaxAttempts * (1 + ValidationRetries)
  <2>3. most \in Nat /\ M!MaxAttempts \in Nat
    <3>1. 1 + ValidationRetries \in Nat
      BY Attempts
    <3> QED
      BY <3>1, Attempts
  <2>4. most' = most
    BY DEF M!MaxAttempts
  <2> HIDE DEF most
  <2>5. requests' <= most /\ requests' <= Bound + attempt /\ 1 <= requests'
    BY <1>1, <2>1, <2>2, <2>3 DEF CallTypes, most
  <2> QED
    BY <1>1, <2>1, <2>4, <2>5 DEF RequestsBounded, most
<1>4. PartsInOrder' /\ StreamedLast'
  <2>1. Len(content') = 0 /\ Len(deltas) \in Nat /\ M!Streaming' = M!Streaming
    BY <1>1 DEF CallTypes, M!Streaming
  <2> QED
    BY <1>1, <2>1, Attempts DEF PartsInOrder, StreamedLast, EndsWith
<1>5. ResultKnown'
  BY <1>1 DEF ResultKnown, M!NoResult
<1> QED
  BY <1>2, <1>3, <1>4, <1>5

\* What changes the phase or the attempt only.
LEMMA MoveKeeps ==
  ASSUME CallInv,
         \/ M!Route
         \/ M!TransportError /\ attempt < M!MaxAttempts
         \/ M!Finish
         \/ \E done \in BOOLEAN : M!EndOfStream(done)
  PROVE  CallInv'
<1> USE DEF CallInv
<1>1. /\ UNCHANGED <<stream, feedback, requests, content, deltas, replies, usages, result>>
      /\ \/ phase = "start" /\ phase' = "post" /\ attempt' = 1
         \/ /\ phase \in {"stream", "body"} /\ phase' = "post" /\ attempt' = attempt + 1
            /\ attempt < M!MaxAttempts
         \/ phase = "stream" /\ phase' \in {"stream", "end"} /\ attempt' = attempt
  BY DEF M!Route, M!TransportError, M!Finish, M!EndOfStream, M!options
<1>2. CallTypes'
  <2>1. M!MaxAttempts' = M!MaxAttempts
    BY DEF M!MaxAttempts
  <2>2. attempt' \in Nat /\ attempt' <= M!MaxAttempts
    BY <1>1, Attempts DEF CallTypes
  <2> QED
    BY <1>1, <2>1, <2>2 DEF CallTypes, Phases
<1>3. RequestsBounded'
  <2>1. Bound' = Bound /\ Bound \in Nat
    BY <1>1, Attempts DEF Bound, M!MaxAttempts, CallTypes
  <2> QED
    BY <1>1, <2>1 DEF RequestsBounded, Sent, CallTypes, M!MaxAttempts
<1>4. PartsInOrder' /\ StreamedLast' /\ ResultKnown'
  BY <1>1 DEF PartsInOrder, StreamedLast, ResultKnown, M!Streaming, M!Piece, M!NoResult
<1> QED
  BY <1>2, <1>3, <1>4

\* A frame with text is the next part, and is passed on.
LEMMA DeltaKeeps == ASSUME CallInv, NEW last \in BOOLEAN, M!Delta(last) PROVE CallInv'
<1> USE DEF CallInv
<1> DEFINE n == Len(content)
           new == M!Piece(n + 1)
<1>1. /\ phase = "stream" /\ phase' = phase /\ n < MaxPieces
      /\ content' = Append(content, new) /\ deltas' = Append(deltas, new)
      /\ UNCHANGED <<stream, feedback, attempt, requests, replies, usages, result>>
  BY DEF M!Delta, M!Delivered, M!options
<1>2. n \in Nat /\ Len(deltas) \in Nat /\ new \in Pieces
  BY DEF CallTypes, M!Piece, Pieces
<1>3. /\ content' \in Seq(Pieces) /\ Len(content') = n + 1 /\ content'[n + 1] = new
      /\ \A i \in 1..n : content'[i] = content[i]
      /\ deltas' \in Seq(Pieces) /\ Len(deltas') = Len(deltas) + 1
      /\ deltas'[Len(deltas) + 1] = new
      /\ \A i \in 1..Len(deltas) : deltas'[i] = deltas[i]
  BY <1>1, <1>2 DEF CallTypes
<1>4. CallTypes'
  BY <1>1, <1>3 DEF CallTypes, M!MaxAttempts
<1>5. RequestsBounded'
  BY <1>1 DEF RequestsBounded, Bound, M!MaxAttempts
<1>6. \A i : M!Piece(i)' = M!Piece(i)
  BY <1>1 DEF M!Piece
<1> HIDE DEF new
<1>7. PartsInOrder'
  <2>1. \A i \in 1..(n + 1) : i \in 1..n \/ i = n + 1
    BY <1>2
  <2> QED
    BY <1>1, <1>2, <1>3, <1>6, <2>1, Attempts DEF PartsInOrder, new
<1>8. StreamedLast'
  <2> SUFFICES ASSUME M!Streaming PROVE EndsWith(deltas', content')
    BY <1>1 DEF StreamedLast, M!Streaming
  <2>1. EndsWith(deltas, content)
    BY <1>1 DEF StreamedLast
  <2>2. ASSUME NEW i \in 1..(n + 1)
        PROVE  deltas'[(Len(deltas) + 1) - (n + 1) + i] = content'[i]
    <3>1. CASE i = n + 1
      BY <1>2, <1>3, <2>1, <3>1 DEF EndsWith
    <3>2. CASE i \in 1..n
      <4>1. Len(deltas) - n + i \in 1..Len(deltas) /\ deltas[Len(deltas) - n + i] = content[i]
        BY <1>2, <2>1, <3>2 DEF EndsWith
      <4>2. (Len(deltas) + 1) - (n + 1) + i = Len(deltas) - n + i
        BY <1>2
      <4> QED
        BY <1>3, <3>2, <4>1, <4>2
    <3> QED
      BY <1>2, <3>1, <3>2
  <2> QED
    BY <1>2, <1>3, <2>1, <2>2 DEF EndsWith
<1>9. ResultKnown'
  BY <1>1 DEF ResultKnown, M!NoResult
<1> QED
  BY <1>4, <1>5, <1>7, <1>8, <1>9

\* A body is one piece, and was not asked for as a stream.
LEMMA BodyKeeps == ASSUME CallInv, M!Body PROVE CallInv'
<1> USE DEF CallInv
<1> DEFINE p == M!Piece(1)
<1>1. /\ phase = "body" /\ phase' = "end" /\ content' = <<p>>
      /\ UNCHANGED <<stream, feedback, attempt, requests, deltas, replies, usages, result>>
  BY DEF M!Body, M!WholeBody, M!options
<1>2. p \in Pieces /\ M!Piece(1)' = p
  BY <1>1 DEF CallTypes, M!Piece, Pieces
<1> HIDE DEF p
<1>3. content' \in Seq(Pieces) /\ Len(content') = 1 /\ content'[1] = p
  BY <1>1, <1>2
<1>4. CallTypes'
  BY <1>1, <1>3 DEF CallTypes, Phases, M!MaxAttempts
<1>5. RequestsBounded'
  BY <1>1 DEF RequestsBounded, Bound, Sent, M!MaxAttempts
<1>6. PartsInOrder'
  <2>1. \A i \in 1..1 : i = 1
    OBVIOUS
  <2> QED
    BY <1>1, <1>2, <1>3, <2>1, Attempts DEF PartsInOrder
<1>7. StreamedLast' /\ ResultKnown'
  BY <1>1 DEF StreamedLast, ResultKnown, M!Streaming, M!NoResult
<1> QED
  BY <1>4, <1>5, <1>6, <1>7

\* A reply with text in it is counted.
LEMMA ReplyKeeps == ASSUME CallInv, M!Reply PROVE CallInv'
<1> USE DEF CallInv
<1>1. /\ phase = "end" /\ phase' = "reply" /\ content # <<>>
      /\ replies' = replies \cup {requests} /\ usages' = usages \cup {requests}
      /\ UNCHANGED <<stream, feedback, attempt, requests, content, deltas, result>>
  BY DEF M!Reply, M!Counted, M!options
<1>2. CallTypes'
  BY <1>1 DEF CallTypes, Phases, Sent, RequestsBounded, M!MaxAttempts
<1>3. RequestsBounded'
  BY <1>1 DEF RequestsBounded, Bound, Sent, M!MaxAttempts
<1>4. PartsInOrder' /\ StreamedLast' /\ ResultKnown'
  BY <1>1 DEF PartsInOrder, StreamedLast, ResultKnown, M!Streaming, M!Piece, M!NoResult
<1> QED
  BY <1>2, <1>3, <1>4

\* The text of the reply is the answer.
LEMMA AcceptKeeps == ASSUME CallInv, M!Accept PROVE CallInv'
<1> USE DEF CallInv
<1>1. /\ phase = "reply" /\ phase' = "done" /\ result' = M!Ok(content)
      /\ UNCHANGED <<stream, feedback, attempt, requests, content, deltas, replies, usages>>
  BY DEF M!Accept, M!Return, M!options
<1>2. CallTypes'
  BY <1>1 DEF CallTypes, Phases, M!MaxAttempts
<1>3. RequestsBounded'
  BY <1>1 DEF RequestsBounded, Sent, M!MaxAttempts
<1>4. PartsInOrder' /\ StreamedLast'
  BY <1>1 DEF PartsInOrder, StreamedLast
<1>5. result'.kind = "ok" /\ result'.text = content
  BY <1>1 DEF M!Ok
<1>6. content \in Seq(Pieces) /\ content # <<>> /\ requests \in replies
  BY <1>1 DEF CallTypes, ResultKnown
<1>7. Len(content) <= MaxPieces /\ \A i \in 1..Len(content) : content[i] = M!Piece(i)'
  BY <1>1 DEF PartsInOrder, M!Piece
<1>8. M!Streaming' => EndsWith(deltas', content)
  BY <1>1 DEF StreamedLast, M!Streaming
<1>9. ResultKnown'
  BY <1>1, <1>5, <1>6, <1>7, <1>8 DEF ResultKnown
<1> QED
  BY <1>2, <1>3, <1>4, <1>9

\* A repetition has attempts of its own.
LEMMA RepeatKeeps == ASSUME CallInv, M!RejectAndRepeat PROVE CallInv'
<1> USE DEF CallInv
<1>1. /\ phase = "reply" /\ phase' = "post" /\ feedback < ValidationRetries
      /\ feedback' = feedback + 1 /\ attempt' = 1
      /\ UNCHANGED <<stream, requests, content, deltas, replies, usages, result>>
  BY DEF M!RejectAndRepeat, M!MayRepeat, M!options
<1>2. CallTypes'
  <2>1. M!MaxAttempts' = M!MaxAttempts
    BY DEF M!MaxAttempts
  <2>2. attempt' \in Nat /\ attempt' <= M!MaxAttempts
    BY <1>1, Attempts
  <2>3. feedback' \in Nat /\ feedback' <= ValidationRetries
    BY <1>1, Attempts DEF CallTypes
  <2> QED
    BY <1>1, <2>1, <2>2, <2>3 DEF CallTypes, Phases
<1>3. RequestsBounded'
  <2>1. Bound' = Bound + M!MaxAttempts /\ Bound \in Nat
    BY <1>1, Attempts DEF Bound, CallTypes, M!MaxAttempts
  <2>2. requests <= Bound + attempt /\ attempt <= M!MaxAttempts
    BY <1>1 DEF RequestsBounded, Sent, CallTypes
  <2>3. requests' < Bound' + attempt'
    BY <1>1, <2>1, <2>2, Attempts DEF CallTypes
  <2> QED
    BY <1>1, <2>3 DEF RequestsBounded, Sent, M!MaxAttempts
<1>4. PartsInOrder' /\ StreamedLast' /\ ResultKnown'
  BY <1>1 DEF PartsInOrder, StreamedLast, ResultKnown, M!NoResult
<1> QED
  BY <1>2, <1>3, <1>4

\* Every step of llm_report_tool keeps the invariant of the call.
LEMMA CallStep == CallInv /\ [M!Next]_callVars => CallInv'
<1> SUFFICES ASSUME CallInv, [M!Next]_callVars PROVE CallInv'
  OBVIOUS
<1>1. ASSUME M!Refuse \/ M!SinkRaises \/ M!ProtocolError \/ M!RejectForGood
             \/ (M!TransportError /\ ~(attempt < M!MaxAttempts))
      PROVE  CallInv'
  <2>1. \E kind \in {"error", "invalid", "raised"} : M!Return(M!Failure(kind))
    BY <1>1 DEF M!Refuse, M!SinkRaises, M!ProtocolError, M!RejectForGood, M!TransportError
  <2>2. UNCHANGED <<stream, feedback, attempt, requests, content, deltas, replies, usages>>
    BY <1>1 DEF M!Refuse, M!SinkRaises, M!ProtocolError, M!RejectForGood, M!TransportError,
                M!options
  <2> QED
    BY <2>1, <2>2, FailureKeeps
<1>2. CASE UNCHANGED callVars
  <2>1. UNCHANGED <<phase, stream, feedback, attempt, requests, content, deltas, replies,
                    usages, result>>
    BY <1>2 DEF callVars
  <2> QED
    BY <2>1 DEF CallInv, CallTypes, RequestsBounded, Bound, PartsInOrder, StreamedLast,
                ResultKnown, M!MaxAttempts, M!Piece, M!Streaming, M!NoResult
<1> QED
  BY <1>1, <1>2, StubKeeps, PostKeeps, MoveKeeps, DeltaKeeps, BodyKeeps, ReplyKeeps,
     AcceptKeeps, RepeatKeeps DEF M!Next

\* What the invariant says of a call that has returned.
LEMMA CallIsSound == CallInv => AnswerIsOneReply
<1> SUFFICES ASSUME CallInv PROVE AnswerIsOneReply
  OBVIOUS
<1> USE DEF CallInv
<1>1. M!CallTypeOK
  <2>1. M!MaxAttempts = IF MaxRetries > 1 THEN MaxRetries ELSE 1
    BY CallAssumption DEF M!MaxAttempts, M!RetriesAssumption
  <2> QED
    BY <2>1 DEF M!CallTypeOK, CallTypes, Phases, RequestsBounded, ResultKnown
<1>2. M!AnswerIsOneReply
  <2> SUFFICES ASSUME result.kind = "ok", requests > 0
               PROVE  /\ \E n \in 1..MaxPieces : result.text = [i \in 1..n |-> M!Piece(i)]
                      /\ requests \in replies
    BY DEF M!AnswerIsOneReply
  <2> DEFINE n == Len(result.text)
  <2>1. /\ result.text \in Seq(Pieces) /\ result.text # <<>> /\ n <= MaxPieces
        /\ \A i \in 1..n : result.text[i] = M!Piece(i)
        /\ requests \in replies
    BY DEF ResultKnown
  <2>2. n \in 1..MaxPieces
    BY <2>1, EmptySeq, LenProperties, Attempts
  <2>3. result.text = [i \in 1..n |-> result.text[i]]
    BY <2>1
  <2>4. result.text = [i \in 1..n |-> M!Piece(i)]
    BY <2>1, <2>3
  <2> QED
    BY <2>1, <2>2, <2>4
<1>3. M!EveryReplyCounted
  BY DEF M!EveryReplyCounted, CallTypes
<1>4. M!StreamEndsWithAnswer
  <2> SUFFICES ASSUME result.kind = "ok", M!Streaming
               PROVE  LET n == Len(result.text) IN
                        /\ Len(deltas) >= n
                        /\ SubSeq(deltas, Len(deltas) - n + 1, Len(deltas)) = result.text
    BY DEF M!StreamEndsWithAnswer, M!Streaming
  <2> DEFINE n == Len(result.text)
             all == Len(deltas)
             first == all - n + 1
             last == SubSeq(deltas, first, all)
  <2>1. result.text \in Seq(Pieces) /\ deltas \in Seq(Pieces) /\ EndsWith(deltas, result.text)
    BY DEF ResultKnown, CallTypes
  <2>2. n \in Nat /\ Len(deltas) \in Nat /\ n <= Len(deltas)
    BY <2>1 DEF EndsWith
  <2> HIDE DEF n, all
  <2>3. /\ first \in Int /\ all \in Int /\ 1 <= first /\ all - first + 1 = n
        /\ IF first <= all THEN all - first + 1 = n ELSE n = 0
    BY <2>2 DEF n, all
  <2>4. /\ last \in Seq(Pieces) /\ Len(last) = n
        /\ \A i \in 1..n : last[i] = deltas[first + i - 1]
    <3>1. \A i \in first..all : deltas[i] \in Pieces
      BY <2>1, <2>3, ElementOfSeq DEF all
    <3> HIDE DEF first
    <3>2. /\ last \in Seq(Pieces) /\ Len(last) = IF first <= all THEN all - first + 1 ELSE 0
          /\ \A i \in 1..(all - first + 1) : last[i] = deltas[first + i - 1]
      BY <2>3, <3>1, SubSeqProperties
    <3> QED
      BY <2>3, <3>2
  <2>5. \A i \in 1..n : last[i] = result.text[i]
    <3>1. ASSUME NEW i \in 1..n PROVE last[i] = result.text[i]
      <4>1. first + i - 1 = Len(deltas) - n + i
        BY <2>2 DEF n, all
      <4> QED
        BY <2>1, <2>4, <4>1 DEF EndsWith, n, all
    <3> QED
      BY <3>1
  <2> HIDE DEF last
  <2>6. last = result.text
    BY <2>1, <2>4, <2>5, SeqEqual DEF n
  <2> QED
    BY <2>2, <2>6 DEF last, first, n, all
<1> QED
  BY <1>1, <1>2, <1>3, <1>4 DEF AnswerIsOneReply


(***************************************************************************)
(* A consultation.                                                         *)
(***************************************************************************)

Replies == {"text", "blank", "error"}
ResponseEvent(text) == "response:" \o text
LogEvents == {"user_message", "tool_invocation"} \cup {ResponseEvent(t) : t \in N!Texts}
Unmodelled == {"validate", "ask", "tool", "model"}
Charged == {"ask", "tool", "model", "paraphrase", "compose", "resolve"}
Charted == {"model", "paraphrase", "compose", "resolve"}

ChartParts == UNION {N!ChartOf(m) : m \in N!Methods}
PromptIsWhole(p) ==
  /\ p \cap ChartParts = N!ChartOf(req.method) \ {"score"}
  /\ "question" \in p
  /\ req.history => "history" \in p

RequestKnown ==
  /\ req \in N!Requests /\ N!Sensible(req)
  /\ pc \in Unmodelled \cup Charged \cup {"done"}
  /\ pc \in Charged => req.flaw \notin N!RefusedHere(req.method)
  /\ pc \in Charted => req.flaw = "none" /\ chart = N!ChartOf(req.method)

\* The calls are made in order, and the second only after a text.
CallsKnown ==
  /\ said \in Seq(Replies)
  /\ prompts \in Seq(SUBSET (ChartParts \cup {"question", "history", "star_gong", "analysis"}))
  /\ Len(prompts) = Len(said) /\ Len(said) \in 0..2
  /\ ~N!Twice => Len(said) < 2
  /\ Len(said) > 0 => PromptIsWhole(prompts[1]) /\ chart = N!ChartOf(req.method)
  /\ Len(said) = 2 => prompts[2] = {"analysis"} /\ said[1] = "text"
  /\ pc \in Unmodelled => Len(said) = 0
  /\ pc = "paraphrase" => N!Twice /\ Len(said) = 1 /\ said[1] = "text"

\* The calls of an answer are all there are to be made.
AllCalled == Len(said) > 0 /\ (N!Twice /\ said[1] = "text" => Len(said) = 2)
LastFailed == said[Len(said)] # "text"

\* An answer is that of the last reply, and it is what the log says.
AnswerKnown ==
  /\ answer.text \in N!Texts
  /\ logged \in Seq(LogEvents)
  /\ pc = "compose" => AllCalled
  /\ pc = "resolve" \/ status = 200 =>
       /\ AllCalled /\ req.flaw = "none"
       /\ answer.error <=> LastFailed
       /\ LastFailed => answer.text = "error_message"
       /\ ~LastFailed => answer.text = IF N!Twice THEN "both" ELSE "analysis"
       /\ answer.usage = Len(said) - (IF LastFailed THEN 1 ELSE 0)
       /\ Len(logged) > 0 /\ logged[Len(logged)] = ResponseEvent(answer.text)

\* What becomes of the charge.
ReceiptKnown ==
  /\ receipt \in {"none", "pending", "settled", "refunded"}
  /\ pc = "validate" => receipt = "none"
  /\ pc \in Charged => receipt = IF req.admin THEN "none" ELSE "pending"
  /\ pc # "done" => status = 0
  /\ pc = "done" => status \in {200, 400, 402, 500}
  /\ pc = "done" /\ status = 200 =>
       receipt = (IF req.admin THEN "none" ELSE IF answer.error THEN "refunded" ELSE "settled")
  /\ pc = "done" /\ status # 200 =>
       /\ receipt \in {"none", "refunded"} /\ (req.admin => receipt = "none")
       /\ req.flaw # "none" => Len(said) = 0

ConsultationInv ==
  RequestKnown /\ CallsKnown /\ AnswerKnown /\ ReceiptKnown

-----------------------------------------------------------------------------
\* A request begins without a charge, an answer or an event.
LEMMA ConsultationBegins == N!Init => ConsultationInv
<1> SUFFICES ASSUME N!Init PROVE ConsultationInv
  OBVIOUS
<1> USE DEF N!Init
<1>1. Len(<<>>) = 0 /\ said = <<>> /\ prompts = <<>> /\ logged = <<>>
  OBVIOUS
<1>2. RequestKnown
  BY DEF RequestKnown, Unmodelled, Charged, Charted
<1>3. CallsKnown
  BY <1>1 DEF CallsKnown
<1>4. AnswerKnown
  BY <1>1 DEF AnswerKnown, N!NoAnswer, N!Texts
<1>5. ReceiptKnown
  BY DEF ReceiptKnown, Charged
<1> QED
  BY <1>2, <1>3, <1>4, <1>5 DEF ConsultationInv

\* What each prompt holds is what the tool made of this request.
LEMMA PromptHolds ==
  ASSUME RequestKnown
  PROVE  /\ PromptIsWhole(N!Prompt)
         /\ N!Prompt \in SUBSET (ChartParts \cup {"question", "history", "star_gong", "analysis"})
<1>1. req.method \in N!Methods /\ req.history \in BOOLEAN
  BY DEF RequestKnown, N!Requests
<1>2. /\ N!Methods = {"hepan", "cezi", "najia", "zwds"}
      /\ N!ChartOf("hepan") = {"person_a", "person_b", "score"}
      /\ N!ChartOf("cezi") = {"character"}
      /\ N!ChartOf("najia") = {"bengua", "biangua"}
      /\ N!ChartOf("zwds") = {"benming", "liunian"}
  BY DEF N!Methods, N!ChartOf, N!HepanChart, N!CeziChart, N!NajiaChart, N!ZwdsChart
<1>3. ChartParts = {"person_a", "person_b", "score", "character", "bengua", "biangua",
                    "benming", "liunian"}
  <2>1. \A x : x \in ChartParts <=> \E m \in N!Methods : x \in N!ChartOf(m)
    BY DEF ChartParts
  <2>2. \A x : x \in ChartParts <=>
                 \/ x \in N!ChartOf("hepan") \/ x \in N!ChartOf("cezi")
                 \/ x \in N!ChartOf("najia") \/ x \in N!ChartOf("zwds")
    BY <1>2, <2>1
  <2> QED
    BY <1>2, <2>2
<1>4. N!History \subseteq {"history"} /\ (req.history => "history" \in N!History)
  BY DEF N!History
<1>5. CASE req.method = "hepan"
  <2>1. N!Prompt = {"person_a", "person_b", "question"} \cup N!History
    BY <1>5 DEF N!Prompt, N!HepanPrompt
  <2> QED
    BY <1>2, <1>3, <1>4, <1>5, <2>1 DEF PromptIsWhole
<1>6. CASE req.method = "cezi"
  <2>1. N!Prompt = {"character", "question"} \cup N!History
    BY <1>6 DEF N!Prompt, N!CeziPrompt
  <2> QED
    BY <1>2, <1>3, <1>4, <1>6, <2>1 DEF PromptIsWhole
<1>7. CASE req.method = "najia"
  <2>1. N!Prompt = {"bengua", "biangua", "question"} \cup N!History
    BY <1>7 DEF N!Prompt, N!NajiaPrompt
  <2> QED
    BY <1>2, <1>3, <1>4, <1>7, <2>1 DEF PromptIsWhole
<1>8. CASE req.method = "zwds"
  <2>1. \E gong \in SUBSET {"star_gong"} :
          N!Prompt = {"benming", "liunian", "question"} \cup N!History \cup gong
    BY <1>8 DEF N!Prompt, N!ZwdsPrompt
  <2> QED
    BY <1>2, <1>3, <1>4, <1>8, <2>1 DEF PromptIsWhole
<1> QED
  BY <1>1, <1>2, <1>5, <1>6, <1>7, <1>8

\* Where the request is neither answered nor its calls or its log extended.
LEMMA QuietKeeps ==
  ASSUME ConsultationInv, N!Charge \/ N!LogQuestion \/ N!MakeChart
  PROVE  ConsultationInv'
<1> USE DEF ConsultationInv
<1>1. /\ UNCHANGED <<req, prompts, said, answer, status>>
      /\ \/ /\ pc = "validate" /\ pc' = "ask" /\ req.flaw \notin N!RefusedHere(req.method)
            /\ receipt' = (IF req.admin THEN "none" ELSE "pending")
            /\ UNCHANGED <<chart, logged>>
         \/ /\ pc = "ask" /\ pc' = "tool" /\ logged' = Append(logged, "user_message")
            /\ UNCHANGED <<chart, receipt>>
         \/ /\ pc = "tool" /\ pc' = "model" /\ logged' = Append(logged, "tool_invocation")
            /\ req.flaw \notin N!ToolRefuses(req.method) \cup {"engine"}
            /\ chart' = N!ChartOf(req.method)
            /\ receipt' = receipt
  BY DEF N!Charge, N!LogQuestion, N!MakeChart, N!GoTo, N!Log, N!Receipt
<1>2. pc \in Unmodelled /\ pc' \in {"ask", "tool", "model"} /\ Len(said) = 0 /\ status = 0
  BY <1>1 DEF Unmodelled, CallsKnown, ReceiptKnown
<1>3. RequestKnown'
  <2>1. req.flaw \in N!FlawsOf(req.method)
    BY DEF RequestKnown, N!Sensible
  <2>2. pc = "tool" => req.flaw \notin N!RefusedHere(req.method)
    BY DEF RequestKnown, Charged
  <2>3. pc' = "model" => req.flaw = "none"
    BY <1>1, <2>1, <2>2 DEF N!FlawsOf, N!RefusedHere
  <2>4. pc' \in Charged => req.flaw \notin N!RefusedHere(req.method)
    BY <1>1, <2>2 DEF RequestKnown, Charged
  <2>5. pc' \in Charted => req.flaw = "none" /\ chart' = N!ChartOf(req.method)
    BY <1>1, <1>2, <2>3 DEF Charted
  <2> QED
    BY <1>1, <1>2, <2>4, <2>5 DEF RequestKnown, Unmodelled
<1>4. CallsKnown'
  BY <1>1, <1>2 DEF CallsKnown, Unmodelled, PromptIsWhole, N!Twice
<1>5. AnswerKnown'
  <2>1. logged' \in Seq(LogEvents)
    <3>1. "user_message" \in LogEvents /\ "tool_invocation" \in LogEvents
      BY DEF LogEvents
    <3> QED
      BY <1>1, <3>1 DEF AnswerKnown
  <2> QED
    BY <1>1, <1>2, <2>1 DEF AnswerKnown
<1>6. ReceiptKnown'
  BY <1>1, <1>2 DEF ReceiptKnown, Charged
<1> QED
  BY <1>3, <1>4, <1>5, <1>6

\* Every end without an answer.
LEMMA RefusalKeeps ==
  ASSUME ConsultationInv, N!Refuse \/ N!ChargeRefused \/ N!ToolRejects \/ N!TurnRaises
  PROVE  ConsultationInv'
<1> USE DEF ConsultationInv
<1>1. /\ UNCHANGED <<req, chart, prompts, said, logged>>
      /\ pc' = "done" /\ status' \in {400, 402, 500} /\ answer' = N!Refusal
  BY DEF N!Refuse, N!ChargeRefused, N!ToolRejects, N!TurnRaises, N!AnswerWith, N!GoTo
<1>2. answer'.text = "refusal"
  BY <1>1 DEF N!Refusal, N!NoAnswer
<1>3. \/ pc = "validate" /\ receipt' = receipt
      \/ /\ pc \in {"tool", "model", "paraphrase"}
         /\ receipt' = IF receipt = "pending" THEN "refunded" ELSE receipt
  BY DEF N!Refuse, N!ChargeRefused, N!ToolRejects, N!TurnRaises, N!Resolve, N!RefundRejected
<1>4. RequestKnown'
  BY <1>1 DEF RequestKnown, Charged, Charted
<1>5. CallsKnown'
  BY <1>1 DEF CallsKnown, Unmodelled, PromptIsWhole, N!Twice
<1>6. AnswerKnown'
  BY <1>1, <1>2 DEF AnswerKnown, N!Texts
<1>7. ReceiptKnown'
  <2>1. receipt' \in {"none", "refunded"} /\ (req.admin => receipt' = "none")
    BY <1>3 DEF ReceiptKnown, Charged
  <2>2. req.flaw # "none" => Len(said) = 0
    BY <1>3 DEF RequestKnown, CallsKnown, Charted, Unmodelled
  <2> QED
    BY <1>1, <2>1, <2>2 DEF ReceiptKnown, Charged
<1> QED
  BY <1>4, <1>5, <1>6, <1>7

\* A call of the model, with a prompt and a reply.
LEMMA AskKeeps ==
  ASSUME ConsultationInv, NEW reply \in Replies, N!CallModel(reply) \/ N!CallAgain(reply)
  PROVE  ConsultationInv'
<1> USE DEF ConsultationInv
<1> DEFINE p == IF pc = "model" THEN N!Prompt ELSE {"analysis"}
<1>1. /\ UNCHANGED <<req, receipt, chart, logged, answer, status>>
      /\ said' = Append(said, reply) /\ prompts' = Append(prompts, p)
      /\ \/ /\ pc = "model"
            /\ pc' = IF N!Twice /\ reply = "text" THEN "paraphrase" ELSE "compose"
         \/ pc = "paraphrase" /\ pc' = "compose"
  BY DEF N!CallModel, N!CallAgain, N!GoTo, N!Failed, N!SecondPrompt
<1>2. /\ pc = "model" => PromptIsWhole(p)
      /\ pc = "paraphrase" => p = {"analysis"}
      /\ p \in SUBSET (ChartParts \cup {"question", "history", "star_gong", "analysis"})
  BY PromptHolds
<1> HIDE DEF p
<1>3. pc \in Charted /\ pc' \in {"paraphrase", "compose"} /\ status = 0
  BY <1>1 DEF Charted, ReceiptKnown
<1>4. /\ pc = "model" => Len(said) = 0
      /\ pc = "paraphrase" => N!Twice /\ Len(said) = 1 /\ said[1] = "text"
  BY DEF CallsKnown, Unmodelled
<1>5. Len(prompts) = Len(said) /\ Len(said) \in Nat
  BY DEF CallsKnown
<1>6. /\ said' \in Seq(Replies) /\ Len(said') = Len(said) + 1 /\ said'[Len(said) + 1] = reply
      /\ \A i \in 1..Len(said) : said'[i] = said[i]
  BY <1>1 DEF CallsKnown
<1>7. /\ prompts' \in Seq(SUBSET (ChartParts \cup {"question", "history", "star_gong", "analysis"}))
      /\ Len(prompts') = Len(prompts) + 1 /\ prompts'[Len(prompts) + 1] = p
      /\ \A i \in 1..Len(prompts) : prompts'[i] = prompts[i]
  BY <1>1, <1>2 DEF CallsKnown
<1>8. N!Twice' = N!Twice /\ \A q : PromptIsWhole(q)' = PromptIsWhole(q)
  BY <1>1 DEF N!Twice, PromptIsWhole
<1>9. CASE pc = "model"
  <2>1. Len(said') = 1 /\ Len(prompts') = 1 /\ said'[1] = reply /\ prompts'[1] = p
    BY <1>4, <1>5, <1>6, <1>7, <1>9
  <2>2. pc' = "paraphrase" => N!Twice /\ reply = "text"
    BY <1>1, <1>9
  <2>3. pc' = "compose" => ~(N!Twice /\ reply = "text")
    BY <1>1, <1>9
  <2>4. PromptIsWhole(p) /\ chart' = N!ChartOf(req'.method)
    BY <1>1, <1>2, <1>9 DEF RequestKnown, Charted
  <2>5. CallsKnown'
    BY <1>3, <1>6, <1>7, <1>8, <2>1, <2>2, <2>4 DEF CallsKnown, Unmodelled
  <2>6. pc' = "compose" => AllCalled'
    BY <1>8, <2>1, <2>3 DEF AllCalled
  <2> QED
    <3>1. RequestKnown'
      BY <1>1, <1>3 DEF RequestKnown, Charged, Charted, Unmodelled
    <3>2. AnswerKnown'
      BY <1>1, <1>3, <2>6 DEF AnswerKnown
    <3>3. ReceiptKnown'
      BY <1>1, <1>3 DEF ReceiptKnown, Charged, RequestKnown, Charted
    <3> QED
      BY <2>5, <3>1, <3>2, <3>3
<1>10. CASE pc = "paraphrase"
  <2>1. Len(said') = 2 /\ Len(prompts') = 2 /\ said'[1] = "text" /\ prompts'[2] = p
        /\ prompts'[1] = prompts[1]
    BY <1>4, <1>5, <1>6, <1>7, <1>10
  <2>2. PromptIsWhole(prompts[1]) /\ chart' = N!ChartOf(req'.method) /\ p = {"analysis"}
    BY <1>1, <1>2, <1>4, <1>10 DEF CallsKnown
  <2>3. CallsKnown'
    BY <1>1, <1>4, <1>6, <1>7, <1>8, <1>10, <2>1, <2>2 DEF CallsKnown, Unmodelled
  <2>4. AllCalled'
    BY <2>1 DEF AllCalled
  <2> QED
    <3>1. RequestKnown'
      BY <1>1, <1>3 DEF RequestKnown, Charged, Charted, Unmodelled
    <3>2. AnswerKnown'
      BY <1>1, <1>3, <2>4 DEF AnswerKnown
    <3>3. ReceiptKnown'
      BY <1>1, <1>3 DEF ReceiptKnown, Charged, RequestKnown, Charted
    <3> QED
      BY <2>3, <3>1, <3>2, <3>3
<1> QED
  BY <1>1, <1>9, <1>10

\* The tokens counted are those of every reply but a failed last one.
LEMMA UsageCounts ==
  ASSUME CallsKnown, AllCalled
  PROVE  N!Usage = Len(said) - (IF LastFailed THEN 1 ELSE 0)
<1> DEFINE Counted == {i \in DOMAIN said : said[i] = "text"}
<1>1. N!Usage = Cardinality(Counted)
  <2>1. {i \in DOMAIN said : ~N!Failed(said[i])} = Counted
    BY DEF N!Failed
  <2>2. N!Usage = N!Cardinality({i \in DOMAIN said : ~N!Failed(said[i])})
    BY Zenon DEF N!Usage
  <2>3. \A S : N!Cardinality(S) = Cardinality(S)
    BY Zenon DEF N!Cardinality, Cardinality
  <2> QED
    BY <2>1, <2>2, <2>3, Zenon
<1>2. said \in Seq(Replies) /\ DOMAIN said = 1..Len(said) /\ Len(said) \in {1, 2}
  BY DEF CallsKnown, AllCalled
<1>3. CASE Len(said) = 1
  <2>1. Counted = IF said[1] = "text" THEN {1} ELSE {}
    BY <1>2, <1>3
  <2> QED
    BY <1>1, <1>3, <2>1, FS_EmptySet, FS_Singleton DEF LastFailed
<1>4. CASE Len(said) = 2
  <2>1. said[1] = "text"
    BY <1>4 DEF CallsKnown
  <2>2. Counted = IF said[2] = "text" THEN {1} \cup {2} ELSE {1}
    BY <1>2, <1>4, <2>1
  <2>3. Cardinality({1}) = 1 /\ Cardinality({1} \cup {2}) = 2
    <3>1. IsFiniteSet({1}) /\ Cardinality({1}) = 1 /\ 2 \notin {1}
      <4>1. 2 \notin {1}
        OBVIOUS
      <4> QED
        BY <4>1, FS_Singleton, Zenon
    <3> QED
      BY <3>1, FS_AddElement
  <2> QED
    BY <1>1, <1>4, <2>2, <2>3 DEF LastFailed
<1> QED
  BY <1>2, <1>3, <1>4

\* The answer is put together, and logged.
LEMMA ComposeKeeps == ASSUME ConsultationInv, N!Compose PROVE ConsultationInv'
<1> USE DEF ConsultationInv
<1> DEFINE r == said[Len(said)]
           e == ResponseEvent(N!ResponseText)
<1>1. /\ pc = "compose" /\ pc' = "resolve"
      /\ UNCHANGED <<req, receipt, chart, prompts, said, status>>
      /\ logged' = Append(logged, e)
      /\ answer'.text = N!ResponseText /\ answer'.error = N!ResponseFailed
      /\ answer'.usage = N!Usage
  BY DEF N!Compose, N!GoTo, N!Log, N!Logged, ResponseEvent
<1>2. AllCalled /\ req.flaw = "none" /\ status = 0 /\ Len(said) \in {1, 2}
      /\ said \in Seq(Replies)
  BY <1>1 DEF AnswerKnown, RequestKnown, Charted, ReceiptKnown, CallsKnown, AllCalled
<1>3. N!ResponseFailed = (r # "text")
  BY DEF N!ResponseFailed, N!Failed, N!Last
<1>4. N!ResponseText = IF r # "text" THEN "error_message"
                       ELSE IF N!Twice THEN "both" ELSE "analysis"
  <2>1. CASE r # "text"
    BY <1>3, <2>1 DEF N!ResponseText
  <2>2. CASE r = "text" /\ Len(said) = 1
    <3>1. said[1] = "text" /\ ~N!Twice
      BY <1>2, <2>2 DEF AllCalled
    <3>2. N!Composed = "analysis"
      BY <2>2, <3>1 DEF N!Composed
    <3> QED
      BY <1>3, <2>2, <3>1, <3>2 DEF N!ResponseText
  <2>3. CASE r = "text" /\ Len(said) = 2
    <3>1. said[1] = "text" /\ said[2] = "text" /\ N!Twice
      BY <2>3 DEF CallsKnown
    <3>2. N!Composed = "both"
      BY <2>3, <3>1 DEF N!Composed
    <3> QED
      BY <1>3, <2>3, <3>1, <3>2 DEF N!ResponseText
  <2> QED
    BY <1>2, <2>1, <2>2, <2>3
<1>5. N!ResponseText \in N!Texts /\ e \in LogEvents
  BY <1>4 DEF N!Texts, LogEvents
<1>6. answer'.usage = Len(said) - (IF LastFailed' THEN 1 ELSE 0)
  BY <1>1, <1>2, UsageCounts DEF LastFailed
<1> HIDE DEF e
<1>7. /\ logged' \in Seq(LogEvents) /\ Len(logged') > 0 /\ logged'[Len(logged')] = e
  BY <1>1, <1>5 DEF AnswerKnown
<1>8. N!Twice' = N!Twice /\ AllCalled'
  BY <1>1, <1>2 DEF N!Twice, AllCalled
<1>9. e = ResponseEvent(answer'.text)
  BY <1>1 DEF e
<1>10. /\ answer'.error <=> LastFailed'
       /\ LastFailed' => answer'.text = "error_message"
       /\ ~LastFailed' => answer'.text = IF N!Twice' THEN "both" ELSE "analysis"
  BY <1>1, <1>3, <1>4, <1>8 DEF LastFailed
<1>11. AnswerKnown'
  BY <1>1, <1>2, <1>5, <1>6, <1>7, <1>8, <1>9, <1>10 DEF AnswerKnown
<1> QED
  BY <1>1, <1>2, <1>11 DEF RequestKnown, CallsKnown, PromptIsWhole, N!Twice, ReceiptKnown, Charged, Charted,
     Unmodelled

\* The receipt is settled, or refunded, after what the answer says.
LEMMA ConcludeKeeps == ASSUME ConsultationInv, N!Conclude PROVE ConsultationInv'
<1> USE DEF ConsultationInv
<1>1. /\ pc = "resolve" /\ pc' = "done" /\ status' = 200
      /\ UNCHANGED <<req, chart, prompts, said, logged, answer>>
      /\ receipt' = IF receipt = "pending" THEN IF answer.error THEN "refunded" ELSE "settled"
                    ELSE receipt
  BY DEF N!Conclude, N!ResolveByResult, N!Resolve, N!AnswerWith, N!GoTo
<1>2. receipt = IF req.admin THEN "none" ELSE "pending"
  BY <1>1 DEF ReceiptKnown, Charged
<1>3. ReceiptKnown'
  BY <1>1, <1>2 DEF ReceiptKnown, Charged
<1>4. RequestKnown' /\ CallsKnown' /\ AnswerKnown'
  BY <1>1 DEF RequestKnown, CallsKnown, AnswerKnown, AllCalled, LastFailed, PromptIsWhole,
     N!Twice, Charged, Charted, Unmodelled
<1> QED
  BY <1>3, <1>4

\* Every step of the four handlers keeps the invariant of the request.
LEMMA ConsultationStep == ConsultationInv /\ [N!Next]_consultationVars => ConsultationInv'
<1> SUFFICES ASSUME ConsultationInv, [N!Next]_consultationVars PROVE ConsultationInv'
  OBVIOUS
<1>1. CASE UNCHANGED consultationVars
  <2>1. UNCHANGED <<req, pc, receipt, chart, prompts, said, logged, answer, status>>
    BY <1>1 DEF consultationVars
  <2> QED
    <3>1. RequestKnown' /\ ReceiptKnown'
      BY <2>1 DEF ConsultationInv, RequestKnown, ReceiptKnown, CallsKnown
    <3>2. CallsKnown'
      BY <2>1 DEF ConsultationInv, CallsKnown, PromptIsWhole, N!Twice
    <3>3. AnswerKnown'
      BY <2>1 DEF ConsultationInv, AnswerKnown, AllCalled, LastFailed, N!Twice
    <3> QED
      BY <3>1, <3>2, <3>3 DEF ConsultationInv
<1> QED
  BY <1>1, QuietKeeps, RefusalKeeps, AskKeeps, ComposeKeeps, ConcludeKeeps DEF N!Next, Replies

\* What the invariant says of the charge.
LEMMA ChargeIsSound == ConsultationInv => PaidForAnalysis
<1> SUFFICES ASSUME ConsultationInv PROVE PaidForAnalysis
  OBVIOUS
<1> USE DEF ConsultationInv
<1>1. pc \in Unmodelled \cup Charged \cup {"done"}
  BY DEF RequestKnown
<1>2. N!ConsultationTypeOK
  BY <1>1 DEF N!ConsultationTypeOK, CallsKnown, AnswerKnown, ReceiptKnown, Charged, Unmodelled
<1>3. N!PaidForAnalysis
  BY DEF N!PaidForAnalysis, N!Done, AnswerKnown, ReceiptKnown
<1>4. N!FlawedCostsNothing
  <2>1. Len(prompts) = 0 => prompts = <<>>
    BY DEF CallsKnown
  <2> QED
    BY <2>1 DEF N!FlawedCostsNothing, N!Done, CallsKnown, AnswerKnown, ReceiptKnown
<1> QED
  BY <1>2, <1>3, <1>4 DEF PaidForAnalysis

\* Of a sequence of at most two, what is not the first is the last.
LEMMA SmallIndex ==
  \A n \in {0, 1, 2} : \A i \in 1..n : (i = 1 \/ i = n) /\ (i # 1 => n = 2) /\ (n = 1 => i = 1)
  OBVIOUS

\* What it says of the answer.
LEMMA AnswerIsCoherent == ConsultationInv => ConsultationIsCoherent
<1> SUFFICES ASSUME ConsultationInv PROVE ConsultationIsCoherent
  OBVIOUS
<1> USE DEF ConsultationInv
<1>1. N!FailureShowsNothing
  <2> SUFFICES ASSUME NEW i \in DOMAIN said, said[i] # "text", status = 200
               PROVE  answer.text = "error_message" /\ answer.error
    BY DEF N!FailureShowsNothing, N!Failed
  <2>1. i \in 1..Len(said) /\ Len(said) \in {1, 2} /\ (Len(said) = 2 => said[1] = "text")
    BY DEF CallsKnown, AnswerKnown, AllCalled
  <2>2. i = Len(said)
    <3>1. CASE i = 1
      <4>1. said[1] # "text"
        BY <3>1
      <4> QED
        BY <2>1, <3>1, <4>1
    <3>2. CASE i # 1
      <4>1. Len(said) \in {0, 1, 2}
        BY <2>1
      <4> QED
        BY <2>1, <3>2, <4>1, SmallIndex, Zenon
    <3> QED
      BY <3>1, <3>2
  <2> QED
    BY <2>2 DEF AnswerKnown, LastFailed
<1>2. N!LogAgrees
  BY DEF N!LogAgrees, N!Last, AnswerKnown, ResponseEvent
<1>3. N!UsageIsWhole
  BY DEF N!UsageIsWhole, AnswerKnown, CallsKnown
<1>4. N!PromptsAreWhole
  <2> SUFFICES ASSUME NEW i \in DOMAIN prompts
               PROVE  IF i = 1
                      THEN /\ prompts[1] \cap UNION {N!ChartOf(m) : m \in N!Methods} = chart \ {"score"}
                           /\ "question" \in prompts[1]
                           /\ req.history => "history" \in prompts[1]
                      ELSE prompts[i] = {"analysis"}
    BY DEF N!PromptsAreWhole
  <2>1. i \in 1..Len(said) /\ Len(said) \in {0, 1, 2}
    BY DEF CallsKnown
  <2>2. CASE i = 1
    BY <2>1, <2>2 DEF CallsKnown, PromptIsWhole, ChartParts
  <2>3. CASE i # 1
    <3>1. i = 2 /\ Len(said) = 2
      BY <2>1, <2>3, SmallIndex
    <3> QED
      BY <2>3, <3>1 DEF CallsKnown
  <2> QED
    BY <2>2, <2>3
<1> QED
  BY <1>1, <1>2, <1>3, <1>4 DEF ConsultationIsCoherent

-----------------------------------------------------------------------------
(***************************************************************************)
(* The call and the consultation beside each other.  M!Next and N!Next     *)
(* change the state of their own part only.                                *)
(***************************************************************************)

PartsInv == CallInv /\ ConsultationInv

\* The model call and the consultation begin well.
LEMMA PartsBegin == DeliveryInit => PartsInv
  BY CallInit, ConsultationBegins DEF DeliveryInit, PartsInv

\* Each of them steps while the other rests.
LEMMA PartsStep == PartsInv /\ [DeliveryNext]_deliveryVars => PartsInv'
<1> SUFFICES ASSUME PartsInv, [DeliveryNext]_deliveryVars PROVE PartsInv'
  OBVIOUS
<1>1. [M!Next]_callVars /\ [N!Next]_consultationVars
  <2>1. DeliveryNext \/ (UNCHANGED callVars /\ UNCHANGED consultationVars)
    BY DEF deliveryVars
  <2>2. DeliveryNext => (M!Next \/ UNCHANGED callVars) /\ (N!Next \/ UNCHANGED consultationVars)
    BY DEF DeliveryNext
  <2> QED
    BY <2>1, <2>2
<1> QED
  BY <1>1, CallStep, ConsultationStep DEF PartsInv

\* Both invariants hold of the run's specification.
LEMMA PartsHold == DeliverySpec => []PartsInv
  BY PartsBegin, PartsStep, PTL DEF DeliverySpec

\* Whatever a provider does and however often it is asked, llm_report_tool
\* returns the text of one reply and all of it, streams that reply last, counts
\* the tokens of every reply, and sends no more than its two loops allow.
THEOREM AnswersAreOneReply == DeliverySpec => []AnswerIsOneReply
  BY PartsHold, CallIsSound, PTL DEF PartsInv

\* Of the four consultations, only the analysis that was asked for is paid: a
\* request with a mistake in it costs neither credits nor a call of the model,
\* and every other end gives the charge back.
THEOREM OnlyAnalysesArePaid == DeliverySpec => []PaidForAnalysis
  BY PartsHold, ChargeIsSound, PTL DEF PartsInv

\* What a consultation answers, logs and meters agree, a failed call shows no
\* other call's text, and each prompt is of this request's chart and question.
THEOREM ConsultationsAreCoherent == DeliverySpec => []ConsultationIsCoherent
  BY PartsHold, AnswerIsCoherent, PTL DEF PartsInv
=============================================================================
