------------------------ MODULE PacketQueueOps_proofs ------------------------
(* What the methods of the queue record return, for packets of any kind. *)
EXTENDS PacketQueueOps, TLAPS

(* Dropping the head and appending: the run moves on by one. *)
LEMMA SlideRun ==
  ASSUME NEW P, NEW s \in Seq(P), s # <<>>, NEW e \in P
  PROVE  /\ Append(Tail(s), e) \in Seq(P)
         /\ Len(Append(Tail(s), e)) = Len(s)
         /\ Append(Tail(s), e)[Len(s)] = e
         /\ \A i \in 1..(Len(s) - 1) : Append(Tail(s), e)[i] = s[i + 1]
  <1>1. /\ Tail(s) \in Seq(P)
        /\ Len(Tail(s)) = Len(s) - 1
        /\ \A i \in 1..(Len(s) - 1) : Tail(s)[i] = s[i + 1]
    OBVIOUS
  <1> QED BY <1>1

(* The two cases of Enqueue, and Close. *)
LEMMA EnqueuedFull ==
  ASSUME NEW P, NEW q \in QueueRecord(P), NEW pkt \in P, IsFull(q)
  PROVE  /\ q.packets # <<>>
         /\ Enqueued(q, pkt) \in QueueRecord(P)
         /\ Enqueued(q, pkt).packets = Append(Tail(q.packets), pkt)
         /\ Enqueued(q, pkt).maxSize = q.maxSize
         /\ Enqueued(q, pkt).closed = q.closed
         /\ Enqueued(q, pkt).dropped = q.dropped + 1
  <1> DEFINE s == Append(Tail(q.packets), pkt)
             d == q.dropped + 1
  <1>1. q.packets \in Seq(P) /\ q.maxSize \in Nat \ {0} /\ q.dropped \in Nat
    BY DEF QueueRecord
  <1>2. q.packets # <<>>
    BY <1>1 DEF IsFull
  <1>3. s \in Seq(P)
    BY <1>1, <1>2, SlideRun
  <1>4. Enqueued(q, pkt) = [q EXCEPT !.packets = s, !.dropped = d]
    BY Zenon DEF Enqueued
  <1>5. d \in Nat
    BY <1>1
  <1> HIDE DEF s, d
  <1>6. /\ Enqueued(q, pkt) \in QueueRecord(P)
        /\ Enqueued(q, pkt).packets = s
        /\ Enqueued(q, pkt).maxSize = q.maxSize
        /\ Enqueued(q, pkt).closed = q.closed
        /\ Enqueued(q, pkt).dropped = d
    BY <1>3, <1>4, <1>5 DEF QueueRecord
  <1> QED BY <1>2, <1>6 DEF s, d

LEMMA EnqueuedRoom ==
  ASSUME NEW P, NEW q \in QueueRecord(P), NEW pkt \in P, ~IsFull(q)
  PROVE  /\ Enqueued(q, pkt) \in QueueRecord(P)
         /\ Enqueued(q, pkt).packets = Append(q.packets, pkt)
         /\ Enqueued(q, pkt).maxSize = q.maxSize
         /\ Enqueued(q, pkt).closed = q.closed
         /\ Enqueued(q, pkt).dropped = q.dropped
  <1> DEFINE s == Append(q.packets, pkt)
  <1>1. s \in Seq(P)
    BY DEF QueueRecord
  <1>2. Enqueued(q, pkt) = [q EXCEPT !.packets = s]
    BY DEF Enqueued, QueueRecord
  <1> HIDE DEF s
  <1>3. /\ Enqueued(q, pkt) \in QueueRecord(P)
        /\ Enqueued(q, pkt).packets = s
        /\ Enqueued(q, pkt).maxSize = q.maxSize
        /\ Enqueued(q, pkt).closed = q.closed
        /\ Enqueued(q, pkt).dropped = q.dropped
    BY <1>1, <1>2 DEF QueueRecord
  <1> QED BY <1>3 DEF s

LEMMA EnqueuedRecord ==
  ASSUME NEW P, NEW q \in QueueRecord(P), NEW pkt \in P
  PROVE  /\ Enqueued(q, pkt) \in QueueRecord(P)
         /\ Enqueued(q, pkt).closed = q.closed
  <1>1. CASE IsFull(q)
    BY <1>1, EnqueuedFull
  <1>2. CASE ~IsFull(q)
    BY <1>2, EnqueuedRoom
  <1> QED BY <1>1, <1>2

LEMMA SetClosed ==
  ASSUME NEW P, NEW q \in QueueRecord(P)
  PROVE  /\ ClosedQueue(q) \in QueueRecord(P)
         /\ ClosedQueue(q).packets = <<>>
         /\ ClosedQueue(q).maxSize = q.maxSize
         /\ ClosedQueue(q).closed = TRUE
         /\ ClosedQueue(q).dropped = q.dropped
  <1>1. ASSUME NEW s \in Seq(P), NEW b \in BOOLEAN
        PROVE  LET r == [q EXCEPT !.closed = b, !.packets = s]
               IN /\ r \in QueueRecord(P) /\ r.packets = s
                  /\ r.maxSize = q.maxSize /\ r.closed = b /\ r.dropped = q.dropped
    BY DEF QueueRecord
  <1>2. <<>> \in Seq(P) /\ TRUE \in BOOLEAN
    OBVIOUS
  <1> QED BY <1>1, <1>2 DEF ClosedQueue

LEMMA DequeuedRecord ==
  ASSUME NEW P, NEW q \in QueueRecord(P), q.packets # <<>>
  PROVE  /\ Dequeued(q) \in QueueRecord(P)
         /\ Dequeued(q).packets = Tail(q.packets)
         /\ Dequeued(q).maxSize = q.maxSize
         /\ Dequeued(q).closed = q.closed
         /\ Dequeued(q).dropped = q.dropped
  <1> DEFINE s == Tail(q.packets)
  <1>1. s \in Seq(P)
    BY DEF QueueRecord
  <1>2. Dequeued(q) = [q EXCEPT !.packets = s]
    BY DEF Dequeued, QueueRecord
  <1> HIDE DEF s
  <1>3. /\ Dequeued(q) \in QueueRecord(P)
        /\ Dequeued(q).packets = s
        /\ Dequeued(q).maxSize = q.maxSize
        /\ Dequeued(q).closed = q.closed
        /\ Dequeued(q).dropped = q.dropped
    BY <1>1, <1>2 DEF QueueRecord
  <1> QED BY <1>3 DEF s

LEMMA NewQueueRecord ==
  ASSUME NEW P, NEW n \in Int
  PROVE  /\ NewPacketQueue(n) \in QueueRecord(P)
         /\ NewPacketQueue(n).packets = <<>>
         /\ NewPacketQueue(n).closed = FALSE
  BY DEF NewPacketQueue, QueueRecord
=============================================================================
