------------------------ MODULE SessionWorker_proofs ------------------------
(* Proofs about SessionWorker, for every K and N up to the sixteen shards    *)
(* the index can name, every size of the group and sequence number spaces,   *)
(* any queue size and any number of packets; and, at the end, about Config,  *)
(* for every accepted configuration.                                         *)
EXTENDS SessionWorker, Config, PacketQueueOps_proofs, SequenceTheorems

(* Arithmetic modulo m: adding one before or after the remainder. *)
LEMMA RemainderUnique ==
  ASSUME NEW m \in Nat, 0 < m, NEW q \in Int, NEW r \in Int, NEW p \in Int, NEW s \in Int,
         m * q + r = m * p + s, 0 <= r, r < m, 0 <= s, s < m
  PROVE  r = s
  <1>1. m * (q - p) = s - r
    OBVIOUS
  <1> DEFINE d == q - p
  <1>2. d \in Int
    OBVIOUS
  <1>3. m * d = s - r
    BY <1>1
  <1> HIDE DEF d
  <1>4. CASE d >= 1
    <2>1. m * d >= m
      BY <1>2, <1>4
    <2> QED BY <2>1, <1>3
  <1>5. CASE d <= -1
    <2>1. m * d <= -m
      BY <1>2, <1>5
    <2> QED BY <2>1, <1>3
  <1>6. CASE d = 0
    BY <1>3, <1>6
  <1> QED BY <1>2, <1>4, <1>5, <1>6

LEMMA DivMod ==
  \A a \in Int, m \in Int : m > 0 => /\ a = m * (a \div m) + (a % m)
                                    /\ a % m \in 0..(m - 1) /\ a \div m \in Int
  <1>1. \A a \in Int, m \in Int : m > 0 => a = m * (a \div m) + (a % m)
    OBVIOUS
  <1>2. \A a \in Int, m \in Int : m > 0 => a % m \in 0..(m - 1) /\ a \div m \in Int
    OBVIOUS
  <1> QED BY <1>1, <1>2, Zenon

LEMMA ModSucc ==
  ASSUME NEW m \in Nat, 0 < m, NEW a \in Nat
  PROVE  ((a % m) + 1) % m = (a + 1) % m
  <1> DEFINE q == a \div m
             r == a % m
             p == (a + 1) \div m
             s == (a + 1) % m
  <1>1. /\ a = m * q + r /\ r \in 0..(m - 1) /\ q \in Int
        /\ a + 1 = m * p + s /\ s \in 0..(m - 1) /\ p \in Int
    <2>1. a \in Int /\ a + 1 \in Int /\ m \in Int /\ m > 0
      OBVIOUS
    <2>2. a = m * q + r /\ r \in 0..(m - 1) /\ q \in Int
      BY <2>1, DivMod, Zenon
    <2>3. a + 1 = m * p + s /\ s \in 0..(m - 1) /\ p \in Int
      BY <2>1, DivMod, Zenon
    <2> QED BY <2>2, <2>3
  <1> HIDE DEF q, p
  <1>2. (r + 1) % m = IF r + 1 < m THEN r + 1 ELSE 0
    <2> DEFINE t == (r + 1) % m
               u == (r + 1) \div m
    <2> HIDE DEF r
    <2>1. r + 1 = m * u + t /\ t \in 0..(m - 1) /\ u \in Int
      <3>1. r + 1 \in Int /\ m \in Int /\ m > 0
        BY <1>1
      <3> QED BY <3>1, DivMod, Zenon
    <2> HIDE DEF t, u
    <2>2. CASE r + 1 < m
      <3>1. m * u + t = m * 0 + (r + 1) /\ 0 \in Int /\ r + 1 \in Int /\ t \in Int
        BY <1>1, <2>1
      <3>2. t = r + 1
        BY <1>1, <2>1, <2>2, <3>1, RemainderUnique
      <3> QED BY <2>2, <3>2 DEF t
    <2>3. CASE ~(r + 1 < m)
      <3>1. m * u + t = m * 1 + 0 /\ 0 \in Int /\ 1 \in Int /\ t \in Int
        BY <1>1, <2>1, <2>3
      <3>2. t = 0
        BY <1>1, <2>1, <3>1, RemainderUnique
      <3> QED BY <2>3, <3>2 DEF t
    <2> QED BY <2>2, <2>3
  <1> HIDE DEF r, s
  <1>3. CASE r + 1 < m
    <2>1. m * q + (r + 1) = m * p + s
      BY <1>1
    <2>2. r + 1 = s
      BY <1>1, <1>3, <2>1, RemainderUnique
    <2> QED BY <1>2, <1>3, <2>2 DEF r, s
  <1>4. CASE ~(r + 1 < m)
    <2>1. r + 1 = m
      BY <1>1, <1>4
    <2>2. m * (q + 1) + 0 = m * p + s
      BY <1>1, <2>1
    <2>3. 0 = s
      <3>1. q + 1 \in Int /\ 0 \in Int /\ 0 < m
        BY <1>1
      <3> QED BY <1>1, <2>2, <3>1, RemainderUnique
    <2> QED BY <1>2, <1>4, <2>3 DEF r, s
  <1> QED BY <1>3, <1>4
-----------------------------------------------------------------------------
(* For every group number the mask lets through and every index of four      *)
(* bits, the sender's packing (session.go 328 and 392) and the receiver's    *)
(* unpacking (recv.go 705, 736-737) are inverse.                             *)
THEOREM HeaderRoundTrip ==
  ASSUME NEW g \in 0..(GroupSpan - 1), NEW index \in 0..(IndexSpan - 1)
  PROVE  /\ ~IsFEC(DataInfo(g, index))
         /\ GroupOf(DataInfo(g, index)) = g
         /\ IndexOf(DataInfo(g, index)) = index
         /\ IsFEC(ParityInfo(g, index))
         /\ GroupOf(ParityInfo(g, index)) = g
         /\ IndexOf(ParityInfo(g, index)) = index
  <1>1. DataInfo(g, index) = g * 16 + index
        /\ ParityInfo(g, index) = 32768 + g * 16 + index
    BY DEF DataInfo, ParityInfo, GroupSpan, IndexSpan, ParityFlag, Uint16
  <1>2. /\ (g * 16 + index) \div 16 = g
        /\ (g * 16 + index) % 16 = index
        /\ (g * 16 + index) \div 32768 = 0
    BY DEF GroupSpan, IndexSpan
  <1>3. /\ (32768 + g * 16 + index) \div 16 = 2048 + g
        /\ (32768 + g * 16 + index) % 16 = index
        /\ (32768 + g * 16 + index) \div 32768 = 1
    BY DEF GroupSpan, IndexSpan
  <1>4. g % 2048 = g /\ (2048 + g) % 2048 = g
    BY DEF GroupSpan
  <1> QED BY <1>1, <1>2, <1>3, <1>4 DEF IsFEC, GroupOf, IndexOf, GroupSpan, IndexSpan, ParityFlag

(* What is packed fits the sixteen bits. *)
LEMMA HeaderFits ==
  ASSUME NEW g \in 0..(GroupSpan - 1), NEW index \in 0..(IndexSpan - 1)
  PROVE  /\ DataInfo(g, index) \in 0..(Uint16 - 1)
         /\ ParityInfo(g, index) \in 0..(Uint16 - 1)
  <1>1. /\ g * 16 + index >= 0 /\ g * 16 + index < 32768
        /\ g * 16 + index \in Int
    BY DEF GroupSpan, IndexSpan
  <1>2. DataInfo(g, index) = g * 16 + index
        /\ ParityInfo(g, index) = 32768 + g * 16 + index
    BY <1>1 DEF DataInfo, ParityInfo, GroupSpan, IndexSpan, ParityFlag, Uint16
  <1>3. \A x \in Int : 0 <= x /\ x < 65536 => x \in 0..(Uint16 - 1)
    <2>1. \A u, x \in Int : 0 <= x /\ x < u => x \in 0..(u - 1)
      OBVIOUS
    <2>2. Uint16 \in Int /\ \A x \in Int : x < 65536 => x < Uint16
      BY DEF Uint16
    <2> QED BY <2>1, <2>2
  <1>4. 32768 + g * 16 + index \in Int /\ 32768 + g * 16 + index < 65536
        /\ 0 <= 32768 + g * 16 + index
    BY <1>1
  <1>5. DataInfo(g, index) \in 0..(Uint16 - 1)
    BY <1>1, <1>2, <1>3
  <1> QED BY <1>2, <1>3, <1>4, <1>5
-----------------------------------------------------------------------------
(* What is still queued comes after the packet taken last, in order, and the *)
(* queue is closed only once the context has ended.                          *)
Order ==
  /\ queue.closed => cancelled
  /\ pkt.data <= offered
  /\ \A i \in 1..Len(queue.packets) :
       pkt.data < queue.packets[i] /\ queue.packets[i] <= offered
  /\ \A i, j \in 1..Len(queue.packets) : i < j => queue.packets[i] < queue.packets[j]

(* Where in the group the worker is.  The flush is never reached: a closed   *)
(* queue means an ended context, and then the group is given up.             *)
Position ==
  /\ loc # "flush"
  /\ loc \in {"check", "dequeue", "frame"} => parity = 0 /\ Len(group) < K
  /\ loc = "parity" => Len(group) = K
  /\ loc = "frame" => pkt.data > 0
  /\ groupNum = generation % GroupCount

Core == TypeOK /\ Order /\ Position

(* The constants, as the provers want them. *)
LEMMA Sizes ==
  /\ K \in Nat /\ N \in Nat /\ 0 < K /\ K < N /\ N <= IndexSpan
  /\ GroupCount \in Nat /\ 0 < GroupCount /\ GroupCount <= GroupSpan
  /\ SeqCount \in Nat /\ 0 < SeqCount /\ QueueSize \in Int /\ MaxPackets \in Nat
  /\ IndexSpan \in Nat /\ GroupSpan \in Nat
  BY SessionWorkerAssumption DEF IndexSpan, GroupSpan

LEMMA NextSeqType ==
  ASSUME seqNum \in 0..(SeqCount - 1)
  PROVE  NextSeq \in 0..(SeqCount - 1)
  BY Sizes DEF NextSeq

LEMMA NextGroupNumType ==
  ASSUME generation \in Nat, groupNum = generation % GroupCount
  PROVE  /\ NextGroupNum \in 0..(GroupCount - 1)
         /\ NextGroupNum = (generation + 1) % GroupCount
  <1>1. NextGroupNum = (generation + 1) % GroupCount
    BY ModSucc, Sizes DEF NextGroupNum
  <1> QED BY <1>1, Sizes

LEMMA CoreInit == Init => Core
  <1> SUFFICES ASSUME Init PROVE Core
    OBVIOUS
  <1>1. queue \in QueueRecord(1..MaxPackets) /\ queue.packets = <<>> /\ queue.closed = FALSE
    BY NewQueueRecord, Sizes DEF Init
  <1>2. TypeOK
    <2>1. /\ seqNum \in 0..(SeqCount - 1) /\ groupNum \in 0..(GroupCount - 1)
          /\ parity \in 0..(N - K - 1) /\ generation \in Nat /\ offered \in 0..MaxPackets
      BY Sizes DEF Init
    <2>2. pkt \in [data : 0..MaxPackets, seq : 0..(SeqCount - 1)]
      BY Sizes DEF Init, NoPacket
    <2>3. group \in Seq(1..MaxPackets) /\ Len(group) <= K /\ wire \in Seq(Frames)
      BY Sizes, EmptySeq DEF Init
    <2> QED BY <1>1, <2>1, <2>2, <2>3 DEF Init, TypeOK
  <1>3. Order /\ Position
    BY <1>1, Sizes DEF Init, Order, Position, NoPacket
  <1> QED BY <1>2, <1>3 DEF Core

(* The frames the worker writes. *)
LEMMA DataFrameType ==
  ASSUME Core, loc = "frame"
  PROVE  /\ DataFrame \in Frames
         /\ Data(DataFrame) /\ ~IsFEC(DataFrame.info)
         /\ GroupOf(DataFrame.info) = groupNum
         /\ IndexOf(DataFrame.info) = Len(group)
         /\ DataFrame.of = <<pkt.data>> /\ DataFrame.seq = pkt.seq
         /\ DataFrame.gen = generation
  <1>1. groupNum \in 0..(GroupSpan - 1) /\ Len(group) \in 0..(IndexSpan - 1)
    BY Sizes DEF Core, TypeOK, Position
  <1>2. pkt.data \in 0..MaxPackets /\ pkt.seq \in 0..(SeqCount - 1) /\ generation \in Nat
    BY DEF Core, TypeOK
  <1> DEFINE info == DataInfo(groupNum, Len(group))
  <1>3. info \in 0..(Uint16 - 1) /\ ~IsFEC(info)
        /\ GroupOf(info) = groupNum /\ IndexOf(info) = Len(group)
    BY <1>1, HeaderRoundTrip, HeaderFits
  <1> HIDE DEF info
  <1>4. DataFrame = [seq |-> pkt.seq, info |-> info, gen |-> generation, of |-> <<pkt.data>>]
    BY DEF DataFrame, info
  <1>5. <<pkt.data>> \in Seq(0..MaxPackets)
    BY <1>2
  <1> QED BY <1>2, <1>3, <1>4, <1>5 DEF Frames, Data

LEMMA ParityFrameType ==
  ASSUME Core, loc = "parity"
  PROVE  /\ ParityFrame \in Frames
         /\ IsFEC(ParityFrame.info) /\ ~Data(ParityFrame)
         /\ GroupOf(ParityFrame.info) = groupNum
         /\ IndexOf(ParityFrame.info) = K + parity
         /\ ParityFrame.of = group /\ ParityFrame.seq = seqNum
         /\ ParityFrame.gen = generation
  <1>1. groupNum \in 0..(GroupSpan - 1) /\ K + parity \in 0..(IndexSpan - 1)
    BY Sizes DEF Core, TypeOK
  <1>2. seqNum \in 0..(SeqCount - 1) /\ generation \in Nat /\ group \in Seq(1..MaxPackets)
        /\ Len(group) = K
    BY DEF Core, TypeOK, Position
  <1> DEFINE info == ParityInfo(groupNum, K + parity)
  <1>3. info \in 0..(Uint16 - 1) /\ IsFEC(info)
        /\ GroupOf(info) = groupNum /\ IndexOf(info) = K + parity
    BY <1>1, HeaderRoundTrip, HeaderFits
  <1> HIDE DEF info
  <1>4. Shards = group
    BY <1>2 DEF Shards
  <1>5. ParityFrame = [seq |-> seqNum, info |-> info, gen |-> generation, of |-> group]
    BY <1>4 DEF ParityFrame, info
  <1>6. group \in Seq(0..MaxPackets)
    <2>1. 1..MaxPackets \subseteq 0..MaxPackets
      OBVIOUS
    <2> QED BY <1>2, <2>1, SeqMonotonic
  <1> QED BY <1>2, <1>3, <1>5, <1>6 DEF Frames, Data
-----------------------------------------------------------------------------
(* The queue: what it holds after Enqueue and after Dequeue. *)
LEMMA BroadcastOrder ==
  ASSUME Core, Broadcast
  PROVE  /\ queue' \in QueueRecord(1..MaxPackets) /\ queue'.closed = queue.closed
         /\ \A i \in 1..Len(queue'.packets) :
              pkt.data < queue'.packets[i] /\ queue'.packets[i] <= offered + 1
         /\ \A i, j \in 1..Len(queue'.packets) : i < j => queue'.packets[i] < queue'.packets[j]
  <1> DEFINE P == 1..MaxPackets
             q == queue.packets
             e == offered + 1
  <1>1. queue \in QueueRecord(P) /\ queue.closed \in BOOLEAN /\ q \in Seq(P)
    BY DEF Core, TypeOK, QueueRecord
  <1>2. /\ \A i \in 1..Len(q) : pkt.data < q[i] /\ q[i] <= offered
        /\ \A i, j \in 1..Len(q) : i < j => q[i] < q[j]
        /\ pkt.data <= offered /\ pkt.data \in Int /\ offered \in Int
        /\ \A i \in 1..Len(q) : q[i] \in Int
    <2>1. pkt.data \in Int /\ offered \in Int
      BY Sizes DEF Core, TypeOK
    <2>2. \A i \in 1..Len(q) : q[i] \in P
      BY <1>1, ElementOfSeq
    <2> QED BY <2>1, <2>2 DEF Core, Order
  <1>3. e \in P /\ queue' = Enqueued(queue, e)
    BY Sizes DEF Core, TypeOK, Broadcast
  <1>4. CASE IsFull(queue)
    <2>1. /\ q # <<>> /\ queue' \in QueueRecord(P) /\ queue'.closed = queue.closed
          /\ queue'.packets = Append(Tail(q), e)
      BY <1>1, <1>3, <1>4, EnqueuedFull
    <2> HIDE DEF P, e
    <2>2. /\ Len(queue'.packets) = Len(q) /\ queue'.packets[Len(q)] = e
          /\ \A i \in 1..(Len(q) - 1) : queue'.packets[i] = q[i + 1]
      BY <1>1, <1>3, <2>1, SlideRun
    <2> HIDE DEF q
    <2>3. Len(q) \in Nat
      BY <1>1, LenProperties
    <2>4. ASSUME NEW i \in 1..Len(q)
          PROVE  pkt.data < queue'.packets[i] /\ queue'.packets[i] <= e
      <3>1. CASE i = Len(q)
        BY <3>1, <2>2, <1>2 DEF e
      <3>2. CASE i # Len(q)
        <4>1. i \in 1..(Len(q) - 1) /\ i + 1 \in 1..Len(q)
          BY <3>2, <2>3
        <4> QED BY <4>1, <2>2, <1>2 DEF e
      <3> QED BY <3>1, <3>2
    <2>5. ASSUME NEW i \in 1..Len(q), NEW j \in 1..Len(q), i < j
          PROVE  queue'.packets[i] < queue'.packets[j]
      <3>1. i \in 1..(Len(q) - 1) /\ i + 1 \in 1..Len(q)
        BY <2>3, <2>5
      <3>2. CASE j = Len(q)
        BY <3>1, <3>2, <2>2, <1>2 DEF e
      <3>3. CASE j # Len(q)
        <4>1. j \in 1..(Len(q) - 1) /\ j + 1 \in 1..Len(q)
          BY <3>3, <2>3
        <4> QED BY <3>1, <4>1, <2>2, <2>5, <1>2
      <3> QED BY <3>2, <3>3
    <2> QED BY <2>1, <2>2, <2>4, <2>5 DEF P, e
  <1>5. CASE ~IsFull(queue)
    <2>1. /\ queue' \in QueueRecord(P) /\ queue'.closed = queue.closed
          /\ queue'.packets = Append(q, e)
      BY <1>1, <1>3, <1>5, EnqueuedRoom
    <2> HIDE DEF P
    <2>2. /\ Len(queue'.packets) = Len(q) + 1 /\ queue'.packets[Len(q) + 1] = e
          /\ \A i \in 1..Len(q) : queue'.packets[i] = q[i] /\ Len(q) \in Nat
      BY <1>1, <1>3, <2>1
    <2> HIDE DEF q
    <2>3. Len(q) \in Nat
      BY <1>1, LenProperties
    <2>4. ASSUME NEW i \in 1..(Len(q) + 1)
          PROVE  /\ i \in 1..Len(q) \/ i = Len(q) + 1
                 /\ pkt.data < queue'.packets[i] /\ queue'.packets[i] <= e
      BY <2>2, <2>3, <1>2
    <2>5. ASSUME NEW i \in 1..(Len(q) + 1), NEW j \in 1..(Len(q) + 1), i < j
          PROVE  queue'.packets[i] < queue'.packets[j]
      <3>1. i \in 1..Len(q)
        BY <2>3, <2>5
      <3>2. CASE j = Len(q) + 1
        BY <3>1, <3>2, <2>2, <1>2
      <3>3. CASE j \in 1..Len(q)
        BY <3>1, <3>3, <2>2, <2>5, <1>2
      <3> QED BY <3>2, <3>3, <2>4
    <2> QED BY <2>1, <2>2, <2>4, <2>5 DEF P
  <1> QED BY <1>4, <1>5

LEMMA TakeOrder ==
  ASSUME Core, Take
  PROVE  /\ queue' \in QueueRecord(1..MaxPackets) /\ queue'.closed = queue.closed
         /\ pkt' \in [data : 0..MaxPackets, seq : 0..(SeqCount - 1)]
         /\ pkt.data < pkt'.data /\ pkt'.data <= offered /\ pkt'.seq = seqNum
         /\ \A i \in 1..Len(queue'.packets) :
              pkt'.data < queue'.packets[i] /\ queue'.packets[i] <= offered
         /\ \A i, j \in 1..Len(queue'.packets) : i < j => queue'.packets[i] < queue'.packets[j]
  <1> DEFINE P == 1..MaxPackets
             q == queue.packets
  <1>1. queue \in QueueRecord(P) /\ queue.closed \in BOOLEAN /\ q \in Seq(P)
        /\ seqNum \in 0..(SeqCount - 1)
    BY DEF Core, TypeOK, QueueRecord
  <1>2. /\ \A i \in 1..Len(q) : pkt.data < q[i] /\ q[i] <= offered
        /\ \A i, j \in 1..Len(q) : i < j => q[i] < q[j]
    BY <1>1 DEF Core, Order, TypeOK
  <1>3. q # <<>> /\ queue' = Dequeued(queue) /\ pkt' = [data |-> Head(q), seq |-> seqNum]
    BY DEF Take, MustWait
  <1>4. /\ queue' \in QueueRecord(P) /\ queue'.closed = queue.closed
        /\ queue'.packets = Tail(q)
    BY <1>1, <1>3, DequeuedRecord
  <1>5. /\ Head(q) = q[1] /\ q[1] \in P /\ Len(q) \in Nat /\ Len(q) >= 1
        /\ Len(Tail(q)) = Len(q) - 1
        /\ \A i \in 1..(Len(q) - 1) : Tail(q)[i] = q[i + 1]
    <2>1. Len(q) \in Nat /\ Len(q) >= 1
      BY <1>1, <1>3, EmptySeq
    <2>2. Head(q) = q[1] /\ q[1] \in P
      <3>1. 1 \in 1..Len(q)
        BY <2>1
      <3>2. q[1] \in P
        BY <1>1, <3>1, ElementOfSeq
      <3> HIDE DEF P, q
      <3>3. Head(q) = q[1]
        BY <1>1, <2>1
      <3> QED BY <3>2, <3>3
    <2>3. /\ Len(Tail(q)) = Len(q) - 1
          /\ \A i \in 1..(Len(q) - 1) : Tail(q)[i] = q[i + 1]
      <3> HIDE DEF P, q
      <3> QED BY <1>1, <1>3, HeadTailProperties
    <2> QED BY <2>1, <2>2, <2>3
  <1> HIDE DEF q
  <1>6. ASSUME NEW i \in 1..(Len(q) - 1)
        PROVE  q[1] < queue'.packets[i] /\ queue'.packets[i] <= offered
    <2>1. i + 1 \in 1..Len(q) /\ 1 \in 1..Len(q) /\ 1 < i + 1
      BY <1>5
    <2> QED BY <2>1, <1>2, <1>4, <1>5
  <1>7. ASSUME NEW i \in 1..(Len(q) - 1), NEW j \in 1..(Len(q) - 1), i < j
        PROVE  queue'.packets[i] < queue'.packets[j]
    <2>1. i + 1 \in 1..Len(q) /\ j + 1 \in 1..Len(q) /\ i + 1 < j + 1
      BY <1>5, <1>7
    <2> QED BY <2>1, <1>2, <1>4, <1>5
  <1>8. pkt'.data = q[1] /\ pkt'.seq = seqNum /\ 1 \in 1..Len(q)
        /\ pkt' \in [data : 0..MaxPackets, seq : 0..(SeqCount - 1)]
    BY <1>1, <1>3, <1>5
  <1> QED BY <1>2, <1>4, <1>5, <1>6, <1>7, <1>8

LEMMA CoreStep == Core /\ [Next]_vars => Core'
  <1> SUFFICES ASSUME Core, [Next]_vars PROVE Core'
    OBVIOUS
  <1> USE Sizes
  <1>t. TypeOK /\ Order /\ Position
    BY DEF Core
  <1>1. CASE Broadcast
    <2>1. TypeOK'
      BY <1>t, <1>1, BroadcastOrder DEF Broadcast, TypeOK, groupVars
    <2>2. Order' /\ Position'
      BY <1>t, <1>1, BroadcastOrder DEF Broadcast, TypeOK, Order, Position, groupVars
    <2> QED BY <2>1, <2>2 DEF Core
  <1>2. CASE Cancel
    BY <1>t, <1>2 DEF Core, Cancel, TypeOK, Order, Position, groupVars
  <1>3. CASE CloseQueue
    <2>1. queue' \in QueueRecord(1..MaxPackets) /\ queue'.packets = <<>>
      BY <1>t, <1>3, SetClosed DEF CloseQueue, TypeOK
    <2> QED BY <1>t, <1>3, <2>1 DEF Core, CloseQueue, TypeOK, Order, Position, groupVars
  <1>4. CASE Check
    BY <1>t, <1>4 DEF Core, Check, TypeOK, Order, Position, groupVars, senderVars
  <1>5. CASE Take
    <2>1. NextSeq \in 0..(SeqCount - 1)
      BY <1>t, NextSeqType DEF TypeOK
    <2>2. TypeOK'
      BY <1>t, <1>5, <2>1, TakeOrder DEF Take, TypeOK, groupVars
    <2>3. Order' /\ Position'
      BY <1>t, <1>5, TakeOrder DEF Take, TypeOK, Order, Position, groupVars
    <2> QED BY <2>2, <2>3 DEF Core
  <1>6. CASE StopOnClosed
    BY <1>t, <1>6 DEF Core, StopOnClosed, TypeOK, Order, Position, groupVars, senderVars
  <1>7. CASE EncryptFails
    BY <1>t, <1>7 DEF Core, EncryptFails, TypeOK, Order, Position, groupVars, senderVars
  <1>8. CASE WriteFailsAtEnd
    <2>1. NextSeq \in 0..(SeqCount - 1)
      BY <1>t, NextSeqType DEF TypeOK
    <2> HIDE DEF NextSeq
    <2> QED BY <1>t, <1>8, <2>1
        DEF Core, WriteFailsAtEnd, TypeOK, Order, Position, groupVars, senderVars
  <1>9. ASSUME NEW sent \in BOOLEAN, WriteData(sent) PROVE Core'
    <2>1. wire' \in Seq(Frames)
      BY <1>t, <1>9, DataFrameType DEF Core, WriteData, TypeOK
    <2>2. group' \in Seq(1..MaxPackets) /\ Len(group') = Len(group) + 1
      <3>1. pkt.data \in 1..MaxPackets /\ group \in Seq(1..MaxPackets)
        BY <1>t, <1>9 DEF WriteData, TypeOK, Position
      <3> QED BY <3>1, <1>9 DEF WriteData
    <2>3. TypeOK'
      BY <1>t, <1>9, <2>1, <2>2 DEF WriteData, TypeOK, Position, senderVars
    <2>4. Order' /\ Position'
      BY <1>t, <1>9, <2>2 DEF WriteData, TypeOK, Order, Position, senderVars, GroupFull
    <2> QED BY <2>3, <2>4 DEF Core
  <1>10. ASSUME NEW sent \in BOOLEAN, WriteParity(sent) PROVE Core'
    <2>1. loc = "parity"
      BY <1>t, <1>10 DEF WriteParity, Position
    <2>2. wire' \in Seq(Frames)
      BY <1>t, <1>10, <2>1, ParityFrameType DEF Core, WriteParity, TypeOK
    <2>3. NextSeq \in 0..(SeqCount - 1)
      BY <1>t, NextSeqType DEF TypeOK
    <2>4. NextGroupNum \in 0..(GroupCount - 1) /\ NextGroupNum = (generation + 1) % GroupCount
      BY <1>t, NextGroupNumType DEF TypeOK, Position
    <2> HIDE DEF NextSeq, NextGroupNum
    <2>5. /\ parity' \in 0..(N - K - 1) /\ generation' \in Nat
          /\ group' \in Seq(1..MaxPackets) /\ Len(group') <= K
          /\ groupNum' \in 0..(GroupCount - 1) /\ loc' \in {"check", "parity"}
      <3>1. CASE parity + 1 < N - K
        BY <1>t, <1>10, <2>1, <3>1 DEF WriteParity, TypeOK
      <3>2. CASE ~(parity + 1 < N - K)
        BY <1>t, <1>10, <2>1, <2>4, <3>2, EmptySeq DEF WriteParity, TypeOK, ClearedGroup
      <3> QED BY <3>1, <3>2
    <2>6. TypeOK'
      BY <1>t, <1>10, <2>2, <2>3, <2>5 DEF WriteParity, TypeOK, senderVars
    <2>7. Order' /\ Position'
      BY <1>t, <1>10, <2>1, <2>4, EmptySeq
      DEF WriteParity, TypeOK, Order, Position, senderVars, ClearedGroup
    <2> QED BY <2>6, <2>7 DEF Core
  <1>11. CASE UNCHANGED vars
    BY <1>t, <1>11 DEF Core, TypeOK, Order, Position, vars, groupVars, senderVars
  <1> QED BY <1>1, <1>2, <1>3, <1>4, <1>5, <1>6, <1>7, <1>8, <1>9, <1>10, <1>11
          DEF Next, Worker

(* The state of the worker and of its queue has the declared shape. *)
THEOREM TypeCorrect == Spec => []TypeOK
  <1>1. Core => TypeOK
    BY DEF Core
  <1> QED BY CoreInit, CoreStep, <1>1, PTL DEF Spec
-----------------------------------------------------------------------------
(* The newest packet the worker is through with: in the group, or dropped. *)
Handled == IF loc = "frame" THEN pkt.data - 1 ELSE pkt.data

GroupRises ==
  /\ \A i \in 1..Len(group) : group[i] <= Handled
  /\ \A i, j \in 1..Len(group) : i < j => group[i] < group[j]

(* Where a data frame's packet is: in the group being filled, at the index   *)
(* in the frame's header, or in an earlier group, before all of this one.    *)
DataPlaced(f) ==
  /\ f.of[1] \in 1..Handled
  /\ f.gen <= generation
  /\ f.gen = generation => /\ IndexOf(f.info) + 1 \in 1..Len(group)
                           /\ group[IndexOf(f.info) + 1] = f.of[1]
  /\ f.gen < generation => \A i \in 1..Len(group) : f.of[1] < group[i]

ParityPlaced(f) == Len(f.of) = K /\ \A i \in 1..K : f.of[i] \in 1..Handled

FrameOK(f) ==
  /\ Data(f) => DataPlaced(f)
  /\ ~Data(f) => ParityPlaced(f)
  /\ GroupOf(f.info) = f.gen % GroupCount

(* What ParityMatchesData says of the parity p and the data frame d. *)
Agree(p, d) == d.of[1] \in Range(p.of) =>
  GroupOf(d.info) = GroupOf(p.info) /\ p.of[IndexOf(d.info) + 1] = d.of[1]

Matched ==
  \A n, m \in 1..Len(wire) :
    ~Data(wire[n]) /\ Data(wire[m]) /\ wire[m].of[1] \in Range(wire[n].of)
      => m < n /\ Agree(wire[n], wire[m])

WireInv == GroupRises /\ (\A n \in 1..Len(wire) : FrameOK(wire[n])) /\ Matched

LEMMA FrameTypes ==
  ASSUME NEW f \in Frames
  PROVE  f.of \in Seq(0..MaxPackets) /\ f.gen \in Nat /\ f.seq \in Int
  BY Sizes DEF Frames

LEMMA WireInvImplies ==
  ASSUME WireInv, TypeOK
  PROVE  ParityMatchesData /\ GroupNamesGeneration
  <1>1. GroupNamesGeneration
    BY DEF WireInv, FrameOK, GroupNamesGeneration
  <1>2. ASSUME NEW n \in 1..Len(wire), IsFEC(wire[n].info)
        PROVE  Len(wire[n].of) = K /\ Dummy \notin Range(wire[n].of)
    <2>1. ParityPlaced(wire[n]) /\ wire[n] \in Frames
      BY <1>2, ElementOfSeq DEF WireInv, FrameOK, Data, TypeOK
    <2>2. DOMAIN wire[n].of = 1..Len(wire[n].of)
      BY <2>1, FrameTypes
    <2> QED BY <2>1, <2>2 DEF ParityPlaced, Range, Dummy
  <1>3. ASSUME NEW n \in 1..Len(wire), NEW m \in 1..Len(wire), IsFEC(wire[n].info),
               Data(wire[m]), wire[m].of[1] \in Range(wire[n].of)
        PROVE  /\ m < n
               /\ GroupOf(wire[m].info) = GroupOf(wire[n].info)
               /\ wire[n].of[IndexOf(wire[m].info) + 1] = wire[m].of[1]
    BY <1>3 DEF WireInv, Matched, Agree, Data
  <1> QED BY <1>1, <1>2, <1>3 DEF ParityMatchesData

(* How a step keeps WireInv: what is on the wire stays placed, and a frame   *)
(* that is written fits those before it.                                     *)
LEMMA WireKept ==
  ASSUME Core, WireInv, GroupRises',
         \A f \in Frames : FrameOK(f) => FrameOK(f)',
         wire' = wire
  PROVE  WireInv'
  <1>1. \A n \in 1..Len(wire) : wire[n] \in Frames
    BY ElementOfSeq DEF Core, TypeOK
  <1>2. \A n \in 1..Len(wire) : FrameOK(wire[n])'
    BY <1>1 DEF WireInv
  <1> QED BY <1>2 DEF WireInv, Matched, Agree, Data

LEMMA WireGrows ==
  ASSUME Core, WireInv, GroupRises',
         \A f \in Frames : FrameOK(f) => FrameOK(f)',
         NEW e \in Frames, wire' = Append(wire, e), FrameOK(e)',
         \A f \in Frames : FrameOK(f) =>
           /\ Data(e) /\ ~Data(f) => e.of[1] \notin Range(f.of)
           /\ Data(f) /\ ~Data(e) => Agree(e, f)
  PROVE  WireInv'
  <1>1. \A n \in 1..Len(wire) : wire[n] \in Frames
    BY ElementOfSeq DEF Core, TypeOK
  <1> DEFINE L == Len(wire)
  <1>2. /\ L \in Nat /\ Len(wire') = L + 1 /\ wire'[L + 1] = e
        /\ \A n \in 1..L : wire'[n] = wire[n]
    BY DEF Core, TypeOK
  <1>3. ASSUME NEW n \in 1..(L + 1)
        PROVE  n = L + 1 \/ (n \in 1..L /\ wire'[n] \in Frames /\ FrameOK(wire'[n]))
    <2>1. n = L + 1 \/ n \in 1..L
      BY <1>2
    <2> QED BY <1>1, <1>2, <2>1 DEF WireInv
  <1> HIDE DEF L
  <1>4. ASSUME NEW n \in 1..(L + 1) PROVE FrameOK(wire[n])'
    <2>1. CASE n = L + 1
      BY <1>2, <2>1
    <2>2. CASE n # L + 1
      BY <1>3, <2>2
    <2> QED BY <2>1, <2>2
  <1>5. ASSUME NEW n \in 1..(L + 1), NEW m \in 1..(L + 1),
               ~Data(wire'[n]), Data(wire'[m]), wire'[m].of[1] \in Range(wire'[n].of)
        PROVE  m < n /\ Agree(wire'[n], wire'[m])
    <2>1. CASE n = L + 1
      <3>1. m # L + 1
        BY <1>5, <2>1
      <3>2. m < n
        BY <1>2, <2>1, <3>1
      <3>3. Agree(e, wire'[m])
        BY <1>2, <1>3, <1>5, <2>1, <3>1
      <3> QED BY <1>2, <2>1, <3>2, <3>3
    <2>2. CASE n # L + 1
      <3>1. m # L + 1
        BY <1>2, <1>3, <1>5, <2>2
      <3>2. n \in 1..L /\ m \in 1..L
        BY <1>3, <2>2, <3>1
      <3> QED BY <1>2, <1>5, <3>2 DEF WireInv, Matched, L
    <2> QED BY <2>1, <2>2
  <1>6. Matched'
    BY <1>2, <1>5 DEF Matched, Agree, Data
  <1> QED BY <1>2, <1>4, <1>6 DEF WireInv

LEMMA WireInvInit == Init => WireInv
  BY DEF Init, WireInv, GroupRises, Matched

(* The steps that neither write nor touch the group. *)
LEMMA QuietStep ==
  ASSUME Core, Core', WireInv,
         wire' = wire, group' = group, generation' = generation,
         loc # "frame" \/ loc' # "frame", pkt.data <= pkt'.data,
         loc' = "frame" => pkt.data < pkt'.data
  PROVE  WireInv'
  <1>1. Handled \in Int /\ Handled' \in Int /\ Handled <= Handled'
    BY Sizes DEF Core, TypeOK, Handled
  <1>2. \A i \in 1..Len(group) : group[i] \in 1..MaxPackets
    BY ElementOfSeq DEF Core, TypeOK
  <1>3. GroupRises'
    BY <1>1, <1>2, Sizes DEF WireInv, GroupRises
  <1>4. ASSUME NEW f \in Frames, FrameOK(f) PROVE FrameOK(f)'
    <2>1. 1..Handled \subseteq 1..Handled'
      BY <1>1
    <2> QED BY <1>4, <2>1 DEF FrameOK, DataPlaced, ParityPlaced, Data
  <1> QED BY <1>3, <1>4, WireKept

LEMMA WriteDataStep ==
  ASSUME Core, Core', WireInv, NEW sent \in BOOLEAN, WriteData(sent)
  PROVE  WireInv'
  <1> DEFINE L == Len(group)
  <1>1. /\ loc = "frame" /\ loc' # "frame" /\ pkt' = pkt /\ generation' = generation
        /\ group' = Append(group, pkt.data)
        /\ wire' = IF sent THEN Append(wire, DataFrame) ELSE wire
    BY DEF WriteData, GroupFull
  <1>2. /\ group \in Seq(1..MaxPackets) /\ pkt.data \in 1..MaxPackets /\ L \in Nat
        /\ generation \in Nat
    BY <1>1, Sizes DEF Core, TypeOK, Position
  <1>3. /\ Len(group') = L + 1 /\ group'[L + 1] = pkt.data
        /\ \A i \in 1..L : group'[i] = group[i]
    BY <1>1, <1>2
  <1>4. Handled = pkt.data - 1 /\ Handled' = pkt.data
    BY <1>1 DEF Handled
  <1>5. \A i \in 1..L : group[i] \in 1..MaxPackets /\ group[i] < pkt.data
    <2>1. \A i \in 1..L : group[i] \in 1..MaxPackets
      BY <1>2, ElementOfSeq
    <2> QED BY <1>2, <1>4, <2>1, Sizes DEF WireInv, GroupRises
  <1> HIDE DEF L
  <1>6. GroupRises'
    <2>1. \A i \in 1..(L + 1) : i \in 1..L \/ i = L + 1
      BY <1>2
    <2>2. ASSUME NEW i \in 1..(L + 1) PROVE group'[i] <= Handled'
      <3>1. CASE i = L + 1
        BY <1>2, <1>3, <1>4, <3>1
      <3>2. CASE i \in 1..L
        BY <1>2, <1>3, <1>4, <1>5, <3>2
      <3> QED BY <2>1, <3>1, <3>2
    <2>3. \A i, j \in 1..(L + 1) : i < j => i \in 1..L /\ group'[i] < group'[j]
      <3>1. \A i, j \in 1..L : i < j => group[i] < group[j]
        BY DEF WireInv, GroupRises, L
      <3>2. SUFFICES ASSUME NEW i \in 1..(L + 1), NEW j \in 1..(L + 1), i < j
                     PROVE  i \in 1..L /\ group'[i] < group'[j]
        OBVIOUS
      <3>3. i \in 1..L
        BY <1>2, <3>2
      <3>4. CASE j = L + 1
        BY <1>3, <1>5, <3>3, <3>4
      <3>5. CASE j \in 1..L
        BY <1>3, <3>1, <3>2, <3>3, <3>5
      <3> QED BY <2>1, <3>3, <3>4, <3>5
    <2> QED BY <1>3, <2>2, <2>3 DEF GroupRises
  <1>7. ASSUME NEW f \in Frames, FrameOK(f) PROVE FrameOK(f)'
    <2>1. 1..Handled \subseteq 1..Handled'
      BY <1>2, <1>4
    <2>2. ASSUME Data(f) PROVE DataPlaced(f)'
      <3>1. DataPlaced(f) /\ f.of[1] < pkt.data /\ f.gen \in Nat
        BY <1>2, <1>4, <1>7, <2>2, FrameTypes DEF FrameOK, DataPlaced
      <3>2. f.gen = generation => /\ IndexOf(f.info) + 1 \in 1..Len(group')
                                  /\ group'[IndexOf(f.info) + 1] = f.of[1]
        BY <1>2, <1>3, <3>1 DEF DataPlaced, L
      <3>3. f.gen < generation => \A i \in 1..Len(group') : f.of[1] < group'[i]
        <4>1. \A i \in 1..(L + 1) : i \in 1..L \/ i = L + 1
          BY <1>2
        <4> QED BY <1>3, <3>1, <4>1 DEF DataPlaced, L
      <3> QED BY <1>1, <2>1, <3>1, <3>2, <3>3 DEF DataPlaced
    <2> QED BY <1>7, <2>1, <2>2 DEF FrameOK, ParityPlaced, Data
  <1>8. CASE ~sent
    BY <1>1, <1>6, <1>7, <1>8, WireKept
  <1>9. CASE sent
    <2>1. PICK e \in Frames :
             /\ e = DataFrame /\ Data(e)
             /\ GroupOf(e.info) = groupNum /\ IndexOf(e.info) = L
             /\ e.of[1] = pkt.data /\ e.gen = generation
      BY <1>1, DataFrameType DEF L
    <2>2. FrameOK(e)'
      <3>1. GroupOf(e.info) = e.gen % GroupCount
        BY <2>1 DEF Core, Position
      <3>2. DataPlaced(e)'
        BY <1>1, <1>2, <1>3, <1>4, <2>1 DEF DataPlaced
      <3> QED BY <2>1, <3>1, <3>2 DEF FrameOK, Data
    <2>3. ASSUME NEW f \in Frames, FrameOK(f), ~Data(f)
          PROVE  e.of[1] \notin Range(f.of)
      <3>1. DOMAIN f.of = 1..K /\ \A i \in 1..K : f.of[i] \in 1..(pkt.data - 1)
        BY <1>4, <2>3, FrameTypes DEF FrameOK, ParityPlaced
      <3> QED BY <1>2, <2>1, <3>1 DEF Range
    <2>4. wire' = Append(wire, e)
      BY <1>1, <1>9, <2>1
    <2> QED BY <1>6, <1>7, <2>1, <2>2, <2>3, <2>4, WireGrows
  <1> QED BY <1>8, <1>9

LEMMA WriteParityStep ==
  ASSUME Core, Core', WireInv, NEW sent \in BOOLEAN, WriteParity(sent)
  PROVE  WireInv'
  <1>1. /\ loc = "parity" /\ loc' # "frame" /\ pkt' = pkt
        /\ wire' = IF sent THEN Append(wire, ParityFrame) ELSE wire
        /\ \/ group' = group /\ generation' = generation
           \/ group' = <<>> /\ generation' = generation + 1
    BY DEF WriteParity, ClearedGroup, Core, Position
  <1>2. /\ group \in Seq(1..MaxPackets) /\ Len(group) = K /\ generation \in Nat
        /\ pkt.data \in Nat /\ Handled = pkt.data /\ Handled' = pkt.data
    BY <1>1, Sizes DEF Core, TypeOK, Position, Handled
  <1>3. \A i \in 1..K : group[i] \in 1..Handled
    <2>1. \A i \in 1..K : group[i] \in 1..MaxPackets
      BY <1>2, ElementOfSeq
    <2> QED BY <1>2, <2>1, Sizes DEF WireInv, GroupRises
  <1>4. GroupRises'
    BY <1>1, <1>2 DEF WireInv, GroupRises
  <1>5. ASSUME NEW f \in Frames, FrameOK(f) PROVE FrameOK(f)'
    <2>1. Data(f) => DataPlaced(f)'
      <3>1. f.gen \in Nat
        BY FrameTypes
      <3> QED BY <1>1, <1>2, <1>5, <3>1 DEF FrameOK, DataPlaced
    <2> QED BY <1>2, <1>5, <2>1 DEF FrameOK, ParityPlaced, Data
  <1>6. CASE ~sent
    BY <1>1, <1>4, <1>5, <1>6, WireKept
  <1>7. CASE sent
    <2>1. PICK e \in Frames :
             /\ e = ParityFrame /\ ~Data(e) /\ GroupOf(e.info) = groupNum
             /\ e.of = group /\ e.gen = generation
      BY <1>1, ParityFrameType
    <2>2. groupNum = generation % GroupCount
      BY DEF Core, Position
    <2>3. FrameOK(e)'
      BY <1>2, <1>3, <2>1, <2>2 DEF FrameOK, ParityPlaced, Data
    <2>4. ASSUME NEW f \in Frames, FrameOK(f), Data(f), f.of[1] \in Range(e.of)
          PROVE  /\ GroupOf(f.info) = GroupOf(e.info)
                 /\ e.of[IndexOf(f.info) + 1] = f.of[1]
      <3>1. PICK i \in 1..K : f.of[1] = group[i]
        BY <1>2, <2>1, <2>4 DEF Range
      <3>2. DataPlaced(f) /\ f.gen \in Nat /\ f.of[1] \in Nat
        BY <2>4, <3>1, <1>3, FrameTypes DEF FrameOK
      <3>3. f.gen = generation
        BY <1>2, <3>1, <3>2 DEF DataPlaced
      <3> QED BY <2>1, <2>2, <2>4, <3>2, <3>3 DEF FrameOK, DataPlaced
    <2>5. wire' = Append(wire, e)
      BY <1>1, <1>7, <2>1
    <2> QED BY <1>4, <1>5, <2>1, <2>3, <2>4, <2>5, WireGrows DEF Agree
  <1> QED BY <1>6, <1>7

LEMMA WireInvStep == Core /\ Core' /\ WireInv /\ [Next]_vars => WireInv'
  <1> SUFFICES ASSUME Core, Core', WireInv, [Next]_vars PROVE WireInv'
    OBVIOUS
  <1>t. pkt.data \in Nat /\ pkt'.data \in Nat
    BY Sizes DEF Core, TypeOK
  <1>1. CASE Broadcast \/ Cancel \/ CloseQueue \/ UNCHANGED vars
    <2>1. UNCHANGED <<wire, group, generation, loc, pkt>>
      BY <1>1 DEF Broadcast, Cancel, CloseQueue, vars, groupVars
    <2>2. GroupRises'
      BY <2>1 DEF WireInv, GroupRises, Handled
    <2>3. \A f \in Frames : FrameOK(f) => FrameOK(f)'
      BY <2>1 DEF FrameOK, DataPlaced, ParityPlaced, Data, Handled
    <2> QED BY <2>1, <2>2, <2>3, WireKept
  <1>2. CASE Check \/ StopOnClosed \/ EncryptFails \/ WriteFailsAtEnd
    <2>1. UNCHANGED <<wire, group, generation, pkt>> /\ loc' # "frame"
      BY <1>2 DEF Check, StopOnClosed, EncryptFails, WriteFailsAtEnd, groupVars
    <2> QED BY <1>t, <2>1, QuietStep
  <1>3. CASE Take
    <2>1. UNCHANGED <<wire, group, generation>> /\ loc # "frame" /\ pkt.data < pkt'.data
      BY <1>3, TakeOrder DEF Take, groupVars
    <2> QED BY <1>t, <2>1, QuietStep
  <1>4. ASSUME NEW sent \in BOOLEAN, WriteData(sent) \/ WriteParity(sent) PROVE WireInv'
    BY <1>4, WriteDataStep, WriteParityStep
  <1> QED BY <1>1, <1>2, <1>3, <1>4 DEF Next, Worker

(* A receiver that holds part of a group and its parity puts together what   *)
(* belongs together, for every K and N (sessionWorker, session.go 375-410).  *)
THEOREM ParityIsOfItsData == Spec => []ParityMatchesData
  <1>1. Core /\ WireInv => ParityMatchesData
    BY WireInvImplies DEF Core
  <1> QED BY CoreInit, CoreStep, WireInvInit, WireInvStep, <1>1, PTL DEF Spec

(* Every packet carries its generation's number, modulo the group numbers.   *)
THEOREM GroupNumbersCorrect == Spec => []GroupNamesGeneration
  <1>1. Core /\ WireInv => GroupNamesGeneration
    BY WireInvImplies DEF Core
  <1> QED BY CoreInit, CoreStep, WireInvInit, WireInvStep, <1>1, PTL DEF Spec
-----------------------------------------------------------------------------
(* The sequence numbers.  Unwrapped is the premise of SeqIncreases: it bounds *)
(* what the worker can have spent by one number for each packet broadcast    *)
(* and one for each parity packet up to the end of the current group.        *)
Unwrapped == offered + (generation + 1) * (N - K) < SeqCount

Spent == pkt.data + generation * (N - K) + parity + (IF loc = "done" THEN 1 ELSE 0)

(* The number of the next packet to be written. *)
NextOnWire == IF loc = "frame" THEN pkt.seq ELSE seqNum

SeqInv ==
  /\ seqNum <= Spent
  /\ loc = "frame" => seqNum = pkt.seq + 1
  /\ \A n \in 1..Len(wire) : wire[n].seq < NextOnWire
  /\ \A m, n \in 1..Len(wire) : m < n => wire[m].seq < wire[n].seq

LEMMA Products ==
  ASSUME NEW g \in Nat
  PROVE  /\ g * (N - K) \in Nat
         /\ (g + 1) * (N - K) = g * (N - K) + (N - K)
  BY Sizes

LEMMA NoWrap ==
  ASSUME seqNum \in Nat, seqNum + 1 < SeqCount
  PROVE  NextSeq = seqNum + 1
  <1> DEFINE t == (seqNum + 1) % SeqCount
             u == (seqNum + 1) \div SeqCount
  <1>1. seqNum + 1 \in Int /\ SeqCount \in Int /\ SeqCount > 0
    BY Sizes
  <1>2. seqNum + 1 = SeqCount * u + t /\ t \in 0..(SeqCount - 1) /\ u \in Int
    BY <1>1, DivMod, Zenon
  <1> HIDE DEF t, u
  <1>3. SeqCount * u + t = SeqCount * 0 + (seqNum + 1) /\ 0 \in Int /\ t \in Int
    BY <1>1, <1>2
  <1>4. t = seqNum + 1
    BY <1>1, <1>2, <1>3, Sizes, RemainderUnique
  <1> QED BY <1>4 DEF t, NextSeq

LEMMA UnwrappedBefore ==
  ASSUME Core, Core', [Next]_vars, Unwrapped'
  PROVE  Unwrapped
  <1>0. /\ offered \in Nat /\ generation \in Nat
        /\ offered' = offered \/ offered' = offered + 1
        /\ generation' = generation \/ generation' = generation + 1
    <2>1. offered \in Nat /\ generation \in Nat
      BY DEF Core, TypeOK
    <2>2. CASE Broadcast
      BY <2>1, <2>2 DEF Broadcast, groupVars
    <2>3. CASE Cancel \/ CloseQueue \/ UNCHANGED vars
      BY <2>1, <2>3 DEF Cancel, CloseQueue, vars, senderVars, groupVars
    <2>4. CASE Worker
      BY <2>1, <2>4 DEF Worker, Check, Take, StopOnClosed, EncryptFails, WriteFailsAtEnd,
         WriteData, WriteParity, senderVars, groupVars
    <2> QED BY <2>1, <2>2, <2>3, <2>4 DEF Next
  <1>1. /\ offered \in Nat /\ generation \in Nat /\ offered' \in Nat
        /\ offered' >= offered
        /\ generation' = generation \/ generation' = generation + 1
    BY <1>0
  <1> DEFINE p == (generation + 1) * (N - K)
  <1>2. p \in Nat /\ (generation + 1 + 1) * (N - K) = p + (N - K)
    BY <1>1, Products
  <1> DEFINE r == (generation' + 1) * (N - K)
  <1>3. offered' + r < SeqCount
    BY DEF Unwrapped
  <1>4. r = p \/ r = p + (N - K)
    BY <1>1, <1>2
  <1> HIDE DEF p, r
  <1>5. offered + p < SeqCount
    BY <1>1, <1>2, <1>3, <1>4, Sizes
  <1> QED BY <1>5 DEF Unwrapped, p

LEMMA SeqKept ==
  ASSUME Core, Core', SeqInv, wire' = wire, NextOnWire <= NextOnWire',
         seqNum' <= Spent', loc' = "frame" => seqNum' = pkt'.seq + 1
  PROVE  SeqInv'
  <1>1. \A n \in 1..Len(wire) : wire[n].seq \in Int
    BY ElementOfSeq, FrameTypes DEF Core, TypeOK
  <1>2. NextOnWire \in Int /\ NextOnWire' \in Int
    BY Sizes DEF Core, TypeOK, NextOnWire
  <1> QED BY <1>1, <1>2 DEF SeqInv

LEMMA SeqGrows ==
  ASSUME Core, Core', SeqInv, NEW e \in Frames, wire' = Append(wire, e),
         e.seq = NextOnWire, NextOnWire' = NextOnWire + 1,
         seqNum' <= Spent', loc' # "frame"
  PROVE  SeqInv'
  <1> DEFINE L == Len(wire)
  <1>1. \A n \in 1..L : wire[n].seq \in Int /\ wire[n].seq < NextOnWire
    BY ElementOfSeq, FrameTypes DEF Core, TypeOK, SeqInv
  <1>2. NextOnWire \in Int
    BY Sizes DEF Core, TypeOK, NextOnWire
  <1>3. /\ L \in Nat /\ Len(wire') = L + 1 /\ wire'[L + 1] = e
        /\ \A n \in 1..L : wire'[n] = wire[n]
    <2>1. wire \in Seq(Frames)
      BY DEF Core, TypeOK
    <2> QED BY <2>1
  <1>4. \A m, n \in 1..L : m < n => wire[m].seq < wire[n].seq
    BY DEF SeqInv
  <1> HIDE DEF L
  <1>5. \A n \in 1..(L + 1) : n = L + 1 \/ n \in 1..L
    BY <1>3
  <1>6. \A n \in 1..(L + 1) : wire'[n].seq < NextOnWire'
    BY <1>1, <1>2, <1>3, <1>5
  <1>7. ASSUME NEW m \in 1..(L + 1), NEW n \in 1..(L + 1), m < n
        PROVE  wire'[m].seq < wire'[n].seq
    <2>1. m \in 1..L
      BY <1>3, <1>7
    <2>2. CASE n = L + 1
      BY <1>1, <1>3, <2>1, <2>2
    <2>3. CASE n \in 1..L
      BY <1>3, <1>4, <1>7, <2>1, <2>3
    <2> QED BY <1>5, <2>2, <2>3
  <1> QED BY <1>3, <1>6, <1>7 DEF SeqInv

LEMMA SeqInvStep ==
  Core /\ Core' /\ Unwrapped /\ Unwrapped' /\ SeqInv /\ [Next]_vars => SeqInv'
  <1> SUFFICES ASSUME Core, Core', Unwrapped, Unwrapped', SeqInv, [Next]_vars
               PROVE  SeqInv'
    OBVIOUS
  <1> DEFINE p == generation * (N - K)
  <1>t. /\ generation \in Nat /\ offered \in Nat /\ seqNum \in Nat /\ parity \in Nat
        /\ seqNum < SeqCount /\ pkt.seq \in Nat /\ pkt.data \in Nat
        /\ parity + 1 <= N - K /\ pkt.data <= offered
        /\ p \in Nat /\ (generation + 1) * (N - K) = p + (N - K)
        /\ K \in Nat /\ N \in Nat /\ SeqCount \in Nat
    BY Sizes, Products DEF Core, TypeOK, Order
  <1>p. /\ offered + (p + (N - K)) < SeqCount
        /\ Spent = pkt.data + p + parity + (IF loc = "done" THEN 1 ELSE 0)
        /\ seqNum <= Spent
    BY <1>t DEF Unwrapped, Spent, SeqInv
  <1> HIDE DEF p
  <1>1. CASE Broadcast \/ Cancel \/ CloseQueue \/ UNCHANGED vars
    <2>1. UNCHANGED <<wire, loc, pkt, seqNum, generation, parity>>
      BY <1>1 DEF Broadcast, Cancel, CloseQueue, vars, groupVars
    <2>2. Spent' = Spent
      BY <2>1 DEF Spent
    <2> QED BY <2>1, <2>2 DEF SeqInv, NextOnWire
  <1>2. CASE Check \/ StopOnClosed \/ EncryptFails
    <2>1. /\ UNCHANGED <<wire, pkt, seqNum, generation, parity>>
          /\ loc' # "frame" /\ loc # "done"
      BY <1>2 DEF Check, StopOnClosed, EncryptFails, groupVars
    <2>2. Spent' = pkt.data + p + parity + (IF loc' = "done" THEN 1 ELSE 0)
      BY <2>1 DEF Spent, p
    <2>3. seqNum' <= Spent' /\ NextOnWire <= NextOnWire'
      BY <1>t, <1>p, <2>1, <2>2 DEF NextOnWire, SeqInv
    <2> QED BY <2>1, <2>3, SeqKept
  <1>3. CASE WriteFailsAtEnd
    <2>1. /\ UNCHANGED <<wire, pkt, generation, parity>> /\ loc' = "done"
          /\ loc \in {"frame", "parity"}
          /\ seqNum' = IF loc = "parity" THEN NextSeq ELSE seqNum
      BY <1>3 DEF WriteFailsAtEnd, groupVars
    <2>2. seqNum + 1 < SeqCount
      BY <1>t, <1>p, <2>1
    <2>3. seqNum' \in {seqNum, seqNum + 1}
      BY <1>t, <2>1, <2>2, NoWrap
    <2>4. Spent' = pkt.data + p + parity + 1
      BY <2>1 DEF Spent, p
    <2>5. seqNum' <= Spent' /\ NextOnWire <= NextOnWire'
      BY <1>t, <1>p, <2>1, <2>3, <2>4 DEF NextOnWire, SeqInv
    <2> QED BY <2>1, <2>5, SeqKept
  <1>4. CASE Take
    <2>1. /\ UNCHANGED <<wire, generation, parity>> /\ loc = "dequeue" /\ loc' = "frame"
          /\ seqNum' = NextSeq /\ pkt'.seq = seqNum
          /\ pkt.data < pkt'.data /\ pkt'.data <= offered /\ pkt'.data \in Nat
      BY <1>4, TakeOrder, Sizes DEF Take, groupVars
    <2>2. seqNum + 1 < SeqCount
      <3>1. parity = 0
        BY <2>1 DEF Core, Position
      <3> QED BY <1>t, <1>p, <2>1, <3>1, Sizes
    <2>3. seqNum' = seqNum + 1
      BY <1>t, <2>1, <2>2, NoWrap
    <2>4. Spent' = pkt'.data + p + parity
      BY <1>t, <2>1 DEF Spent, p
    <2>5. seqNum' <= Spent' /\ NextOnWire <= NextOnWire'
      BY <1>t, <1>p, <2>1, <2>3, <2>4 DEF NextOnWire
    <2> QED BY <2>1, <2>3, <2>5, SeqKept
  <1>5. ASSUME NEW sent \in BOOLEAN, WriteData(sent) PROVE SeqInv'
    <2>1. /\ UNCHANGED <<pkt, seqNum, generation, parity>>
          /\ loc = "frame" /\ loc' \notin {"frame", "done"}
          /\ wire' = IF sent THEN Append(wire, DataFrame) ELSE wire
      BY <1>5 DEF WriteData
    <2>2. Spent' = Spent /\ seqNum' <= Spent'
      BY <1>p, <2>1 DEF Spent
    <2>3. NextOnWire' = NextOnWire + 1 /\ NextOnWire = pkt.seq
      BY <2>1 DEF NextOnWire, SeqInv
    <2>4. CASE sent
      <3>1. PICK e \in Frames : e = DataFrame /\ e.seq = pkt.seq
        BY <2>1, DataFrameType
      <3> QED BY <2>1, <2>2, <2>3, <2>4, <3>1, SeqGrows
    <2>5. CASE ~sent
      BY <1>t, <2>1, <2>2, <2>3, <2>5, SeqKept
    <2> QED BY <2>4, <2>5
  <1>6. ASSUME NEW sent \in BOOLEAN, WriteParity(sent) PROVE SeqInv'
    <2>1. /\ pkt' = pkt /\ seqNum' = NextSeq
          /\ loc = "parity" /\ loc' \notin {"frame", "done"}
          /\ wire' = IF sent THEN Append(wire, ParityFrame) ELSE wire
          /\ \/ generation' = generation /\ parity' = parity + 1
             \/ generation' = generation + 1 /\ parity' = 0 /\ parity + 1 = N - K
      <3>1. loc = "parity"
        BY <1>6 DEF WriteParity, Core, Position
      <3>2. CASE parity + 1 < N - K
        BY <1>6, <3>1, <3>2 DEF WriteParity
      <3>3. CASE ~(parity + 1 < N - K)
        BY <1>t, <1>6, <3>1, <3>3 DEF WriteParity
      <3> QED BY <3>2, <3>3
    <2>2. seqNum + 1 < SeqCount
      BY <1>t, <1>p, <2>1
    <2>3. seqNum' = seqNum + 1
      BY <1>t, <2>1, <2>2, NoWrap
    <2>4. Spent' = Spent + 1
      <3>1. CASE generation' = generation /\ parity' = parity + 1
        <4>1. Spent' = pkt.data + p + (parity + 1)
          <5>1. generation' * (N - K) = p
            BY <3>1 DEF p
          <5>2. Spent' = pkt'.data + generation' * (N - K) + parity' + 0
            BY <2>1 DEF Spent
          <5>3. Spent' = (pkt.data + p + (parity + 1)) + 0
            BY <2>1, <3>1, <5>1, <5>2
          <5> QED BY <1>t, <5>3
        <4>2. Spent = pkt.data + p + parity + 0
          BY <1>p, <2>1
        <4>3. p \in Nat /\ pkt.data \in Nat /\ parity \in Nat
          BY <1>t
        <4> QED BY <4>1, <4>2, <4>3
      <3>2. CASE generation' = generation + 1 /\ parity' = 0 /\ parity + 1 = N - K
        <4>1. Spent' = pkt.data + (generation + 1) * (N - K)
          BY <1>t, <2>1, <3>2 DEF Spent
        <4> QED BY <1>t, <1>p, <2>1, <3>2, <4>1
      <3> QED BY <2>1, <3>1, <3>2
    <2>5. NextOnWire' = NextOnWire + 1 /\ NextOnWire = seqNum
      BY <2>1, <2>3 DEF NextOnWire
    <2>6. seqNum' <= Spent'
      BY <1>t, <1>p, <2>1, <2>3, <2>4
    <2>7. CASE sent
      <3>1. PICK e \in Frames : e = ParityFrame /\ e.seq = seqNum
        BY <2>1, ParityFrameType
      <3> QED BY <2>1, <2>5, <2>6, <2>7, <3>1, SeqGrows
    <2>8. CASE ~sent
      BY <1>t, <2>1, <2>5, <2>6, <2>8, SeqKept
    <2> QED BY <2>7, <2>8
  <1> QED BY <1>1, <1>2, <1>3, <1>4, <1>5, <1>6 DEF Next, Worker

(* Until the numbers wrap, the packets on the wire carry growing sequence    *)
(* numbers, whatever is dropped or fails (session.go 321 and 388).           *)
THEOREM SequenceNumbersIncrease == Spec => []SeqIncreases
  <1> DEFINE I == Unwrapped => SeqInv
  <1>1. Init => I
    BY Sizes, Products DEF Init, SeqInv, Spent, NextOnWire, NoPacket
  <1>2. Core /\ Core' /\ I /\ [Next]_vars => I'
    BY UnwrappedBefore, SeqInvStep
  <1>3. I => SeqIncreases
    BY DEF SeqInv, SeqIncreases, Unwrapped
  <1> HIDE DEF I
  <1> QED BY CoreInit, CoreStep, <1>1, <1>2, <1>3, PTL DEF Spec
-----------------------------------------------------------------------------
(* SessionWorker implements FramedStream, step by step. *)
LEMMA StreamInitMaps == Init => Stream!StreamInit
  <1> SUFFICES ASSUME Init PROVE Stream!StreamInit
    OBVIOUS
  <1>1. generation * N + Len(group) + parity = 0
    BY Sizes DEF Init
  <1>2. {SlotOf(wire[n]) : n \in 1..Len(wire)} = {}
    BY DEF Init
  <1> QED BY <1>1, <1>2 DEF Stream!StreamInit

(* A frame that is written fills the next slot. *)
LEMMA SlotsGrow ==
  ASSUME Core, NEW e \in Frames, wire' = Append(wire, e)
  PROVE  {SlotOf(wire[n]) : n \in 1..Len(wire)}'
           = {SlotOf(wire[n]) : n \in 1..Len(wire)} \cup {SlotOf(e)}
  <1> DEFINE L == Len(wire)
  <1>1. /\ L \in Nat /\ Len(wire') = L + 1 /\ wire'[L + 1] = e
        /\ \A n \in 1..L : wire'[n] = wire[n]
    BY DEF Core, TypeOK
  <1> HIDE DEF L
  <1>2. \A n \in 1..(L + 1) : n \in 1..L \/ n = L + 1
    BY <1>1
  <1>3. 1..L \subseteq 1..(L + 1) /\ L + 1 \in 1..(L + 1)
    BY <1>1
  <1>4. {SlotOf(wire'[n]) : n \in 1..(L + 1)} = {SlotOf(wire[n]) : n \in 1..L} \cup {SlotOf(e)}
    BY <1>1, <1>2, <1>3
  <1> QED BY <1>1, <1>4 DEF L, SlotOf

LEMMA StreamStepMaps == Core /\ Core' /\ [Next]_vars => [Stream!Offer]_(Stream!streamVars)
  <1> SUFFICES ASSUME Core, Core', [Next]_vars
               PROVE  [Stream!Offer]_(Stream!streamVars)
    OBVIOUS
  <1> DEFINE next == generation * N + Len(group) + parity
             slots == {SlotOf(wire[n]) : n \in 1..Len(wire)}
  <1>t. /\ generation \in Nat /\ Len(group) \in Nat /\ parity \in Nat /\ generation * N \in Nat
        /\ (generation + 1) * N = generation * N + N
    BY Sizes DEF Core, TypeOK
  <1>1. CASE \/ Broadcast \/ Cancel \/ CloseQueue \/ Check \/ Take \/ StopOnClosed
             \/ EncryptFails \/ WriteFailsAtEnd \/ UNCHANGED vars
    <2>1. UNCHANGED <<wire, group, generation, parity>>
      BY <1>1 DEF Broadcast, Cancel, CloseQueue, Check, Take, StopOnClosed, EncryptFails,
         WriteFailsAtEnd, vars, groupVars
    <2>2. next' = next /\ slots' = slots
      BY <2>1 DEF SlotOf
    <2> QED BY <2>2 DEF Stream!streamVars
  <1>2. ASSUME next' = next + 1, slots' \in {slots, slots \cup {next}}
        PROVE  Stream!Offer
    BY <1>2 DEF Stream!Offer
  <1>3. ASSUME NEW sent \in BOOLEAN, WriteData(sent)
        PROVE  next' = next + 1 /\ slots' \in {slots, slots \cup {next}}
    <2>1. /\ loc = "frame" /\ UNCHANGED <<generation, parity>>
          /\ group' = Append(group, pkt.data)
          /\ wire' = IF sent THEN Append(wire, DataFrame) ELSE wire
      BY <1>3 DEF WriteData
    <2>2. parity = 0 /\ Len(group') = Len(group) + 1
      BY <2>1 DEF Core, TypeOK, Position
    <2>3. next' = next + 1
      BY <1>t, <2>1, <2>2
    <2>4. CASE sent
      <3>1. PICK e \in Frames : e = DataFrame /\ IndexOf(e.info) = Len(group)
                                /\ e.gen = generation
        BY <2>1, DataFrameType
      <3>2. SlotOf(e) = next
        BY <1>t, <2>2, <3>1 DEF SlotOf
      <3>3. slots' = slots \cup {SlotOf(e)}
        BY <2>1, <2>4, <3>1, SlotsGrow
      <3> HIDE DEF slots, next
      <3> QED BY <2>3, <3>2, <3>3
    <2>5. CASE ~sent
      <3>1. slots' = slots
        BY <2>1, <2>5 DEF SlotOf
      <3> QED BY <2>3, <3>1
    <2> QED BY <2>4, <2>5
  <1>4. ASSUME NEW sent \in BOOLEAN, WriteParity(sent)
        PROVE  next' = next + 1 /\ slots' \in {slots, slots \cup {next}}
    <2>1. loc = "parity" /\ Len(group) = K
      BY <1>4 DEF WriteParity, Core, Position
    <2>2. wire' = IF sent THEN Append(wire, ParityFrame) ELSE wire
      BY <1>4 DEF WriteParity
    <2>3. next' = next + 1
      <3>1. CASE parity + 1 < N - K
        <4>1. UNCHANGED <<group, generation>> /\ parity' = parity + 1
          BY <1>4, <3>1 DEF WriteParity
        <4> QED BY <1>t, <4>1
      <3>2. CASE ~(parity + 1 < N - K)
        <4>1. /\ group' = <<>> /\ generation' = generation + 1 /\ parity' = 0
              /\ parity + 1 = N - K
          BY <1>4, <2>1, <3>2, Sizes DEF WriteParity, ClearedGroup, Core, TypeOK
        <4> QED BY <1>t, <2>1, <4>1, Sizes
      <3> QED BY <3>1, <3>2
    <2>4. CASE sent
      <3>1. PICK e \in Frames : e = ParityFrame /\ IndexOf(e.info) = K + parity
                                /\ e.gen = generation
        BY <2>1, ParityFrameType
      <3>2. SlotOf(e) = next
        BY <1>t, <2>1, <3>1, Sizes DEF SlotOf
      <3>3. slots' = slots \cup {SlotOf(e)}
        BY <2>2, <2>4, <3>1, SlotsGrow
      <3> HIDE DEF slots, next
      <3> QED BY <2>3, <3>2, <3>3
    <2>5. CASE ~sent
      <3>1. slots' = slots
        BY <2>2, <2>5 DEF SlotOf
      <3> QED BY <2>3, <3>1
    <2> QED BY <2>4, <2>5
  <1> QED BY <1>1, <1>2, <1>3, <1>4 DEF Next, Worker

(* The worker implements the framed stream for every K, N, queue size and    *)
(* number of packets: slots in order, each offered at most once.             *)
THEOREM WorkerImplementsStream == Spec => ImplementsStream
  BY StreamInitMaps, StreamStepMaps, CoreInit, CoreStep, PTL
     DEF Spec, ImplementsStream, Stream!StreamSpec
-----------------------------------------------------------------------------
(* What every accepted configuration gives the worker, and the rest of the   *)
(* program.                                                                  *)

(* With FEC enabled at the sender, an accepted configuration keeps its k and *)
(* n on the way through a byte of the ack (send.go 548, 560, 634); no        *)
(* receiver refuses them (recv.go 854, 885); a receiver that wants FEC       *)
(* decodes exactly if the sender encodes (session.go 51, fec.go 43); and the *)
(* k and n in use are what SessionWorker and FECManager assume of theirs.    *)
THEOREM FECParametersAgree ==
  ASSUME NEW c, NEW r, c.fecK \in Int, c.fecN \in Int,
         ValidateSend(c), c.fecEnabled \in BOOLEAN, c.fecEnabled, r.fecEnabled \in BOOLEAN
  PROVE  /\ Announced(c) = [k |-> c.fecK, n |-> c.fecN]
         /\ ~Refuses(Announced(c))
         /\ ManagerOn(r, Announced(c)) <=> (r.fecEnabled /\ EncoderOn(c))
         /\ EncoderOn(c) => /\ c.fecK \in Nat \ {0} /\ c.fecN \in Nat
                            /\ c.fecK < c.fecN /\ c.fecN <= IndexSpan
  <1>1. c.fecK > 0 /\ c.fecN >= c.fecK /\ c.fecN <= 16
    BY DEF ValidateSend
  <1>2. c.fecK % 256 = c.fecK /\ c.fecN % 256 = c.fecN
    BY <1>1
  <1>3. Announced(c).k = c.fecK /\ Announced(c).n = c.fecN
    BY <1>2 DEF Announced
  <1>4. ~Refuses(Announced(c))
    BY <1>1, <1>3 DEF Refuses
  <1>5. ManagerOn(r, Announced(c)) <=> (r.fecEnabled /\ EncoderOn(c))
    BY <1>3 DEF ManagerOn, EncoderOn
  <1>6. EncoderOn(c) => /\ c.fecK \in Nat \ {0} /\ c.fecN \in Nat
                        /\ c.fecK < c.fecN /\ c.fecN <= IndexSpan
    BY <1>1 DEF EncoderOn, Usable, IndexSpan
  <1> QED BY <1>2, <1>4, <1>5, <1>6 DEF Announced

(* No datagram of an accepted configuration exceeds the link's MTU, neither  *)
(* a data frame nor the parity over a group whose longest packet is as long  *)
(* as runSendNormal lets through (send.go 335-344, 412), and PayloadLen      *)
(* (session.go 345, 381) does not wrap.  The limit leaves room for the       *)
(* smallest MTU, and it is tight: such a parity frame fills the link.        *)
THEOREM FramesFitTheLink ==
  ASSUME NEW c, ValidateSend(c), c.MTU \in Int, c.encryption \in BOOLEAN,
         NEW payload \in Nat, payload <= MaxPayloadSize(c)
  PROVE  /\ Datagram(DataLen(c, payload)) <= c.MTU
         /\ Datagram(ParityLen(c, payload)) <= c.MTU
         /\ DataLen(c, payload) < Uint16 /\ ParityLen(c, payload) < Uint16
         /\ MaxPayloadSize(c) > 0
         /\ Datagram(ParityLen(c, MaxPayloadSize(c))) = c.MTU
  <1>1. 576 <= c.MTU /\ c.MTU <= 65535
    BY DEF ValidateSend, Within
  <1>2. LinkMTU(c) = c.MTU
    BY <1>1 DEF LinkMTU
  <1>3. EncryptionOverhead(c) \in {0, 28}
    BY DEF EncryptionOverhead, NonceAndTag
  <1>4. MaxPayloadSize(c) = c.MTU - 62 - EncryptionOverhead(c)
    BY <1>1, <1>2, <1>3 DEF MaxPayloadSize, IPUDPHeaders, HeaderSize
  <1>5. /\ Datagram(DataLen(c, payload)) = 45 + payload + EncryptionOverhead(c)
        /\ Datagram(ParityLen(c, payload)) = 62 + payload + EncryptionOverhead(c)
    BY <1>3 DEF Datagram, DataLen, ParityLen, IPUDPHeaders, HeaderSize
  <1>6. Datagram(ParityLen(c, MaxPayloadSize(c))) = c.MTU
    BY <1>1, <1>3, <1>4 DEF Datagram, DataLen, ParityLen, IPUDPHeaders, HeaderSize
  <1>7. DataLen(c, payload) < Uint16 /\ ParityLen(c, payload) < Uint16
    BY <1>1, <1>3, <1>4 DEF DataLen, ParityLen, HeaderSize, Uint16
  <1>8. MaxPayloadSize(c) > 0
    BY <1>1, <1>3, <1>4
  <1>9. /\ Datagram(DataLen(c, payload)) <= c.MTU
        /\ Datagram(ParityLen(c, payload)) <= c.MTU
    BY <1>1, <1>3, <1>4, <1>5
  <1> QED BY <1>6, <1>7, <1>8, <1>9

(* At a receiver the FEC groups and the connection live equally long, at     *)
(* least one KeepAlive interval, and no fallback of the interval or of the   *)
(* group timeout is ever used (recv.go 584-588, 935-942, fec.go 39; send.go  *)
(* 667-674 for the sender's half): GroupTimeout and the order of phases in   *)
(* ControlPlane rest on it.                                                  *)
THEOREM TimeoutsAgree ==
  ASSUME NEW c, ValidCommon(c), c.interval \in Int, c.timeoutMultiplier \in Int,
         c.encryption \in BOOLEAN
  PROVE  /\ Interval(c) = c.interval
         /\ GroupTimeout(c) = PeerTimeout(c)
         /\ PeerTimeout(c) >= c.interval
  <1>1. c.interval > 0
    BY DEF ValidCommon
  <1>2. Multiplier(c) \in Int /\ Multiplier(c) >= 1
    BY DEF Multiplier
  <1>3. Interval(c) = c.interval
    BY <1>1 DEF Interval
  <1> DEFINE i == c.interval
             m == Multiplier(c)
  <1>4. i * m >= i
    <2>1. \A x, y \in Nat : y >= 1 => x * y >= x
      OBVIOUS
    <2> QED BY <2>1, <1>1, <1>2
  <1>5. GroupTimeout(c) = c.interval * Multiplier(c)
    BY <1>1, <1>2, <1>4 DEF GroupTimeout
  <1> QED BY <1>3, <1>4, <1>5 DEF PeerTimeout
=============================================================================
