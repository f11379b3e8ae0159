------------------------- MODULE PacketQueue_proofs -------------------------
(* Proofs about PacketQueue, for every number of consumers, every size given *)
(* to NewPacketQueue and every number of packets.                            *)
EXTENDS PacketQueue, PacketQueueOps_proofs, FiniteSetTheorems, TLAPS

LEMMA NumbersAreNaturals ==
  ASSUME NEW M \in Nat, NEW s \in Seq(1..M)
  PROVE  s \in Seq(Nat)
  OBVIOUS

(* Runs of consecutive numbers under the three things that happen to them. *)
LEMMA RunGrows ==
  ASSUME NEW s \in Seq(Nat), NEW n \in Nat, RunUpTo(s, n)
  PROVE  RunUpTo(Append(s, n + 1), n + 1)
  BY DEF RunUpTo

LEMMA RunShrinks ==
  ASSUME NEW s \in Seq(Nat), NEW n \in Nat, RunUpTo(s, n), s # <<>>
  PROVE  /\ RunUpTo(Tail(s), n)
         /\ Head(s) = n - Len(s) + 1
         /\ Len(Tail(s)) = Len(s) - 1
  <1> DEFINE t == Tail(s)
  <1>1. /\ t \in Seq(Nat) /\ Len(t) = Len(s) - 1 /\ Len(s) \in Nat
        /\ \A i \in 1..Len(t) : t[i] = s[i + 1]
        /\ Head(s) = s[1] /\ Len(s) >= 1
    OBVIOUS
  <1> HIDE DEF t
  <1>2. RunUpTo(t, n) /\ Head(s) = n - Len(s) + 1
    BY <1>1 DEF RunUpTo
  <1> QED BY <1>1, <1>2 DEF t

LEMMA RunSlides ==
  ASSUME NEW s \in Seq(Nat), NEW n \in Nat, RunUpTo(s, n), s # <<>>
  PROVE  /\ RunUpTo(Append(Tail(s), n + 1), n + 1)
         /\ Len(Append(Tail(s), n + 1)) = Len(s)
  <1> DEFINE t == Tail(s)
  <1>1. t \in Seq(Nat) /\ RunUpTo(t, n) /\ Len(t) = Len(s) - 1
    BY RunShrinks
  <1> HIDE DEF t
  <1>2. RunUpTo(Append(t, n + 1), n + 1) /\ Len(Append(t, n + 1)) = Len(s)
    BY <1>1, RunGrows
  <1> QED BY <1>2 DEF t

LEMMA IncreasingWeakens ==
  ASSUME NEW s \in Seq(Nat), NEW m \in Int, NEW n \in Int,
         IncreasingUpTo(s, m), m <= n
  PROVE  IncreasingUpTo(s, n)
  BY DEF IncreasingUpTo

LEMMA IncreasingGrows ==
  ASSUME NEW s \in Seq(Nat), NEW m \in Nat, NEW n \in Nat,
         IncreasingUpTo(s, m), m < n
  PROVE  IncreasingUpTo(Append(s, n), n)
  BY DEF IncreasingUpTo

(* The inductive part of the type invariant: the queue never outgrows its    *)
(* capacity, which is at least one, so eviction always finds a packet.       *)
TypeInv == TypeOK /\ Len(pq.packets) <= pq.maxSize

LEMMA TypeInvInit == Init => TypeInv
  BY PacketQueueAssumption
  DEF Init, TypeInv, TypeOK, QueueRecord, NewPacketQueue, QueueRecord, Locations

LEMMA TypeInvStep == TypeInv /\ [Next]_vars => TypeInv'
  <1> SUFFICES ASSUME TypeInv, [Next]_vars PROVE TypeInv'
    OBVIOUS
  <1> USE PacketQueueAssumption
  <1>1. CASE Enqueue
    <2>1. accepted + 1 \in 1..MaxPackets
      BY <1>1 DEF Enqueue, TypeInv, TypeOK, QueueRecord
    <2>2. /\ pq' \in [packets : Seq(1..MaxPackets), maxSize : Nat \ {0},
                      closed : BOOLEAN, dropped : Nat]
          /\ pq'.maxSize = pq.maxSize
          /\ Len(pq'.packets) <= pq.maxSize
      <3>1. pq' = Enqueued(pq, accepted + 1)
        BY <1>1 DEF Enqueue
      <3>2. pq \in QueueRecord(1..MaxPackets) /\ Len(pq.packets) <= pq.maxSize
        BY DEF TypeInv, TypeOK, QueueRecord
      <3>3. CASE IsFull(pq)
        <4>1. /\ pq' \in QueueRecord(1..MaxPackets)
              /\ pq'.maxSize = pq.maxSize
              /\ pq'.packets = Append(Tail(pq.packets), accepted + 1)
              /\ pq.packets # <<>>
          BY <2>1, <3>1, <3>2, <3>3, EnqueuedFull
        <4> QED BY <2>1, <3>2, <4>1, SlideRun DEF QueueRecord
      <3>4. CASE ~IsFull(pq)
        <4>1. /\ pq' \in QueueRecord(1..MaxPackets)
              /\ pq'.maxSize = pq.maxSize
              /\ pq'.packets = Append(pq.packets, accepted + 1)
          BY <2>1, <3>1, <3>2, <3>4, EnqueuedRoom
        <4> QED BY <2>1, <3>2, <3>4, <4>1 DEF QueueRecord, IsFull
      <3> QED BY <3>3, <3>4
    <2>3. pc' \in [Consumers -> Locations]
      BY <1>1 DEF Enqueue, Signal, Waiting, TypeInv, TypeOK, QueueRecord, Locations
    <2>4. accepted' \in 0..MaxPackets /\ delivered' = delivered
      BY <1>1 DEF Enqueue, TypeInv, TypeOK, QueueRecord
    <2> QED BY <2>2, <2>3, <2>4 DEF TypeInv, TypeOK, QueueRecord
  <1>2. CASE Close
    <2>1. /\ pq' \in QueueRecord(1..MaxPackets)
          /\ pq'.packets = <<>> /\ pq'.maxSize = pq.maxSize
      <3>1. pq \in QueueRecord(1..MaxPackets)
        BY DEF TypeInv, TypeOK, QueueRecord
      <3> QED BY <1>2, <3>1, SetClosed DEF Close
    <2>2. pc' \in [Consumers -> Locations]
      BY <1>2 DEF Close, WakeAll, TypeInv, TypeOK, QueueRecord, Locations
    <2> QED BY <1>2, <2>1, <2>2 DEF Close, TypeInv, TypeOK, QueueRecord
  <1>3. ASSUME NEW c \in Consumers, DequeueStep(c) PROVE TypeInv'
    <2>1. CASE CallDequeue(c) \/ DequeueWaits(c) \/ DequeueFails(c)
      BY <2>1 DEF CallDequeue, DequeueWaits, DequeueFails, TypeInv, TypeOK, QueueRecord, Locations
    <2>2. CASE DequeueReturns(c)
      <3>1. pq.packets # <<>>
        BY <2>2 DEF DequeueReturns, MustWait, TypeInv, TypeOK, QueueRecord
      <3>2. pq' = [pq EXCEPT !.packets = Tail(pq.packets)]
        BY <2>2 DEF DequeueReturns, Dequeued
      <3>3. /\ Tail(pq.packets) \in Seq(1..MaxPackets)
            /\ Len(Tail(pq.packets)) <= pq.maxSize
            /\ Head(pq.packets) \in 1..MaxPackets
        BY <3>1 DEF TypeInv, TypeOK, QueueRecord
      <3>4. delivered' \in Seq(1..MaxPackets)
        BY <2>2, <3>3 DEF DequeueReturns, TypeInv, TypeOK, QueueRecord
      <3> QED BY <2>2, <3>2, <3>3, <3>4
              DEF DequeueReturns, TypeInv, TypeOK, QueueRecord, Locations
    <2> QED BY <1>3, <2>1, <2>2 DEF DequeueStep
  <1>4. CASE UNCHANGED vars
    BY <1>4 DEF vars, TypeInv, TypeOK, QueueRecord
  <1> QED BY <1>1, <1>2, <1>3, <1>4 DEF Next

(* The queue keeps its type, whatever size it was asked for. *)
THEOREM TypeCorrect == Spec => []TypeOK
  <1>1. Spec => []TypeInv
    BY TypeInvInit, TypeInvStep, PTL DEF Spec
  <1>2. TypeInv => TypeOK
    BY DEF TypeInv
  <1> QED BY <1>1, <1>2, PTL
-----------------------------------------------------------------------------
(* What each step does to the packets, in the form the other proofs use. *)
LEMMA EnqueueEffect ==
  ASSUME TypeInv, Enqueue
  PROVE  /\ accepted + 1 \in 1..MaxPackets
         /\ accepted' = accepted + 1 /\ delivered' = delivered
         /\ ~pq.closed /\ ~pq'.closed
         /\ pq'.maxSize = pq.maxSize
         /\ \/ /\ Len(pq.packets) = pq.maxSize
               /\ pq.packets # <<>>
               /\ pq'.packets = Append(Tail(pq.packets), accepted + 1)
               /\ pq'.dropped = pq.dropped + 1
            \/ /\ Len(pq.packets) < pq.maxSize
               /\ pq'.packets = Append(pq.packets, accepted + 1)
               /\ pq'.dropped = pq.dropped
  <1>1. pq \in QueueRecord(1..MaxPackets) /\ accepted + 1 \in 1..MaxPackets
    BY PacketQueueAssumption DEF TypeInv, TypeOK, QueueRecord, Enqueue
  <1>2. Len(pq.packets) \in Nat /\ pq.maxSize \in Nat /\ Len(pq.packets) <= pq.maxSize
    BY <1>1 DEF TypeInv, QueueRecord
  <1>3. /\ pq' = Enqueued(pq, accepted + 1) /\ ~pq.closed
        /\ accepted' = accepted + 1 /\ delivered' = delivered
    BY DEF Enqueue
  <1>4. CASE IsFull(pq)
    <2>1. /\ pq.packets # <<>>
          /\ pq'.packets = Append(Tail(pq.packets), accepted + 1)
          /\ pq'.maxSize = pq.maxSize /\ pq'.closed = pq.closed
          /\ pq'.dropped = pq.dropped + 1
      BY <1>1, <1>3, <1>4, EnqueuedFull
    <2>2. Len(pq.packets) = pq.maxSize
      BY <1>2, <1>4 DEF IsFull
    <2> QED BY <1>1, <1>3, <2>1, <2>2
  <1>5. CASE ~IsFull(pq)
    <2>1. /\ pq'.packets = Append(pq.packets, accepted + 1)
          /\ pq'.maxSize = pq.maxSize /\ pq'.closed = pq.closed
          /\ pq'.dropped = pq.dropped
      BY <1>1, <1>3, <1>5, EnqueuedRoom
    <2>2. Len(pq.packets) < pq.maxSize
      BY <1>2, <1>5 DEF IsFull
    <2> QED BY <1>1, <1>3, <2>1, <2>2
  <1> QED BY <1>4, <1>5

LEMMA ReturnEffect ==
  ASSUME TypeInv, NEW c \in Consumers, DequeueReturns(c)
  PROVE  /\ pq.packets # <<>> /\ ~pq.closed /\ ~pq'.closed
         /\ pq'.packets = Tail(pq.packets)
         /\ pq'.dropped = pq.dropped /\ pq'.maxSize = pq.maxSize
         /\ delivered' = Append(delivered, Head(pq.packets))
         /\ accepted' = accepted
         /\ Len(Tail(pq.packets)) = Len(pq.packets) - 1
         /\ \A i \in 1..(Len(pq.packets) - 1) : Tail(pq.packets)[i] = pq.packets[i + 1]
         /\ Head(pq.packets) = pq.packets[1]
  <1>1. pq.packets # <<>>
    BY DEF DequeueReturns, MustWait, TypeInv, TypeOK, QueueRecord
  <1>2. pq' = [pq EXCEPT !.packets = Tail(pq.packets)]
    BY DEF DequeueReturns, Dequeued
  <1>3. /\ Len(Tail(pq.packets)) = Len(pq.packets) - 1
        /\ \A i \in 1..(Len(pq.packets) - 1) : Tail(pq.packets)[i] = pq.packets[i + 1]
        /\ Head(pq.packets) = pq.packets[1]
    BY <1>1 DEF TypeInv, TypeOK, QueueRecord
  <1> QED BY <1>1, <1>2, <1>3 DEF DequeueReturns, TypeInv, TypeOK, QueueRecord

LEMMA CloseEffect ==
  ASSUME TypeInv, Close
  PROVE  /\ pq'.packets = <<>> /\ pq'.closed /\ ~pq.closed
         /\ pq'.maxSize = pq.maxSize
         /\ UNCHANGED <<accepted, delivered>>
  <1>1. pq \in QueueRecord(1..MaxPackets)
    BY DEF TypeInv, TypeOK, QueueRecord
  <1> QED BY <1>1, SetClosed DEF Close

(* Newest run, order and conservation are inductive together: order needs    *)
(* to know that the head is the oldest number still queued.                  *)
RunInv == TypeInv /\ HoldsNewestRun /\ DeliversInOrder /\ Conservation

LEMMA RunInvInit == Init => RunInv
  <1> SUFFICES ASSUME Init PROVE RunInv
    OBVIOUS
  <1>1. /\ pq.packets = <<>> /\ pq.dropped = 0 /\ pq.maxSize \in Nat
        /\ accepted = 0 /\ delivered = <<>>
    BY PacketQueueAssumption DEF Init, NewPacketQueue
  <1> QED BY <1>1, TypeInvInit
          DEF RunInv, HoldsNewestRun, DeliversInOrder, Conservation, RunUpTo, IncreasingUpTo

LEMMA RunInvStep == RunInv /\ [Next]_vars => RunInv'
  <1> SUFFICES ASSUME RunInv, [Next]_vars PROVE RunInv'
    OBVIOUS
  <1>0. TypeInv /\ TypeInv'
    BY TypeInvStep DEF RunInv
  <1> DEFINE packets == pq.packets
             L == Len(packets)
             D == Len(delivered)
             old == accepted - L
             drops == pq.dropped
  <1>t. /\ packets \in Seq(Nat) /\ delivered \in Seq(Nat)
        /\ L \in Nat /\ D \in Nat /\ accepted \in Nat /\ drops \in Nat
    <2>1. /\ packets \in Seq(1..MaxPackets) /\ delivered \in Seq(1..MaxPackets)
          /\ drops \in Nat /\ accepted \in 0..MaxPackets
      BY <1>0 DEF TypeInv, TypeOK, QueueRecord
    <2>2. packets \in Seq(Nat) /\ delivered \in Seq(Nat)
      BY <2>1, NumbersAreNaturals, PacketQueueAssumption
    <2> QED BY <2>1, <2>2, PacketQueueAssumption
  <1>i. RunUpTo(packets, accepted) /\ IncreasingUpTo(delivered, old)
    BY DEF RunInv, HoldsNewestRun, DeliversInOrder
  <1>l. L <= accepted /\ old \in Nat
    BY <1>i, <1>t DEF RunUpTo
  <1>b. ~pq.closed => accepted = D + drops + L
    BY Zenon DEF RunInv, Conservation
  <1>g. /\ RunUpTo(packets', accepted')
        /\ IncreasingUpTo(delivered', old')
        /\ pq'.closed \/ accepted' = D' + drops' + L'
        => RunInv'
    <2> SUFFICES ASSUME RunUpTo(packets', accepted'), IncreasingUpTo(delivered', old'),
                        pq'.closed \/ accepted' = D' + drops' + L'
                 PROVE  RunInv'
      OBVIOUS
    <2>1. HoldsNewestRun'
      BY <1>0 DEF HoldsNewestRun, TypeInv
    <2>2. DeliversInOrder'
      BY DEF DeliversInOrder
    <2>3. Conservation'
      BY Zenon DEF Conservation
    <2> QED BY <1>0, <2>1, <2>2, <2>3 DEF RunInv
  <1>1. CASE Enqueue
    <2>0. /\ accepted' = accepted + 1 /\ delivered' = delivered
          /\ accepted = D + drops + L
      BY <1>0, <1>1, <1>b, EnqueueEffect
    <2>1. CASE packets # <<>> /\ packets' = Append(Tail(packets), accepted + 1)
               /\ drops' = drops + 1
      <3>1. RunUpTo(packets', accepted') /\ L' = L
        BY <1>i, <1>t, <2>0, <2>1, RunSlides
      <3> HIDE DEF packets, L, D, drops
      <3>2. old' \in Int /\ old <= old' /\ D' = D
        BY <1>t, <2>0, <3>1 DEF D
      <3> HIDE DEF old
      <3>3. IncreasingUpTo(delivered', old')
        BY <1>i, <1>t, <1>l, <2>0, <3>2, IncreasingWeakens
      <3>4. accepted' = D' + drops' + L'
        BY <1>t, <2>0, <2>1, <3>1, <3>2
      <3> QED BY <1>g, <3>1, <3>3, <3>4
    <2>2. CASE packets' = Append(packets, accepted + 1) /\ drops' = drops
      <3>1. RunUpTo(packets', accepted') /\ L' = L + 1
        BY <1>i, <1>t, <2>0, <2>2, RunGrows
      <3> HIDE DEF packets, L, D, drops
      <3>2. old' \in Int /\ old <= old' /\ D' = D
        BY <1>t, <2>0, <3>1 DEF D
      <3> HIDE DEF old
      <3>3. IncreasingUpTo(delivered', old')
        BY <1>i, <1>t, <1>l, <2>0, <3>2, IncreasingWeakens
      <3>4. accepted' = D' + drops' + L'
        BY <1>t, <2>0, <2>2, <3>1, <3>2
      <3> QED BY <1>g, <3>1, <3>3, <3>4
    <2> QED BY <1>0, <1>1, <2>1, <2>2, EnqueueEffect
  <1>2. CASE Close
    <2>1. packets' = <<>> /\ accepted' = accepted /\ delivered' = delivered
      BY <1>0, <1>2, CloseEffect
    <2>2. RunUpTo(packets', accepted') /\ L' = 0
      BY <1>t, <2>1 DEF RunUpTo
    <2> HIDE DEF packets, L
    <2>3. old' \in Int /\ old <= old'
      BY <1>t, <2>1, <2>2
    <2> HIDE DEF old
    <2>4. IncreasingUpTo(delivered', old')
      BY <1>i, <1>t, <1>l, <2>1, <2>3, IncreasingWeakens
    <2>5. pq'.closed
      BY <1>0, <1>2, CloseEffect
    <2> QED BY <1>g, <2>2, <2>4, <2>5
  <1>3. ASSUME NEW c \in Consumers, DequeueStep(c) PROVE RunInv'
    <2>1. CASE CallDequeue(c) \/ DequeueWaits(c) \/ DequeueFails(c)
      <3>1. UNCHANGED <<pq, accepted, delivered>>
        BY <2>1 DEF CallDequeue, DequeueWaits, DequeueFails
      <3> QED BY <1>0, <3>1 DEF RunInv, HoldsNewestRun, DeliversInOrder, Conservation
    <2>2. CASE DequeueReturns(c)
      <3>1. /\ packets # <<>> /\ packets' = Tail(packets) /\ drops' = drops
            /\ delivered' = Append(delivered, Head(packets)) /\ accepted' = accepted
            /\ accepted = D + drops + L
        BY <1>0, <1>b, <2>2, ReturnEffect
      <3>2. /\ RunUpTo(packets', accepted') /\ L' = L - 1
            /\ Head(packets) = accepted - L + 1
        BY <1>i, <1>t, <3>1, RunShrinks
      <3> HIDE DEF packets, L
      <3>3. delivered' = Append(delivered, old + 1) /\ old' = old + 1 /\ old < old'
            /\ old' \in Nat
        <4>1. delivered' = Append(delivered, accepted - L + 1) /\ accepted' = accepted
          BY <3>1, <3>2
        <4>2. old' = old + 1
          BY <1>t, <3>2, <4>1
        <4> QED BY <1>l, <4>1, <4>2
      <3> HIDE DEF old
      <3>4. IncreasingUpTo(delivered', old') /\ D' = D + 1
        BY <1>i, <1>t, <1>l, <3>3, IncreasingGrows
      <3> HIDE DEF D, drops
      <3>5. accepted' = D' + drops' + L'
        <4>1. accepted' = D + drops + L /\ drops' = drops
          BY <3>1
        <4> QED BY <1>t, <3>2, <3>4, <4>1
      <3> QED BY <1>g, <3>2, <3>4, <3>5
    <2> QED BY <1>3, <2>1, <2>2 DEF DequeueStep
  <1>4. CASE UNCHANGED vars
    <2>1. UNCHANGED <<pq, accepted, delivered>>
      BY <1>4 DEF vars
    <2> QED BY <1>0, <2>1 DEF RunInv, HoldsNewestRun, DeliversInOrder, Conservation
  <1> QED BY <1>1, <1>2, <1>3, <1>4 DEF Next

LEMMA RunInvariant == Spec => []RunInv
  BY RunInvInit, RunInvStep, PTL DEF Spec

(* Eviction keeps exactly the most recent packets, for every capacity. *)
THEOREM NewestRunKept == Spec => []HoldsNewestRun
  <1>1. RunInv => HoldsNewestRun
    BY DEF RunInv
  <1> QED BY <1>1, RunInvariant, PTL

(* No packet is delivered twice or out of order, for every number of         *)
(* consumers.                                                                *)
THEOREM DeliveredInOrder == Spec => []DeliversInOrder
  <1>1. RunInv => DeliversInOrder
    BY DEF RunInv
  <1> QED BY <1>1, RunInvariant, PTL

(* The drop counter accounts for every packet that was not delivered. *)
THEOREM PacketsConserved == Spec => []Conservation
  <1>1. RunInv => Conservation
    BY DEF RunInv
  <1> QED BY <1>1, RunInvariant, PTL
-----------------------------------------------------------------------------
(* Signal wakes one waiter per packet, and that is enough. *)
WakeInv == TypeInv /\ NoLostWakeup

LEMMA WakeInvStep == WakeInv /\ [Next]_vars => WakeInv'
  <1> SUFFICES ASSUME WakeInv, [Next]_vars PROVE WakeInv'
    OBVIOUS
  <1>0. TypeInv /\ TypeInv'
    BY TypeInvStep DEF WakeInv
  <1>f. /\ IsFiniteSet(Ready) /\ IsFiniteSet(Ready')
        /\ Cardinality(Ready) \in Nat /\ Cardinality(Ready') \in Nat
        /\ Len(pq.packets) \in Nat /\ Len(pq'.packets) \in Nat
    <2>1. IsFiniteSet(Ready) /\ IsFiniteSet(Ready')
      BY PacketQueueAssumption, FS_Subset DEF Ready
    <2> QED BY <1>0, <2>1, FS_CardinalityType DEF TypeInv, TypeOK, QueueRecord
  <1>p. pc \in [Consumers -> Locations]
    BY <1>0 DEF TypeInv, TypeOK, QueueRecord
  <1> SUFFICES ASSUME Waiting' # {}
               PROVE  ~pq'.closed /\ Len(pq'.packets) <= Cardinality(Ready')
    BY <1>0 DEF WakeInv, NoLostWakeup
  <1>1. CASE Enqueue
    <2>1. /\ ~pq'.closed /\ Len(pq'.packets) <= Len(pq.packets) + 1
      <3>1. pq.packets \in Seq(1..MaxPackets) /\ accepted + 1 \in 1..MaxPackets
        BY <1>0, <1>1, EnqueueEffect DEF TypeInv, TypeOK, QueueRecord
      <3>2. \/ /\ pq.packets # <<>>
               /\ pq'.packets = Append(Tail(pq.packets), accepted + 1)
            \/ pq'.packets = Append(pq.packets, accepted + 1)
        BY <1>0, <1>1, EnqueueEffect
      <3>3. ~pq'.closed
        BY <1>0, <1>1, EnqueueEffect
      <3>4. Len(pq'.packets) <= Len(pq.packets) + 1
        BY <3>1, <3>2, SlideRun
      <3> QED BY <3>3, <3>4
    <2>2. PICK c \in Waiting : pc' = [pc EXCEPT ![c] = "ready"]
      BY <1>1 DEF Enqueue, Signal, Waiting
    <2>3. Ready' = Ready \cup {c} /\ c \notin Ready
      BY <1>p, <2>2 DEF Ready, Waiting
    <2>4. Cardinality(Ready') = Cardinality(Ready) + 1
      BY <1>f, <2>3, FS_AddElement
    <2>5. Len(pq.packets) <= Cardinality(Ready)
      BY <2>2 DEF WakeInv, NoLostWakeup
    <2> QED BY <1>f, <2>1, <2>4, <2>5
  <1>2. CASE Close
    BY <1>p, <1>2 DEF Close, WakeAll, Waiting
  <1>3. ASSUME NEW c \in Consumers, CallDequeue(c)
        PROVE  ~pq'.closed /\ Len(pq'.packets) <= Cardinality(Ready')
    <2>1. Ready' = Ready \cup {c} /\ c \notin Ready /\ Waiting' = Waiting /\ pq' = pq
      BY <1>p, <1>3 DEF CallDequeue, Ready, Waiting
    <2>2. Cardinality(Ready') = Cardinality(Ready) + 1
      BY <1>f, <2>1, FS_AddElement
    <2>3. ~pq.closed /\ Len(pq.packets) <= Cardinality(Ready)
      BY <2>1 DEF WakeInv, NoLostWakeup
    <2> QED BY <1>f, <2>1, <2>2, <2>3
  <1>4. ASSUME NEW c \in Consumers, DequeueWaits(c)
        PROVE  ~pq'.closed /\ Len(pq'.packets) <= Cardinality(Ready')
    <2>1. pq.packets = <<>> /\ ~pq.closed /\ pq' = pq
      BY <1>4 DEF DequeueWaits, MustWait
    <2> QED BY <1>f, <2>1
  <1>5. ASSUME NEW c \in Consumers, DequeueReturns(c)
        PROVE  ~pq'.closed /\ Len(pq'.packets) <= Cardinality(Ready')
    <2>1. Ready' = Ready \ {c} /\ c \in Ready /\ Waiting' = Waiting
      BY <1>p, <1>5 DEF DequeueReturns, Ready, Waiting
    <2>2. Cardinality(Ready') = Cardinality(Ready) - 1
      BY <1>f, <2>1, FS_RemoveElement
    <2>3. Len(pq.packets) <= Cardinality(Ready)
      BY <2>1 DEF WakeInv, NoLostWakeup
    <2>4. ~pq'.closed /\ Len(pq'.packets) = Len(pq.packets) - 1
      BY <1>0, <1>5, ReturnEffect
    <2> QED BY <1>f, <2>2, <2>3, <2>4
  <1>6. ASSUME NEW c \in Consumers, DequeueFails(c)
        PROVE  FALSE
    <2>1. Waiting' = Waiting /\ pq.closed
      BY <1>p, <1>6 DEF DequeueFails, Waiting
    <2> QED BY <2>1 DEF WakeInv, NoLostWakeup
  <1>7. CASE UNCHANGED vars
    BY <1>7 DEF vars, WakeInv, NoLostWakeup, Waiting, Ready
  <1> QED BY <1>1, <1>2, <1>3, <1>4, <1>5, <1>6, <1>7 DEF Next, DequeueStep

(* A consumer never sleeps while a packet has nobody coming for it, or after *)
(* Close, for every number of consumers.                                     *)
THEOREM WakeupsSuffice == Spec => []NoLostWakeup
  <1>1. Init => WakeInv
    BY TypeInvInit DEF Init, WakeInv, NoLostWakeup, Waiting
  <1>2. WakeInv => NoLostWakeup
    BY DEF WakeInv
  <1> QED BY <1>1, <1>2, WakeInvStep, PTL DEF Spec
-----------------------------------------------------------------------------
(* The queue implements DropOldestBuffer: each critical section that changes *)
(* the packets is one step of the buffer, the others are stutters.           *)
LEMMA BufferInitMaps == Init => Buffer!BufferInit
  <1> SUFFICES ASSUME Init PROVE Buffer!BufferInit
    OBVIOUS
  <1>1. pq.packets = <<>> /\ pq.closed = FALSE /\ accepted = 0 /\ delivered = <<>>
    BY DEF Init, NewPacketQueue
  <1>2. Len(pq.packets) = 0 /\ LastDelivered = 0
    BY <1>1 DEF LastDelivered
  <1>3. (~pq.closed) = TRUE
    BY <1>1
  <1>4. accepted - Len(pq.packets) = 0
    <2>1. accepted = 0 /\ Len(pq.packets) = 0
      BY <1>1, <1>2
    <2> QED BY <2>1
  <1> QED BY <1>1, <1>2, <1>3, <1>4, Zenon DEF Buffer!BufferInit

LEMMA BufferStepMaps ==
  RunInv /\ [Next]_vars => [Buffer!BufferNext]_(Buffer!bufferVars)
  <1> SUFFICES ASSUME RunInv, [Next]_vars
               PROVE  [Buffer!BufferNext]_(Buffer!bufferVars)
    OBVIOUS
  <1>0. TypeInv
    BY DEF RunInv
  <1> DEFINE packets == pq.packets
             L == Len(packets)
             cap == IF MaxSize < 1 THEN 1 ELSE MaxSize
  <1>t. /\ packets \in Seq(Nat) /\ delivered \in Seq(Nat)
        /\ L \in Nat /\ accepted \in Nat /\ pq.maxSize = cap
        /\ L <= pq.maxSize
    <2>1. /\ packets \in Seq(1..MaxPackets) /\ delivered \in Seq(1..MaxPackets)
          /\ accepted \in 0..MaxPackets /\ L <= pq.maxSize
          /\ pq.maxSize = NewPacketQueue(MaxSize).maxSize
      BY <1>0 DEF TypeInv, TypeOK, QueueRecord
    <2>2. packets \in Seq(Nat) /\ delivered \in Seq(Nat)
      BY <2>1, NumbersAreNaturals, PacketQueueAssumption
    <2>3. pq.maxSize = cap
      BY <2>1 DEF NewPacketQueue
    <2> QED BY <2>1, <2>2, <2>3, PacketQueueAssumption
  <1>1. CASE Enqueue
    <2>1. /\ accepted' = accepted + 1 /\ delivered' = delivered
          /\ ~pq.closed /\ ~pq'.closed
      BY <1>0, <1>1, EnqueueEffect
    <2>2. \/ L = cap /\ L' = L
          \/ L < cap /\ L' = L + 1
      <3>1. \/ /\ L = pq.maxSize /\ packets # <<>>
               /\ packets' = Append(Tail(packets), accepted + 1)
            \/ /\ L < pq.maxSize
               /\ packets' = Append(packets, accepted + 1)
        BY <1>0, <1>1, EnqueueEffect
      <3>2. accepted + 1 \in Nat /\ L \in Nat /\ packets \in Seq(Nat)
        BY <1>t
      <3>3. CASE L = pq.maxSize /\ packets # <<>>
                 /\ packets' = Append(Tail(packets), accepted + 1)
        <4>1. L' = L
          BY <3>2, <3>3, SlideRun
        <4> QED BY <1>t, <3>3, <4>1
      <3>4. CASE L < pq.maxSize /\ packets' = Append(packets, accepted + 1)
        <4>1. L' = L + 1
          BY <3>2, <3>4
        <4> QED BY <1>t, <3>4, <4>1
      <3> QED BY <3>1, <3>3, <3>4
    <2>3. LastDelivered' = LastDelivered
      BY <2>1 DEF LastDelivered
    <2>4. (~pq.closed)' = (~pq.closed)
      BY <2>1
    <2> HIDE DEF L, packets
    <2>5. /\ accepted' - L' = IF accepted - (accepted - L) = cap
                             THEN (accepted - L) + 1 ELSE accepted - L
      <3>1. cap \in Int
        BY PacketQueueAssumption
      <3> HIDE DEF cap
      <3>2. accepted - (accepted - L) = L /\ accepted' = accepted + 1
        BY <1>t, <2>1
      <3>3. CASE L = cap /\ L' = L
        BY <1>t, <3>2, <3>3
      <3>4. CASE L < cap /\ L' = L + 1
        BY <1>t, <3>1, <3>2, <3>4
      <3> QED BY <2>2, <3>3, <3>4
    <2>6. Buffer!Offer
      BY <2>1, <2>3, <2>4, <2>5 DEF Buffer!Offer, L, packets
    <2> QED BY <2>6 DEF Buffer!BufferNext
  <1>2. CASE Close
    <2>1. /\ packets' = <<>> /\ accepted' = accepted /\ delivered' = delivered
          /\ ~pq.closed /\ pq'.closed
      BY <1>0, <1>2, CloseEffect
    <2>2. accepted' - L' = accepted
      BY <1>t, <2>1
    <2>3. LastDelivered' = LastDelivered
      BY <2>1 DEF LastDelivered
    <2>4. (~pq.closed)' = FALSE
      BY <2>1
    <2>5. Buffer!Shut
      BY <2>1, <2>2, <2>3, <2>4 DEF Buffer!Shut
    <2> QED BY <2>5 DEF Buffer!BufferNext
  <1>3. ASSUME NEW c \in Consumers, DequeueReturns(c)
        PROVE  Buffer!BufferNext
    <2>1. /\ packets # <<>> /\ packets' = Tail(packets)
          /\ delivered' = Append(delivered, Head(packets)) /\ accepted' = accepted
          /\ ~pq.closed /\ ~pq'.closed
      BY <1>0, <1>3, ReturnEffect
    <2>2. RunUpTo(packets, accepted)
      BY DEF RunInv, HoldsNewestRun
    <2>3. L' = L - 1 /\ Head(packets) = accepted - L + 1 /\ L >= 1
      <3>1. packets # <<>> /\ packets' = Tail(packets)
        BY <2>1
      <3>2. L' = L - 1 /\ Head(packets) = accepted - L + 1
        BY <1>t, <2>2, <3>1, RunShrinks
      <3>3. L >= 1
        BY <1>t, <3>1
      <3> QED BY <3>2, <3>3
    <2>4. LastDelivered' = accepted - L + 1
      <3> DEFINE h == accepted - L + 1
      <3>1. h \in Int /\ delivered' = Append(delivered, h)
        <4>1. delivered' = Append(delivered, Head(packets)) /\ Head(packets) = h
          BY <2>1, <2>3
        <4>2. h \in Int
          BY <1>t
        <4> QED BY <4>1, <4>2
      <3>2. delivered \in Seq(Int)
        BY <1>t
      <3> HIDE DEF h
      <3>3. LastDelivered' = h
        BY <3>1, <3>2 DEF LastDelivered
      <3> QED BY <3>3 DEF h
    <2>5. (~pq.closed)' = (~pq.closed)
      BY <2>1
    <2> HIDE DEF L, packets
    <2>6. accepted - L < accepted /\ accepted' - L' = (accepted - L) + 1
      BY <1>t, <2>1, <2>3
    <2>7. ~pq.closed /\ accepted' = accepted
      BY <2>1
    <2>8. Buffer!Take
      BY <2>4, <2>5, <2>6, <2>7 DEF Buffer!Take, L, packets
    <2> QED BY <2>8 DEF Buffer!BufferNext
  <1>4. ASSUME UNCHANGED <<pq, accepted, delivered>>
        PROVE  UNCHANGED Buffer!bufferVars
    BY <1>4 DEF Buffer!bufferVars, LastDelivered
  <1>5. ASSUME NEW c \in Consumers,
               CallDequeue(c) \/ DequeueWaits(c) \/ DequeueFails(c)
        PROVE  UNCHANGED <<pq, accepted, delivered>>
    BY <1>5 DEF CallDequeue, DequeueWaits, DequeueFails
  <1> QED BY <1>1, <1>2, <1>3, <1>4, <1>5 DEF Next, DequeueStep, vars

(* PacketQueue implements DropOldestBuffer for every capacity, number of     *)
(* consumers and number of packets.                                          *)
THEOREM QueueImplementsBuffer == Spec => ImplementsBuffer
  BY BufferInitMaps, BufferStepMaps, RunInvariant, PTL
     DEF Spec, ImplementsBuffer, Buffer!BufferSpec
=============================================================================
