----------------------------- MODULE PacketQueue -----------------------------
(* The queue of internal/data/queue.go as a monitor: every method runs under *)
(* pq.mu, and Dequeue gives the lock up in cond.Wait.  A Dequeue call is     *)
(* therefore several critical sections; one action is one critical section.  *)
(* Packets are numbered in the order Enqueue accepts them.                   *)
EXTENDS PacketQueueOps, FiniteSets

CONSTANTS Consumers,   \* goroutines that call Dequeue in a loop
          MaxSize,     \* the argument of NewPacketQueue, any integer
          MaxPackets   \* bound: how many packets Enqueue accepts

ASSUME PacketQueueAssumption ==
  /\ MaxSize \in Int
  /\ MaxPackets \in Nat
  /\ IsFiniteSet(Consumers)

VARIABLES pq,         \* the PacketQueue
          pc,         \* per consumer: where it is in Dequeue
          accepted,   \* how many packets Enqueue has accepted
          delivered   \* the packets Dequeue has returned, in order

vars == <<pq, pc, accepted, delivered>>

(* "idle": between two calls; "ready": in Dequeue, about to hold pq.mu and   *)
(* test the loop condition; "waiting": in cond.Wait; "done": Dequeue has     *)
(* returned ErrQueueClosed, after which sessionWorker stops calling it.      *)
Locations == {"idle", "ready", "waiting", "done"}

Waiting == {c \in Consumers : pc[c] = "waiting"}
Ready == {c \in Consumers : pc[c] = "ready"}

Init ==
  /\ pq = NewPacketQueue(MaxSize)
  /\ pc = [c \in Consumers |-> "idle"]
  /\ accepted = 0
  /\ delivered = <<>>

SignalOnEmptyMutant ==
  IF pq.packets = <<>> /\ Waiting # {}
  THEN \E c \in Waiting : pc' = [pc EXCEPT ![c] = "ready"]
  ELSE UNCHANGED pc

SignalMutant == UNCHANGED pc

(* cond.Signal: one waiting goroutine, if there is one, contends for the     *)
(* lock again.  Which one is left open.                                      *)
Signal ==
  \/ Waiting = {} /\ UNCHANGED pc
  \/ \E c \in Waiting : pc' = [pc EXCEPT ![c] = "ready"]

WakeAllMutant == Signal

(* cond.Broadcast *)
WakeAll == pc' = [c \in Consumers |-> IF pc[c] = "waiting" THEN "ready" ELSE pc[c]]

(* Enqueue on a closed queue returns ErrQueueClosed and changes nothing. *)
Enqueue ==
  /\ ~pq.closed
  /\ accepted < MaxPackets
  /\ accepted' = accepted + 1
  /\ pq' = Enqueued(pq, accepted + 1)
  /\ Signal
  /\ UNCHANGED delivered

CallDequeue(c) ==
  /\ pc[c] = "idle"
  /\ pc' = [pc EXCEPT ![c] = "ready"]
  /\ UNCHANGED <<pq, accepted, delivered>>

DequeueWaits(c) ==
  /\ pc[c] = "ready"
  /\ MustWait(pq)
  /\ pc' = [pc EXCEPT ![c] = "waiting"]
  /\ UNCHANGED <<pq, accepted, delivered>>

DequeueReturns(c) ==
  /\ pc[c] = "ready"
  /\ ~MustWait(pq)
  /\ ~pq.closed
  /\ pq' = Dequeued(pq)
  /\ delivered' = Append(delivered, Head(pq.packets))
  /\ pc' = [pc EXCEPT ![c] = "idle"]
  /\ UNCHANGED accepted

DequeueFails(c) ==
  /\ pc[c] = "ready"
  /\ pq.closed
  /\ pc' = [pc EXCEPT ![c] = "done"]
  /\ UNCHANGED <<pq, accepted, delivered>>

(* A second Close returns at once. *)
Close ==
  /\ ~pq.closed
  /\ pq' = ClosedQueue(pq)
  /\ WakeAll
  /\ UNCHANGED <<accepted, delivered>>

DequeueStep(c) ==
  CallDequeue(c) \/ DequeueWaits(c) \/ DequeueReturns(c) \/ DequeueFails(c)

Next == Enqueue \/ Close \/ \E c \in Consumers : DequeueStep(c)

Spec == Init /\ [][Next]_vars

(* A consumer goroutine that can run does run.  Nothing is assumed of the    *)
(* producers or of Close.                                                    *)
FairSpec == Spec /\ \A c \in Consumers : WF_vars(DequeueStep(c))
-----------------------------------------------------------------------------
(* The shape of the state. *)
TypeOK ==
  /\ pq \in QueueRecord(1..MaxPackets)
  /\ pq.maxSize = NewPacketQueue(MaxSize).maxSize
  /\ pc \in [Consumers -> Locations]
  /\ accepted \in 0..MaxPackets
  /\ delivered \in Seq(1..MaxPackets)

(* The sequence s is the run of consecutive numbers that ends in n. *)
RunUpTo(s, n) ==
  /\ Len(s) <= n
  /\ \A i \in 1..Len(s) : s[i] = n - Len(s) + i

(* The sequence s increases, and ends no later than n. *)
IncreasingUpTo(s, n) ==
  /\ \A i, j \in 1..Len(s) : i < j => s[i] < s[j]
  /\ \A i \in 1..Len(s) : s[i] <= n

(* However enqueues, dequeues and evictions interleave, what is queued is    *)
(* exactly the run of the most recently accepted packets, never more than    *)
(* the capacity: eviction (index 0) never opens a hole or loses a packet     *)
(* newer than one it keeps.                                                  *)
HoldsNewestRun ==
  /\ Len(pq.packets) <= pq.maxSize
  /\ RunUpTo(pq.packets, accepted)

(* Across all consumers, packets come out in the order they went in, none    *)
(* twice, and everything delivered is older than everything still queued.    *)
DeliversInOrder == IncreasingUpTo(delivered, accepted - Len(pq.packets))

(* The drop counter is exact: every accepted packet is delivered, counted as *)
(* dropped, or still queued; only Close discards without counting.           *)
Conservation ==
  ~pq.closed => accepted = Len(delivered) + pq.dropped + Len(pq.packets)

(* No wake-up is lost although Enqueue signals only one waiter: while a      *)
(* consumer sleeps, each queued packet has a distinct awake consumer on its  *)
(* way to it, and after Close nobody sleeps.                                 *)
NoLostWakeup ==
  Waiting # {} => /\ ~pq.closed
                  /\ Len(pq.packets) <= Cardinality(Ready)

(* The queue implements the abstract drop-oldest buffer. *)
LastDelivered == IF delivered = <<>> THEN 0 ELSE delivered[Len(delivered)]

Buffer == INSTANCE DropOldestBuffer WITH
  Capacity <- IF MaxSize < 1 THEN 1 ELSE MaxSize,
  newest <- accepted, oldest <- accepted - Len(pq.packets),
  taken <- LastDelivered, open <- ~pq.closed

ImplementsBuffer == Buffer!BufferSpec

(* A queued packet does not stay queued: it is taken, evicted or discarded   *)
(* by Close, whichever consumer was asleep when it arrived.                  *)
QueuedLeaves ==
  \A p \in 1..MaxPackets :
    (\E i \in 1..Len(pq.packets) : pq.packets[i] = p)
      ~> ~(\E i \in 1..Len(pq.packets) : pq.packets[i] = p)

(* Close releases every consumer that is in, or later enters, Dequeue. *)
CloseReleasesAll == pq.closed ~> \A c \in Consumers : pc[c] = "done"
=============================================================================
