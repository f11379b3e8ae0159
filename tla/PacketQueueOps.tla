--------------------------- MODULE PacketQueueOps ---------------------------
(* The state of one PacketQueue (internal/data/queue.go) as a record, and    *)
(* what each method does to it once it holds pq.mu.  PacketQueue adds the    *)
(* blocking of Dequeue; SessionManager and SessionWorker hold one such       *)
(* record per session.                                                       *)
EXTENDS Integers, Sequences

(* The fields of PacketQueue that packets from the set P can put there. *)
QueueRecord(P) == [packets : Seq(P), maxSize : Nat \ {0},
                   closed : BOOLEAN, dropped : Nat]

(* The definitions named ...Mutant, here and in the other modules, are not   *)
(* part of the model.  Each stands before the definition it would replace    *)
(* and is that code with one plausible mistake; PROJECT.json names the       *)
(* property that notices it.                                                 *)

NewPacketQueueMutant(maxSize) ==
  [packets |-> <<>>, maxSize |-> maxSize, closed |-> FALSE, dropped |-> 0]

(* NewPacketQueue: a size below one is raised to one. *)
NewPacketQueue(maxSize) ==
  [packets |-> <<>>,
   maxSize |-> IF maxSize < 1 THEN 1 ELSE maxSize,
   closed  |-> FALSE,
   dropped |-> 0]

IsFullMutant(q) == Len(q.packets) > q.maxSize

IsFull(q) == Len(q.packets) >= q.maxSize

EnqueuedMutant(q, pkt) ==
  [q EXCEPT !.packets = Append(IF IsFull(q) THEN Tail(@) ELSE @, pkt)]

(* Enqueue on an open queue: a full queue first loses its oldest packet. *)
Enqueued(q, pkt) ==
  [q EXCEPT !.packets = Append(IF IsFull(q) THEN Tail(@) ELSE @, pkt),
            !.dropped = IF IsFull(q) THEN @ + 1 ELSE @]

(* Dequeue has to block: the condition of the loop around cond.Wait. *)
MustWait(q) == q.packets = <<>> /\ ~q.closed

DequeuedMutant(q) == [q EXCEPT !.packets = SubSeq(@, 1, Len(@) - 1)]

(* Dequeue on an open, non-empty queue removes Head(q.packets). *)
Dequeued(q) == [q EXCEPT !.packets = Tail(@)]

ClosedQueueMutant(q) == [q EXCEPT !.closed = TRUE]

(* Close discards what is still queued. *)
ClosedQueue(q) == [q EXCEPT !.closed = TRUE, !.packets = <<>>]
=============================================================================
