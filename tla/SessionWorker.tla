--------------------------- MODULE SessionWorker ---------------------------
(* One sessionWorker (internal/data/session.go) with FEC on: it drains its   *)
(* session's queue, numbers and frames each packet, writes it, and after     *)
(* every K packets writes the N-K parity packets of the group.  Around it    *)
(* run Broadcast, which enqueues, and the goroutine that removes the session,*)
(* which calls Cancel and then Queue.Close (that order is what               *)
(* SessionManager establishes).  Packets are numbered as they are broadcast. *)
EXTENDS PacketQueueOps, FECHeader, Functions

CONSTANTS K, N,        \* sm.fecK, sm.fecN
          GroupCount,  \* the groupNum mask plus one: 2048 in the code
          SeqCount,    \* SeqNum is a uint32: 2^32 in the code
          QueueSize,
          MaxPackets   \* bound: packets broadcast

ASSUME SessionWorkerAssumption ==
  /\ K \in Nat \ {0} /\ N \in Nat /\ K < N /\ N <= IndexSpan
  /\ GroupCount \in 1..GroupSpan
  /\ SeqCount \in Nat \ {0}
  /\ QueueSize \in Int /\ MaxPackets \in Nat

VARIABLES
  queue,      \* Session.Queue
  cancelled,  \* Session.Ctx has ended
  offered,    \* how many packets Broadcast has put into the queue
  loc,        \* where the worker is
  seqNum,     \* Session.SeqNum
  groupNum,   \* groupNum
  generation, \* history: the groups completed so far
  group,      \* groupPackets: the packets of the group being filled
  pkt,        \* the packet just dequeued, and the seq it was given
  parity,     \* how many parity packets of the group have been written
  wire        \* history: what WriteToUDP has sent

senderVars == <<queue, cancelled, offered>>
groupVars == <<groupNum, generation, group, parity>>
vars == <<senderVars, loc, seqNum, groupVars, pkt, wire>>

NoPacket == [data |-> 0, seq |-> 0]

Init ==
  /\ queue = NewPacketQueue(QueueSize)
  /\ cancelled = FALSE
  /\ offered = 0
  /\ loc = "check"
  /\ seqNum = 0
  /\ groupNum = 0
  /\ generation = 0
  /\ group = <<>>
  /\ pkt = NoPacket
  /\ parity = 0
  /\ wire = <<>>
-----------------------------------------------------------------------------
(* The rest of the sender. *)
Broadcast ==
  /\ offered < MaxPackets
  /\ ~queue.closed
  /\ offered' = offered + 1
  /\ queue' = Enqueued(queue, offered + 1)
  /\ UNCHANGED <<cancelled, loc, seqNum, groupVars, pkt, wire>>

Cancel ==
  /\ ~cancelled
  /\ cancelled' = TRUE
  /\ UNCHANGED <<queue, offered, loc, seqNum, groupVars, pkt, wire>>

CloseQueueMutant ==
  /\ ~queue.closed
  /\ queue' = ClosedQueue(queue)
  /\ UNCHANGED <<cancelled, offered, loc, seqNum, groupVars, pkt, wire>>

CloseQueue ==
  /\ cancelled
  /\ ~queue.closed
  /\ queue' = ClosedQueue(queue)
  /\ UNCHANGED <<cancelled, offered, loc, seqNum, groupVars, pkt, wire>>
-----------------------------------------------------------------------------
Check ==
  /\ loc = "check"
  /\ loc' = IF cancelled THEN "done" ELSE "dequeue"
  /\ UNCHANGED <<senderVars, seqNum, groupVars, pkt, wire>>

NextSeqMutant == seqNum

NextSeqWideMutant == seqNum + 1

NextSeq == (seqNum + 1) % SeqCount

(* Dequeue blocks while the queue is empty and open.  A packet gets the next *)
(* sequence number before anything else can go wrong with it.                *)
Take ==
  /\ loc = "dequeue"
  /\ ~MustWait(queue)
  /\ ~queue.closed
  /\ pkt' = [data |-> Head(queue.packets), seq |-> seqNum]
  /\ queue' = Dequeued(queue)
  /\ seqNum' = NextSeq
  /\ loc' = "frame"
  /\ UNCHANGED <<cancelled, offered, groupVars, wire>>

(* Dequeue fails: at once to the end if the context has ended; otherwise the *)
(* flush pads the group with dummies and writes its parity.                  *)
StopOnClosed ==
  /\ loc = "dequeue"
  /\ queue.closed
  /\ loc' = IF cancelled \/ group = <<>> THEN "done" ELSE "flush"
  /\ UNCHANGED <<senderVars, seqNum, groupVars, pkt, wire>>

(* Encryption fails: the packet is dropped, its number is not reused. *)
EncryptFails ==
  /\ loc = "frame"
  /\ loc' = "check"
  /\ UNCHANGED <<senderVars, seqNum, groupVars, pkt, wire>>

DataFrame == [seq |-> pkt.seq, info |-> DataInfo(groupNum, Len(group)),
              gen |-> generation, of |-> <<pkt.data>>]

GroupFullMutant == Len(group') > K

GroupFull == Len(group') = K

(* The packet is in the group whether or not WriteToUDP sent it; only an     *)
(* error after the context has ended ends the worker first.                  *)
WriteData(sent) ==
  /\ loc = "frame"
  /\ sent \/ ~cancelled
  /\ wire' = IF sent THEN Append(wire, DataFrame) ELSE wire
  /\ group' = Append(group, pkt.data)
  /\ loc' = IF GroupFull THEN "parity" ELSE "check"
  /\ UNCHANGED <<senderVars, seqNum, groupNum, generation, pkt, parity>>

WriteFailsAtEnd ==
  /\ loc \in {"frame", "parity"}
  /\ cancelled
  /\ seqNum' = IF loc = "parity" THEN NextSeq ELSE seqNum
  /\ loc' = "done"
  /\ UNCHANGED <<senderVars, groupVars, pkt, wire>>

(* EncodeFECWithEncoder's result i, with its own header and number. *)
Dummy == 0
Shards == [i \in 1..K |-> IF i <= Len(group) THEN group[i] ELSE Dummy]

ParityFrame == [seq |-> seqNum, info |-> ParityInfo(groupNum, K + parity),
                gen |-> generation, of |-> Shards]

NextGroupNumMutant == groupNum

NextGroupNum == (groupNum + 1) % GroupCount

ClearedGroupMutant == Tail(group)

ClearedGroup == <<>>

WriteParity(sent) ==
  /\ loc \in {"parity", "flush"}
  /\ sent \/ ~cancelled \/ loc = "flush"
  /\ wire' = IF sent THEN Append(wire, ParityFrame) ELSE wire
  /\ seqNum' = NextSeq
  /\ IF parity + 1 < N - K
     THEN /\ parity' = parity + 1
          /\ UNCHANGED <<loc, groupNum, generation, group>>
     ELSE /\ parity' = 0
          /\ generation' = generation + 1
          /\ IF loc = "flush"
             THEN loc' = "done" /\ UNCHANGED <<group, groupNum>>
             ELSE /\ group' = ClearedGroup
                  /\ groupNum' = NextGroupNum
                  /\ loc' = "check"
  /\ UNCHANGED <<senderVars, pkt>>

Worker ==
  \/ Check \/ Take \/ StopOnClosed \/ EncryptFails \/ WriteFailsAtEnd
  \/ \E sent \in BOOLEAN : WriteData(sent) \/ WriteParity(sent)

Next == Worker \/ Broadcast \/ Cancel \/ CloseQueue

Spec == Init /\ [][Next]_vars
-----------------------------------------------------------------------------
Frames == [seq : 0..(SeqCount - 1), info : 0..(Uint16 - 1), gen : Nat,
           of : Seq(0..MaxPackets)]

(* The shape of the state. *)
TypeOK ==
  /\ queue \in QueueRecord(1..MaxPackets)
  /\ cancelled \in BOOLEAN
  /\ offered \in 0..MaxPackets
  /\ loc \in {"check", "dequeue", "frame", "parity", "flush", "done"}
  /\ seqNum \in 0..(SeqCount - 1)
  /\ groupNum \in 0..(GroupCount - 1)
  /\ generation \in Nat
  /\ group \in Seq(1..MaxPackets) /\ Len(group) <= K
  /\ pkt \in [data : 0..MaxPackets, seq : 0..(SeqCount - 1)]
  /\ parity \in 0..(N - K - 1)
  /\ wire \in Seq(Frames)

Data(f) == ~IsFEC(f.info)

(* A receiver that has any of a group's packets and its parity puts together *)
(* what belongs together: parity is computed from K packets, none of them a  *)
(* dummy, and each of those that was sent went out before it, in the same    *)
(* group, at the index that says which shard it is.                          *)
ParityMatchesData ==
  \A n \in 1..Len(wire) : IsFEC(wire[n].info) =>
    /\ Len(wire[n].of) = K /\ Dummy \notin Range(wire[n].of)
    /\ \A m \in 1..Len(wire) :
         Data(wire[m]) /\ wire[m].of[1] \in Range(wire[n].of) =>
           /\ m < n
           /\ GroupOf(wire[m].info) = GroupOf(wire[n].info)
           /\ wire[n].of[IndexOf(wire[m].info) + 1] = wire[m].of[1]

(* Until the numbers wrap, no two packets on the wire share one, and they    *)
(* grow, so that the receiver can tell loss from reordering.                 *)
SeqIncreases ==
  \A m, n \in 1..Len(wire) :
    m < n /\ offered + (generation + 1) * (N - K) < SeqCount => wire[m].seq < wire[n].seq

(* The worker implements the framed stream: it offers the slots of the       *)
(* generations in order and none twice, whatever is dropped, not encrypted   *)
(* or not written.                                                           *)
SlotOf(f) == f.gen * N + IndexOf(f.info)

Stream == INSTANCE FramedStream WITH
  nextSlot <- generation * N + Len(group) + parity,
  onWire <- {SlotOf(wire[n]) : n \in 1..Len(wire)}

ImplementsStream == Stream!StreamSpec

(* The group number tells the generations apart, modulo its eleven bits. *)
GroupNamesGeneration ==
  \A n \in 1..Len(wire) : GroupOf(wire[n].info) = wire[n].gen % GroupCount
=============================================================================
