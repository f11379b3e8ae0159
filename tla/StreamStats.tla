---------------------------- MODULE StreamStats ----------------------------
(* What a receiver believes it has lost: StreamStats.Update (cmd/recv.go),   *)
(* ReceiverStats.AddPacket (internal/logger/stats.go) and FECAnalyzer, which *)
(* runRecvNormal calls with the SeqNum of every data frame and of no parity  *)
(* frame, though sessionWorker numbers both.  A slot is a frame's place in   *)
(* the stream; SeqNum, and the signed difference of two, have a width.  When *)
(* the receiver reconnects, a new worker numbers from 0 again, frames of the *)
(* old one may still be on their way, and nothing here is reset.             *)
EXTENDS FECAnalyzer

CONSTANTS K, N,      \* of each N frames the first K are data, the others parity
          Window,    \* bits in StreamStats.window: 64 in the code
          FECTest,   \* cfg.FEC.Test
          Reconnects, \* the receiver reconnects (bound: once)
          Reach,     \* bound: how far frames overtake each other, and a burst loses
          MaxSlots,  \* bound: frames the sender sends
          MaxTwice   \* bound: frames the network delivers twice

ASSUME StreamStatsAssumption ==
  /\ K \in Nat \ {0} /\ N \in Nat /\ K <= N
  /\ Window \in Nat \ {0} /\ Reach \in Nat
  /\ 2 * Reach <= SeqSpace
  /\ 2 * Reach <= MaxGap + 2  \* no gap of a stream is abnormal, even after a late frame
  /\ MaxGap + Reach <= SeqSpace  \* nor is the jump back to 0 a gap, for a late frame
  /\ \A sim \in Sims : Reach <= History * sim[2]
  /\ FECTest \in BOOLEAN /\ Reconnects \in BOOLEAN
  /\ MaxSlots \in Nat /\ MaxTwice \in Nat

VARIABLES
  sent,      \* the frames the sender has sent: slots 0..sent-1
  base,      \* the slot with which the numbering began again, or 0
  stream,    \* globalStats: hasLastSeq, lastSeq, window, lostPackets; panicked
  receiver,  \* GlobalReceiverStats: isFirstPacket, expectedSeqNum, lostPackets
  analyzer,  \* globalFECAnalyzer
  arrived,   \* history: the slots of the data frames received
  twice,     \* history: how many of them came again
  first,     \* history: the slot received first
  stale,     \* history: those that came too late for the window
  inOrder,   \* history: nothing has been overtaken or come twice
  ahead,     \* history: how far the newest frame has moved, and lastSeq with
             \* it, since two numberings met
  report     \* history: the frames received before the report (bound: one)

history == <<arrived, twice, first, stale, inOrder, ahead, report>>
vars == <<sent, base, stream, receiver, analyzer, history>>

Init ==
  /\ sent = 0
  /\ base = 0
  /\ stream = [hasLastSeq |-> FALSE, lastSeq |-> 0, window |-> {}, lost |-> 0,
               panicked |-> FALSE]
  /\ analyzer = NewFECAnalyzer(FECTest)
  /\ receiver = [isFirst |-> TRUE, expected |-> 0, lost |-> 0]
  /\ arrived = {}
  /\ twice = 0
  /\ first = 0
  /\ stale = {}
  /\ inOrder = TRUE
  /\ ahead = Window
  /\ report = {}
-----------------------------------------------------------------------------
(* int32(a - b) *)
Diff(a, b) ==
  LET d == (a - b) % SeqSpace IN IF 2 * d < SeqSpace THEN d ELSE d - SeqSpace

(* The window is the set of its bits: bit i stands for lastSeq - i. *)
ShiftedMutant(window, diff) == {0} \cup {i \in 0..(Window - 1) : i - diff + 1 \in window}

Shifted(window, diff) == {0} \cup {i \in 0..(Window - 1) : i - diff \in window}

AheadMutant(s, seq, diff) ==
  [s EXCEPT !.window = Shifted(@, diff), !.lost = @ + diff, !.lastSeq = seq]

Ahead(s, seq, diff) ==
  [s EXCEPT !.window = Shifted(@, diff), !.lost = @ + diff - 1, !.lastSeq = seq]

LateMutant(s, offset) ==
  IF offset < Window /\ offset \notin s.window
  THEN [s EXCEPT !.window = @ \cup {offset}, !.lost = @ - 1]
  ELSE s

(* -SeqSpace/2 has no positive counterpart: it passes for a small offset and *)
(* is no shift count.                                                        *)
Late(s, offset) ==
  IF 2 * offset = SeqSpace THEN [s EXCEPT !.panicked = TRUE]
  ELSE IF offset < Window /\ offset \notin s.window
  THEN [s EXCEPT !.window = @ \cup {offset}, !.lost = IF @ > 0 THEN @ - 1 ELSE @]
  ELSE s

(* StreamStats.Update *)
Update(s, seq) ==
  LET diff == Diff(seq, s.lastSeq)
  IN CASE ~s.hasLastSeq -> [s EXCEPT !.hasLastSeq = TRUE, !.lastSeq = seq, !.window = {0}]
       [] s.hasLastSeq /\ diff > 0 -> Ahead(s, seq, diff)
       [] s.hasLastSeq /\ diff <= 0 -> Late(s, -diff)

(* ReceiverStats.AddPacket: unsigned comparison, and back when overtaken.    *)
NextExpectedMutant(seq) == seq

NextExpected(seq) == (seq + 1) % SeqSpace

AddPacket(r, seq) ==
  [isFirst  |-> FALSE,
   expected |-> NextExpected(seq),
   lost     |-> IF ~r.isFirst /\ seq > r.expected THEN r.lost + seq - r.expected ELSE r.lost]
-----------------------------------------------------------------------------
(* A slot's place among the frames of its worker. *)
Place(slot) == IF slot < base THEN slot ELSE slot - base

IsData(slot) == Place(slot) % N < K
SeqNum(slot) == Place(slot) % SeqSpace

Newest == Max(arrived \cup {-1})

(* sessionWorker writes the next frame, data or parity. *)
Send ==
  /\ sent < MaxSlots
  /\ sent - Newest < Reach
  /\ sent' = sent + 1
  /\ UNCHANGED <<base, stream, receiver, analyzer, history>>

(* The receiver registers again: AddSession starts a new worker, and         *)
(* ResetStats is not called.                                                 *)
Reconnect ==
  /\ Reconnects /\ base = 0 /\ sent > 0
  /\ base' = sent
  /\ ahead' = 0
  /\ UNCHANGED <<sent, stream, receiver, analyzer, arrived, twice, first, stale,
                 inOrder, report>>

(* How far the newest frame has moved, up to the width of the window, with   *)
(* frames of one worker only and lastSeq always moving along.                *)
MovedAhead(slot) ==
  LET diff == Diff(stream'.lastSeq, stream.lastSeq)
  IN IF slot < base \/ (slot > Newest) # (diff > 0) THEN 0
     ELSE IF diff > 0 THEN Min({Window, ahead + diff, ahead + slot - Newest})
     ELSE ahead

(* runRecvNormal reads a data frame: one of the latest, in any order, some   *)
(* never, some twice.                                                        *)
Receive(slot) ==
  /\ IsData(slot)
  /\ ~stream.panicked
  /\ twice' = IF slot \in arrived THEN twice + 1 ELSE twice
  /\ twice' <= MaxTwice
  /\ stream' = Update(stream, SeqNum(slot))
  /\ receiver' = AddPacket(receiver, SeqNum(slot))
  /\ analyzer' = RecordPacket(analyzer, SeqNum(slot))
  /\ arrived' = arrived \cup {slot}
  /\ first' = IF arrived = {} THEN slot ELSE first
  /\ stale' = IF slot \notin arrived /\ Newest - slot >= Window THEN stale \cup {slot} ELSE stale
  /\ inOrder' = (inOrder /\ slot > Newest)
  /\ ahead' = IF base = 0 THEN ahead ELSE MovedAhead(slot)
  /\ UNCHANGED <<sent, base, report>>

(* The report on request (a signal, a timer), to which DumpReport adds the   *)
(* simulations.                                                              *)
Report ==
  /\ FECTest /\ report = {}
  /\ ~stream.panicked
  /\ analyzer' = DumpReport(analyzer)
  /\ report' = arrived
  /\ UNCHANGED <<sent, base, stream, receiver, arrived, twice, first, stale, inOrder,
                 ahead>>

Next ==
  \/ Send
  \/ Reconnect
  \/ Report
  \/ \E slot \in {s \in 0..(sent - 1) : sent - s <= Reach} : Receive(slot)

Spec == Init /\ [][Next]_vars
-----------------------------------------------------------------------------
(* Everything has its type; lostPackets (cmd/recv.go) does not go below 0,   *)
(* and a simulation evaluates only groups it has opened.                     *)
TypeOK ==
  /\ sent \in 0..MaxSlots /\ base \in 0..sent
  /\ stream \in [hasLastSeq : BOOLEAN, lastSeq : 0..(SeqSpace - 1),
                 window : SUBSET (0..(Window - 1)), lost : Nat, panicked : BOOLEAN]
  /\ receiver \in [isFirst : BOOLEAN, expected : 0..(SeqSpace - 1), lost : Nat]
  /\ analyzer.enabled = FECTest /\ analyzer.lastSeq \in 0..(SeqSpace - 1)
  /\ \A sim \in Sims : LET vf == analyzer.sims[sim] IN
       /\ {vf.delivered, vf.recovered, vf.lost} \subseteq Nat
       /\ DOMAIN vf.groups \subseteq 0..(SeqSpace \div sim[2])
       /\ \A id \in DOMAIN vf.groups : vf.groups[id].received \subseteq 0..(sim[2] - 1)
  /\ arrived \subseteq {s \in 0..(sent - 1) : IsData(s)} /\ report \subseteq arrived
  /\ twice \in 0..MaxTwice
  /\ first \in 0..MaxSlots
  /\ stale \subseteq arrived
  /\ inOrder \in BOOLEAN
  /\ ahead \in 0..Window

(* The window (StreamStats.Update, cmd/recv.go) knows exactly which of the   *)
(* last frames have come, in whatever order they came, through every shift   *)
(* and every wrap of SeqNum; after a reconnection it does so again as soon   *)
(* as the newest frame has moved by its width, and lastSeq with it.  No      *)
(* arrival panics before one.                                                *)
WindowTruthful ==
  /\ stream.panicked => base > 0
  /\ arrived # {} /\ ahead = Window =>
       \A i \in 0..(Window - 1) :
         i \in stream.window <=> Newest - i \in arrived /\ Newest - i >= base

Missing == (first..Newest) \ arrived

(* StreamStats.lostPackets (cmd/recv.go) counts the frames between the first *)
(* and the newest that have not come: it is too high only by frames that     *)
(* came after the window had passed, too low only by frames older than the   *)
(* first.  Parity counts as frames that have not come.  This ends at a       *)
(* reconnection, after which the counter mixes two numberings.               *)
LossBounded ==
  base = 0 =>
    /\ stream.lost <= Cardinality(Missing) + Cardinality(stale)
    /\ stream.lost >= Cardinality(Missing) - Cardinality({s \in arrived : s < first})

(* The two counters of the receiver (runRecvNormal, cmd/recv.go) agree on a  *)
(* stream without reordering and duplicates, until SeqNum wraps or restarts. *)
CountersAgree ==
  inOrder /\ base = 0 /\ Newest < SeqSpace => stream.lost = receiver.lost

(* "`[304]` (Warning): Packet loss detected on the transmission path         *)
(* (Sequence gap found)" (README.md:149): a receiver that got every data      *)
(* frame, in order, counts no loss.                                          *)
LossIsLoss ==
  inOrder /\ (\A s \in Missing : ~IsData(s)) => stream.lost = 0

(* No number has been used twice. *)
OneNumbering == base = 0 /\ Newest < SeqSpace

(* The groups of size n a report has judged, and those judged for their age. *)
Reported(n) == IF report = {} THEN {} ELSE (Min(report) \div n)..(Max(report) \div n)

Aged(n) ==
  IF arrived = {} THEN {}
  ELSE (Min(arrived) \div n)..((Newest \div n) - History - 1)

(* A simulation (VirtualFEC, internal/fec/analyzer.go) tells what FEC of its *)
(* size would have made of the frames that came: every group is judged once, *)
(* none is forgotten, by all its frames that came and by no others - those   *)
(* that came before the report, if the report judged it.  This is said of    *)
(* one numbering and of a report that judges frames from the first on: an    *)
(* older one makes it judge groups before the first, not those in between.   *)
JudgedRight ==
  OneNumbering /\ analyzer.enabled /\ (\A s \in report : s >= first) =>
    \A sim \in Sims :
      LET n      == sim[2]
          Got(g) == {s % n : s \in {t \in IF g \in Reported(n) THEN report ELSE arrived :
                                       t \div n = g}}
          Data(g) == Got(g) \cap 0..(sim[1] - 1)
          judged == Aged(n) \cup Reported(n)
          lost   == {g \in judged : Cardinality(Got(g)) < sim[1]}
          Holes(gs) == SumFunction([g \in gs |-> sim[1] - Cardinality(Data(g))])
          vf == analyzer.sims[sim]
      IN /\ vf.delivered = SumFunction([g \in judged |-> Cardinality(Data(g))])
         /\ vf.lost = Holes(lost)
         /\ vf.recovered = Holes(judged \ lost)

(* "Clean up very old groups to prevent memory leaks" (analyzer.go:50): no   *)
(* group waits to be judged for longer than the history, as long as no       *)
(* number comes back.  Groups a report has judged are never cleaned up.      *)
HistoryBounded ==
  OneNumbering /\ analyzer.enabled => \A sim \in Sims :
    LET vf == analyzer.sims[sim]
    IN /\ \A id \in Unevaluated(vf) : id + History >= Newest \div sim[2]
       /\ DOMAIN vf.groups \ Unevaluated(vf) \subseteq Reported(sim[2])
=============================================================================
