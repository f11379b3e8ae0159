---------------------------- MODULE FECAnalyzer ----------------------------
(* The receiver's passive simulation (internal/fec/analyzer.go): what FEC of *)
(* other sizes would have made of the frames that came.  Operators on the    *)
(* analyzer's value; StreamStats owns the variable and the calls.            *)
EXTENDS Integers, FiniteSets, Functions, SequencesExt

CONSTANTS Sims,      \* the simulated sizes <<k, n>>
          History,   \* maxGroupHistory: 100 in the code
          MaxGap,    \* 1000 in the code
          SeqSpace   \* SeqNum has this many values: 2^32 in the code

ASSUME FECAnalyzerAssumption ==
  /\ \A sim \in Sims : sim[1] \in Nat \ {0} /\ sim[2] \in Nat /\ sim[1] < sim[2]
  /\ History \in Nat /\ MaxGap \in Nat /\ SeqSpace \in Nat \ {0}

NewVirtualFEC == [groups |-> <<>>, last |-> 0, delivered |-> 0, recovered |-> 0, lost |-> 0]

NewFECAnalyzer(enabled) ==
  [enabled |-> enabled, hasSeq |-> FALSE, lastSeq |-> 0,
   sims |-> [sim \in Sims |-> NewVirtualFEC]]
-----------------------------------------------------------------------------
(* What one group is worth to FEC with k data packets, given the indices     *)
(* that came: [delivered, recovered, lost].                                  *)
WorthMutant(k, received) ==
  LET delivered == Cardinality({i \in received : i < k})
      saved     == IF Cardinality(received) > k THEN k - delivered ELSE 0
  IN [delivered |-> delivered, recovered |-> saved, lost |-> k - delivered - saved]

Worth(k, received) ==
  LET delivered == Cardinality({i \in received : i < k})
      saved     == IF Cardinality(received) >= k THEN k - delivered ELSE 0
  IN [delivered |-> delivered, recovered |-> saved, lost |-> k - delivered - saved]

Unevaluated(vf) == {id \in DOMAIN vf.groups : ~vf.groups[id].evaluated}

(* finalizeGroup, for the groups in ids *)
Finalized(k, vf, ids) ==
  LET worth(id) == Worth(k, vf.groups[id].received)
  IN [vf EXCEPT !.delivered = @ + SumFunction([id \in ids |-> worth(id).delivered]),
                !.recovered = @ + SumFunction([id \in ids |-> worth(id).recovered]),
                !.lost      = @ + SumFunction([id \in ids |-> worth(id).lost]),
                !.groups    = [id \in DOMAIN @ |->
                  [received  |-> vf.groups[id].received,
                   evaluated |-> vf.groups[id].evaluated \/ id \in ids]]]

(* cleanupOldGroups: groups that have been evaluated stay. *)
CleanedUpMutant(k, vf) ==
  LET old == {id \in Unevaluated(vf) : id + History < vf.last - 1}
  IN [Finalized(k, vf, old) EXCEPT !.groups = Restrict(@, DOMAIN @ \ old)]

CleanedUp(k, vf) ==
  LET old == {id \in Unevaluated(vf) : id + History < vf.last}
  IN [Finalized(k, vf, old) EXCEPT !.groups = Restrict(@, DOMAIN @ \ old)]

Opened(k, vf, id) ==
  LET w == [vf EXCEPT !.groups = [g \in DOMAIN @ \cup {id} |->
              IF g \in DOMAIN @ THEN @[g] ELSE [received |-> {}, evaluated |-> FALSE]]]
  IN IF id > vf.last THEN CleanedUp(k, [w EXCEPT !.last = id]) ELSE w

(* VirtualFEC.RecordPacket *)
Recorded(sim, vf, seq, isLost) ==
  LET id == seq \div sim[2]
      w  == IF id \in DOMAIN vf.groups THEN vf ELSE Opened(sim[1], vf, id)
  IN IF isLost THEN w ELSE [w EXCEPT !.groups[id].received = @ \cup {seq % sim[2]}]

(* The numbers between lastSeq and seq, unless the jump is abnormal. *)
Gap(fa, seq) ==
  LET from == (fa.lastSeq + 1) % SeqSpace
  IN IF fa.hasSeq /\ seq > from /\ seq - from < MaxGap
     THEN [i \in 1..(seq - from) |-> from + i - 1]
     ELSE <<>>

(* What a simulation makes of the numbers in a gap, each a lost packet. *)
Skipped(sim, vf, gap) ==
  LET skip(w, seq) == Recorded(sim, w, seq, TRUE) IN FoldLeft(skip, vf, gap)

(* FECAnalyzer.RecordPacket *)
RecordPacket(fa, seq) ==
  IF ~fa.enabled THEN fa
  ELSE [fa EXCEPT !.hasSeq = TRUE, !.lastSeq = seq,
          !.sims = [sim \in Sims |->
            Recorded(sim, Skipped(sim, @[sim], Gap(fa, seq)), seq, FALSE)]]

(* FECAnalyzer.DumpReport: every group is evaluated as it stands, and kept. *)
DumpReport(fa) ==
  IF ~fa.enabled THEN fa
  ELSE [fa EXCEPT !.sims =
          [sim \in Sims |-> Finalized(sim[1], @[sim], Unevaluated(@[sim]))]]
=============================================================================
