-------------------------- MODULE FECManager_proofs --------------------------
(* Proofs about FECManager, for every K and N, every set of frames that may  *)
(* arrive in any order and number, and every timeout.                        *)
EXTENDS FECManager, FiniteSetTheorems, TLAPS

(* What RetainedIncomplete says of one group. *)
Incomplete(g) ==
  /\ Cardinality(Received(g)) < K
  /\ g.sent = Received(g) \cap DataIdx

GroupsInv ==
  /\ groups \in [GroupNums -> GroupState \cup {NoGroup}]
  /\ \A n \in GroupNums : groups[n] # NoGroup => Incomplete(groups[n])

LEMMA Indices ==
  /\ K \in Nat /\ N \in Nat /\ 0 < K
  /\ DataIdx \subseteq AllIdx
  /\ IsFiniteSet(AllIdx) /\ AllIdx \subseteq Nat
  <1>1. K \in Nat /\ N \in Nat /\ 0 < K /\ K < N
    BY FECManagerAssumption
  <1>2. IsFiniteSet(AllIdx)
    BY <1>1, FS_Interval DEF AllIdx
  <1> QED BY <1>1, <1>2 DEF DataIdx, AllIdx

LEMMA ReceivedFinite ==
  ASSUME NEW g
  PROVE  IsFiniteSet(Received(g)) /\ Cardinality(Received(g)) \in Nat
  <1>1. Received(g) \subseteq AllIdx
    BY DEF Received
  <1> QED BY <1>1, Indices, FS_Subset, FS_CardinalityType

LEMMA NewGroupState == NewGroup \in GroupState /\ Incomplete(NewGroup)
  <1>1. NewGroup \in GroupState
    BY FECManagerAssumption DEF NewGroup, GroupState
  <1>2. Received(NewGroup) = {}
    BY DEF Received, NewGroup
  <1>3. Cardinality(Received(NewGroup)) = 0
    BY <1>2, FS_EmptySet
  <1> QED BY <1>1, <1>2, <1>3, Indices DEF Incomplete, NewGroup

LEMMA CurrentState ==
  ASSUME GroupsInv, NEW n \in GroupNums
  PROVE  Current(n) \in GroupState /\ Incomplete(Current(n))
  BY NewGroupState DEF GroupsInv, Current

(* Buffering a packet adds one shard, and one sent packet if it is data.     *)
LEMMA BufferedState ==
  ASSUME NEW g \in GroupState, Incomplete(g), NEW f \in Frames, Valid(f)
  PROVE  LET b == Buffered(g, f)
         IN /\ b \in GroupState
            /\ Received(b) = Received(g) \cup {f.index}
            /\ b.sent = Received(b) \cap DataIdx
            /\ b.sent = IF f.isFEC THEN g.sent ELSE g.sent \cup {f.index}
            /\ \A i \in AllIdx : b.packets[i] = IF i = f.index THEN f.gen ELSE g.packets[i]
  <1> DEFINE p == [g.packets EXCEPT ![f.index] = f.gen]
             s == IF f.isFEC THEN g.sent ELSE g.sent \cup {f.index}
             b == Buffered(g, f)
  <1>1. f.gen \in Gens /\ f.gen # None /\ f.index \in AllIdx /\ f.isFEC \in BOOLEAN
    BY FECManagerAssumption DEF Valid
  <1>2. g.packets \in [AllIdx -> Gens \cup {None}] /\ g.sent \in SUBSET DataIdx
    BY DEF GroupState
  <1>3. f.index \in DataIdx <=> ~f.isFEC
    BY <1>1, Indices DEF Valid, DataIdx, AllIdx
  <1>4. p \in [AllIdx -> Gens \cup {None}] /\ s \in SUBSET DataIdx
    BY <1>1, <1>2, <1>3
  <1>5. b = [g EXCEPT !.packets = p, !.sent = s]
    BY DEF Buffered, GroupState
  <1>6. \A i \in AllIdx : p[i] # None <=> (i = f.index \/ g.packets[i] # None)
    BY <1>1, <1>2
  <1>7. /\ s = IF f.isFEC THEN g.sent ELSE g.sent \cup {f.index}
        /\ \A i \in AllIdx : p[i] = IF i = f.index THEN f.gen ELSE g.packets[i]
    BY <1>1, <1>2
  <1> HIDE DEF p, s, b
  <1>8. b \in GroupState /\ b.packets = p /\ b.sent = s
    BY <1>4, <1>5 DEF GroupState
  <1>9. Received(b) = Received(g) \cup {f.index}
    BY <1>1, <1>6, <1>8 DEF Received
  <1>10. s = Received(b) \cap DataIdx
    BY <1>1, <1>3, <1>7, <1>9 DEF Incomplete
  <1> QED BY <1>7, <1>8, <1>9, <1>10 DEF b

(* The group that stays in the map after a packet has been added. *)
LEMMA KeptState ==
  ASSUME NEW g \in GroupState, Incomplete(g), NEW f \in Frames, Valid(f)
  PROVE  LET h == Kept(Buffered(g, f))
         IN h \in GroupState \cup {NoGroup} /\ (h # NoGroup => Incomplete(h))
  <1> DEFINE b == Buffered(g, f)
  <1>1. b \in GroupState /\ b.sent = Received(b) \cap DataIdx
    BY BufferedState
  <1>2. Cardinality(Received(b)) \in Nat /\ K \in Nat
    BY ReceivedFinite, Indices
  <1> HIDE DEF b
  <1>3. CASE Missing(b) = {} \/ Enough(b)
    BY <1>3 DEF Kept, b
  <1>4. CASE ~(Missing(b) = {} \/ Enough(b))
    <2>1. Kept(b) = b
      BY <1>4 DEF Kept
    <2>2. Cardinality(Received(b)) < K
      BY <1>2, <1>4 DEF Enough
    <2> QED BY <1>1, <2>1, <2>2 DEF Incomplete, b
  <1> QED BY <1>3, <1>4

LEMMA GroupsInvStep == GroupsInv /\ [Next]_vars => GroupsInv'
  <1> SUFFICES ASSUME GroupsInv, [Next]_vars PROVE GroupsInv'
    OBVIOUS
  <1>1. ASSUME NEW n \in GroupNums, NEW h \in GroupState \cup {NoGroup}, Store(n, h),
               h # NoGroup => Incomplete(h)
        PROVE  GroupsInv'
    <2>1. \A m \in GroupNums : groups'[m] = IF m = n THEN h ELSE groups[m]
      BY <1>1 DEF Store, GroupsInv
    <2>2. groups' \in [GroupNums -> GroupState \cup {NoGroup}]
      BY <1>1 DEF Store, GroupsInv
    <2>3. \A m \in GroupNums : groups'[m] # NoGroup => Incomplete(groups'[m])
      BY <1>1, <2>1 DEF GroupsInv
    <2> QED BY <2>2, <2>3 DEF GroupsInv
  <1>2. ASSUME NEW f \in Frames, AddPacket(f) PROVE GroupsInv'
    <2>1. f.group \in GroupNums
      BY FECManagerAssumption
    <2> DEFINE g == Current(f.group)
    <2>2. g \in GroupState /\ Incomplete(g)
      BY <2>1, CurrentState
    <2>3. CASE ~enabled
      BY <1>2, <2>3 DEF AddPacket, Process, PassThrough, GroupsInv
    <2>4. CASE enabled /\ Valid(f) /\ f.index \notin Received(g)
      <3>1. Store(f.group, Kept(Buffered(g, f)))
        BY <1>2, <2>4 DEF AddPacket, Process
      <3> HIDE DEF g
      <3>2. LET h == Kept(Buffered(g, f))
            IN h \in GroupState \cup {NoGroup} /\ (h # NoGroup => Incomplete(h))
        BY <2>2, <2>4, KeptState
      <3> QED BY <1>1, <2>1, <3>1, <3>2
    <2>5. CASE enabled /\ ~(Valid(f) /\ f.index \notin Received(g))
      <3>1. Store(f.group, g)
        BY <1>2, <2>5 DEF AddPacket, Process
      <3> HIDE DEF g
      <3> QED BY <1>1, <2>1, <2>2, <3>1
    <2> QED BY <2>3, <2>4, <2>5
  <1>3. CASE CleanUpTimeouts
    BY <1>3 DEF CleanUpTimeouts, GroupsInv
  <1>4. CASE Tick
    <2>1. ASSUME NEW g \in GroupState, Incomplete(g)
          PROVE  Older(g) \in GroupState /\ Incomplete(Older(g))
      <3>1. CASE g = NoGroup \/ Stale(g)
        BY <2>1, <3>1 DEF Older
      <3>2. CASE ~(g = NoGroup \/ Stale(g))
        <4> DEFINE a == g.age + 1
        <4>1. a \in 0..(GroupTimeout + 1)
          BY <3>2, FECManagerAssumption DEF Stale, GroupState
        <4>2. Older(g) = [g EXCEPT !.age = a]
          BY <3>2 DEF Older
        <4> HIDE DEF a
        <4>3. Older(g) \in GroupState /\ Older(g).packets = g.packets /\ Older(g).sent = g.sent
          BY <4>1, <4>2 DEF GroupState
        <4>4. Received(Older(g)) = Received(g)
          BY <4>3 DEF Received
        <4> QED BY <2>1, <4>3, <4>4 DEF Incomplete
      <3> QED BY <3>1, <3>2
    <2>2. Older(NoGroup) = NoGroup
      BY DEF Older
    <2>3. \A n \in GroupNums : groups'[n] = Older(groups[n])
      BY <1>4 DEF Tick
    <2>4. \A n \in GroupNums : /\ groups'[n] \in GroupState \cup {NoGroup}
                               /\ groups'[n] # NoGroup => Incomplete(groups'[n])
      BY <2>1, <2>2, <2>3 DEF GroupsInv
    <2>5. groups' = [n \in GroupNums |-> Older(groups[n])]
      BY <1>4 DEF Tick
    <2> QED BY <2>3, <2>4, <2>5 DEF GroupsInv
  <1>5. CASE UNCHANGED vars
    BY <1>5 DEF vars, GroupsInv
  <1> QED BY <1>2, <1>3, <1>4, <1>5 DEF Next

LEMMA GroupsHold == Spec => []GroupsInv
  <1>1. Init => GroupsInv
    BY DEF Init, GroupsInv
  <1> QED BY <1>1, GroupsInvStep, PTL DEF Spec

(* Recovery is never put off: whatever arrives, in whatever order, a group   *)
(* is kept only while it has fewer than K shards, and what it counts as sent *)
(* is exactly the data it has received (fec.go 133-189).                     *)
THEOREM NothingRecoverableWaits == Spec => []RetainedIncomplete
  <1>1. GroupsInv => RetainedIncomplete
    BY DEF GroupsInv, Incomplete, RetainedIncomplete
  <1> QED BY <1>1, GroupsHold, PTL
-----------------------------------------------------------------------------
(* What a step does to the packets forwarded. *)
LEMMA RebuiltType ==
  ASSUME NEW g \in GroupState, NEW i \in DataIdx
  PROVE  Rebuilt(g, i) \in Packets
  <1> DEFINE gens == {g.packets[j] : j \in Used(g)}
  <1>1. gens \subseteq Gens \cup {None}
    BY DEF Used, Received, GroupState
  <1>2. Cardinality(gens) = 1 => (CHOOSE q \in gens : TRUE) \in gens
    <2>1. Cardinality(gens) = 1 => gens # {}
      BY FS_EmptySet
    <2> QED BY <2>1
  <1>3. i \in AnyIdx
    BY FECManagerAssumption DEF DataIdx, AnyIdx
  <1>4. Rebuilt(g, i) = Packet(IF Cardinality(gens) = 1 THEN CHOOSE q \in gens : TRUE ELSE None, i)
    BY DEF Rebuilt
  <1> HIDE DEF gens
  <1> QED BY <1>1, <1>2, <1>3, <1>4 DEF Packet, Packets

LEMMA ForwardType ==
  ASSUME NEW out \in SUBSET Packets, NEW refused, Forward(out, refused),
         forwarded \in SUBSET Packets
  PROVE  forwarded' \in SUBSET Packets
  BY DEF Forward

LEMMA TypeStep == GroupsInv /\ TypeOK /\ [Next]_vars => TypeOK'
  <1> SUFFICES ASSUME GroupsInv, TypeOK, [Next]_vars PROVE TypeOK'
    OBVIOUS
  <1>1. groups' \in [GroupNums -> GroupState \cup {NoGroup}]
    BY GroupsInvStep DEF GroupsInv
  <1>2. arrived \in SUBSET Packets /\ forwarded \in SUBSET Packets /\ enabled \in BOOLEAN
    BY DEF TypeOK
  <1>3. ASSUME NEW f \in Frames, AddPacket(f)
        PROVE  arrived' \in SUBSET Packets /\ forwarded' \in SUBSET Packets
    <2>1. f.gen \in Gens /\ f.index \in AnyIdx /\ f.group \in GroupNums
      BY FECManagerAssumption
    <2>2. Packet(f.gen, f.index) \in Packets /\ Packet(None, f.index) \in Packets
      BY <2>1 DEF Packet, Packets
    <2>3. Passed(f) \in SUBSET Packets
      BY <2>2 DEF Passed
    <2>4. arrived' \in SUBSET Packets
      BY <1>2, <1>3, <2>3 DEF AddPacket
    <2> DEFINE g == Current(f.group)
               b == Buffered(g, f)
    <2>5. CASE ~enabled
      <3>1. Forward({IF f.isFEC THEN Packet(None, f.index) ELSE Packet(f.gen, f.index)},
                    Unauthentic)
        BY <1>3, <2>5 DEF AddPacket, Process, PassThrough
      <3> QED BY <1>2, <2>2, <2>4, <3>1, ForwardType
    <2>6. CASE enabled /\ Valid(f) /\ f.index \notin Received(g)
      <3>1. Forward(Passed(f) \cup Recovered(b), Unauthentic)
        BY <1>3, <2>6 DEF AddPacket, Process
      <3>2. b \in GroupState
        BY <2>1, <2>6, CurrentState, BufferedState
      <3> HIDE DEF b, g
      <3>3. Recovered(b) \in SUBSET Packets
        BY <3>2, RebuiltType DEF Recovered, Missing
      <3> QED BY <1>2, <2>3, <2>4, <3>1, <3>3, ForwardType
    <2>7. CASE enabled /\ ~(Valid(f) /\ f.index \notin Received(g))
      BY <1>2, <1>3, <2>4, <2>7 DEF AddPacket, Process
    <2> QED BY <2>5, <2>6, <2>7
  <1>4. CASE CleanUpTimeouts \/ Tick \/ UNCHANGED vars
    <2>1. enabled' = enabled /\ arrived' = arrived /\ forwarded' = forwarded
      BY <1>4 DEF CleanUpTimeouts, Tick, vars, history
    <2> QED BY <1>1, <1>2, <2>1 DEF TypeOK
  <1>5. ASSUME NEW f \in Frames, AddPacket(f) PROVE enabled' \in BOOLEAN
    BY <1>2, <1>5 DEF AddPacket, Process
  <1> QED BY <1>1, <1>3, <1>4, <1>5 DEF Next, TypeOK

(* The state keeps its shape: a group's sent flags are among its data        *)
(* indices and its shards among its N, whatever the frames say.              *)
THEOREM ManagerTypes == Spec => []TypeOK
  <1>1. Init => TypeOK
    BY FECManagerAssumption DEF Init, TypeOK
  <1> QED BY <1>1, GroupsHold, TypeStep, PTL DEF Spec
-----------------------------------------------------------------------------
(* What is forwarded: nothing but garbage is held back. *)
LEMMA Forwarded ==
  ASSUME NEW out, Forward(out, Unauthentic), NEW q \in Gens, NEW i, Packet(q, i) \in out
  PROVE  Packet(q, i) \in forwarded'
  <1>1. q # None /\ Packet(q, i).gen = q
    BY FECManagerAssumption DEF Packet
  <1>2. Packet(q, i) \notin Garbage(out) /\ Packet(q, i) \notin Unauthentic
    BY <1>1 DEF Garbage, Unauthentic
  <1> QED BY <1>2 DEF Forward

LEMMA ForwardedStays ==
  ASSUME NEW f \in Frames, AddPacket(f)
  PROVE  forwarded \subseteq forwarded'
  BY DEF AddPacket, Process, PassThrough, Forward

LEMMA TransparentStep == DisabledIsTransparent /\ [Next]_vars => DisabledIsTransparent'
  <1> SUFFICES ASSUME DisabledIsTransparent, [Next]_vars PROVE DisabledIsTransparent'
    OBVIOUS
  <1>1. ASSUME NEW f \in Frames, AddPacket(f) PROVE DisabledIsTransparent'
    <2> DEFINE p == IF f.isFEC THEN Packet(None, f.index) ELSE Packet(f.gen, f.index)
    <2>1. enabled' = enabled /\ arrived' = arrived \cup Passed(f)
      BY <1>1 DEF AddPacket, Process
    <2>2. CASE enabled
      BY <2>1, <2>2 DEF DisabledIsTransparent
    <2>3. CASE ~enabled
      <3>1. Forward({p}, Unauthentic)
        BY <1>1, <2>3 DEF AddPacket, Process, PassThrough
      <3>2. f.gen \in Gens /\ f.gen # None /\ f.index \in AnyIdx
        BY FECManagerAssumption
      <3>3. arrived' \subseteq forwarded'
        <4>1. Passed(f) \subseteq forwarded'
          BY <3>1, <3>2, Forwarded DEF Passed
        <4> QED BY <1>1, <2>1, <2>3, <4>1, ForwardedStays DEF DisabledIsTransparent
      <3>4. ASSUME Encrypted PROVE Garbage(forwarded') = {}
        <4>1. Garbage(forwarded) = {}
          BY <2>3, <3>4 DEF DisabledIsTransparent
        <4>2. forwarded' \subseteq forwarded \cup ({p} \ Unauthentic)
          BY <3>1 DEF Forward
        <4>3. p \in Unauthentic \/ p.gen # None
          BY <3>2, <3>4 DEF Unauthentic, Packet
        <4> HIDE DEF p
        <4> QED BY <4>1, <4>2, <4>3 DEF Garbage
      <3> QED BY <2>1, <3>3, <3>4 DEF DisabledIsTransparent
    <2> QED BY <2>2, <2>3 DEF DisabledIsTransparent
  <1>2. CASE CleanUpTimeouts \/ Tick \/ UNCHANGED vars
    BY <1>2 DEF CleanUpTimeouts, Tick, vars, history, DisabledIsTransparent
  <1> QED BY <1>1, <1>2 DEF Next

(* A manager that is off hides nothing, and with encryption the parity it    *)
(* lets through never reaches the multicast group (fec.go 121-124).          *)
THEOREM OffIsTransparent == Spec => []DisabledIsTransparent
  <1>1. Init => DisabledIsTransparent
    BY DEF Init, DisabledIsTransparent, Garbage
  <1> QED BY <1>1, TransparentStep, PTL DEF Spec
-----------------------------------------------------------------------------
(* Groups that leave.  What a group counts as sent was forwarded. *)
SentForwarded(g) == \A i \in g.sent : Packet(g.packets[i], i) \in forwarded

SentInv == \A n \in GroupNums : SentForwarded(groups[n])

LEMMA SentInvStep == GroupsInv /\ SentInv /\ [Next]_vars => SentInv'
  <1> SUFFICES ASSUME GroupsInv, SentInv, [Next]_vars PROVE SentInv'
    OBVIOUS
  <1>1. SentForwarded(NoGroup) /\ SentForwarded(NewGroup)
    BY DEF SentForwarded, NoGroup, NewGroup
  <1>2. ASSUME NEW f \in Frames, AddPacket(f) PROVE SentInv'
    <2>1. f.group \in GroupNums /\ f.gen \in Gens
      BY FECManagerAssumption
    <2> DEFINE g == Current(f.group)
    <2>2. g \in GroupState /\ Incomplete(g) /\ SentForwarded(g)
      BY <1>1, <2>1, CurrentState DEF SentInv, Current
    <2>3. forwarded \subseteq forwarded'
      BY <1>2, ForwardedStays
    <2>4. ASSUME NEW h, h.sent = {} \/ (\A i \in h.sent : Packet(h.packets[i], i) \in forwarded'),
                 Store(f.group, h)
          PROVE  SentInv'
      <3>1. \A m \in GroupNums : groups'[m] = IF m = f.group THEN h ELSE groups[m]
        BY <2>1, <2>4 DEF Store, GroupsInv
      <3> QED BY <2>3, <2>4, <3>1 DEF SentInv, SentForwarded
    <2>5. CASE ~enabled
      BY <1>2, <2>3, <2>5 DEF AddPacket, Process, PassThrough, SentInv, SentForwarded
    <2>6. CASE enabled /\ ~(Valid(f) /\ f.index \notin Received(g))
      <3>1. Store(f.group, g)
        BY <1>2, <2>6 DEF AddPacket, Process
      <3> HIDE DEF g
      <3> QED BY <2>2, <2>3, <2>4, <3>1 DEF SentForwarded
    <2>7. CASE enabled /\ Valid(f) /\ f.index \notin Received(g)
      <3> DEFINE b == Buffered(g, f)
      <3>1. Store(f.group, Kept(b)) /\ Forward(Passed(f) \cup Recovered(b), Unauthentic)
        BY <1>2, <2>7 DEF AddPacket, Process
      <3>2. /\ b.sent = IF f.isFEC THEN g.sent ELSE g.sent \cup {f.index}
            /\ \A i \in AllIdx : b.packets[i] = IF i = f.index THEN f.gen ELSE g.packets[i]
        BY <2>2, <2>7, BufferedState
      <3>3. f.index \notin g.sent /\ g.sent \subseteq AllIdx /\ f.index \in AllIdx
        BY <2>2, <2>7 DEF Incomplete, Received, Valid
      <3>4. ~f.isFEC => Packet(f.gen, f.index) \in forwarded'
        BY <2>1, <3>1, Forwarded DEF Passed
      <3> HIDE DEF g, b
      <3>5. \A i \in b.sent : Packet(b.packets[i], i) \in forwarded'
        BY <2>2, <2>3, <3>2, <3>3, <3>4 DEF SentForwarded
      <3>6. Kept(b) = b \/ Kept(b).sent = {}
        BY DEF Kept, NoGroup
      <3> QED BY <2>4, <3>1, <3>5, <3>6
    <2> QED BY <2>5, <2>6, <2>7
  <1>3. CASE CleanUpTimeouts
    BY <1>1, <1>3 DEF CleanUpTimeouts, history, SentInv, SentForwarded
  <1>4. CASE Tick
    <2>1. ASSUME NEW n \in GroupNums
          PROVE  groups'[n].sent = groups[n].sent /\ groups'[n].packets = groups[n].packets
      <3>1. groups'[n] = Older(groups[n])
        BY <1>4 DEF Tick
      <3>2. groups[n] \in GroupState \cup {NoGroup}
        BY DEF GroupsInv
      <3> QED BY <3>1, <3>2 DEF Older, GroupState, NoGroup
    <2> QED BY <1>4, <2>1 DEF Tick, history, SentInv, SentForwarded
  <1>5. CASE UNCHANGED vars
    BY <1>5 DEF vars, history, SentInv, SentForwarded
  <1> QED BY <1>2, <1>3, <1>4, <1>5 DEF Next

(* The K-th shard: all the shards are used, and if they are of one           *)
(* generation, so is what is rebuilt from them.                              *)
LEMMA RebuiltFromOne ==
  ASSUME NEW b \in GroupState, NEW x \in Received(b),
         Cardinality(Received(b) \ {x}) < K,
         NEW q \in Gens, \A i \in Received(b) : b.packets[i] = q
  PROVE  \A i \in DataIdx : Rebuilt(b, i) = Packet(q, i)
  <1> DEFINE R == Received(b)
  <1>1. IsFiniteSet(R) /\ R \subseteq Nat /\ Cardinality(R) \in Nat /\ K \in Nat
    BY ReceivedFinite, Indices DEF Received
  <1>2. Cardinality(R) - 1 < K
    <2>1. Cardinality(R \ {x}) = Cardinality(R) - 1
      BY <1>1, FS_RemoveElement
    <2> QED BY <2>1
  <1> HIDE DEF R
  <1>3. ASSUME NEW i \in R PROVE Cardinality({j \in R : j < i}) < K
    <2>1. {j \in R : j < i} \subseteq R \ {i}
      BY <1>1
    <2>2. IsFiniteSet(R \ {i}) /\ Cardinality(R \ {i}) = Cardinality(R) - 1
      BY <1>1, FS_RemoveElement
    <2>3. /\ Cardinality({j \in R : j < i}) <= Cardinality(R \ {i})
          /\ Cardinality({j \in R : j < i}) \in Nat
      BY <2>1, <2>2, FS_Subset, FS_CardinalityType
    <2> QED BY <1>1, <1>2, <2>2, <2>3
  <1>4. Used(b) = R
    BY <1>3 DEF Used, R
  <1>5. {b.packets[j] : j \in Used(b)} = {q}
    BY <1>4 DEF R
  <1>6. Cardinality({q}) = 1
    BY FS_Singleton
  <1> QED BY <1>5, <1>6 DEF Rebuilt

(* The group leaves the map while it is fresh, with shards of one generation. *)
Leaves(n, q) ==
  /\ groups[n] # NoGroup /\ ~Stale(groups[n]) /\ groups'[n] = NoGroup
  /\ \A i \in Received(groups[n]) : groups[n].packets[i] = q

LEMMA ExitForwardsAll ==
  ASSUME GroupsInv, SentInv, NEW f \in Frames, AddPacket(f), Leaves(f.group, f.gen)
  PROVE  \A i \in DataIdx : Packet(f.gen, i) \in forwarded'
  <1> DEFINE n == f.group
             q == f.gen
             g == groups[n]
             b == Buffered(g, f)
  <1>1. n \in GroupNums /\ q \in Gens /\ q # None
    BY FECManagerAssumption
  <1>2. g \in GroupState /\ Incomplete(g) /\ SentForwarded(g) /\ Current(n) = g
    BY <1>1 DEF GroupsInv, SentInv, Leaves, Current
  <1>3. enabled /\ Valid(f) /\ f.index \notin Received(g)
    <2>1. CASE ~enabled
      BY <2>1 DEF AddPacket, Process, PassThrough, Leaves
    <2>2. CASE enabled /\ ~(Valid(f) /\ f.index \notin Received(g))
      <3>1. Store(n, g)
        BY <1>2, <2>2 DEF AddPacket, Process
      <3> QED BY <1>1, <3>1 DEF Store, Leaves, GroupsInv
    <2> QED BY <2>1, <2>2
  <1>4. Store(n, Kept(b)) /\ Forward(Passed(f) \cup Recovered(b), Unauthentic)
    BY <1>2, <1>3 DEF AddPacket, Process
  <1>5. /\ b \in GroupState
        /\ Received(b) = Received(g) \cup {f.index}
        /\ b.sent = Received(b) \cap DataIdx
        /\ b.sent = IF f.isFEC THEN g.sent ELSE g.sent \cup {f.index}
        /\ \A i \in AllIdx : b.packets[i] = IF i = f.index THEN f.gen ELSE g.packets[i]
    BY <1>2, <1>3, BufferedState
  <1>6. \A i \in Received(g) : g.packets[i] = q
    BY DEF Leaves
  <1>7. \A i \in g.sent : Packet(q, i) \in forwarded'
    <2>1. g.sent \subseteq Received(g)
      BY <1>2 DEF Incomplete
    <2>2. forwarded \subseteq forwarded'
      BY ForwardedStays
    <2> QED BY <1>2, <1>6, <2>1, <2>2 DEF SentForwarded
  <1>8. \A i \in b.sent : Packet(q, i) \in forwarded'
    <2>1. ~f.isFEC => Packet(q, f.index) \in forwarded'
      BY <1>1, <1>4, Forwarded DEF Passed
    <2> QED BY <1>5, <1>7, <2>1
  <1>9. Kept(b) = NoGroup
    BY <1>1, <1>4 DEF Store, Leaves, GroupsInv
  <1>10. b # NoGroup
    <2>1. DOMAIN b.packets = AllIdx /\ f.index \in AllIdx
      BY <1>3, <1>5 DEF Valid, GroupState
    <2>2. DOMAIN NoGroup.packets = {}
      BY DEF NoGroup
    <2> QED BY <2>1, <2>2
  <1>11. CASE Missing(b) = {}
    BY <1>8, <1>11 DEF Missing
  <1>12. CASE Enough(b)
    <2>1. f.index \in Received(b) /\ Received(b) \ {f.index} = Received(g)
      BY <1>3, <1>5
    <2>2. \A i \in Received(b) : b.packets[i] = q
      BY <1>5, <1>6 DEF Received
    <2>3. \A i \in DataIdx : Rebuilt(b, i) = Packet(q, i)
      <3>1. Cardinality(Received(b) \ {f.index}) < K
        BY <1>2, <2>1 DEF Incomplete
      <3> HIDE DEF b, g, q
      <3> QED BY <1>1, <1>5, <2>1, <2>2, <3>1, RebuiltFromOne
    <2>4. \A i \in Missing(b) : Packet(q, i) \in Recovered(b)
      BY <1>12, <2>3 DEF Recovered, Missing
    <2>5. \A i \in Missing(b) : Packet(q, i) \in forwarded'
      BY <1>1, <1>4, <2>4, Forwarded
    <2> QED BY <1>8, <2>5 DEF Missing
  <1> QED BY <1>9, <1>10, <1>11, <1>12 DEF Kept

(* A group that leaves the map while it is fresh leaves because each data    *)
(* packet of its generation has been forwarded (fec.go 153-189).             *)
THEOREM EarlyExitForwardsAll == Spec => EarlyExitIsComplete
  <1> DEFINE A == \A n \in GroupNums, q \in Gens :
       LET g == groups[n]
       IN (/\ g # NoGroup /\ ~Stale(g) /\ groups'[n] = NoGroup
           /\ \A i \in Received(g) : g.packets[i] = q
           /\ \E f \in Frames : f.group = n /\ f.gen = q /\ AddPacket(f))
          => \A i \in DataIdx : Packet(q, i) \in forwarded'
  <1>1. Init => SentInv
    BY DEF Init, SentInv, SentForwarded, NoGroup
  <1>2. GroupsInv /\ SentInv => A
    BY ExitForwardsAll DEF Leaves
  <1> HIDE DEF A
  <1>3. Spec => [][A]_vars
    BY <1>1, <1>2, SentInvStep, GroupsHold, PTL DEF Spec
  <1> QED BY <1>3 DEF EarlyExitIsComplete, A
=============================================================================
