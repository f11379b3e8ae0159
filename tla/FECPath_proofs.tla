--------------------------- MODULE FECPath_proofs ---------------------------
(* Proofs about FECPath: the FEC stream from end to end, for every K and N,  *)
(* every number of group numbers, sessions and frames, every delay and every *)
(* timeout.  The types and the shape of the groups come first.  Then it is   *)
(* shown where shards come from: each is what some slot carried, and with    *)
(* pacing, frames on their way and groups that are not stale are all of the  *)
(* newest generation of their session with their number.  What the manager   *)
(* rebuilds, what it forwards and what it still waits for follow from that,  *)
(* wherever no frame of another session has come.                            *)
EXTENDS FECPath, FiniteSetTheorems, TLAPS

(* What the assumptions come to.                                             *)
LEMMA Constants ==
  /\ K \in Nat /\ N \in Nat /\ 0 < K /\ K < N /\ N <= 16
  /\ GroupCount \in Nat /\ 0 < GroupCount /\ GroupTimeout \in Nat /\ MaxDelay \in Nat
  /\ MaxSessions \in Nat /\ 0 < MaxSessions /\ MaxSlots \in Nat
  BY FECPathAssumption

LEMMA NoGeneration == None \notin Generations
  BY FECPathAssumption DEF Generations, Slots

LEMMA MaxIs ==
  ASSUME NEW S \in SUBSET Int, NEW x \in S, \A y \in S : y <= x
  PROVE  Max(S) = x
  <1>1. Max(S) \in S /\ \A y \in S : Max(S) >= y
    <2>1. \E z \in S : \A y \in S : z >= y
      OBVIOUS
    <2> QED BY <2>1 DEF Max
  <1>2. Max(S) >= x /\ x >= Max(S) /\ Max(S) \in Int
    BY <1>1
  <1> QED BY <1>2

LEMMA MinOf ==
  ASSUME NEW a \in Int, NEW b \in Int
  PROVE  Min({a, b}) = IF a <= b THEN a ELSE b
  <1>1. \E z \in {a, b} : \A y \in {a, b} : z <= y
    <2>1. CASE a <= b
      BY <2>1
    <2>2. CASE b <= a
      BY <2>2
    <2> QED BY <2>1, <2>2
  <1>2. Min({a, b}) \in {a, b} /\ \A y \in {a, b} : Min({a, b}) <= y
    BY <1>1 DEF Min
  <1> QED BY <1>2
-----------------------------------------------------------------------------
(* Slots, generations and indices.                                           *)
LEMMA DivMod ==
  \A a \in Int, m \in Int : m > 0 => /\ a = m * (a \div m) + (a % m)
                                    /\ a % m \in 0..(m - 1) /\ a \div m \in Int
  <1>1. \A a \in Int, m \in Int : m > 0 => a = m * (a \div m) + (a % m)
    OBVIOUS
  <1>2. \A a \in Int, m \in Int : m > 0 => a % m \in 0..(m - 1) /\ a \div m \in Int
    OBVIOUS
  <1> QED BY <1>1, <1>2, Zenon

LEMMA QuotientIs ==
  ASSUME NEW m \in Nat, NEW q \in Int, NEW r \in Int, NEW p \in Int, NEW s \in Int,
         m * q + r = m * p + s, 0 <= r, r < m, 0 <= s, s < m
  PROVE  q = p /\ r = s
  <1> DEFINE d == q - p
  <1>1. d \in Int /\ m * d = s - r /\ q = p + d
    OBVIOUS
  <1> HIDE DEF d
  <1>2. d >= 1 => m * d >= m
    BY <1>1
  <1>3. d <= -1 => m * d <= -m
    BY <1>1
  <1>4. d = 0
    BY <1>1, <1>2, <1>3
  <1> QED BY <1>1, <1>4

(* Group b, index i.                                                         *)
LEMMA SplitIs ==
  ASSUME NEW a \in Int, NEW b \in Int, NEW i \in 0..(N - 1), a = N * b + i
  PROVE  a \div N = b /\ a % N = i
  <1> DEFINE q == a \div N
             r == a % N
  <1>1. a \in Int /\ N \in Int /\ N > 0
    BY Constants
  <1>2. a = N * q + r /\ r \in 0..(N - 1) /\ q \in Int
    BY <1>1, DivMod, Zenon
  <1> HIDE DEF q, r
  <1>3. N * q + r = N * b + i /\ r \in Int /\ i \in Int
    BY <1>2, Constants
  <1>4. q = b /\ r = i
    BY <1>2, <1>3, QuotientIs, Constants
  <1> QED BY <1>4 DEF q, r

Index(s) == Place(s) % N

(* Every slot belongs to a session.                                          *)
SessionIs(s, e) ==
  /\ e \in 1..Len(starts) /\ starts[e] <= s
  /\ \A f \in 1..Len(starts) : starts[f] <= s => f <= e

SlotsOK ==
  /\ starts \in Seq(Nat) /\ Len(starts) \in 1..MaxSessions /\ nextSlot \in Nat
  /\ \A e \in 1..Len(starts) : starts[e] <= nextSlot
  /\ \A s \in Slots : \E e \in 1..Len(starts) : SessionIs(s, e)

LEMMA SessionOfIs ==
  ASSUME starts \in Seq(Nat), NEW s \in Nat, NEW e, SessionIs(s, e)
  PROVE  SessionOf(s) = e
  <1> DEFINE S == {f \in DOMAIN starts : starts[f] <= s}
  <1>1. S \in SUBSET Int /\ e \in S /\ \A f \in S : f <= e
    BY DEF SessionIs
  <1>2. Max(S) = e
    BY <1>1, MaxIs
  <1> QED BY <1>2 DEF SessionOf

LEMMA SlotFacts ==
  ASSUME SlotsOK, NEW s \in Slots
  PROVE  /\ SessionIs(s, SessionOf(s)) /\ s \in Nat
         /\ SessionOf(s) \in 1..MaxSessions /\ SessionOf(s) \in Nat
         /\ Place(s) \in Nat /\ Place(s) <= s /\ Place(s) = s - starts[SessionOf(s)]
         /\ Place(s) = N * (Place(s) \div N) + Index(s)
         /\ Index(s) \in 0..(N - 1)
         /\ Place(s) \div N \in Nat /\ Place(s) \div N <= s
         /\ Generation(s) \in Generations
         /\ GroupNum(s) \in GroupNums
  <1>1. s \in Nat /\ s < MaxSlots /\ starts \in Seq(Nat)
    BY Constants DEF Slots, SlotsOK
  <1>2. PICK e \in 1..Len(starts) : SessionIs(s, e)
    BY DEF SlotsOK
  <1>3. SessionOf(s) = e
    BY <1>1, <1>2, SessionOfIs
  <1>4. e \in 1..MaxSessions /\ starts[e] \in Nat /\ starts[e] <= s
    BY <1>2, Constants DEF SlotsOK, SessionIs
  <1>5. Place(s) \in Nat /\ Place(s) <= s /\ Place(s) = s - starts[SessionOf(s)]
    BY <1>1, <1>3, <1>4 DEF Place
  <1> DEFINE a == Place(s)
             b == a \div N
             i == a % N
  <1>6. a \in Int /\ N \in Int /\ N > 0
    BY <1>5, Constants
  <1>7. a = N * b + i /\ i \in 0..(N - 1) /\ b \in Int
    BY <1>6, DivMod, Zenon
  <1>8. a \in Nat /\ a <= s
    BY <1>5
  <1> HIDE DEF a, b, i
  <1>9. b \in Nat /\ b <= s
    <2>1. b <= -1 => N * b <= -N
      BY <1>6, <1>7
    <2>2. b >= 0
      BY <1>1, <1>6, <1>7, <1>8, <2>1
    <2>3. N * b >= b
      BY <1>6, <1>7, <2>2
    <2> QED BY <1>1, <1>6, <1>7, <1>8, <2>2, <2>3
  <1>10. b \in Slots
    BY <1>1, <1>9, Constants DEF Slots
  <1>11. <<SessionOf(s), b>> \in Generations
    BY <1>3, <1>4, <1>10 DEF Generations
  <1>12. b % GroupCount \in 0..(GroupCount - 1)
    <2>1. b \in Int /\ GroupCount \in Int /\ GroupCount > 0
      BY <1>9, Constants
    <2> QED BY <2>1, DivMod, Zenon
  <1> QED BY <1>1, <1>2, <1>3, <1>4, <1>5, <1>7, <1>9, <1>11, <1>12
          DEF a, b, i, Index, Generation, GroupNum, GroupNums

(* The slots of one generation are neighbours.                               *)
LEMMA Siblings ==
  ASSUME SlotsOK, NEW s \in Slots, NEW k \in 0..Index(s)
  PROVE  LET u == s - k
         IN /\ u \in Slots /\ u <= s
            /\ SessionOf(u) = SessionOf(s) /\ Generation(u) = Generation(s)
            /\ GroupNum(u) = GroupNum(s) /\ Index(u) = Index(s) - k
  <1> DEFINE u == s - k
             e == SessionOf(s)
             b == Place(s) \div N
             i == Index(s)
  <1>0. /\ SessionIs(s, e) /\ s \in Nat /\ Place(s) \in Nat /\ Place(s) = s - starts[e]
        /\ Place(s) = N * b + i /\ i \in 0..(N - 1) /\ b \in Nat
    BY SlotFacts
  <1>2. k \in 0..i
    OBVIOUS
  <1> HIDE DEF b, i, e
  <1>1. /\ SessionIs(s, e) /\ s \in Nat /\ Place(s) \in Nat /\ Place(s) = s - starts[e]
        /\ Place(s) = N * b + i /\ i \in 0..(N - 1) /\ b \in Nat
        /\ starts \in Seq(Nat) /\ s < MaxSlots
    BY <1>0, Constants DEF SlotsOK, Slots
  <1> DEFINE m == starts[e]
             x == N * b
  <1>3. m \in Nat /\ x \in Nat /\ m <= s /\ s - m = x + i
    BY <1>1, Constants DEF SessionIs
  <1> HIDE DEF m, x
  <1>4. u \in Nat /\ u <= s /\ m <= u /\ u - m = x + (i - k) /\ i - k \in 0..(N - 1)
    BY <1>1, <1>2, <1>3, Constants
  <1>5. u \in Slots
    BY <1>1, <1>4, Constants DEF Slots
  <1>6. SessionIs(u, e)
    <2>1. /\ e \in 1..Len(starts)
          /\ \A f \in 1..Len(starts) : starts[f] <= s => f <= e
      BY <1>1 DEF SessionIs
    <2>2. starts[e] <= u
      BY <1>4 DEF m
    <2>3. u \in Nat /\ s \in Nat /\ u <= s
      BY <1>1, <1>4
    <2> HIDE DEF u
    <2>4. starts \in Seq(Nat)
      BY <1>1
    <2>5. \A f \in 1..Len(starts) : starts[f] \in Nat
      BY <2>4
    <2>6. \A f \in 1..Len(starts) : starts[f] <= u => starts[f] <= s
      <3> SUFFICES ASSUME NEW a \in Nat, a <= u PROVE a <= s
        BY <2>5
      <3> QED BY <2>3
    <2>7. \A f \in 1..Len(starts) : starts[f] <= u => f <= e
      BY <2>1, <2>6
    <2> QED BY <2>1, <2>2, <2>7 DEF SessionIs
  <1> HIDE DEF u
  <1>7. SessionOf(u) = e
    BY <1>1, <1>4, <1>6, SessionOfIs
  <1>8. Place(u) = N * b + (i - k) /\ Place(u) \in Int
    BY <1>1, <1>3, <1>4, <1>7, Constants DEF Place, m, x
  <1>9. Place(u) \div N = b /\ Place(u) % N = i - k
    BY <1>1, <1>4, <1>8, SplitIs
  <1> QED BY <1>4, <1>5, <1>7, <1>9 DEF u, b, i, e, Generation, GroupNum, Index

(* A generation and an index name one slot.                                  *)
LEMMA SlotUnique ==
  ASSUME SlotsOK, NEW s \in Slots, NEW t \in Slots,
         Generation(s) = Generation(t), Index(s) = Index(t)
  PROVE  s = t
  <1>1. SessionOf(s) = SessionOf(t) /\ Place(s) \div N = Place(t) \div N
    BY DEF Generation
  <1>2. /\ Place(s) = N * (Place(s) \div N) + Index(s)
        /\ Place(t) = N * (Place(t) \div N) + Index(t)
        /\ Place(s) = s - starts[SessionOf(s)] /\ Place(t) = t - starts[SessionOf(t)]
        /\ s \in Nat /\ t \in Nat /\ SessionIs(s, SessionOf(s))
    BY SlotFacts
  <1>5. starts[SessionOf(s)] \in Nat
    <2> DEFINE e == SessionOf(s)
    <2>1. SessionIs(s, e)
      BY <1>2
    <2> HIDE DEF e
    <2>2. starts \in Seq(Nat)
      BY DEF SlotsOK
    <2>3. e \in 1..Len(starts)
      BY <2>1 DEF SessionIs
    <2>4. starts[e] \in Nat
      BY <2>2, <2>3
    <2> QED BY <2>4 DEF e
  <1>3. Place(s) = Place(t)
    BY <1>1, <1>2
  <1>4. s - starts[SessionOf(s)] = t - starts[SessionOf(s)]
    BY <1>1, <1>2, <1>3
  <1> QED BY <1>2, <1>4, <1>5
-----------------------------------------------------------------------------
(* What the manager does with the frame in slot s: the state it goes into,   *)
(* that state with the shard added, what is released, what stays.            *)
Holder(s) == Manager!Current(GroupNum(s))
Filled(s) == Manager!Buffered(Holder(s), FrameOf(s))
Fresh(s) == Index(s) \notin Manager!Received(Holder(s))
Out(s) == Manager!Passed(FrameOf(s)) \cup Manager!Recovered(Filled(s))
After(s) == IF Fresh(s) THEN Manager!Kept(Filled(s)) ELSE Holder(s)

Sound(g) ==
  /\ g \in Manager!GroupState
  /\ Cardinality(Manager!Received(g)) < K
  /\ g.sent = Manager!Received(g) \cap Manager!DataIdx

GroupsInv ==
  /\ groups \in [GroupNums -> Manager!GroupState \cup {Manager!NoGroup}]
  /\ \A n \in GroupNums : groups[n] # Manager!NoGroup =>
       Sound(groups[n]) /\ Manager!Received(groups[n]) # {}

LEMMA Indices ==
  /\ Manager!AllIdx = 0..(N - 1) /\ Manager!DataIdx = 0..(K - 1)
  /\ Manager!DataIdx \subseteq Manager!AllIdx /\ IsFiniteSet(Manager!AllIdx)
  /\ IsFiniteSet(Manager!DataIdx) /\ Cardinality(Manager!DataIdx) = K
  <1>1. Manager!AllIdx = 0..(N - 1) /\ Manager!DataIdx = 0..(K - 1)
    BY DEF Manager!AllIdx, Manager!DataIdx
  <1>2. 0 \in Int /\ N - 1 \in Int /\ K - 1 \in Int
    BY Constants
  <1>3. IsFiniteSet(0..(N - 1)) /\ IsFiniteSet(0..(K - 1))
    BY <1>2, FS_Interval
  <1>4. Cardinality(0..(K - 1)) = IF 0 > K - 1 THEN 0 ELSE (K - 1) - 0 + 1
    BY <1>2, FS_Interval
  <1> QED BY <1>1, <1>3, <1>4, Constants

LEMMA ReceivedFinite ==
  ASSUME NEW g
  PROVE  /\ Manager!Received(g) \subseteq Manager!AllIdx
         /\ IsFiniteSet(Manager!Received(g)) /\ Cardinality(Manager!Received(g)) \in Nat
  <1>1. Manager!Received(g) \subseteq Manager!AllIdx
    BY DEF Manager!Received
  <1> QED BY <1>1, Indices, FS_Subset, FS_CardinalityType

LEMMA SameCardinality == \A S : Manager!Cardinality(S) = Cardinality(S)
  BY DEF Manager!Cardinality, Cardinality

LEMMA NewGroupFacts ==
  Sound(Manager!NewGroup) /\ Manager!Received(Manager!NewGroup) = {}
  /\ Manager!NewGroup.age = 0 /\ ~Manager!Stale(Manager!NewGroup)
  <1>1. Manager!NewGroup \in Manager!GroupState
    BY Constants DEF Manager!NewGroup, Manager!GroupState
  <1>2. Manager!Received(Manager!NewGroup) = {}
    BY DEF Manager!Received, Manager!NewGroup
  <1>3. Cardinality(Manager!Received(Manager!NewGroup)) = 0
    BY <1>2, FS_EmptySet
  <1>4. Manager!NewGroup.sent = {} /\ Manager!NewGroup.age = 0
    BY DEF Manager!NewGroup
  <1> QED BY <1>1, <1>2, <1>3, <1>4, Constants DEF Sound, Manager!Stale

LEMMA NotNoGroup ==
  ASSUME NEW g \in Manager!GroupState
  PROVE  g # Manager!NoGroup
  <1>1. DOMAIN g.packets = Manager!AllIdx
    BY DEF Manager!GroupState
  <1>2. DOMAIN Manager!NoGroup.packets = {}
    BY DEF Manager!NoGroup
  <1>3. 0 \in Manager!AllIdx
    BY Indices, Constants
  <1> QED BY <1>1, <1>2, <1>3

LEMMA FrameFacts ==
  ASSUME SlotsOK, NEW s \in Slots
  PROVE  /\ FrameOf(s).gen = Generation(s) /\ FrameOf(s).index = Index(s)
         /\ FrameOf(s).group = GroupNum(s) /\ FrameOf(s).isFEC = (Index(s) >= K)
         /\ Manager!Valid(FrameOf(s))
         /\ Generation(s) \in Generations /\ Generation(s) # None
         /\ Index(s) \in Manager!AllIdx
         /\ Index(s) \in Manager!DataIdx <=> Index(s) < K
         /\ Manager!Passed(FrameOf(s)) = IF Index(s) < K THEN {PacketOf(s)} ELSE {}
  <1>1. /\ FrameOf(s).gen = Generation(s) /\ FrameOf(s).index = Index(s)
        /\ FrameOf(s).group = GroupNum(s) /\ FrameOf(s).isFEC = (Index(s) >= K)
    BY DEF FrameOf, Index
  <1>2. Generation(s) \in Generations /\ Index(s) \in 0..(N - 1)
    BY SlotFacts
  <1>3. Index(s) \in Manager!AllIdx /\ (Index(s) \in Manager!DataIdx <=> Index(s) < K)
    BY <1>2, Indices, Constants
  <1>4. Manager!Valid(FrameOf(s))
    BY <1>1, <1>2, <1>3 DEF Manager!Valid
  <1>5. Manager!Passed(FrameOf(s)) = IF Index(s) < K THEN {PacketOf(s)} ELSE {}
    <2>1. PacketOf(s) = Manager!Packet(Generation(s), Index(s))
      BY DEF PacketOf, Index
    <2>2. (Index(s) >= K) <=> ~(Index(s) < K)
      BY <1>2, Constants
    <2> QED BY <1>1, <2>1, <2>2 DEF Manager!Passed
  <1> QED BY <1>1, <1>2, <1>3, <1>4, <1>5, NoGeneration

LEMMA HolderFacts ==
  ASSUME GroupsInv, NEW s, GroupNum(s) \in GroupNums
  PROVE  /\ Sound(Holder(s)) /\ ~Manager!Stale(Holder(s))
         /\ \/ Holder(s) = groups[GroupNum(s)] /\ groups[GroupNum(s)] # Manager!NoGroup
            \/ Holder(s) = Manager!NewGroup
         /\ groups[GroupNum(s)] # Manager!NoGroup /\ ~Manager!Stale(groups[GroupNum(s)]) =>
              Holder(s) = groups[GroupNum(s)]
  BY NewGroupFacts DEF GroupsInv, Holder, Manager!Current

(* The shard is added, and nothing else changes.                             *)
LEMMA FilledFacts ==
  ASSUME SlotsOK, GroupsInv, NEW s \in Slots
  PROVE  /\ Filled(s) \in Manager!GroupState
         /\ Manager!Received(Filled(s)) = Manager!Received(Holder(s)) \cup {Index(s)}
         /\ Filled(s).sent = Manager!Received(Filled(s)) \cap Manager!DataIdx
         /\ \A i \in Manager!AllIdx :
              Filled(s).packets[i] = IF i = Index(s) THEN Generation(s) ELSE Holder(s).packets[i]
         /\ Filled(s).age = Holder(s).age
  <1> DEFINE f == FrameOf(s)
             g == Holder(s)
             p == [g.packets EXCEPT ![f.index] = f.gen]
             x == IF f.isFEC THEN g.sent ELSE g.sent \cup {f.index}
             b == Filled(s)
  <1>1. /\ f.gen = Generation(s) /\ f.index = Index(s) /\ f.isFEC = (Index(s) >= K)
        /\ f.gen \in Generations /\ f.gen # None /\ f.index \in Manager!AllIdx
        /\ f.index \in Manager!DataIdx <=> Index(s) < K
    BY FrameFacts
  <1>2. Index(s) \in 0..(N - 1) /\ GroupNum(s) \in GroupNums
    BY SlotFacts
  <1>3. f.index \in Manager!DataIdx <=> ~f.isFEC
    <2>1. Index(s) >= K <=> ~(Index(s) < K)
      BY <1>2, Constants
    <2> HIDE DEF f
    <2> QED BY <1>1, <2>1
  <1>4. Sound(g)
    BY <1>2, HolderFacts
  <1>5. g.packets \in [Manager!AllIdx -> Generations \cup {None}]
        /\ g.sent \in SUBSET Manager!DataIdx
    BY <1>4 DEF Sound, Manager!GroupState
  <1>6. b = [g EXCEPT !.packets = p, !.sent = x]
    BY <1>4 DEF Filled, Manager!Buffered, Sound, Manager!GroupState
  <1> HIDE DEF f, g, b
  <1>7. p \in [Manager!AllIdx -> Generations \cup {None}] /\ x \in SUBSET Manager!DataIdx
    BY <1>1, <1>3, <1>5
  <1>8. /\ \A i \in Manager!AllIdx : p[i] # None <=> (i = f.index \/ g.packets[i] # None)
        /\ \A i \in Manager!AllIdx : p[i] = IF i = f.index THEN f.gen ELSE g.packets[i]
    BY <1>1, <1>5
  <1>9. x = IF f.index \in Manager!DataIdx THEN g.sent \cup {f.index} ELSE g.sent
    BY <1>3
  <1> HIDE DEF p, x
  <1>10. b \in Manager!GroupState /\ b.packets = p /\ b.sent = x /\ b.age = g.age
    BY <1>4, <1>6, <1>7 DEF Sound, Manager!GroupState
  <1>11. Manager!Received(b) = Manager!Received(g) \cup {f.index}
    BY <1>1, <1>8, <1>10 DEF Manager!Received
  <1>12. x = Manager!Received(b) \cap Manager!DataIdx
    BY <1>4, <1>9, <1>11 DEF Sound
  <1> QED BY <1>1, <1>8, <1>10, <1>11, <1>12 DEF b, g

LEMMA AfterFacts ==
  ASSUME SlotsOK, GroupsInv, NEW s \in Slots
  PROVE  /\ After(s) \in Manager!GroupState \cup {Manager!NoGroup}
         /\ After(s) # Manager!NoGroup =>
              Sound(After(s)) /\ Manager!Received(After(s)) # {}
         /\ Fresh(s) =>
              IF Manager!DataIdx \subseteq Manager!Received(Filled(s))
                 \/ Cardinality(Manager!Received(Filled(s))) >= K
              THEN After(s) = Manager!NoGroup
              ELSE After(s) = Filled(s) /\ After(s) # Manager!NoGroup
         /\ ~Fresh(s) => After(s) = Holder(s) /\ Holder(s) = groups[GroupNum(s)]
  <1>1. GroupNum(s) \in GroupNums
    BY SlotFacts
  <1>2. CASE Fresh(s)
    <2> DEFINE b == Filled(s)
    <2>1. /\ b \in Manager!GroupState /\ b # Manager!NoGroup
          /\ b.sent = Manager!Received(b) \cap Manager!DataIdx
          /\ Manager!Received(b) # {} /\ Cardinality(Manager!Received(b)) \in Nat
      BY FilledFacts, NotNoGroup, ReceivedFinite
    <2>2. After(s) = IF Manager!Missing(b) = {} \/ Manager!Enough(b) THEN Manager!NoGroup ELSE b
      BY <1>2 DEF After, Manager!Kept
    <2> HIDE DEF b
    <2>3. Manager!Missing(b) = {} <=> Manager!DataIdx \subseteq Manager!Received(b)
      BY <2>1 DEF Manager!Missing
    <2>4. Manager!Enough(b) <=> Cardinality(Manager!Received(b)) >= K
      BY SameCardinality DEF Manager!Enough
    <2>5. Sound(b) \/ Cardinality(Manager!Received(b)) >= K
      BY <2>1, Constants DEF Sound
    <2> QED BY <1>2, <2>1, <2>2, <2>3, <2>4, <2>5 DEF b
  <1>3. CASE ~Fresh(s)
    <2>1. Manager!Received(Holder(s)) # {} /\ After(s) = Holder(s)
      BY <1>3 DEF Fresh, After
    <2>2. Holder(s) = groups[GroupNum(s)] /\ groups[GroupNum(s)] # Manager!NoGroup
      BY <1>1, <2>1, HolderFacts, NewGroupFacts
    <2> QED BY <1>1, <1>3, <2>1, <2>2 DEF GroupsInv
  <1> QED BY <1>2, <1>3

LEMMA ProcessIs ==
  ASSUME SlotsOK, enabled, NEW s \in Slots, NEW refused, Manager!Process(FrameOf(s), refused)
  PROVE  /\ enabled' = enabled
         /\ groups' = [groups EXCEPT ![GroupNum(s)] = After(s)]
         /\ ~Fresh(s) => forwarded' = forwarded
         /\ Fresh(s) => \E dropped \in SUBSET Manager!Garbage(Out(s)) :
                          forwarded' = forwarded \cup ((Out(s) \ dropped) \ refused)
  <1>1. /\ FrameOf(s).index = Index(s) /\ FrameOf(s).group = GroupNum(s)
        /\ Manager!Valid(FrameOf(s))
    BY FrameFacts
  <1>2. /\ enabled' = enabled
        /\ IF Fresh(s)
           THEN /\ Manager!Store(GroupNum(s), Manager!Kept(Filled(s)))
                /\ Manager!Forward(Out(s), refused)
           ELSE Manager!Store(GroupNum(s), Holder(s)) /\ UNCHANGED forwarded
    BY <1>1 DEF Manager!Process, Fresh, Holder, Filled, Out
  <1>3. CASE Fresh(s)
    BY <1>2, <1>3 DEF Manager!Store, Manager!Forward, After
  <1>4. CASE ~Fresh(s)
    BY <1>2, <1>4 DEF Manager!Store, After
  <1> QED BY <1>2, <1>3, <1>4
-----------------------------------------------------------------------------
(* The shape of the state.                                                   *)
Shape ==
  /\ TypeOK /\ SlotsOK /\ GroupsInv /\ enabled
  /\ \A s \in onWire : s < nextSlot

(* A slot that has been used keeps its place, whoever registers.             *)
LEMMA PlaceKept ==
  ASSUME SlotsOK, starts' = starts \/ starts' = Append(starts, nextSlot),
         NEW s \in Slots, starts' = starts \/ s < nextSlot
  PROVE  /\ SessionOf(s)' = SessionOf(s) /\ Place(s)' = Place(s) /\ Index(s)' = Index(s)
         /\ Generation(s)' = Generation(s) /\ GroupNum(s)' = GroupNum(s)
         /\ FrameOf(s)' = FrameOf(s) /\ PacketOf(s)' = PacketOf(s)
  <1>1. {e \in DOMAIN starts' : starts'[e] <= s} = {e \in DOMAIN starts : starts[e] <= s}
        /\ \A e \in DOMAIN starts : starts'[e] = starts[e]
    <2>1. CASE starts' = starts
      BY <2>1
    <2>2. CASE starts' = Append(starts, nextSlot) /\ s < nextSlot
      <3>1. starts \in Seq(Nat) /\ Len(starts) \in Nat /\ nextSlot \in Nat
        BY DEF SlotsOK
      <3>2. DOMAIN starts' = DOMAIN starts \cup {Len(starts) + 1}
            /\ starts'[Len(starts) + 1] = nextSlot
            /\ \A e \in DOMAIN starts : starts'[e] = starts[e]
        BY <2>2, <3>1
      <3> QED BY <2>2, <3>1, <3>2, Constants DEF Slots
    <2> QED BY <2>1, <2>2
  <1>2. SessionOf(s)' = SessionOf(s)
    BY <1>1 DEF SessionOf
  <1>3. SessionOf(s) \in DOMAIN starts
    BY SlotFacts DEF SlotsOK, SessionIs
  <1>4. Place(s)' = Place(s)
    BY <1>1, <1>2, <1>3 DEF Place
  <1>5. Generation(s)' = Generation(s) /\ GroupNum(s)' = GroupNum(s) /\ Index(s)' = Index(s)
    BY <1>2, <1>4 DEF Generation, GroupNum, Index
  <1> QED BY <1>2, <1>4, <1>5 DEF FrameOf, PacketOf, Index

LEMMA SlotsStep ==
  ASSUME Shape, [Next]_vars
  PROVE  SlotsOK' /\ nextSlot' \in 0..MaxSlots
  <1>1. starts \in Seq(Nat) /\ Len(starts) \in 1..MaxSessions /\ nextSlot \in 0..MaxSlots
    BY DEF Shape, TypeOK, SlotsOK
  <1>2. CASE starts' = starts /\ nextSlot' = nextSlot
    BY <1>1, <1>2 DEF Shape, SlotsOK, SessionIs
  <1>3. CASE Send
    <2>1. starts' = starts /\ nextSlot' = nextSlot + 1 /\ nextSlot \in Slots
      BY <1>3 DEF Send, Offer
    <2>2. nextSlot' \in 0..MaxSlots /\ nextSlot' \in Nat
      BY <1>1, <2>1, Constants DEF Slots
    <2>3. \A e \in 1..Len(starts) : starts[e] <= nextSlot'
      BY <1>1, <2>1, Constants DEF Shape, SlotsOK
    <2> QED BY <1>1, <2>1, <2>2, <2>3 DEF Shape, SlotsOK, SessionIs
  <1>4. CASE Register
    <2>1. /\ starts' = Append(starts, nextSlot) /\ nextSlot' = nextSlot
          /\ Len(starts) < MaxSessions
      BY <1>4 DEF Register, streamVars
    <2> DEFINE l == Len(starts)
    <2>2. /\ l \in Nat /\ nextSlot \in Nat /\ starts' \in Seq(Nat) /\ Len(starts') = l + 1
          /\ starts'[l + 1] = nextSlot /\ \A e \in 1..l : starts'[e] = starts[e]
      BY <1>1, <2>1, Constants
    <2> HIDE DEF l
    <2>3. \A e \in 1..(l + 1) : starts'[e] <= nextSlot
      <3>1. \A e \in 1..l : starts[e] <= nextSlot
        BY DEF Shape, SlotsOK, l
      <3>2. ASSUME NEW e \in 1..(l + 1)
            PROVE  starts'[e] <= nextSlot
        <4>1. CASE e \in 1..l
          BY <2>2, <3>1, <4>1
        <4>2. CASE e = l + 1
          BY <2>2, <4>2
        <4> QED BY <2>2, <4>1, <4>2
      <3> QED BY <3>2
    <2>4. ASSUME NEW s \in Slots
          PROVE  \E e \in 1..(l + 1) : SessionIs(s, e)'
      <3>1. CASE nextSlot <= s
        <4>1. ASSUME NEW e, e = l + 1
              PROVE  SessionIs(s, e)'
          BY <4>1, <2>2, <3>1 DEF SessionIs
        <4> QED BY <2>2, <4>1
      <3>2. CASE ~(nextSlot <= s)
        <4>1. PICK e \in 1..l : SessionIs(s, e)
          BY DEF Shape, SlotsOK, l
        <4>2. SessionIs(s, e)'
          <5>1. /\ e \in 1..l /\ starts[e] <= s
                /\ \A f \in 1..l : starts[f] <= s => f <= e
            BY <4>1 DEF SessionIs, l
          <5>2. ASSUME NEW f \in 1..(l + 1), starts'[f] <= s
                PROVE  f <= e
            <6>1. f # l + 1
              BY <5>2, <2>2, <3>2
            <6>2. f \in 1..l
              BY <6>1, <2>2
            <6> QED BY <6>2, <5>1, <5>2, <2>2
          <5>3. e \in 1..(l + 1) /\ starts'[e] <= s
            BY <5>1, <2>2
          <5> QED BY <5>2, <5>3, <2>2 DEF SessionIs
        <4>3. e \in 1..(l + 1)
          BY <2>2
        <4> QED BY <4>2, <4>3
      <3> QED BY <3>1, <3>2
    <2>5. l + 1 \in 1..MaxSessions
      BY <1>1, <2>1, <2>2, Constants DEF l
    <2> QED BY <1>1, <2>1, <2>2, <2>3, <2>4, <2>5 DEF SlotsOK
  <1> QED BY <1>2, <1>3, <1>4
          DEF Next, vars, senderVars, streamVars, PublishKey, InstallManager, NewManager,
              Deliver, CleanUpTimeouts, Tick

(* What a delivery does to the manager.                                      *)
LEMMA DeliverIs ==
  ASSUME Shape, NEW d, Deliver(d)
  PROVE  /\ d.slot \in Slots /\ d.slot < nextSlot /\ d.slot \in onWire /\ d \in network
         /\ d.age \in 0..MaxDelay
         /\ enabled' = enabled
         /\ installed = 0 => groups' = groups
         /\ installed # 0 =>
              /\ groups' = [groups EXCEPT ![GroupNum(d.slot)] = After(d.slot)]
              /\ UNCHANGED undecrypted
              /\ ~Fresh(d.slot) => forwarded' = forwarded
              /\ Fresh(d.slot) => \E dropped \in SUBSET Manager!Garbage(Out(d.slot)) :
                   forwarded' = forwarded \cup ((Out(d.slot) \ dropped) \ Refused)
  <1>1. d \in network /\ d \in [slot : onWire, age : 0..MaxDelay]
    BY DEF Deliver, Shape, TypeOK
  <1>2. d.slot \in onWire /\ d.age \in 0..MaxDelay /\ d.slot \in Slots /\ d.slot < nextSlot
    BY <1>1 DEF Shape, TypeOK
  <1>3. CASE installed = 0
    BY <1>1, <1>2, <1>3 DEF Deliver, NoManager
  <1>4. CASE installed # 0
    <2>1. Manager!Process(FrameOf(d.slot), Refused) /\ UNCHANGED undecrypted
      BY <1>4 DEF Deliver
    <2> QED BY <1>1, <1>2, <1>4, <2>1, ProcessIs DEF Shape
  <1> QED BY <1>3, <1>4

(* A group grows older, and nothing else of it changes.                      *)
LEMMA OlderFacts ==
  ASSUME NEW g, g \in Manager!GroupState \cup {Manager!NoGroup}
  PROVE  /\ g = Manager!NoGroup => Manager!Older(g) = Manager!NoGroup
         /\ g # Manager!NoGroup =>
              /\ Manager!Older(g) \in Manager!GroupState
              /\ Manager!Older(g).packets = g.packets /\ Manager!Older(g).sent = g.sent
              /\ Manager!Older(g).age = IF Manager!Stale(g) THEN g.age ELSE g.age + 1
              /\ Manager!Received(Manager!Older(g)) = Manager!Received(g)
  <1>1. CASE g = Manager!NoGroup \/ Manager!Stale(g)
    BY <1>1 DEF Manager!Older
  <1>2. CASE g # Manager!NoGroup /\ ~Manager!Stale(g)
    <2>1. Manager!Older(g) = [g EXCEPT !.age = g.age + 1]
      BY <1>2 DEF Manager!Older
    <2>2. g.age + 1 \in 0..(GroupTimeout + 1) /\ g \in Manager!GroupState
      BY <1>2, Constants DEF Manager!GroupState, Manager!Stale
    <2>3. Manager!Older(g) \in Manager!GroupState /\ Manager!Older(g).packets = g.packets
          /\ Manager!Older(g).sent = g.sent /\ Manager!Older(g).age = g.age + 1
      BY <2>1, <2>2 DEF Manager!GroupState
    <2> QED BY <1>2, <2>3 DEF Manager!Received
  <1> QED BY <1>1, <1>2

(* What a step can do to a group.                                            *)
LEMMA GroupsStep ==
  ASSUME Shape, [Next]_vars
  PROVE  GroupsInv' /\ enabled'
  <1>0. GroupsInv /\ enabled /\ SlotsOK
    BY DEF Shape
  <1>1. CASE groups' = groups /\ enabled' = enabled
    BY <1>0, <1>1 DEF GroupsInv, Sound
  <1>2. CASE InstallManager
    BY <1>0, <1>2 DEF InstallManager, NewManager, GroupsInv
  <1>3. ASSUME NEW d, Deliver(d)
        PROVE  GroupsInv' /\ enabled'
    <2>1. CASE installed = 0
      <3>1. groups' = groups /\ enabled' = enabled
        BY <1>3, <2>1, DeliverIs
      <3> QED BY <1>1, <3>1
    <2>2. CASE installed # 0
      <3> DEFINE n == GroupNum(d.slot)
                 a == After(d.slot)
      <3>1. groups' = [groups EXCEPT ![n] = a] /\ enabled' = enabled
        BY <1>3, <2>2, DeliverIs
      <3>2. d.slot \in Slots
        BY <1>3, DeliverIs
      <3>3. /\ a \in Manager!GroupState \cup {Manager!NoGroup}
            /\ a # Manager!NoGroup => Sound(a) /\ Manager!Received(a) # {}
        BY <1>0, <3>2, AfterFacts
      <3> HIDE DEF n, a
      <3> QED BY <1>0, <3>1, <3>3 DEF GroupsInv, Sound
    <2> QED BY <2>1, <2>2
  <1>4. CASE CleanUpTimeouts
    BY <1>0, <1>4 DEF CleanUpTimeouts, Manager!CleanUpTimeouts, GroupsInv, Sound
  <1>5. CASE Tick
    <2>1. groups' = [n \in GroupNums |-> Manager!Older(groups[n])] /\ enabled' = enabled
      BY <1>5 DEF Tick, Manager!Tick
    <2>2. ASSUME NEW n \in GroupNums
          PROVE  /\ Manager!Older(groups[n]) \in Manager!GroupState \cup {Manager!NoGroup}
                 /\ Manager!Older(groups[n]) # Manager!NoGroup =>
                      /\ Sound(Manager!Older(groups[n]))
                      /\ Manager!Received(Manager!Older(groups[n])) # {}
      <3>1. groups[n] \in Manager!GroupState \cup {Manager!NoGroup}
            /\ (groups[n] # Manager!NoGroup =>
                  Sound(groups[n]) /\ Manager!Received(groups[n]) # {})
        BY <1>0 DEF GroupsInv
      <3> QED BY <3>1, OlderFacts DEF Sound
    <2> QED BY <1>0, <2>1, <2>2 DEF GroupsInv, Sound
  <1> QED BY <1>1, <1>2, <1>3, <1>4, <1>5
          DEF Next, vars, managerVars, Send, Register, PublishKey, InstallManager, NewManager

(* What the manager releases.                                                *)
LEMMA OutType ==
  ASSUME SlotsOK, GroupsInv, NEW s \in Slots
  PROVE  /\ Out(s) \subseteq Manager!Packets /\ PacketOf(s) \in Manager!Packets
         /\ Manager!Passed(FrameOf(s)) \subseteq Manager!Packets
  <1>1. Index(s) \in 0..(N - 1) /\ Generation(s) \in Generations
    BY SlotFacts
  <1>2. PacketOf(s) \in Manager!Packets
    BY <1>1, Constants DEF PacketOf, Index, Manager!Packet, Manager!Packets, Manager!AnyIdx
  <1>3. Manager!Passed(FrameOf(s)) \subseteq Manager!Packets
    BY <1>2, FrameFacts
  <1>4. ASSUME NEW i \in Manager!Missing(Filled(s))
        PROVE  Manager!Rebuilt(Filled(s), i) \in Manager!Packets
    <2> DEFINE b == Filled(s)
               gens == {b.packets[j] : j \in Manager!Used(b)}
               q == IF Manager!Cardinality(gens) = 1 THEN CHOOSE x \in gens : TRUE ELSE None
    <2>1. \A j \in Manager!AllIdx : b.packets[j] \in Generations \cup {None}
      BY FilledFacts DEF Manager!GroupState
    <2>2. Manager!Used(b) \subseteq Manager!AllIdx
      BY DEF Manager!Used, Manager!Received
    <2>3. gens \subseteq Generations \cup {None}
      BY <2>1, <2>2
    <2>4. Manager!Cardinality(gens) = 1 => gens # {}
      BY SameCardinality, FS_EmptySet
    <2> HIDE DEF gens
    <2>5. q \in Generations \cup {None}
      BY <2>3, <2>4
    <2>6. Manager!Rebuilt(b, i) = Manager!Packet(q, i)
      BY DEF Manager!Rebuilt, gens
    <2>7. i \in Manager!AnyIdx
      BY Indices, Constants DEF Manager!Missing, Manager!AnyIdx
    <2> HIDE DEF q, b
    <2>8. Manager!Packet(q, i) \in Manager!Packets
      BY <2>5, <2>7 DEF Manager!Packet, Manager!Packets
    <2> QED BY <2>6, <2>8 DEF b
  <1>5. Manager!Recovered(Filled(s)) \subseteq Manager!Packets
    BY <1>4 DEF Manager!Recovered
  <1> QED BY <1>2, <1>3, <1>5 DEF Out

LEMMA ForwardedType ==
  ASSUME Shape, [Next]_vars
  PROVE  forwarded' \subseteq Manager!Packets
  <1>1. forwarded \subseteq Manager!Packets /\ SlotsOK /\ GroupsInv
    BY DEF Shape, TypeOK, Manager!TypeOK
  <1>2. CASE forwarded' = forwarded
    BY <1>1, <1>2
  <1>3. ASSUME NEW d, Deliver(d)
        PROVE  forwarded' \subseteq Manager!Packets
    <2> DEFINE s == d.slot
    <2>1. s \in Slots
      BY <1>3, DeliverIs
    <2>2. CASE installed # 0
      <3>1. Out(s) \subseteq Manager!Packets
        BY <1>1, <2>1, OutType
      <3>2. forwarded' = forwarded \/ \E x \in SUBSET Out(s) : forwarded' = forwarded \cup x
        BY <1>3, <2>2, DeliverIs
      <3> QED BY <1>1, <3>1, <3>2
    <2>3. CASE installed = 0
      <3>1. NoManager(FrameOf(s))
        BY <1>3, <2>3 DEF Deliver
      <3>2. Manager!Passed(FrameOf(s)) \subseteq Manager!Packets
        BY <1>1, <2>1, OutType
      <3>3. Undecrypted(FrameOf(s)) \subseteq Manager!Packets
        BY <3>2 DEF Undecrypted, Manager!Packets, Manager!Packet
      <3> QED BY <1>1, <3>1, <3>2, <3>3 DEF NoManager
    <2> QED BY <2>2, <2>3
  <1> QED BY <1>2, <1>3
          DEF Next, vars, managerVars, Send, Register, PublishKey, InstallManager, NewManager,
              CleanUpTimeouts, Manager!CleanUpTimeouts, Tick, Manager!Tick, Manager!history

LEMMA SettledFacts == Settled \in Nat /\ Settled = MaxDelay + GroupTimeout + 1
  BY Constants DEF Settled

LEMMA ShapeInit == Init => Shape
  <1> SUFFICES ASSUME Init PROVE Shape
    OBVIOUS
  <1>1. starts = <<0>> /\ nextSlot = 0
    BY DEF Init, StreamInit
  <1>2. SlotsOK
    <2>1. Len(starts) = 1 /\ starts[1] = 0 /\ starts \in Seq(Nat)
      BY <1>1
    <2>2. \A s \in Slots : SessionIs(s, 1)
      BY <2>1, Constants DEF SessionIs, Slots
    <2> QED BY <1>1, <2>1, <2>2, Constants DEF SlotsOK
  <1>3. Manager!Init
    BY DEF Init
  <1>4. GroupsInv
    BY <1>3 DEF GroupsInv, Manager!Init
  <1>5. Manager!TypeOK /\ enabled
    BY <1>3 DEF Manager!TypeOK, Manager!Init
  <1>6. TypeOK
    BY <1>1, <1>2, <1>5, SettledFacts, Constants, FECPathAssumption DEF Init, StreamInit, TypeOK, SlotsOK
  <1> QED BY <1>2, <1>4, <1>5, <1>6 DEF Shape, Init, StreamInit

LEMMA TypeStep ==
  ASSUME Shape, [Next]_vars
  PROVE  TypeOK' /\ \A s \in onWire' : s < nextSlot'
  <1>1. SlotsOK' /\ nextSlot' \in 0..MaxSlots /\ GroupsInv' /\ enabled'
        /\ forwarded' \subseteq Manager!Packets
    BY SlotsStep, GroupsStep, ForwardedType
  <1>2. Manager!TypeOK'
    <2>1. groups' \in [GroupNums -> Manager!GroupState \cup {Manager!NoGroup}]
      BY <1>1 DEF GroupsInv
    <2> QED BY <1>1, <2>1 DEF Manager!TypeOK
  <1>3. /\ encrypted' \in EncryptionModes
        /\ Len(starts') \in 1..MaxSessions
        /\ key' \in 0..Len(starts') /\ installed' \in 0..key'
    <2>1. /\ encrypted \in EncryptionModes /\ Len(starts) \in 1..MaxSessions
          /\ key \in 0..Len(starts) /\ installed \in 0..key /\ starts \in Seq(Nat)
      BY DEF Shape, TypeOK, SlotsOK
    <2>2. Len(starts') \in 1..MaxSessions
      BY <1>1 DEF SlotsOK
    <2>3. encrypted' = encrypted
      BY DEF Next, vars, Send, Register, PublishKey, InstallManager, NewManager, Deliver,
             CleanUpTimeouts, Tick
    <2>4. CASE Register
      <3>1. starts' = Append(starts, nextSlot) /\ key' = key /\ installed' = installed
            /\ nextSlot \in Nat
        BY <2>4 DEF Register, Shape, SlotsOK
      <3>2. Len(starts') = Len(starts) + 1
        BY <2>1, <3>1
      <3> QED BY <2>1, <2>2, <2>3, <3>1, <3>2, Constants
    <2>5. CASE PublishKey \/ InstallManager
      BY <2>1, <2>2, <2>3, <2>5, Constants
         DEF PublishKey, InstallManager, NewManager, senderVars
    <2>6. CASE starts' = starts /\ key' = key /\ installed' = installed
      BY <2>1, <2>3, <2>6
    <2> QED BY <2>4, <2>5, <2>6
            DEF Next, vars, senderVars, Send, Deliver, CleanUpTimeouts, Tick
  <1>4. /\ onWire' \subseteq Slots /\ late' \subseteq received' /\ received' \subseteq onWire'
        /\ \A s \in onWire' : s < nextSlot'
    <2>1. /\ onWire \subseteq Slots /\ late \subseteq received /\ received \subseteq onWire
          /\ nextSlot \in Nat /\ \A s \in onWire : s < nextSlot
      BY DEF Shape, TypeOK, SlotsOK
    <2>2. CASE Send
      <3>1. /\ onWire' \in {onWire, onWire \cup {nextSlot}} /\ nextSlot \in Slots
            /\ nextSlot' = nextSlot + 1 /\ late' = late /\ received' = received
        BY <2>2 DEF Send, Offer, history
      <3> QED BY <2>1, <3>1, Constants DEF Slots
    <2>3. ASSUME NEW d, Deliver(d)
          PROVE  /\ onWire' = onWire /\ nextSlot' = nextSlot
                 /\ late' \subseteq received' /\ received' \subseteq onWire
      <3>1. onWire' = onWire /\ nextSlot' = nextSlot /\ Recorded(d.slot)
        BY <2>3 DEF Deliver, senderVars, streamVars
      <3>2. d.slot \in onWire
        BY <2>3, DeliverIs
      <3> QED BY <2>1, <3>1, <3>2 DEF Recorded
    <2>4. CASE InstallManager
      BY <2>1, <2>4 DEF InstallManager, NewManager, senderVars, streamVars
    <2>5. CASE UNCHANGED <<onWire, nextSlot, late, received>>
      BY <2>1, <2>5
    <2> QED BY <2>1, <2>2, <2>3, <2>4, <2>5
            DEF Next, vars, senderVars, streamVars, history, Register, PublishKey,
                CleanUpTimeouts, Tick
  <1>5. network' \subseteq [slot : onWire', age : 0..MaxDelay] /\ repeats' \in 0..MaxRepeats
    <2>1. /\ network \subseteq [slot : onWire, age : 0..MaxDelay] /\ repeats \in 0..MaxRepeats
          /\ MaxRepeats \in Nat /\ MaxDelay \in Nat
      BY Constants, FECPathAssumption DEF Shape, TypeOK
    <2>2. CASE Send
      BY <2>1, <2>2 DEF Send, Offer
    <2>3. ASSUME NEW d, Deliver(d)
          PROVE  network' \subseteq [slot : onWire', age : 0..MaxDelay]
                 /\ repeats' \in 0..MaxRepeats
      BY <2>1, <2>3 DEF Deliver, senderVars, streamVars
    <2>4. CASE Tick
      <3>1. /\ \A d \in network : d.age < MaxDelay
            /\ network' = {[d EXCEPT !.age = d.age + 1] : d \in network}
            /\ onWire' = onWire /\ repeats' = repeats
        BY <2>4 DEF Tick, streamVars
      <3>2. ASSUME NEW d \in network
            PROVE  [d EXCEPT !.age = d.age + 1] \in [slot : onWire, age : 0..MaxDelay]
        <4>1. d \in [slot : onWire, age : 0..MaxDelay] /\ d.age < MaxDelay
          BY <2>1, <3>1
        <4>2. d.age + 1 \in 0..MaxDelay
          BY <2>1, <4>1
        <4> QED BY <4>1, <4>2
      <3> QED BY <2>1, <3>1, <3>2
    <2>5. CASE UNCHANGED <<onWire, network, repeats>>
      BY <2>1, <2>5
    <2> QED BY <2>2, <2>3, <2>4, <2>5
            DEF Next, vars, senderVars, streamVars, networkVars, Register, PublishKey,
                InstallManager, NewManager, CleanUpTimeouts
  <1>6. quiet' \in [GroupNums -> 0..Settled]
    <2>1. quiet \in [GroupNums -> 0..Settled]
      BY DEF Shape, TypeOK
    <2>2. CASE Send
      <3>1. quiet' = [quiet EXCEPT ![GroupNum(nextSlot)] = 0] /\ 0 \in 0..Settled
        BY <2>2, SettledFacts DEF Send
      <3> QED BY <2>1, <3>1
    <2>3. CASE Register
      BY <2>1, <2>3, SettledFacts DEF Register
    <2>4. CASE Tick
      <3>1. \A n \in GroupNums : Min({quiet[n] + 1, Settled}) \in 0..Settled
        BY <2>1, MinOf, SettledFacts
      <3> QED BY <2>4, <3>1 DEF Tick
    <2> QED BY <2>1, <2>2, <2>3, <2>4
            DEF Next, vars, senderVars, PublishKey, InstallManager, NewManager, Deliver,
                CleanUpTimeouts
  <1>7. since' \in [GroupNums -> 0..(GroupTimeout + 1)]
    <2>1. since \in [GroupNums -> 0..(GroupTimeout + 1)] /\ GroupTimeout + 1 \in Nat
      BY Constants DEF Shape, TypeOK
    <2>2. ASSUME NEW d, Deliver(d)
          PROVE  since' \in [GroupNums -> 0..(GroupTimeout + 1)]
      <3>1. since' = since \/ since' = [since EXCEPT ![GroupNum(d.slot)] = 0]
        BY <2>2, Zenon DEF Deliver, Recorded
      <3>2. 0 \in 0..(GroupTimeout + 1)
        BY <2>1
      <3> QED BY <2>1, <3>1, <3>2
    <2>3. CASE InstallManager
      BY <2>1, <2>3 DEF InstallManager, NewManager
    <2>4. CASE Tick
      <3>1. \A n \in GroupNums :
              Min({since[n] + 1, GroupTimeout + 1}) \in 0..(GroupTimeout + 1)
        BY <2>1, MinOf
      <3> QED BY <2>4, <3>1 DEF Tick
    <2> QED BY <2>1, <2>2, <2>3, <2>4
            DEF Next, vars, history, Send, Register, PublishKey, CleanUpTimeouts
  <1> QED BY <1>1, <1>2, <1>3, <1>4, <1>5, <1>6, <1>7 DEF TypeOK

LEMMA ShapeStep == Shape /\ [Next]_vars => Shape'
  BY SlotsStep, GroupsStep, TypeStep DEF Shape

LEMMA ShapeHolds == Spec => []Shape
  BY ShapeInit, ShapeStep, PTL DEF Spec

(* The state has its shape: the receiver is never ahead of the sender, nor   *)
(* its manager of its key, and what it has received was on the wire.         *)
THEOREM TypeCorrect == Spec => []TypeOK
  <1>1. Shape => TypeOK
    BY DEF Shape
  <1> QED BY <1>1, ShapeHolds, PTL

-----------------------------------------------------------------------------
(* Time.  A frame on its way, and a shard in a group that is not stale, are  *)
(* of the newest generation of their session with their group number; if the *)
(* session is the newest, the number has not been quiet for longer than they *)
(* are old, so a paced sender cannot use it again.                           *)
Live(n) == groups[n] # Manager!NoGroup /\ ~Manager!Stale(groups[n])

Related(s, t) == SessionOf(s) = SessionOf(t)

Latest(t) ==
  \A u \in Slots :
    t <= u /\ u < nextSlot /\ Related(t, u) /\ GroupNum(u) = GroupNum(t)
      => Generation(u) = Generation(t)

Concerns(t) == SessionOf(t) = Len(starts)

Timed(t, age) == Latest(t) /\ (Concerns(t) => quiet[GroupNum(t)] <= age)

(* Shard i of group n is what slot t carried.                                *)
IsShard(n, i, t) ==
  /\ t < nextSlot
  /\ GroupNum(t) = n /\ Index(t) = i /\ Generation(t) = groups[n].packets[i]
  /\ Paced /\ Live(n) => Timed(t, groups[n].age + MaxDelay)

ShardsInv ==
  \A n \in GroupNums : groups[n] # Manager!NoGroup =>
    \A i \in Manager!Received(groups[n]) : \E t \in Slots : IsShard(n, i, t)

NetInv == Paced => \A d \in network : Timed(d.slot, d.age)

LEMMA SenderStep ==
  ASSUME Shape, [Next]_vars
  PROVE  /\ encrypted' = encrypted
         /\ \/ Send /\ starts' = starts /\ nextSlot' = nextSlot + 1
            \/ Register /\ starts' = Append(starts, nextSlot) /\ nextSlot' = nextSlot
            \/ Tick /\ starts' = starts /\ nextSlot' = nextSlot
            \/ UNCHANGED senderVars
  BY DEF Next, vars, senderVars, streamVars, Send, Offer, Register, PublishKey,
         InstallManager, NewManager, Deliver, CleanUpTimeouts, Tick

LEMMA PastKept ==
  ASSUME Shape, [Next]_vars, NEW s \in Slots, s < nextSlot
  PROVE  /\ SessionOf(s)' = SessionOf(s) /\ Place(s)' = Place(s) /\ Index(s)' = Index(s)
         /\ Generation(s)' = Generation(s) /\ GroupNum(s)' = GroupNum(s)
         /\ FrameOf(s)' = FrameOf(s) /\ PacketOf(s)' = PacketOf(s)
         /\ s < nextSlot'
  <1>1. starts' = starts \/ starts' = Append(starts, nextSlot)
    BY SenderStep DEF senderVars
  <1>2. s < nextSlot'
    BY SenderStep, Constants DEF senderVars, streamVars, Shape, SlotsOK, Slots
  <1> QED BY <1>1, <1>2, PlaceKept DEF Shape

(* The newest session has the next slot.                                     *)
LEMMA NextSession ==
  ASSUME SlotsOK, nextSlot \in Slots
  PROVE  SessionOf(nextSlot) = Len(starts)
  <1>1. SessionIs(nextSlot, SessionOf(nextSlot))
    BY SlotFacts
  <1> QED BY <1>1 DEF SlotsOK, SessionIs

(* Two frames of a session that are current with one number are of one       *)
(* generation.                                                               *)
LEMMA BothLatest ==
  ASSUME NEW s \in Slots, NEW t \in Slots, s < nextSlot, t < nextSlot, Latest(s), Latest(t),
         SessionOf(s) = SessionOf(t), GroupNum(s) = GroupNum(t)
  PROVE  Generation(s) = Generation(t)
  <1>1. s <= t \/ t <= s
    BY Constants DEF Slots
  <1> QED BY <1>1 DEF Latest, Related

LEMMA LatestKept ==
  ASSUME Shape, [Next]_vars, nextSlot' = nextSlot, NEW t \in Slots, t < nextSlot, Latest(t)
  PROVE  Latest(t)'
  <1>1. encrypted' = encrypted
    BY SenderStep
  <1>2. \A u \in Slots : u < nextSlot => /\ SessionOf(u)' = SessionOf(u)
                                        /\ Generation(u)' = Generation(u)
                                        /\ GroupNum(u)' = GroupNum(u)
    BY PastKept
  <1> QED BY <1>1, <1>2 DEF Latest, Related

LEMMA LatestSent ==
  ASSUME Shape, Send, Paced, NEW t \in Slots, t < nextSlot, NEW age \in Nat, age < Settled,
         Timed(t, age)
  PROVE  Latest(t)'
  <1>0. SlotsOK /\ starts' = starts /\ encrypted' = encrypted /\ nextSlot' = nextSlot + 1
        /\ nextSlot \in Slots /\ nextSlot \in Nat /\ SlotsOK
    BY Constants DEF Shape, Send, Offer, Slots
  <1>1. \A u \in Slots : /\ SessionOf(u)' = SessionOf(u)
                         /\ Generation(u)' = Generation(u)
                         /\ GroupNum(u)' = GroupNum(u)
    BY <1>0, PlaceKept
  <1> SUFFICES ASSUME NEW u \in Slots, t <= u, u < nextSlot + 1, Related(t, u),
                      GroupNum(u) = GroupNum(t)
               PROVE  Generation(u) = Generation(t)
    BY <1>0, <1>1 DEF Latest, Related
  <1>2. CASE u < nextSlot
    BY <1>2 DEF Timed, Latest
  <1>3. CASE u = nextSlot
    <2>1. Concerns(t)
      BY <1>0, <1>3, NextSession DEF Related, Concerns
    <2>2. quiet[GroupNum(t)] <= age /\ GroupNum(t) \in GroupNums
          /\ quiet \in [GroupNums -> 0..Settled]
      BY <1>0, <2>1, SlotFacts DEF Timed, Shape, TypeOK
    <2>3. quiet[GroupNum(u)] # Settled
      BY <2>2, SettledFacts
    <2>4. Index(u) # 0
      BY <1>3, <2>3 DEF Send, MaySend, Index
    <2>5. Index(u) \in 0..(N - 1)
      BY <1>0, SlotFacts
    <2>6. 1 \in 0..Index(u)
      BY <2>4, <2>5, Constants
    <2> DEFINE v == u - 1
    <2>7. /\ v \in Slots /\ SessionOf(v) = SessionOf(u) /\ Generation(v) = Generation(u)
          /\ GroupNum(v) = GroupNum(u)
      BY <1>0, <2>6, Siblings
    <2>8. v < nextSlot /\ t <= v
      BY <1>0, <1>3, Constants DEF Slots
    <2> HIDE DEF v
    <2>9. Related(t, v)
      BY <2>7 DEF Related
    <2>10. Generation(v) = Generation(t)
      BY <2>7, <2>8, <2>9 DEF Timed, Latest
    <2> QED BY <2>7, <2>10
  <1>4. u \in Nat
    BY Constants DEF Slots
  <1> QED BY <1>0, <1>2, <1>3, <1>4

(* Every step keeps it; a tick adds one to every age.                        *)
LEMMA TimedStep ==
  ASSUME Shape, [Next]_vars, Paced, NEW t \in Slots, t < nextSlot,
         NEW age \in Nat, age < Settled, Timed(t, age)
  PROVE  /\ Tick => Timed(t, age + 1)'
         /\ ~Tick \/ UNCHANGED senderVars => Timed(t, age)'
  <1>1. /\ SessionOf(t)' = SessionOf(t) /\ GroupNum(t)' = GroupNum(t) /\ encrypted' = encrypted
        /\ GroupNum(t) \in GroupNums /\ quiet \in [GroupNums -> 0..Settled]
        /\ SessionOf(t) \in 1..Len(starts) /\ Len(starts) \in Nat
    <2>1. SlotsOK /\ quiet \in [GroupNums -> 0..Settled] /\ Len(starts) \in Nat
      BY Constants DEF Shape, TypeOK, SlotsOK
    <2>2. GroupNum(t) \in GroupNums /\ SessionIs(t, SessionOf(t))
      BY <2>1, SlotFacts
    <2>3. /\ SessionOf(t)' = SessionOf(t) /\ GroupNum(t)' = GroupNum(t)
          /\ encrypted' = encrypted
      BY PastKept, SenderStep
    <2> QED BY <2>1, <2>2, <2>3 DEF SessionIs
  <1>2. CASE Send
    <2>1. Latest(t)' /\ starts' = starts
      BY <1>2, LatestSent DEF Send
    <2>2. quiet' = [quiet EXCEPT ![GroupNum(nextSlot)] = 0]
      BY <1>2 DEF Send
    <2>3. Concerns(t)' => quiet'[GroupNum(t)] <= age
      BY <1>1, <2>1, <2>2 DEF Timed, Concerns
    <2>4. Timed(t, age)'
      BY <1>1, <2>1, <2>3 DEF Timed
    <2>5. ~Tick
      BY <1>2, Constants DEF Send, Offer, Tick, streamVars, Slots
    <2> QED BY <2>4, <2>5
  <1>3. CASE Register
    <2>1. starts' = Append(starts, nextSlot) /\ nextSlot' = nextSlot
      BY <1>3 DEF Register, streamVars
    <2>2. Latest(t)'
      BY <2>1, LatestKept DEF Timed
    <2>3. Len(starts') = Len(starts) + 1
      BY <2>1 DEF Shape, SlotsOK
    <2>4. Concerns(t)' => quiet'[GroupNum(t)] <= age
      BY <1>1, <2>1, <2>3 DEF Timed, Concerns
    <2>5. Timed(t, age)'
      BY <1>1, <2>2, <2>4 DEF Timed
    <2>6. ~Tick
      BY <1>1, <1>3, <2>3 DEF Tick
    <2> QED BY <2>5, <2>6
  <1>4. ASSUME Tick
        PROVE  Timed(t, age + 1)'
    <2>1. /\ starts' = starts /\ nextSlot' = nextSlot
          /\ quiet'[GroupNum(t)] = Min({quiet[GroupNum(t)] + 1, Settled})
      BY <1>1, <1>4 DEF Tick, streamVars
    <2>2. Latest(t)'
      BY <2>1, LatestKept DEF Timed
    <2>3. quiet[GroupNum(t)] <= age => quiet'[GroupNum(t)] <= age + 1
      BY <1>1, <2>1, MinOf, SettledFacts
    <2>4. Concerns(t)' => quiet'[GroupNum(t)] <= age + 1
      BY <1>1, <2>1, <2>3 DEF Timed, Concerns
    <2> QED BY <1>1, <2>2, <2>4 DEF Timed
  <1>5. ASSUME UNCHANGED senderVars
        PROVE  Timed(t, age)'
    <2>1. starts' = starts /\ nextSlot' = nextSlot /\ quiet' = quiet
      BY <1>5 DEF senderVars, streamVars
    <2>2. Latest(t)'
      BY <2>1, LatestKept DEF Timed
    <2>3. Concerns(t)' => quiet'[GroupNum(t)] <= age
      BY <1>1, <2>1 DEF Timed, Concerns
    <2> QED BY <1>1, <2>2, <2>3 DEF Timed
  <1> QED BY <1>2, <1>3, <1>4, <1>5, SenderStep

LEMMA TimedOlder ==
  ASSUME Shape, NEW t \in Slots, NEW a \in Nat, NEW b \in Nat, a <= b, Timed(t, a)
  PROVE  Timed(t, b)
  <1>1. GroupNum(t) \in GroupNums /\ quiet \in [GroupNums -> 0..Settled] /\ Settled \in Nat
    BY SlotFacts, SettledFacts DEF Shape, TypeOK
  <1> QED BY <1>1 DEF Timed

LEMMA NetStep ==
  ASSUME Shape, NetInv, [Next]_vars
  PROVE  NetInv'
  <1> SUFFICES ASSUME Paced, NEW e \in network'
               PROVE  Timed(e.slot, e.age)'
    BY DEF NetInv
  <1>0. MaxDelay \in Nat /\ \A a \in 0..MaxDelay : a \in Nat /\ a < Settled
    BY Constants, SettledFacts
  <1>1. ASSUME NEW d \in network
        PROVE  /\ d.slot \in Slots /\ d.slot < nextSlot /\ d.age \in 0..MaxDelay
               /\ Tick => Timed(d.slot, d.age + 1)'
               /\ ~Tick \/ UNCHANGED senderVars => Timed(d.slot, d.age)'
    <2>1. d.slot \in Slots /\ d.slot < nextSlot /\ d.age \in 0..MaxDelay
      BY DEF Shape, TypeOK
    <2>2. Timed(d.slot, d.age)
      BY DEF NetInv
    <2> HIDE DEF NetInv, Timed
    <2> QED BY <1>0, <2>1, <2>2, TimedStep
  <1>2. CASE Send
    <2>1. /\ network' = network \cup {[slot |-> s, age |-> 0] : s \in onWire' \ onWire}
          /\ onWire' \in {onWire, onWire \cup {nextSlot}} /\ nextSlot' = nextSlot + 1
          /\ starts' = starts /\ nextSlot \in Slots
          /\ quiet' = [quiet EXCEPT ![GroupNum(nextSlot)] = 0]
      BY <1>2 DEF Send, Offer
    <2>2. ~Tick
      BY <2>1, Constants DEF Tick, streamVars, Slots
    <2>3. CASE e \in network
      BY <1>1, <2>2, <2>3
    <2>4. CASE e \notin network
      <3>0. PICK s \in Slots : s = nextSlot
        BY <2>1
      <3>1. e.slot = s /\ e.age = 0
        BY <2>1, <2>4, <3>0
      <3>2. GroupNum(s)' = GroupNum(s) /\ GroupNum(s) \in GroupNums
        BY <2>1, SlotFacts, PlaceKept DEF Shape
      <3>3. quiet'[GroupNum(s)] = 0
        BY <2>1, <3>0, <3>2 DEF Shape, TypeOK
      <3>4. \A u \in Slots : s <= u /\ u < nextSlot' => u = s
        BY <2>1, <3>0, Constants DEF Slots
      <3>5. Timed(s, 0)'
        BY <3>2, <3>3, <3>4 DEF Timed, Latest
      <3> QED BY <3>1, <3>5
    <2> QED BY <2>3, <2>4
  <1>3. CASE Tick
    <2>1. PICK d \in network : e = [d EXCEPT !.age = d.age + 1]
      BY <1>3 DEF Tick
    <2>2. d \in [slot : onWire, age : 0..MaxDelay]
      BY DEF Shape, TypeOK
    <2>3. e.slot = d.slot /\ e.age = d.age + 1
      BY <2>1, <2>2
    <2> QED BY <1>1, <1>3, <2>3
  <1>4. CASE ~Tick /\ ~Send
    <2>1. e \in network
      BY <1>4 DEF Next, vars, networkVars, Register, PublishKey, InstallManager, NewManager,
             Deliver, CleanUpTimeouts
    <2> QED BY <1>1, <1>4, <2>1
  <1> QED BY <1>2, <1>3, <1>4

(* What a step leaves of a group that it keeps: it is as it was, but for its *)
(* age, or the delivered frame is added to it.                               *)
LEMMA GroupStep ==
  ASSUME Shape, [Next]_vars, NEW n \in GroupNums, groups'[n] # Manager!NoGroup,
         ~ \E d : Deliver(d) /\ installed # 0 /\ GroupNum(d.slot) = n /\ Fresh(d.slot)
  PROVE  /\ groups[n] # Manager!NoGroup /\ groups'[n].packets = groups[n].packets
         /\ Manager!Received(groups'[n]) = Manager!Received(groups[n])
         /\ groups'[n].age = IF Tick /\ ~Manager!Stale(groups[n])
                             THEN groups[n].age + 1 ELSE groups[n].age
  <1>0. SlotsOK /\ GroupsInv /\ groups[n] \in Manager!GroupState \cup {Manager!NoGroup}
    BY DEF Shape, GroupsInv
  <1>1. CASE groups'[n] = groups[n] /\ ~Tick
    BY <1>1
  <1>2. CASE Tick
    <2>1. groups'[n] = Manager!Older(groups[n])
      BY <1>2 DEF Tick, Manager!Tick
    <2> QED BY <1>0, <1>2, <2>1, OlderFacts
  <1>3. CASE InstallManager
    BY <1>3 DEF InstallManager
  <1>4. CASE CleanUpTimeouts
    <2>1. groups'[n] = groups[n]
      BY <1>4 DEF CleanUpTimeouts, Manager!CleanUpTimeouts
    <2> QED BY <1>1, <1>2, <2>1
  <1>5. ASSUME NEW d, Deliver(d), installed # 0
        PROVE  groups'[n] = groups[n]
    <2>1. /\ groups' = [groups EXCEPT ![GroupNum(d.slot)] = After(d.slot)]
          /\ d.slot \in Slots
      BY <1>5, DeliverIs
    <2>2. CASE GroupNum(d.slot) # n
      BY <1>0, <2>1, <2>2 DEF GroupsInv
    <2>3. CASE GroupNum(d.slot) = n
      <3>1. ~Fresh(d.slot)
        BY <1>5, <2>3
      <3> QED BY <1>0, <2>1, <2>3, <3>1, AfterFacts DEF GroupsInv
    <2> QED BY <2>2, <2>3
  <1>6. ASSUME NEW d, Deliver(d), installed = 0
        PROVE  groups'[n] = groups[n]
    BY <1>6, DeliverIs
  <1> QED BY <1>1, <1>2, <1>3, <1>4, <1>5, <1>6
          DEF Next, vars, managerVars, Send, Register, PublishKey

(* The group the delivered frame goes into: its other shards are those of    *)
(* the group that was there, if that is live.                                *)
LEMMA HolderShards ==
  ASSUME SlotsOK, GroupsInv, NEW s \in Slots, NEW i \in Manager!Received(Holder(s))
  PROVE  LET n == GroupNum(s)
         IN  Live(n) /\ Holder(s) = groups[n] /\ i \in Manager!Received(groups[n])
  <1>1. GroupNum(s) \in GroupNums
    BY SlotFacts
  <1>2. Holder(s) # Manager!NewGroup
    BY NewGroupFacts
  <1> QED BY <1>1, <1>2, HolderFacts DEF Live

LEMMA GroupFilled ==
  ASSUME Shape, NEW d, Deliver(d), installed # 0, Fresh(d.slot),
         groups'[GroupNum(d.slot)] # Manager!NoGroup
  PROVE  LET s == d.slot
             n == GroupNum(s)
         IN  /\ groups'[n] = Filled(s)
             /\ ~ Manager!DataIdx \subseteq Manager!Received(groups'[n])
             /\ Cardinality(Manager!Received(groups'[n])) < K
             /\ Manager!Received(groups'[n]) = Manager!Received(Holder(s)) \cup {Index(s)}
             /\ \A i \in Manager!AllIdx :
                  groups'[n].packets[i] =
                    IF i = Index(s) THEN Generation(s) ELSE Holder(s).packets[i]
             /\ groups'[n].age = Holder(s).age
             /\ groups'[n] \in Manager!GroupState /\ ~Manager!Stale(groups'[n])
  <1> DEFINE s == d.slot
             n == GroupNum(s)
  <1>1. SlotsOK /\ GroupsInv /\ s \in Slots /\ n \in GroupNums
    BY DeliverIs, SlotFacts DEF Shape
  <1>2. groups'[n] = After(s)
    <2>1. groups' = [groups EXCEPT ![n] = After(s)]
      BY DeliverIs
    <2> QED BY <1>1, <2>1 DEF GroupsInv
  <1>3. /\ After(s) = Filled(s) /\ ~(Manager!DataIdx \subseteq Manager!Received(Filled(s)))
        /\ ~(Cardinality(Manager!Received(Filled(s))) >= K)
    BY <1>1, <1>2, AfterFacts
  <1>4. Cardinality(Manager!Received(Filled(s))) < K
    BY <1>3, ReceivedFinite, Constants
  <1>5. ~Manager!Stale(Filled(s))
    BY <1>1, HolderFacts, FilledFacts DEF Manager!Stale
  <1> QED BY <1>1, <1>2, <1>3, <1>4, <1>5, FilledFacts

LEMMA ShardsStep ==
  ASSUME Shape, NetInv, ShardsInv, [Next]_vars
  PROVE  ShardsInv'
  <1> SUFFICES ASSUME NEW n \in GroupNums, groups'[n] # Manager!NoGroup,
                      NEW i \in Manager!Received(groups'[n])
               PROVE  \E t \in Slots : IsShard(n, i, t)'
    BY DEF ShardsInv
  <1>0. /\ SlotsOK /\ GroupsInv /\ i \in Manager!AllIdx /\ GroupTimeout \in Nat /\ MaxDelay \in Nat
        /\ groups'[n] \in Manager!GroupState
    <2>1. GroupsInv'
      BY GroupsStep
    <2> QED BY <2>1, Constants DEF Shape, Manager!Received, GroupsInv
  <1>1. ASSUME NEW t \in Slots, IsShard(n, i, t), Live(n),
               groups'[n].packets[i] = groups[n].packets[i],
               \/ Tick /\ groups'[n].age = groups[n].age + 1
               \/ (~Tick \/ UNCHANGED senderVars) /\ groups'[n].age = groups[n].age
        PROVE  IsShard(n, i, t)'
    <2>1. t < nextSlot' /\ GroupNum(t)' = n /\ Index(t)' = i
          /\ Generation(t)' = groups'[n].packets[i]
      BY <1>1, PastKept DEF IsShard
    <2>2. PICK a \in Nat : a = groups[n].age /\ a + MaxDelay < Settled
      BY <1>0, <1>1, SettledFacts DEF Live, Manager!Stale, Manager!GroupState, GroupsInv
    <2>3. Paced => Timed(t, a + MaxDelay)
      BY <1>1, <2>2 DEF IsShard
    <2>4. a + MaxDelay \in Nat
      BY <1>0, <2>2
    <2>5. Paced => /\ Tick => Timed(t, (a + MaxDelay) + 1)'
                   /\ ~Tick \/ UNCHANGED senderVars => Timed(t, a + MaxDelay)'
      BY <1>1, <2>2, <2>3, <2>4, TimedStep DEF IsShard
    <2>6. ASSUME Paced
          PROVE  Timed(t, groups[n].age + MaxDelay)'
      <3>1. CASE Tick /\ groups'[n].age = groups[n].age + 1
        <4>1. groups'[n].age + MaxDelay = (a + MaxDelay) + 1
          BY <1>0, <2>2, <3>1
        <4> QED BY <2>5, <2>6, <3>1, <4>1
      <3>2. CASE (~Tick \/ UNCHANGED senderVars) /\ groups'[n].age = groups[n].age
        BY <2>2, <2>5, <2>6, <3>2
      <3> QED BY <1>1, <3>1, <3>2
    <2> QED BY <2>1, <2>6 DEF IsShard
  <1>2. CASE ~ \E d : Deliver(d) /\ installed # 0 /\ GroupNum(d.slot) = n /\ Fresh(d.slot)
    <2>1. /\ groups[n] # Manager!NoGroup /\ groups'[n].packets = groups[n].packets
          /\ Manager!Received(groups'[n]) = Manager!Received(groups[n])
          /\ groups'[n].age = IF Tick /\ ~Manager!Stale(groups[n])
                              THEN groups[n].age + 1 ELSE groups[n].age
      BY <1>2, GroupStep
    <2>2. PICK t \in Slots : IsShard(n, i, t)
      BY <2>1 DEF ShardsInv
    <2>3. CASE Live(n)
      BY <1>1, <2>1, <2>2, <2>3 DEF Live
    <2>4. CASE ~Live(n)
      <3>1. ~Live(n)'
        BY <2>1, <2>4 DEF Live, Manager!Stale
      <3>2. t < nextSlot' /\ GroupNum(t)' = n /\ Index(t)' = i
            /\ Generation(t)' = groups'[n].packets[i]
        BY <2>1, <2>2, PastKept DEF IsShard
      <3> QED BY <3>1, <3>2 DEF IsShard
    <2> QED BY <2>3, <2>4
  <1>3. ASSUME NEW d, Deliver(d), installed # 0, GroupNum(d.slot) = n, Fresh(d.slot)
        PROVE  \E t \in Slots : IsShard(n, i, t)'
    <2>0. PICK s \in Slots, age \in 0..MaxDelay :
            s = d.slot /\ age = d.age /\ s < nextSlot /\ d \in network
      BY <1>3, DeliverIs
    <2>1. /\ Manager!Received(groups'[n]) = Manager!Received(Holder(s)) \cup {Index(s)}
          /\ groups'[n].packets[i] =
               IF i = Index(s) THEN Generation(s) ELSE Holder(s).packets[i]
          /\ groups'[n].age = Holder(s).age
      BY <1>0, <1>3, <2>0, GroupFilled
    <2>2. UNCHANGED senderVars
      BY <1>3 DEF Deliver
    <2>3. CASE i = Index(s)
      <3>1. PICK a \in Nat : a = groups'[n].age /\ a + MaxDelay < Settled
        BY <1>0, <1>3, <2>0, GroupFilled, SettledFacts DEF Manager!GroupState, Manager!Stale
      <3>2. Paced => Timed(s, age)
        BY <2>0 DEF NetInv
      <3>3. age \in Nat /\ a + MaxDelay \in Nat /\ age <= a + MaxDelay
        BY <1>0, <2>0, <3>1
      <3>4. Paced => Timed(s, a + MaxDelay)
        BY <3>2, <3>3, TimedOlder
      <3>5. Paced => Timed(s, a + MaxDelay)'
        BY <2>0, <2>2, <3>1, <3>3, <3>4, TimedStep
      <3>6. s < nextSlot' /\ GroupNum(s)' = n /\ Index(s)' = i
            /\ Generation(s)' = groups'[n].packets[i]
        BY <1>3, <2>0, <2>1, <2>3, PastKept
      <3> QED BY <3>1, <3>5, <3>6 DEF IsShard
    <2>4. CASE i # Index(s)
      <3>1. i \in Manager!Received(Holder(s))
        BY <2>1, <2>4
      <3>2. Live(n) /\ Holder(s) = groups[n] /\ i \in Manager!Received(groups[n])
        BY <1>0, <1>3, <2>0, <3>1, HolderShards
      <3>3. PICK t \in Slots : IsShard(n, i, t)
        BY <3>2 DEF ShardsInv, Live
      <3> QED BY <1>1, <2>1, <2>2, <2>4, <3>2, <3>3
    <2> QED BY <2>3, <2>4
  <1> QED BY <1>2, <1>3

-----------------------------------------------------------------------------
(* What is rebuilt is what was lost.                                         *)

(* The shards the delivered frame joins, and itself.                         *)
LEMMA FilledShards ==
  ASSUME Shape, ShardsInv, NetInv, NEW d \in network, NEW s \in Slots, s = d.slot,
         s < nextSlot, Fresh(s), NEW j \in Manager!Received(Filled(s))
  PROVE  \E t \in Slots :
           /\ t < nextSlot /\ GroupNum(t) = GroupNum(s) /\ Index(t) = j
           /\ Generation(t) = Filled(s).packets[j]
           /\ Paced => Latest(t)
  <1>1. SlotsOK /\ GroupsInv /\ j \in Manager!AllIdx
    BY DEF Shape, Manager!Received
  <1>2. /\ Manager!Received(Filled(s)) = Manager!Received(Holder(s)) \cup {Index(s)}
        /\ Filled(s).packets[j] = IF j = Index(s) THEN Generation(s) ELSE Holder(s).packets[j]
    BY <1>1, FilledFacts
  <1>3. CASE j = Index(s)
    BY <1>2, <1>3 DEF NetInv, Timed
  <1>4. CASE j # Index(s)
    <2>1. /\ Live(GroupNum(s)) /\ Holder(s) = groups[GroupNum(s)]
          /\ j \in Manager!Received(groups[GroupNum(s)])
      BY <1>1, <1>2, <1>4, HolderShards
    <2>2. PICK t \in Slots : IsShard(GroupNum(s), j, t)
      BY <1>1, <2>1, SlotFacts DEF ShardsInv, Live
    <2> QED BY <1>2, <1>4, <2>1, <2>2 DEF IsShard, Timed
  <1> QED BY <1>3, <1>4

(* When there are enough, there are K of them, and all are used.             *)
LEMMA AllUsed ==
  ASSUME SlotsOK, GroupsInv, NEW s \in Slots, Manager!Enough(Filled(s))
  PROVE  LET b == Filled(s)
         IN  /\ Cardinality(Manager!Received(b)) = K
             /\ Manager!Used(b) = Manager!Received(b)
  <1> DEFINE b == Filled(s)
             R == Manager!Received(b)
             H == Manager!Received(Holder(s))
  <1>1. R = H \cup {Index(s)} /\ IsFiniteSet(H) /\ IsFiniteSet(R) /\ GroupNum(s) \in GroupNums
    BY FilledFacts, ReceivedFinite, SlotFacts
  <1>2. Cardinality(H) < K /\ Cardinality(H) \in Nat
    BY <1>1, HolderFacts, ReceivedFinite DEF Sound
  <1>3. Cardinality(R) <= Cardinality(H) + 1
    <2> HIDE DEF H, R
    <2> QED BY <1>1, <1>2, FS_AddElement
  <1>4. Cardinality(R) >= K /\ Cardinality(R) \in Nat
    BY SameCardinality, ReceivedFinite DEF Manager!Enough
  <1>5. Cardinality(R) = K
    BY <1>2, <1>3, <1>4, Constants
  <1>6. ASSUME NEW i \in R
        PROVE  Cardinality({j \in R : j < i}) < K
    <2> DEFINE L == {j \in R : j < i}
    <2>1. L \subseteq R /\ i \notin L
      <3>1. i \in Int
        BY Indices, Constants DEF Manager!Received
      <3> QED BY <3>1
    <2> HIDE DEF L, R
    <2>2. L \subseteq R /\ L # R
      BY <2>1
    <2>3. Cardinality(L) <= K /\ Cardinality(L) # K /\ Cardinality(L) \in Nat
      BY <1>1, <1>5, <2>2, FS_Subset, FS_CardinalityType
    <2>4. Cardinality(L) < K
      BY <2>3, Constants
    <2> QED BY <2>4 DEF L
  <1>7. Manager!Used(b) = R
    BY <1>6, SameCardinality DEF Manager!Used
  <1> QED BY <1>5, <1>7

(* The manager has only shards of its own session, except where frames of    *)
(* another have come.                                                        *)
HomeInv ==
  installed # 0 => \A n \in GroupNums : groups[n] # Manager!NoGroup =>
    \A i \in Manager!Received(groups[n]) :
      <<n, i>> \in strangers \/ groups[n].packets[i][1] = installed

LEMMA StrangersAre ==
  ASSUME Shape, NEW d, Deliver(d), NEW s \in Slots, s = d.slot
  PROVE  /\ strangers' = IF installed \in {0, SessionOf(s)} THEN strangers
                         ELSE strangers \cup {<<GroupNum(s), Index(s)>>}
         /\ mixed' = IF ~encrypted /\ \E x \in strangers' : x[1] = GroupNum(s)
                     THEN mixed \cup Manager!Garbage(forwarded' \ forwarded) ELSE mixed
         /\ installed' = installed
  <1>1. Recorded(s) /\ installed' = installed
    BY DEF Deliver
  <1> QED BY <1>1 DEF Recorded, Index

LEMMA HomeStep ==
  ASSUME Shape, HomeInv, [Next]_vars
  PROVE  HomeInv'
  <1> SUFFICES ASSUME installed' # 0, NEW n \in GroupNums, groups'[n] # Manager!NoGroup,
                      NEW i \in Manager!Received(groups'[n]), <<n, i>> \notin strangers'
               PROVE  groups'[n].packets[i][1] = installed'
    BY DEF HomeInv
  <1>0. SlotsOK /\ GroupsInv /\ i \in Manager!AllIdx
    BY DEF Shape, Manager!Received
  <1>1. installed' = installed /\ strangers \subseteq strangers'
    <2>1. ~InstallManager
      BY DEF InstallManager
    <2>2. ASSUME NEW d, Deliver(d)
          PROVE  installed' = installed /\ strangers \subseteq strangers'
      <3>1. PICK s \in Slots : s = d.slot
        BY <2>2, DeliverIs
      <3> QED BY <2>2, <3>1, StrangersAre
    <2> QED BY <2>1, <2>2
            DEF Next, vars, history, Send, Register, PublishKey, CleanUpTimeouts, Tick
  <1>2. CASE ~ \E d : Deliver(d) /\ installed # 0 /\ GroupNum(d.slot) = n /\ Fresh(d.slot)
    <2>1. /\ groups[n] # Manager!NoGroup /\ groups'[n].packets = groups[n].packets
          /\ i \in Manager!Received(groups[n])
      BY <1>2, GroupStep
    <2> QED BY <1>1, <2>1 DEF HomeInv
  <1>3. ASSUME NEW d, Deliver(d), installed # 0, GroupNum(d.slot) = n, Fresh(d.slot)
        PROVE  groups'[n].packets[i][1] = installed'
    <2>0. PICK s \in Slots : s = d.slot
      BY <1>3, DeliverIs
    <2>1. /\ Manager!Received(groups'[n]) = Manager!Received(Holder(s)) \cup {Index(s)}
          /\ groups'[n].packets[i] =
               IF i = Index(s) THEN Generation(s) ELSE Holder(s).packets[i]
      BY <1>0, <1>3, <2>0, GroupFilled
    <2>2. CASE i = Index(s)
      <3>1. installed = SessionOf(s)
        BY <1>3, <2>0, <2>2, StrangersAre
      <3>2. groups'[n].packets[i] = Generation(s)
        BY <2>1, <2>2
      <3> QED BY <1>1, <3>1, <3>2 DEF Generation
    <2>3. CASE i # Index(s)
      <3>1. i \in Manager!Received(Holder(s))
        BY <2>1, <2>3
      <3>2. Live(n) /\ Holder(s) = groups[n] /\ i \in Manager!Received(groups[n])
        BY <1>0, <1>3, <2>0, <3>1, HolderShards
      <3>3. groups[n].packets[i][1] = installed
        BY <1>1, <1>3, <3>2 DEF HomeInv, Live
      <3> QED BY <1>1, <2>1, <2>3, <3>2, <3>3
    <2> QED BY <2>2, <2>3
  <1> QED BY <1>2, <1>3

(* The shards the frame in slot s joins, and itself, are of one session.     *)
OneSession(s) ==
  \A j \in Manager!Received(Filled(s)) : Filled(s).packets[j][1] = SessionOf(s)

LEMMA NoStranger ==
  ASSUME Shape, HomeInv, NEW d, Deliver(d), NEW s \in Slots, s = d.slot,
         installed # 0, Fresh(s), \A x \in strangers' : x[1] # GroupNum(s)
  PROVE  OneSession(s)
  <1>0. SlotsOK /\ GroupsInv /\ GroupNum(s) \in GroupNums
    BY SlotFacts DEF Shape
  <1>1. installed = SessionOf(s) /\ strangers' = strangers
    <2>1. strangers' = IF installed \in {0, SessionOf(s)} THEN strangers
                       ELSE strangers \cup {<<GroupNum(s), Index(s)>>}
      BY StrangersAre
    <2>2. installed # SessionOf(s) => <<GroupNum(s), Index(s)>> \in strangers'
      BY <2>1
    <2>3. <<GroupNum(s), Index(s)>>[1] = GroupNum(s)
      OBVIOUS
    <2> QED BY <2>1, <2>2, <2>3
  <1> SUFFICES ASSUME NEW j \in Manager!Received(Filled(s))
               PROVE  Filled(s).packets[j][1] = SessionOf(s)
    BY DEF OneSession
  <1>2. /\ Manager!Received(Filled(s)) = Manager!Received(Holder(s)) \cup {Index(s)}
        /\ Filled(s).packets[j] = IF j = Index(s) THEN Generation(s) ELSE Holder(s).packets[j]
    BY <1>0, FilledFacts DEF Manager!Received
  <1>3. CASE j = Index(s)
    BY <1>2, <1>3 DEF Generation
  <1>4. CASE j # Index(s)
    <2>1. /\ Live(GroupNum(s)) /\ Holder(s) = groups[GroupNum(s)]
          /\ j \in Manager!Received(groups[GroupNum(s)])
      BY <1>0, <1>2, <1>4, HolderShards
    <2>2. <<GroupNum(s), j>> \notin strangers
      BY <1>1
    <2>3. groups[GroupNum(s)].packets[j][1] = installed
      BY <1>0, <2>1, <2>2 DEF HomeInv, Live
    <2>4. Filled(s).packets[j] = groups[GroupNum(s)].packets[j]
      BY <1>2, <1>4, <2>1
    <2> QED BY <1>1, <2>3, <2>4
  <1> QED BY <1>3, <1>4

LEMMA RebuiltGenuine ==
  ASSUME Shape, ShardsInv, NetInv,
         NEW d \in network, NEW s \in Slots, s = d.slot, s < nextSlot, Fresh(s),
         NEW p \in Manager!Recovered(Filled(s)), p.gen # None \/ (Paced /\ OneSession(s))
  PROVE  p \in Sent
  <1> DEFINE b == Filled(s)
             R == Manager!Received(b)
             gens == {b.packets[j] : j \in R}
  <1>1. SlotsOK /\ GroupsInv /\ Manager!Enough(b)
    BY DEF Shape, Manager!Recovered
  <1>2. PICK i \in Manager!Missing(b) : p = Manager!Rebuilt(b, i)
    BY DEF Manager!Recovered
  <1>3. Cardinality(R) = K /\ Manager!Used(b) = R /\ IsFiniteSet(R) /\ R \subseteq Manager!AllIdx
    BY <1>1, AllUsed, ReceivedFinite
  <1>4. i \in Manager!DataIdx /\ i \notin R
    BY <1>1, FilledFacts DEF Manager!Missing
  <1>5. p = Manager!Packet(IF Cardinality(gens) = 1 THEN CHOOSE q \in gens : TRUE ELSE None, i)
    BY <1>2, <1>3, SameCardinality DEF Manager!Rebuilt
  <1>6. Cardinality(gens) = 1
    <2>1. CASE p.gen # None
      BY <1>5, <2>1 DEF Manager!Packet
    <2>2. CASE Paced /\ OneSession(s)
      <3>1. ASSUME NEW j \in R
            PROVE  b.packets[j] = Generation(s)
        <4>1. PICK t \in Slots :
                /\ t < nextSlot /\ GroupNum(t) = GroupNum(s)
                /\ Generation(t) = b.packets[j] /\ Latest(t)
          BY <1>1, <2>2, FilledShards
        <4>2. Latest(s)
          BY <2>2 DEF NetInv, Timed
        <4>3. b.packets[j][1] = SessionOf(s)
          BY <2>2 DEF OneSession
        <4>4. SessionOf(t) = SessionOf(s)
          BY <4>1, <4>3 DEF Generation
        <4> QED BY <4>1, <4>2, <4>4, BothLatest
      <3>2. Index(s) \in R
        BY <1>1, FilledFacts
      <3> HIDE DEF R, b
      <3>3. gens = {Generation(s)}
        BY <3>1, <3>2
      <3> HIDE DEF gens
      <3> QED BY <3>3, FS_Singleton
    <2> QED BY <2>1, <2>2
  <1>7. PICK q : gens = {q}
    <2> HIDE DEF R, b
    <2> DEFINE f == [j \in R |-> b.packets[j]]
    <2>1. f \in Surjection(R, gens)
      BY DEF Surjection
    <2> HIDE DEF gens, f
    <2>2. IsFiniteSet(gens)
      BY <1>3, <2>1, FS_Surjection
    <2> QED BY <1>6, <2>2, FS_Singleton
  <1>8. p = Manager!Packet(q, i) /\ \A j \in R : b.packets[j] = q
    <2> HIDE DEF R, b
    <2>1. \A j \in R : b.packets[j] = q
      BY <1>7
    <2>2. (CHOOSE x \in gens : TRUE) = q
      BY <1>7
    <2> HIDE DEF gens
    <2> QED BY <1>5, <1>6, <2>1, <2>2
  <1>9. PICK j \in R : j >= K
    <2>1. SUFFICES ASSUME \A j \in R : ~(j >= K)
                   PROVE  FALSE
      OBVIOUS
    <2> HIDE DEF R
    <2>2. R \subseteq Manager!DataIdx \ {i}
      <3>1. \A j \in R : j \in 0..(N - 1) /\ ~(j >= K)
        BY <1>3, <2>1, Indices
      <3>2. \A j \in R : j \in 0..(K - 1)
        BY <3>1, Constants
      <3> QED BY <1>4, <3>2, Indices
    <2> DEFINE D == Manager!DataIdx \ {i}
    <2>3. Cardinality(D) = K - 1 /\ IsFiniteSet(D)
      <3> DEFINE I == Manager!DataIdx
      <3>1. IsFiniteSet(I) /\ Cardinality(I) = K /\ i \in I
        BY <1>4, Indices
      <3> HIDE DEF I
      <3>2. Cardinality(I \ {i}) = K - 1 /\ IsFiniteSet(I \ {i})
        BY <3>1, FS_RemoveElement
      <3> QED BY <3>2 DEF I
    <2>4. R \in SUBSET D
      BY <2>2
    <2> HIDE DEF D
    <2>5. Cardinality(R) <= Cardinality(D)
      BY <2>3, <2>4, FS_Subset
    <2> QED BY <1>3, <2>3, <2>5, Constants
  <1>10. PICK t \in Slots : t < nextSlot /\ Index(t) = j /\ Generation(t) = q
    <2>1. PICK t \in Slots : t < nextSlot /\ Index(t) = j /\ Generation(t) = b.packets[j]
      BY <1>1, FilledShards
    <2> QED BY <1>8, <2>1
  <1> DEFINE k == j - i
             u == t - k
  <1>11. k \in 0..Index(t) /\ i < K
    BY <1>3, <1>4, <1>9, <1>10, Indices, Constants
  <1>12. u \in Slots /\ u <= t /\ Generation(u) = q /\ Index(u) = i
    <2>1. Index(t) - k = i /\ i \in Int
      BY <1>3, <1>4, <1>9, <1>10, Indices, Constants
    <2> HIDE DEF k
    <2> QED BY <1>1, <1>10, <1>11, <2>1, Siblings
  <1> HIDE DEF u, k
  <1>13. u \in 0..(nextSlot - 1) /\ Place(u) % N < K
    BY <1>1, <1>10, <1>11, <1>12, Constants DEF Slots, Index, SlotsOK
  <1>14. p = PacketOf(u)
    BY <1>8, <1>12 DEF PacketOf, Index
  <1> QED BY <1>13, <1>14 DEF Sent

LEMMA SentKept ==
  ASSUME Shape, [Next]_vars
  PROVE  Sent \subseteq Sent'
  <1>1. nextSlot \in 0..MaxSlots /\ nextSlot' \in 0..MaxSlots
    BY SlotsStep DEF Shape, TypeOK
  <1>2. ASSUME NEW t \in 0..(nextSlot - 1), Place(t) % N < K
        PROVE  PacketOf(t) \in Sent'
    <2>1. t \in Slots /\ t < nextSlot
      BY <1>1, Constants DEF Slots
    <2>2. t < nextSlot' /\ Place(t)' = Place(t) /\ PacketOf(t)' = PacketOf(t)
      BY <2>1, PastKept
    <2>3. t \in 0..(nextSlot' - 1)
      <3>1. PICK m \in Nat : m = nextSlot'
        BY <1>1, Constants
      <3>2. t \in Nat /\ t < m
        BY <2>1, <2>2, <3>1, Constants DEF Slots
      <3>3. t \in 0..(m - 1)
        BY <3>2
      <3> QED BY <3>1, <3>3
    <2> QED BY <1>2, <2>2, <2>3 DEF Sent
  <1> QED BY <1>2 DEF Sent

LEMMA PassedSent ==
  ASSUME SlotsOK, NEW s \in Slots, s < nextSlot
  PROVE  Manager!Passed(FrameOf(s)) \subseteq Sent
  <1>1. s \in 0..(nextSlot - 1)
    BY Constants DEF Slots, SlotsOK
  <1> QED BY <1>1, FrameFacts DEF Sent, Index

LEMMA GenuineStep ==
  ASSUME Shape, ShardsInv, NetInv, HomeInv, Paced \/ encrypted, Genuine, [Next]_vars
  PROVE  Genuine'
  <1>0. Sent \subseteq Sent' /\ forwarded \subseteq Sent \cup undecrypted \cup mixed /\ SlotsOK
    BY SentKept DEF Genuine, Shape
  <1>1. CASE forwarded' = forwarded /\ undecrypted' = undecrypted /\ mixed \subseteq mixed'
    BY <1>0, <1>1 DEF Genuine
  <1>2. ASSUME NEW d, Deliver(d)
        PROVE  Genuine'
    <2>1. PICK s \in Slots : s = d.slot /\ s < nextSlot /\ d \in network
      BY <1>2, DeliverIs
    <2>2. Manager!Passed(FrameOf(s)) \subseteq Sent
      BY <1>0, <2>1, PassedSent
    <2>3. mixed \subseteq mixed'
      BY <1>2, <2>1, StrangersAre
    <2>4. CASE installed = 0
      <3>1. NoManager(FrameOf(s))
        BY <1>2, <2>1, <2>4 DEF Deliver
      <3> QED BY <1>0, <2>2, <2>3, <3>1 DEF NoManager, Genuine
    <2>5. CASE installed # 0 /\ ~Fresh(s)
      BY <1>1, <1>2, <2>1, <2>3, <2>5, DeliverIs
    <2>6. CASE installed # 0 /\ Fresh(s)
      <3>1. undecrypted' = undecrypted
            /\ forwarded' \subseteq forwarded \cup (Out(s) \ Refused)
        BY <1>2, <2>1, <2>6, DeliverIs
      <3>2. ASSUME NEW p \in Manager!Recovered(Filled(s)), p \notin Refused,
                   p \in forwarded', p \notin forwarded
            PROVE  p \in Sent \cup mixed'
        <4>1. p \in Manager!Packets
          BY <1>0, OutType DEF Out, Shape
        <4>2. CASE p.gen # None
          BY <2>1, <2>6, <4>2, RebuiltGenuine
        <4>3. CASE p.gen = None /\ \E x \in strangers' : x[1] = GroupNum(s)
          <5>1. ~encrypted
            BY <3>2, <4>1, <4>3 DEF Refused
          <5> QED BY <1>2, <2>1, <3>2, <4>3, <5>1, StrangersAre DEF Manager!Garbage
        <4>4. CASE p.gen = None /\ \A x \in strangers' : x[1] # GroupNum(s)
          <5>1. Paced
            BY <3>2, <4>1, <4>4 DEF Refused
          <5>2. OneSession(s)
            BY <1>2, <2>1, <2>6, <4>4, NoStranger
          <5> QED BY <2>1, <2>6, <5>1, <5>2, RebuiltGenuine
        <4> QED BY <4>2, <4>3, <4>4
      <3> QED BY <1>0, <2>2, <2>3, <3>1, <3>2 DEF Out, Genuine
    <2> QED BY <2>4, <2>5, <2>6
  <1> QED BY <1>1, <1>2
          DEF Next, vars, managerVars, history, Send, Register, PublishKey, InstallManager,
              NewManager, CleanUpTimeouts, Manager!CleanUpTimeouts, Tick, Manager!Tick,
              Manager!history

LEMMA OriginsInit == Init => ShardsInv /\ NetInv /\ HomeInv
  BY DEF Init, Manager!Init, ShardsInv, NetInv, HomeInv

LEMMA OriginsHold == Spec => []ShardsInv /\ []NetInv /\ []HomeInv
  <1>1. Shape /\ ShardsInv /\ NetInv /\ HomeInv /\ [Next]_vars
          => (ShardsInv /\ NetInv /\ HomeInv)'
    BY ShardsStep, NetStep, HomeStep
  <1> QED BY <1>1, OriginsInit, ShapeHolds, PTL DEF Spec

(* What reaches the multicast group is what was broadcast: nothing is mixed  *)
(* from two generations, and from two sessions only in plain text, in a      *)
(* group number where frames of another session have come to the manager.    *)
(* In plain text that rests on pacing; with encryption it does not, because  *)
(* a mixture does not authenticate.                                          *)
THEOREM OnlyGenuine ==
  ASSUME Paced \/ EncryptionModes \subseteq {TRUE}
  PROVE  Spec => []Genuine
  <1>1. Init => Genuine
    BY DEF Init, Manager!Init, Genuine
  <1>2. Shape => Paced \/ encrypted
    BY DEF Shape, TypeOK
  <1>3. Shape /\ ShardsInv /\ NetInv /\ HomeInv /\ Genuine /\ [Next]_vars => Genuine'
    BY <1>2, GenuineStep
  <1> QED BY <1>1, <1>3, ShapeHolds, OriginsHold, PTL DEF Spec

-----------------------------------------------------------------------------
(* What comes to the manager of its session is forwarded.                    *)

(* The receiver has the manager of the session whose key it has.             *)
Own == installed # 0 /\ key = installed

ReceivedInv == \A s \in received : SessionOf(s) = installed

(* Where the frames of another session have not been, a shard is that of a   *)
(* frame of this session, which was forwarded if it is data.                 *)
IsOwnShard(n, i, t) ==
  /\ GroupNum(t) = n /\ Index(t) = i /\ Generation(t) = groups[n].packets[i]
  /\ i \in Manager!DataIdx => PacketOf(t) \in forwarded

DataInv ==
  Own => \A n \in GroupNums : groups[n] # Manager!NoGroup =>
    \A i \in Manager!Received(groups[n]) :
      <<n, i>> \in strangers \/ \E t \in received : IsOwnShard(n, i, t)

LEMMA ReceivedSlots ==
  ASSUME Shape
  PROVE  /\ \A s \in received : s \in Slots /\ s < nextSlot
         /\ \A s \in late : s \in received
         /\ key \in Nat /\ installed \in Nat
  BY Constants DEF Shape, TypeOK, SlotsOK

(* What the history records of a delivery.                                   *)
LEMMA RecordedIs ==
  ASSUME Shape, NEW d, Deliver(d), NEW s \in Slots, s = d.slot
  PROVE  /\ installed = SessionOf(s) /\ key = installed => Own /\ received' = received \cup {s}
         /\ ~(installed = SessionOf(s) /\ key = installed) =>
              received' = received /\ since' = since /\ late' = late
         /\ installed # 0 /\ installed # SessionOf(s) =>
              strangers' = strangers \cup {<<GroupNum(s), Index(s)>>}
         /\ strangers \subseteq strangers'
         /\ installed = SessionOf(s) => strangers' = strangers
         /\ installed' = installed /\ key' = key
  <1>1. SessionOf(s) # 0
    BY SlotFacts DEF Shape
  <1>2. Recorded(s) /\ installed' = installed /\ key' = key
    BY DEF Deliver
  <1>3. installed = SessionOf(s) /\ key = installed => Own /\ received' = received \cup {s}
    BY <1>1, <1>2 DEF Recorded, Own
  <1>4. ~(installed = SessionOf(s) /\ key = installed) =>
              received' = received /\ since' = since /\ late' = late
    BY <1>2 DEF Recorded
  <1>5. strangers' = IF installed \in {0, SessionOf(s)} THEN strangers
                     ELSE strangers \cup {<<GroupNum(s), Index(s)>>}
    BY <1>2 DEF Recorded, Index
  <1> QED BY <1>2, <1>3, <1>4, <1>5

LEMMA ForwardedKept ==
  ASSUME Shape, [Next]_vars
  PROVE  forwarded \subseteq forwarded'
  <1>1. ASSUME NEW d, Deliver(d)
        PROVE  forwarded \subseteq forwarded'
    <2>1. CASE installed = 0
      BY <1>1, <2>1 DEF Deliver, NoManager
    <2>2. CASE installed # 0
      BY <1>1, <2>2, DeliverIs
    <2> QED BY <2>1, <2>2
  <1> QED BY <1>1
          DEF Next, vars, managerVars, Send, Register, PublishKey, InstallManager, NewManager,
              CleanUpTimeouts, Manager!CleanUpTimeouts, Tick, Manager!Tick, Manager!history

LEMMA ReceivedStep ==
  ASSUME Shape, ReceivedInv, [Next]_vars
  PROVE  ReceivedInv'
  <1>0. \A s \in received : SessionOf(s)' = SessionOf(s)
    BY ReceivedSlots, PastKept
  <1>1. CASE received' = received /\ installed' = installed
    BY <1>0, <1>1 DEF ReceivedInv
  <1>2. ASSUME NEW d, Deliver(d)
        PROVE  ReceivedInv'
    <2>1. PICK s \in Slots : s = d.slot /\ s < nextSlot
      BY <1>2, DeliverIs
    <2>2. SessionOf(s)' = SessionOf(s)
      BY <2>1, PastKept
    <2>3. /\ installed' = installed
          /\ received' = received \/ (installed = SessionOf(s) /\ received' = received \cup {s})
      BY <1>2, <2>1, RecordedIs
    <2> QED BY <1>0, <2>2, <2>3 DEF ReceivedInv
  <1>3. CASE InstallManager
    BY <1>3 DEF InstallManager, NewManager, ReceivedInv
  <1> QED BY <1>1, <1>2, <1>3
          DEF Next, vars, history, Send, Register, PublishKey, CleanUpTimeouts, Tick

(* A packet of the receiver's session is neither refused nor garbage.        *)
LEMMA OwnPassed ==
  ASSUME Shape, NEW d, Deliver(d), NEW s \in Slots, s = d.slot, Own,
         SessionOf(s) = installed, Fresh(s), NEW i, Manager!Packet(Generation(s), i) \in Out(s)
  PROVE  Manager!Packet(Generation(s), i) \in forwarded'
  <1> DEFINE p == Manager!Packet(Generation(s), i)
  <1>1. Generation(s) # None /\ Generation(s)[1] = key
    BY FrameFacts DEF Shape, Own, Generation
  <1>2. p \notin Refused /\ p \notin Manager!Garbage(Out(s))
    BY <1>1 DEF Refused, Manager!Packet, Manager!Garbage
  <1>3. \E dropped \in SUBSET Manager!Garbage(Out(s)) :
          forwarded' = forwarded \cup ((Out(s) \ dropped) \ Refused)
    BY DeliverIs DEF Own
  <1> QED BY <1>2, <1>3

LEMMA OwnShards ==
  ASSUME Shape, Paced, ShardsInv, DataInv, ReceivedInv, Own,
         NEW s \in Slots, s < nextSlot, Latest(s), SessionOf(s) = installed,
         NEW n, n = GroupNum(s), Live(n), NEW i \in Manager!Received(groups[n]),
         <<n, i>> \notin strangers
  PROVE  /\ groups[n].packets[i] = Generation(s)
         /\ i \in Manager!DataIdx => Manager!Packet(Generation(s), i) \in forwarded
         /\ \E t \in received : Generation(t) = Generation(s) /\ Index(t) = i
  <1>1. n \in GroupNums /\ SlotsOK
    BY SlotFacts DEF Shape
  <1>2. PICK t \in received : IsOwnShard(n, i, t)
    BY <1>1 DEF DataInv, Live
  <1>3. t \in Slots /\ t < nextSlot /\ SessionOf(t) = installed
    BY ReceivedSlots DEF ReceivedInv
  <1>4. PICK u \in Slots : IsShard(n, i, u)
    BY <1>1 DEF ShardsInv, Live
  <1>5. u = t
    BY <1>1, <1>2, <1>3, <1>4, SlotUnique DEF IsShard, IsOwnShard
  <1>6. Latest(t)
    BY <1>4, <1>5 DEF IsShard, Timed
  <1>7. Generation(t) = Generation(s)
    BY <1>2, <1>3, <1>6, BothLatest DEF IsOwnShard
  <1> QED BY <1>2, <1>7 DEF IsOwnShard, PacketOf, Index

LEMMA DataInvStep ==
  ASSUME Shape, DataInv, [Next]_vars
  PROVE  DataInv'
  <1> SUFFICES ASSUME Own', NEW n \in GroupNums, groups'[n] # Manager!NoGroup,
                      NEW i \in Manager!Received(groups'[n]), <<n, i>> \notin strangers'
               PROVE  \E t \in received' : IsOwnShard(n, i, t)'
    BY DEF DataInv
  <1>0. SlotsOK /\ GroupsInv /\ i \in Manager!AllIdx /\ forwarded \subseteq forwarded'
    BY ForwardedKept DEF Shape, Manager!Received
  <1>1. Own /\ received \subseteq received' /\ strangers \subseteq strangers' /\ installed' = installed
    <2>1. ~InstallManager
      BY DEF InstallManager
    <2>2. ~PublishKey
      BY ReceivedSlots, Constants DEF PublishKey, Own, Shape, TypeOK, SlotsOK
    <2>3. ASSUME NEW d, Deliver(d)
          PROVE  /\ installed' = installed /\ key' = key
                 /\ received \subseteq received' /\ strangers \subseteq strangers'
      <3>1. d.slot \in Slots
        BY <2>3, DeliverIs
      <3> QED BY <2>3, <3>1, RecordedIs
    <2>4. \/ \E d : Deliver(d)
          \/ UNCHANGED <<key, installed, received, strangers>>
      BY <2>1, <2>2 DEF Next, vars, history, Send, Register, CleanUpTimeouts, Tick
    <2> QED BY <2>3, <2>4 DEF Own
  <1>2. ASSUME Manager!Received(groups[n]) # {}, i \in Manager!Received(groups[n]),
               groups[n] # Manager!NoGroup, groups'[n].packets[i] = groups[n].packets[i]
        PROVE  \E t \in received' : IsOwnShard(n, i, t)'
    <2>1. PICK t \in received : IsOwnShard(n, i, t)
      BY <1>1, <1>2 DEF DataInv
    <2>2. /\ GroupNum(t)' = GroupNum(t) /\ Index(t)' = Index(t)
          /\ Generation(t)' = Generation(t) /\ PacketOf(t)' = PacketOf(t)
      BY ReceivedSlots, PastKept
    <2>3. IsOwnShard(n, i, t)'
      BY <1>0, <1>2, <2>1, <2>2 DEF IsOwnShard
    <2> QED BY <1>1, <2>3
  <1>3. CASE ~ \E d : Deliver(d) /\ installed # 0 /\ GroupNum(d.slot) = n /\ Fresh(d.slot)
    BY <1>2, <1>3, GroupStep
  <1>4. ASSUME NEW d, Deliver(d), installed # 0, GroupNum(d.slot) = n, Fresh(d.slot)
        PROVE  \E t \in received' : IsOwnShard(n, i, t)'
    <2>0. PICK s \in Slots : s = d.slot /\ s < nextSlot
      BY <1>4, DeliverIs
    <2>1. /\ Manager!Received(groups'[n]) = Manager!Received(Holder(s)) \cup {Index(s)}
          /\ groups'[n].packets[i] =
               IF i = Index(s) THEN Generation(s) ELSE Holder(s).packets[i]
      BY <1>0, <1>4, <2>0, GroupFilled
    <2>2. CASE i = Index(s)
      <3>1. SessionOf(s) = installed
        BY <1>4, <2>0, <2>2, RecordedIs
      <3>2. s \in received'
        BY <1>1, <1>4, <2>0, <3>1, RecordedIs DEF Own
      <3>3. ASSUME i \in Manager!DataIdx
            PROVE  PacketOf(s) \in forwarded'
        <4>1. PacketOf(s) \in Out(s) /\ PacketOf(s) = Manager!Packet(Generation(s), Index(s))
          BY <1>0, <2>2, <3>3, FrameFacts DEF Out, PacketOf, Index
        <4> QED BY <1>1, <1>4, <2>0, <3>1, <4>1, OwnPassed
      <3>4. /\ GroupNum(s)' = GroupNum(s) /\ Index(s)' = Index(s)
            /\ Generation(s)' = Generation(s) /\ PacketOf(s)' = PacketOf(s)
        BY <2>0, PastKept
      <3>5. IsOwnShard(n, i, s)'
        BY <1>4, <2>0, <2>1, <2>2, <3>3, <3>4 DEF IsOwnShard
      <3> QED BY <3>2, <3>5
    <2>3. CASE i # Index(s)
      <3>1. i \in Manager!Received(Holder(s))
        BY <2>1, <2>3
      <3>2. Live(n) /\ Holder(s) = groups[n] /\ i \in Manager!Received(groups[n])
        BY <1>0, <1>4, <2>0, <3>1, HolderShards
      <3> QED BY <1>2, <2>1, <2>3, <3>2 DEF Live
    <2> QED BY <2>2, <2>3
  <1> QED BY <1>3, <1>4

LEMMA NewlyReceived ==
  ASSUME Shape, [Next]_vars, NEW s \in received'
  PROVE  /\ s \in Slots /\ s < nextSlot
         /\ s \notin received =>
              \E d : Deliver(d) /\ s = d.slot /\ Own /\ installed = SessionOf(s)
  <1>1. CASE s \in received
    BY <1>1, ReceivedSlots
  <1>2. ASSUME NEW d, Deliver(d), s \notin received
        PROVE  s \in Slots /\ s < nextSlot /\ s = d.slot /\ Own /\ installed = SessionOf(s)
    <2>1. PICK t \in Slots : t = d.slot /\ t < nextSlot
      BY <1>2, DeliverIs
    <2>2. received' = received \/ received' = received \cup {t}
      BY <1>2, <2>1, RecordedIs
    <2>3. s = t
      BY <1>2, <2>2
    <2>4. installed = SessionOf(t) /\ key = installed
      BY <1>2, <2>1, RecordedIs
    <2> QED BY <1>2, <2>1, <2>3, <2>4, RecordedIs
  <1>3. CASE InstallManager
    BY <1>3 DEF InstallManager, NewManager
  <1> QED BY <1>1, <1>2, <1>3
          DEF Next, vars, history, Send, Register, PublishKey, CleanUpTimeouts, Tick

(* Nothing of a packet that came is still to be forwarded.                   *)
LEMMA ArrivalForwarded ==
  ASSUME Shape, Paced, NetInv, ShardsInv, DataInv, ReceivedInv,
         NEW d, Deliver(d), NEW s \in Slots, s = d.slot, Own, installed = SessionOf(s),
         Index(s) < K
  PROVE  PacketOf(s) \in forwarded' \/ <<GroupNum(s), Index(s)>> \in strangers
  <1>0. SlotsOK /\ GroupsInv /\ s < nextSlot /\ d \in network
        /\ PacketOf(s) = Manager!Packet(Generation(s), Index(s))
    BY DeliverIs DEF Shape, PacketOf, Index
  <1>1. CASE Fresh(s)
    <2>1. PacketOf(s) \in Out(s)
      BY <1>0, FrameFacts DEF Out
    <2> QED BY <1>0, <1>1, <2>1, OwnPassed
  <1>2. CASE ~Fresh(s)
    <2>1. Index(s) \in Manager!Received(Holder(s))
      BY <1>2 DEF Fresh
    <2>2. Live(GroupNum(s)) /\ Index(s) \in Manager!Received(groups[GroupNum(s)])
      BY <1>0, <2>1, HolderShards
    <2>3. Latest(s)
      BY <1>0 DEF NetInv, Timed
    <2>4. Index(s) \in Manager!DataIdx
      BY <1>0, FrameFacts
    <2>5. <<GroupNum(s), Index(s)>> \in strangers
          \/ Manager!Packet(Generation(s), Index(s)) \in forwarded
      BY <1>0, <2>2, <2>3, <2>4, OwnShards
    <2>6. forwarded' = forwarded
      BY <1>2, DeliverIs DEF Own
    <2> QED BY <1>0, <2>5, <2>6
  <1> QED BY <1>1, <1>2

LEMMA StrangersKept ==
  ASSUME Shape, [Next]_vars, ~InstallManager
  PROVE  strangers \subseteq strangers'
  <1>1. ASSUME NEW d, Deliver(d)
        PROVE  strangers \subseteq strangers'
    <2>1. d.slot \in Slots
      BY <1>1, DeliverIs
    <2> QED BY <1>1, <2>1, RecordedIs
  <1> QED BY <1>1 DEF Next, vars, history, Send, Register, PublishKey, CleanUpTimeouts, Tick

LEMMA DataForwardedStep ==
  ASSUME Shape, Paced, NetInv, ShardsInv, DataInv, ReceivedInv, DataForwarded, [Next]_vars
  PROVE  DataForwarded'
  <1>0. SlotsOK /\ forwarded \subseteq forwarded'
    BY ForwardedKept DEF Shape
  <1>1. ASSUME NEW s \in received'
        PROVE  \/ Index(s) >= K \/ PacketOf(s) \in forwarded'
               \/ <<GroupNum(s), Index(s)>> \in strangers'
    <2>1. s \in Slots /\ s < nextSlot /\ Index(s) \in 0..(N - 1)
      BY <1>0, NewlyReceived, SlotFacts
    <2>2. CASE s \in received
      <3>1. ~InstallManager
        BY <2>2 DEF InstallManager, NewManager
      <3> QED BY <1>0, <2>1, <2>2, <3>1, StrangersKept DEF DataForwarded, Index
    <2>3. CASE s \notin received
      <3>1. PICK d : Deliver(d) /\ s = d.slot /\ Own /\ installed = SessionOf(s)
        BY <2>3, NewlyReceived
      <3>2. Index(s) < K => PacketOf(s) \in forwarded'
                            \/ <<GroupNum(s), Index(s)>> \in strangers
        BY <2>1, <3>1, ArrivalForwarded
      <3>3. strangers \subseteq strangers'
        BY <2>1, <3>1, RecordedIs
      <3> QED BY <2>1, <3>2, <3>3, Constants
    <2> QED BY <2>2, <2>3
  <1>2. ASSUME NEW s \in received'
        PROVE  Index(s)' = Index(s) /\ PacketOf(s)' = PacketOf(s) /\ GroupNum(s)' = GroupNum(s)
    BY <1>2, NewlyReceived, PastKept
  <1> QED BY <1>1, <1>2 DEF DataForwarded, Index

LEMMA HistoryInit == Init => ReceivedInv /\ DataInv /\ DataForwarded
  BY DEF Init, Manager!Init, ReceivedInv, DataInv, DataForwarded

LEMMA HistoryHolds ==
  ASSUME Paced
  PROVE  Spec => []ReceivedInv /\ []DataInv /\ []DataForwarded
  <1> DEFINE HInv == ReceivedInv /\ DataInv /\ DataForwarded
  <1>1. Shape /\ ShardsInv /\ NetInv /\ HInv /\ [Next]_vars => HInv'
    BY ReceivedStep, DataInvStep, DataForwardedStep
  <1> QED BY <1>1, HistoryInit, ShapeHolds, OriginsHold, PTL DEF Spec

(* No data packet that comes to the manager of its session is swallowed,     *)
(* whatever comes before it, in whatever order, how late and how often,      *)
(* unless a frame of another session took its place.                         *)
THEOREM EveryArrivalForwarded ==
  ASSUME Paced
  PROVE  Spec => []DataForwarded
  BY HistoryHolds, PTL

-----------------------------------------------------------------------------
(* K frames of a generation that come in time give all its data.             *)

(* A frame of another session has come with group number n.                  *)
Strange(n) == \E i \in 0..(N - 1) : <<n, i>> \in strangers

Timely(q) == {t \in received \ late : Generation(t) = q}

TimelyIndices(q) == {Index(t) : t \in Timely(q)}

(* Until a groupTimeout has passed since the first of them, the manager has  *)
(* the frames of the generation that came in time, and no others.            *)
Held(n, q) ==
  since[n] <= GroupTimeout =>
    /\ Live(n) /\ groups[n].age = since[n]
    /\ Manager!Received(groups[n]) = TimelyIndices(q)

Recovering(s) ==
  LET n == GroupNum(s)
      q == Generation(s)
  IN  \/ Strange(n)
      \/ /\ \/ DataOf(q) \subseteq forwarded
            \/ Cardinality(Timely(q)) < K /\ (Own /\ Latest(s) => Held(n, q))
         /\ Own /\ Latest(s) /\ s \in late => since[n] > GroupTimeout

RecInv == \A s \in received : Recovering(s)

LEMMA SameGeneration ==
  ASSUME SlotsOK, NEW s \in Slots, NEW t \in Slots, Generation(s) = Generation(t)
  PROVE  GroupNum(s) = GroupNum(t) /\ SessionOf(s) = SessionOf(t)
  BY DEF Generation, GroupNum

LEMMA Between ==
  ASSUME SlotsOK, NEW s \in Slots, NEW t \in Slots, NEW u \in Slots,
         Generation(s) = Generation(t), s <= u, u <= t
  PROVE  Generation(u) = Generation(s)
  <1> DEFINE e == SessionOf(s)
             b == Place(s) \div N
             m == starts[e]
  <1>1. /\ SessionIs(s, e) /\ SessionIs(t, e) /\ Place(t) \div N = b
        /\ s \in Nat /\ t \in Nat /\ u \in Nat /\ SessionOf(t) = e
    BY SlotFacts DEF Generation
  <1>2. /\ Place(s) = N * b + Index(s) /\ Index(s) \in 0..(N - 1) /\ b \in Nat
        /\ Place(s) = s - m
    BY SlotFacts
  <1>3. Place(t) = N * b + Index(t) /\ Index(t) \in 0..(N - 1) /\ Place(t) = t - m
    BY <1>1, SlotFacts
  <1>4. SessionIs(u, e) /\ m \in Nat /\ starts \in Seq(Nat) /\ m <= s
    <2> HIDE DEF e
    <2>1. starts \in Seq(Nat) /\ Len(starts) \in Nat
      BY DEF SlotsOK
    <2> QED BY <1>1, <2>1 DEF SessionIs
  <1>5. SessionOf(u) = e
    BY <1>1, <1>4, SessionOfIs
  <1>6. Place(u) = u - m
    BY <1>5 DEF Place
  <1> HIDE DEF e, b, m
  <1> DEFINE x == N * b
             i == Place(u) - x
  <1>7. x \in Nat
    BY <1>2, Constants
  <1> HIDE DEF x
  <1>8. i \in 0..(N - 1) /\ Place(u) = x + i /\ Place(u) \in Int
    <2>1. s - m = x + Index(s) /\ t - m = x + Index(t)
      BY <1>2, <1>3 DEF x
    <2>2. Index(s) \in Nat /\ Index(t) \in Nat /\ Index(t) <= N - 1 /\ N \in Nat
      BY <1>2, <1>3, Constants
    <2>3. s \in Nat /\ t \in Nat /\ u \in Nat /\ m \in Nat
      BY <1>1, <1>4
    <2>4. u - m - x \in 0..(N - 1)
      BY <1>7, <2>1, <2>2, <2>3
    <2>5. Place(u) \in Int /\ i = u - m - x
      BY <1>6, <2>3
    <2> QED BY <1>6, <1>7, <2>3, <2>4, <2>5
  <1> HIDE DEF i
  <1>9. Place(u) \div N = b
    BY <1>2, <1>8, SplitIs DEF x
  <1> QED BY <1>5, <1>9 DEF Generation, e, b

(* A generation is current with all its frames or none.                      *)
LEMMA LatestSame ==
  ASSUME SlotsOK, NEW s \in Slots, NEW t \in Slots, Generation(s) = Generation(t), Latest(t)
  PROVE  Latest(s)
  <1> SUFFICES ASSUME NEW u \in Slots, s <= u, u < nextSlot, Related(s, u),
                      GroupNum(u) = GroupNum(s)
               PROVE  Generation(u) = Generation(s)
    BY DEF Latest
  <1>1. GroupNum(s) = GroupNum(t) /\ SessionOf(s) = SessionOf(t)
    BY SameGeneration
  <1>2. CASE t <= u
    BY <1>1, <1>2 DEF Latest, Related
  <1>3. CASE u <= t
    BY <1>3, Between
  <1>4. t <= u \/ u <= t
    BY Constants DEF Slots
  <1> QED BY <1>2, <1>3, <1>4

LEMMA LatestBefore ==
  ASSUME Shape, [Next]_vars, NEW s \in Slots, s < nextSlot, Latest(s)'
  PROVE  Latest(s)
  <1>1. encrypted' = encrypted
    BY SenderStep
  <1>2. \A u \in Slots : u < nextSlot => /\ SessionOf(u)' = SessionOf(u)
                                        /\ Generation(u)' = Generation(u)
                                        /\ GroupNum(u)' = GroupNum(u) /\ u < nextSlot'
    BY PastKept
  <1> QED BY <1>1, <1>2 DEF Latest, Related

LEMMA TimelyKept ==
  ASSUME Shape, [Next]_vars, NEW q, received' \subseteq Slots, late' \subseteq received',
         \A t \in received' : t \in received \/ Generation(t)' # q,
         \A t \in received : Generation(t) = q => t \in received' /\ (t \in late' <=> t \in late)
  PROVE  Timely(q)' = Timely(q) /\ TimelyIndices(q)' = TimelyIndices(q)
  <1>1. \A t \in received : Generation(t)' = Generation(t) /\ Index(t)' = Index(t)
    BY ReceivedSlots, PastKept
  <1>2. Timely(q)' = Timely(q)
    BY <1>1 DEF Timely
  <1>3. \A t \in Timely(q) : Index(t)' = Index(t)
    BY <1>1 DEF Timely
  <1> QED BY <1>2, <1>3 DEF TimelyIndices

(* A step that does not deliver a frame of the generation.                   *)
LEMMA RecoveringKept ==
  ASSUME Shape, [Next]_vars, NEW s \in received, Recovering(s),
         NEW n, n = GroupNum(s), NEW q, q = Generation(s),
         Own' => Own, strangers \subseteq strangers',
         Timely(q)' = Timely(q), TimelyIndices(q)' = TimelyIndices(q),
         Own /\ Latest(s) =>
           /\ since[n] > GroupTimeout => since'[n] > GroupTimeout
           /\ s \in late' => s \in late
           /\ since'[n] <= GroupTimeout /\ since[n] <= GroupTimeout
              /\ Live(n) /\ groups[n].age = since[n]
              => /\ Live(n)' /\ groups'[n].age = since'[n]
                 /\ Manager!Received(groups'[n]) = Manager!Received(groups[n])
  PROVE  Recovering(s)'
  <1>1. /\ GroupNum(s)' = n /\ Generation(s)' = q /\ forwarded \subseteq forwarded'
        /\ (Latest(s)' => Latest(s)) /\ n \in GroupNums
    BY ReceivedSlots, PastKept, ForwardedKept, LatestBefore, SlotFacts DEF Shape
  <1>2. /\ since[n] \in 0..(GroupTimeout + 1) /\ since'[n] \in 0..(GroupTimeout + 1)
        /\ GroupTimeout \in Nat
    BY <1>1, ShapeStep, Constants DEF Shape, TypeOK
  <1>3. since[n] <= GroupTimeout \/ since[n] > GroupTimeout
    BY <1>2
  <1>4. CASE Strange(n)
    <2>1. Strange(n)'
      BY <1>4 DEF Strange
    <2> QED BY <1>1, <2>1 DEF Recovering
  <1>5. CASE ~Strange(n)
    <2>1. Own' /\ Latest(s)' /\ s \in late' => since'[n] > GroupTimeout
      BY <1>1, <1>5 DEF Recovering
    <2>2. CASE DataOf(q) \subseteq forwarded
      <3>1. DataOf(q)' = DataOf(q)
        BY DEF DataOf, Manager!Packet
      <3> QED BY <1>1, <2>1, <2>2, <3>1 DEF Recovering
    <2>3. CASE Cardinality(Timely(q)) < K /\ (Own /\ Latest(s) => Held(n, q))
      <3>1. ASSUME Own', Latest(s)', since'[n] <= GroupTimeout
            PROVE  /\ Live(n)' /\ groups'[n].age = since'[n]
                   /\ Manager!Received(groups'[n]) = TimelyIndices(q)'
        <4>1. Own /\ Latest(s)
          BY <1>1, <3>1
        <4>2. ~(since[n] > GroupTimeout)
          BY <4>1, <3>1, <1>2
        <4>3. Live(n) /\ groups[n].age = since[n]
              /\ Manager!Received(groups[n]) = TimelyIndices(q)
          BY <1>3, <2>3, <4>1, <4>2 DEF Held
        <4> QED BY <1>3, <3>1, <4>1, <4>2, <4>3
      <3>2. Own' /\ Latest(s)' => Held(n, q)'
        BY <3>1 DEF Held
      <3>3. Cardinality(Timely(q)') < K
        BY <2>3
      <3> QED BY <1>1, <2>1, <3>2, <3>3 DEF Recovering
    <2> QED BY <1>1, <1>5, <2>2, <2>3 DEF Recovering
  <1> QED BY <1>4, <1>5

LEMMA Counted ==
  ASSUME SlotsOK, NEW q, NEW T \in SUBSET Slots, \A t \in T : Generation(t) = q
  PROVE  /\ IsFiniteSet(T) /\ Cardinality(T) \in Nat
         /\ Cardinality(T) <= Cardinality({Index(t) : t \in T})
  <1> DEFINE I == {Index(t) : t \in T}
             f == [t \in T |-> Index(t)]
  <1>1. IsFiniteSet(T) /\ Cardinality(T) \in Nat
    <2>1. 0 \in Int /\ MaxSlots - 1 \in Int
      BY Constants
    <2>2. IsFiniteSet(Slots)
      BY <2>1, FS_Interval DEF Slots
    <2> QED BY <2>2, FS_Subset, FS_CardinalityType
  <1>2. I \subseteq Manager!AllIdx
    BY SlotFacts, Indices
  <1>3. IsFiniteSet(I)
    <2> HIDE DEF I
    <2> QED BY <1>2, Indices, FS_Subset
  <1>4. \A s, t \in T : Index(s) = Index(t) => s = t
    BY SlotUnique
  <1>5. f \in Injection(T, I)
    BY <1>4 DEF Injection, IsInjective
  <1> HIDE DEF I, f
  <1>6. Cardinality(T) <= Cardinality(I)
    BY <1>3, <1>5, FS_Injection
  <1> QED BY <1>1, <1>6 DEF I

(* What the delivered frame completes.                                       *)
LEMMA Completed ==
  ASSUME Shape, [Next]_vars, Paced, NetInv, ShardsInv, DataInv, ReceivedInv,
         NEW d, Deliver(d), NEW s \in Slots, s = d.slot, Own, SessionOf(s) = installed,
         ~Strange(GroupNum(s)), Fresh(s),
         Cardinality(Manager!Received(Filled(s))) >= K
  PROVE  DataOf(Generation(s)) \subseteq forwarded'
  <1> DEFINE b == Filled(s)
             q == Generation(s)
             n == GroupNum(s)
  <1>0. /\ SlotsOK /\ GroupsInv /\ s < nextSlot /\ d \in network /\ Latest(s)
        /\ q \in Generations /\ Manager!AllIdx = 0..(N - 1)
    BY DeliverIs, FrameFacts, Indices DEF Shape, NetInv, Timed
  <1>1. /\ Manager!Received(b) = Manager!Received(Holder(s)) \cup {Index(s)}
        /\ b.sent = Manager!Received(b) \cap Manager!DataIdx
        /\ \A i \in Manager!AllIdx :
             b.packets[i] = IF i = Index(s) THEN q ELSE Holder(s).packets[i]
    BY <1>0, FilledFacts
  <1>2. ASSUME NEW i \in Manager!Received(Holder(s))
        PROVE  /\ Holder(s).packets[i] = q
               /\ i \in Manager!DataIdx => Manager!Packet(q, i) \in forwarded
    <2>1. Live(n) /\ Holder(s) = groups[n] /\ i \in Manager!Received(groups[n])
      BY <1>0, HolderShards
    <2>2. <<n, i>> \notin strangers
      BY <1>0 DEF Strange, Manager!Received
    <2> QED BY <1>0, <2>1, <2>2, OwnShards
  <1>3. Manager!Enough(b)
    BY SameCardinality DEF Manager!Enough
  <1>4. Manager!Used(b) = Manager!Received(b)
    BY <1>0, <1>3, AllUsed
  <1>5. \A i \in Manager!Received(b) : b.packets[i] = q
    BY <1>1, <1>2 DEF Manager!Received
  <1>6. ASSUME NEW i
        PROVE  Manager!Rebuilt(b, i) = Manager!Packet(q, i)
    <2> DEFINE gens == {b.packets[j] : j \in Manager!Used(b)}
    <2>1. gens = {q}
      BY <1>1, <1>4, <1>5
    <2>2. Manager!Cardinality(gens) = 1 /\ (CHOOSE x \in gens : TRUE) = q
      BY <2>1, SameCardinality, FS_Singleton
    <2>3. Manager!Rebuilt(b, i) =
            Manager!Packet(IF Manager!Cardinality(gens) = 1
                           THEN CHOOSE x \in gens : TRUE ELSE None, i)
      BY DEF Manager!Rebuilt
    <2> HIDE DEF gens
    <2> QED BY <2>2, <2>3
  <1>7. ASSUME NEW i \in Manager!DataIdx
        PROVE  Manager!Packet(q, i) \in forwarded'
    <2>1. CASE i \in Manager!Received(Holder(s))
      BY <1>2, <2>1, ForwardedKept
    <2>2. CASE i = Index(s)
      <3>1. Manager!Packet(q, i) \in Out(s)
        BY <1>0, <2>2, FrameFacts DEF Out, PacketOf, Index
      <3> QED BY <3>1, OwnPassed
    <2>3. CASE i \notin Manager!Received(b)
      <3>1. Manager!Rebuilt(b, i) \in Out(s)
        BY <1>1, <1>3, <2>3 DEF Out, Manager!Recovered, Manager!Missing
      <3> QED BY <1>6, <3>1, OwnPassed
    <2> QED BY <1>1, <2>1, <2>2, <2>3
  <1> QED BY <1>7, Indices DEF DataOf

(* What it does not complete stays.                                          *)
LEMMA NotCompleted ==
  ASSUME Shape, NEW d, Deliver(d), NEW s \in Slots, s = d.slot, Own, Fresh(s),
         ~(Cardinality(Manager!Received(Filled(s))) >= K),
         NEW n, n = GroupNum(s)
  PROVE  /\ Live(n)' /\ groups'[n].age = Holder(s).age
         /\ Manager!Received(groups'[n]) = Manager!Received(Holder(s)) \cup {Index(s)}
  <1> DEFINE R == Manager!Received(Filled(s))
  <1>0. SlotsOK /\ GroupsInv /\ n \in GroupNums
    BY SlotFacts DEF Shape
  <1>1. ~(Manager!DataIdx \subseteq R)
    <2>1. IsFiniteSet(R) /\ Cardinality(R) \in Nat
      BY ReceivedFinite
    <2> DEFINE D == Manager!DataIdx
    <2>0. Cardinality(D) = K
      BY Indices
    <2> HIDE DEF R, D
    <2>2. D \subseteq R => K <= Cardinality(R)
      BY <2>0, <2>1, FS_Subset
    <2> QED BY <2>1, <2>2, Constants DEF R, D
  <1>2. After(s) = Filled(s) /\ After(s) # Manager!NoGroup
    BY <1>0, <1>1, AfterFacts
  <1>3. groups'[n] = After(s)
    <2>1. groups' = [groups EXCEPT ![n] = After(s)]
      BY DeliverIs DEF Own
    <2> QED BY <1>0, <2>1 DEF GroupsInv
  <1> QED BY <1>2, <1>3, GroupFilled DEF Live, Own

(* A frame of generation q comes to the manager of its session.              *)
LEMMA ComesFirst ==
  ASSUME Shape, [Next]_vars, Paced, NetInv, ShardsInv, DataInv, ReceivedInv,
         NEW d, Deliver(d), NEW s \in Slots, s = d.slot, Own, SessionOf(s) = installed,
         NEW n, n = GroupNum(s), ~Strange(n),
         NEW q, q = Generation(s), \A t \in received : Generation(t) # q
  PROVE  /\ s \notin late'
         /\ DataOf(q) \subseteq forwarded' \/
              (Cardinality(Timely(q)') < K /\ Held(n, q)')
  <1>0. /\ SlotsOK /\ GroupsInv /\ s < nextSlot /\ d \in network /\ Latest(s)
        /\ n \in GroupNums /\ installed # 0 /\ key = installed
    BY DeliverIs, SlotFacts DEF Shape, NetInv, Timed, Own
  <1>1. received' = received \cup {s} /\ late' = late /\ since' = [since EXCEPT ![n] = 0]
    BY <1>0 DEF Deliver, Recorded
  <1>2. s \notin received /\ s \notin late'
    BY <1>1, ReceivedSlots
  <1>3. \A t \in received' : Generation(t)' = Generation(t) /\ Index(t)' = Index(t)
    BY <1>1, <1>0, ReceivedSlots, PastKept
  <1>4. Timely(q)' = {s} /\ TimelyIndices(q)' = {Index(s)}
    <2>1. Timely(q)' = {s}
      BY <1>1, <1>2, <1>3 DEF Timely
    <2>2. Index(s)' = Index(s)
      BY <1>1, <1>3
    <2> QED BY <2>1, <2>2 DEF TimelyIndices
  <1>5. Manager!Received(Holder(s)) = {}
    <2>1. SUFFICES ASSUME NEW j \in Manager!Received(Holder(s))
                   PROVE  FALSE
      OBVIOUS
    <2>2. Live(n) /\ Holder(s) = groups[n] /\ j \in Manager!Received(groups[n])
      BY <1>0, HolderShards
    <2>3. <<n, j>> \notin strangers
      BY <1>0, Indices DEF Strange, Manager!Received
    <2> QED BY <1>0, <2>2, <2>3, OwnShards
  <1>6. Fresh(s) /\ Holder(s) = Manager!NewGroup /\ Holder(s).age = 0
    BY <1>0, <1>5, HolderFacts, NewGroupFacts DEF Fresh, GroupsInv
  <1>7. Manager!Received(Filled(s)) = {Index(s)}
    BY <1>0, <1>5, FilledFacts
  <1>8. Cardinality({Index(s)}) = 1 /\ Cardinality({s}) = 1
    BY FS_Singleton
  <1>9. CASE Cardinality(Manager!Received(Filled(s))) >= K
    BY <1>2, <1>6, <1>9, Completed
  <1>10. CASE ~(Cardinality(Manager!Received(Filled(s))) >= K)
    <2>1. Live(n)' /\ groups'[n].age = 0 /\ Manager!Received(groups'[n]) = {Index(s)}
      BY <1>0, <1>5, <1>6, <1>10, NotCompleted
    <2>2. since'[n] = 0
      BY <1>0, <1>1 DEF Shape, TypeOK
    <2>3. 1 < K
      BY <1>7, <1>8, <1>10, Constants
    <2>4. Held(n, q)'
      BY <1>4, <2>1, <2>2 DEF Held
    <2> QED BY <1>0, <1>2, <1>4, <1>8, <2>3, <2>4
  <1> QED BY <1>9, <1>10

LEMMA ComesLater ==
  ASSUME Shape, [Next]_vars, Paced, NetInv, ShardsInv, DataInv, ReceivedInv, RecInv,
         NEW d, Deliver(d), NEW s \in Slots, s = d.slot, Own, SessionOf(s) = installed,
         NEW n, n = GroupNum(s), ~Strange(n),
         NEW q, q = Generation(s), NEW r \in received, Generation(r) = q
  PROVE  /\ since' = since
         /\ \A t \in late' \ late : since[n] > GroupTimeout
         /\ DataOf(q) \subseteq forwarded' \/
              (Cardinality(Timely(q)') < K /\ Held(n, q)')
  <1>0. /\ SlotsOK /\ GroupsInv /\ s < nextSlot /\ d \in network /\ Latest(s)
        /\ n \in GroupNums /\ installed # 0 /\ key = installed
    BY DeliverIs, SlotFacts DEF Shape, NetInv, Timed, Own
  <1>1. /\ received' = received \cup {s} /\ since' = since
        /\ late' = IF s \notin received /\ since[n] > GroupTimeout THEN late \cup {s} ELSE late
    BY <1>0 DEF Deliver, Recorded
  <1>2. /\ r \in Slots /\ r < nextSlot /\ GroupNum(r) = n /\ Latest(r)
        /\ \A t \in received : t \in Slots
    BY <1>0, ReceivedSlots, SameGeneration, LatestSame
  <1>3. DataOf(q) \subseteq forwarded \/ (Cardinality(Timely(q)) < K /\ Held(n, q))
    BY <1>0, <1>2 DEF RecInv, Recovering
  <1>4. \A t \in received' : Generation(t)' = Generation(t) /\ Index(t)' = Index(t)
    BY <1>1, <1>0, ReceivedSlots, PastKept
  <1>5. CASE DataOf(q) \subseteq forwarded
    BY <1>0, <1>1, <1>5, ForwardedKept
  <1>6. since[n] \in 0..(GroupTimeout + 1) /\ GroupTimeout \in Nat
    BY <1>0, Constants DEF Shape, TypeOK
  <1>7. CASE Cardinality(Timely(q)) < K /\ since[n] > GroupTimeout
    <2>1. Timely(q)' = Timely(q)
      BY <1>1, <1>4, <1>7 DEF Timely
    <2>2. Held(n, q)'
      BY <1>1, <1>6, <1>7 DEF Held
    <2> QED BY <1>0, <1>1, <1>7, <2>1, <2>2
  <1>8. CASE Held(n, q) /\ Cardinality(Timely(q)) < K /\ since[n] <= GroupTimeout
    <2>1. /\ Live(n) /\ groups[n].age = since[n] /\ late' = late
          /\ Manager!Received(groups[n]) = TimelyIndices(q) /\ Holder(s) = groups[n]
      BY <1>0, <1>1, <1>6, <1>8, HolderFacts DEF Held, Live
    <2>2. CASE s \in received
      <3>1. s \notin late
        BY <1>0, <1>6, <1>8, <2>2 DEF RecInv, Recovering
      <3>2. Index(s) \in TimelyIndices(q)
        BY <2>2, <3>1 DEF Timely, TimelyIndices
      <3>3. ~Fresh(s)
        BY <2>1, <3>2 DEF Fresh
      <3>4. groups'[n] = groups[n]
        <4>1. groups' = [groups EXCEPT ![n] = After(s)]
          BY <1>0, DeliverIs
        <4> QED BY <1>0, <3>3, <4>1, AfterFacts DEF GroupsInv
      <3>5. Timely(q)' = Timely(q)
        BY <1>1, <1>4, <2>1, <2>2 DEF Timely
      <3>6. TimelyIndices(q)' = TimelyIndices(q)
        BY <1>4, <3>5 DEF TimelyIndices, Timely
      <3>7. Held(n, q)'
        BY <1>1, <2>1, <3>4, <3>6 DEF Held, Live
      <3> QED BY <1>0, <1>1, <1>8, <2>1, <3>5, <3>7
    <2>3. CASE s \notin received
      <3> DEFINE T == Timely(q) \cup {s}
      <3>1. Timely(q)' = T /\ T \subseteq Slots /\ \A t \in T : Generation(t) = q
        <4>1. s \notin late
          BY <2>3, ReceivedSlots
        <4>2. \A t \in Timely(q) : t \in received /\ t \notin late /\ Generation(t) = q
          BY DEF Timely
        <4>3. Timely(q)' = T
          BY <1>1, <1>4, <2>1, <4>1 DEF Timely
        <4> QED BY <1>2, <4>2, <4>3
      <3>2. TimelyIndices(q)' = TimelyIndices(q) \cup {Index(s)}
            /\ TimelyIndices(q)' = {Index(t) : t \in T}
        <4>1. \A t \in T : Index(t)' = Index(t)
          BY <1>1, <1>4 DEF Timely
        <4> QED BY <3>1, <4>1 DEF TimelyIndices
      <3>3. Fresh(s)
        <4>1. ASSUME NEW t \in Timely(q), Index(t) = Index(s)
              PROVE  FALSE
          <5>1. t \in received /\ Generation(t) = q
            BY DEF Timely
          <5> QED BY <1>0, <1>2, <2>3, <4>1, <5>1, SlotUnique
        <4> QED BY <2>1, <4>1 DEF Fresh, TimelyIndices
      <3>4. Manager!Received(Filled(s)) = TimelyIndices(q)'
        BY <1>0, <2>1, <3>2, FilledFacts
      <3>5. CASE Cardinality(Manager!Received(Filled(s))) >= K
        BY <1>0, <1>1, <2>1, <3>3, <3>5, Completed
      <3>6. CASE ~(Cardinality(Manager!Received(Filled(s))) >= K)
        <4>1. /\ Live(n)' /\ groups'[n].age = since[n]
              /\ Manager!Received(groups'[n]) = TimelyIndices(q)'
          BY <1>0, <2>1, <3>2, <3>3, <3>6, NotCompleted
        <4>2. Held(n, q)'
          BY <1>1, <4>1 DEF Held
        <4>3. Cardinality(T) \in Nat
              /\ Cardinality(T) <= Cardinality({Index(t) : t \in T})
          <5> HIDE DEF T
          <5> QED BY <1>0, <3>1, Counted
        <4>4. Cardinality(Manager!Received(Filled(s))) \in Nat
          BY ReceivedFinite
        <4>5. Cardinality(Timely(q)') < K
          <5> HIDE DEF T
          <5> QED BY <3>1, <3>2, <3>4, <3>6, <4>3, <4>4, Constants
        <4> QED BY <1>0, <1>1, <2>1, <4>2, <4>5
      <3> QED BY <3>5, <3>6
    <2> QED BY <2>2, <2>3
  <1> QED BY <1>3, <1>5, <1>6, <1>7, <1>8

(* A step that delivers nothing.                                             *)
LEMMA RecNotDelivered ==
  ASSUME Shape, [Next]_vars, RecInv, ~ \E d : Deliver(d)
  PROVE  RecInv'
  <1>1. CASE InstallManager
    BY <1>1 DEF InstallManager, NewManager, RecInv
  <1>2. CASE ~InstallManager
    <2>1. UNCHANGED <<received, late, strangers>>
      BY <1>2 DEF Next, vars, history, Send, Register, PublishKey, CleanUpTimeouts, Tick
    <2>2. Own' => Own
      <3>1. CASE PublishKey
        BY <3>1, ReceivedSlots, Constants DEF PublishKey, Own, Shape, TypeOK, SlotsOK
      <3>2. CASE ~PublishKey
        <4>1. UNCHANGED <<key, installed>>
          BY <1>2, <3>2 DEF Next, vars, Send, Register, Deliver, CleanUpTimeouts, Tick
        <4> QED BY <4>1 DEF Own
      <3> QED BY <3>1, <3>2
    <2>3. ASSUME NEW s \in received', NEW n, n = GroupNum(s), NEW q, q = Generation(s)
          PROVE  Recovering(s)'
      <3>1. s \in received /\ Recovering(s) /\ s \in Slots /\ n \in GroupNums
        BY <2>1, <2>3, ReceivedSlots, SlotFacts DEF RecInv, Shape
      <3>2. Timely(q)' = Timely(q) /\ TimelyIndices(q)' = TimelyIndices(q)
        BY <2>1, ReceivedSlots, TimelyKept
      <3>3. /\ since[n] \in 0..(GroupTimeout + 1) /\ GroupTimeout \in Nat
            /\ groups[n] \in Manager!GroupState \cup {Manager!NoGroup}
        BY <3>1, Constants DEF Shape, TypeOK, GroupsInv
      <3>4. CASE Tick
        <4>1. /\ since'[n] = Min({since[n] + 1, GroupTimeout + 1})
              /\ groups'[n] = Manager!Older(groups[n])
          BY <3>1, <3>4 DEF Tick, Manager!Tick
        <4>2. since'[n] = IF since[n] <= GroupTimeout THEN since[n] + 1 ELSE GroupTimeout + 1
          BY <3>3, <4>1, MinOf
        <4>3. since[n] > GroupTimeout => since'[n] > GroupTimeout
          BY <3>3, <4>2
        <4>4. ASSUME since'[n] <= GroupTimeout, since[n] <= GroupTimeout,
                     Live(n), groups[n].age = since[n]
              PROVE  /\ Live(n)' /\ groups'[n].age = since'[n]
                     /\ Manager!Received(groups'[n]) = Manager!Received(groups[n])
          <5>1. /\ groups'[n] \in Manager!GroupState /\ groups'[n].age = groups[n].age + 1
                /\ Manager!Received(groups'[n]) = Manager!Received(groups[n])
            BY <3>3, <4>1, <4>4, OlderFacts DEF Live
          <5>2. groups'[n].age = since'[n] /\ ~Manager!Stale(groups'[n])
            BY <3>3, <4>2, <4>4, <5>1 DEF Manager!Stale
          <5> QED BY <5>1, <5>2, NotNoGroup DEF Live
        <4> QED BY <2>1, <2>2, <2>3, <3>1, <3>2, <4>3, <4>4, RecoveringKept
      <3>5. CASE ~Tick
        <4>1. since' = since
          BY <1>2, <3>5 DEF Next, vars, history, Send, Register, PublishKey, CleanUpTimeouts
        <4>2. Live(n) => groups'[n] = groups[n]
          BY <1>2, <3>1, <3>5 DEF Next, vars, managerVars, Send, Register, PublishKey,
             CleanUpTimeouts, Manager!CleanUpTimeouts, Live
        <4>3. Live(n) => Live(n)'
          BY <4>2 DEF Live
        <4> QED BY <2>1, <2>2, <2>3, <3>1, <3>2, <4>1, <4>2, <4>3, RecoveringKept
      <3> QED BY <3>4, <3>5
    <2> QED BY <2>3 DEF RecInv
  <1> QED BY <1>1, <1>2

(* A frame that is delivered leaves the generations that it is not of.       *)
LEMMA RecOthers ==
  ASSUME Shape, [Next]_vars, Paced, NetInv, ReceivedInv, RecInv,
         NEW d, Deliver(d), NEW s \in Slots, s = d.slot,
         NEW r \in received, NEW n, n = GroupNum(r), NEW q, q = Generation(r),
         ~(Own /\ SessionOf(s) = installed /\ Generation(s) = q)
  PROVE  Recovering(r)'
  <1> DEFINE own == Own /\ SessionOf(s) = installed
  <1>0. /\ SlotsOK /\ GroupsInv /\ s < nextSlot /\ d \in network
        /\ r \in Slots /\ r < nextSlot /\ n \in GroupNums /\ SessionOf(r) = installed
        /\ strangers \subseteq strangers' /\ installed' = installed /\ key' = key
        /\ GroupNum(r)' = n /\ Recovering(r) /\ installed # 0
    <2>1. r \in Slots /\ r < nextSlot /\ SessionOf(r) = installed
      BY ReceivedSlots DEF ReceivedInv
    <2>2. installed # 0 /\ n \in GroupNums
      BY <2>1, SlotFacts DEF Shape
    <2> QED BY <2>1, <2>2, DeliverIs, RecordedIs, PastKept DEF RecInv, Shape
  <1>1. CASE own
    <2>1. received' = received \cup {s} /\ Recorded(s)
      BY <1>0, <1>1 DEF Deliver, Recorded, Own
    <2>2. \A t \in late' : t \in late \/ t = s
      BY <2>1 DEF Recorded
    <2>3. late \subseteq late'
      BY <2>1 DEF Recorded
    <2>4. Generation(s)' = Generation(s) /\ Generation(s) # q
      BY <1>0, <1>1, PastKept
    <2>5. s \in received => r # s
      BY <2>4
    <2>6. Timely(q)' = Timely(q) /\ TimelyIndices(q)' = TimelyIndices(q)
      <3>1. received' \subseteq Slots /\ late' \subseteq received'
        BY ShapeStep DEF Shape, TypeOK
      <3> QED BY <2>1, <2>2, <2>3, <2>4, <3>1, TimelyKept
    <2>7. r \in late' => r \in late
      BY <2>2, <2>4
    <2>8. ASSUME Latest(r)
          PROVE  GroupNum(s) # n
      <3>1. Latest(s)
        BY <1>0 DEF NetInv, Timed
      <3> QED BY <1>0, <1>1, <2>4, <2>8, <3>1, BothLatest
    <2>9. ASSUME Latest(r)
          PROVE  groups'[n] = groups[n] /\ since'[n] = since[n]
      <3>1. since'[n] = since[n]
        <4>1. since' = since \/ since' = [since EXCEPT ![GroupNum(s)] = 0]
          BY <2>1, Zenon DEF Recorded
        <4> QED BY <1>0, <2>8, <2>9, <4>1 DEF Shape, TypeOK
      <3>2. groups' = [groups EXCEPT ![GroupNum(s)] = After(s)]
        BY <1>0, DeliverIs
      <3> QED BY <1>0, <2>8, <2>9, <3>1, <3>2 DEF GroupsInv
    <2>10. Latest(r) /\ Live(n) => Live(n)'
      BY <2>9 DEF Live
    <2> QED BY <1>0, <2>6, <2>7, <2>9, <2>10, RecoveringKept DEF Own
  <1>2. CASE ~own
    <2>1. received' = received /\ since' = since /\ late' = late
      BY <1>0, <1>2, RecordedIs DEF Own
    <2>2. Timely(q)' = Timely(q) /\ TimelyIndices(q)' = TimelyIndices(q)
      BY <2>1, ReceivedSlots, TimelyKept
    <2>3. CASE ~Own
      BY <1>0, <2>1, <2>2, <2>3, RecoveringKept DEF Own
    <2>4. CASE SessionOf(s) # installed /\ GroupNum(s) = n
      <3>1. <<n, Index(s)>> \in strangers' /\ Index(s) \in 0..(N - 1)
        BY <1>0, <2>4, RecordedIs, SlotFacts
      <3>2. Strange(n)'
        BY <3>1 DEF Strange
      <3> QED BY <1>0, <3>2 DEF Recovering
    <2>5. CASE SessionOf(s) # installed /\ GroupNum(s) # n
      <3>1. groups' = [groups EXCEPT ![GroupNum(s)] = After(s)]
        BY <1>0, DeliverIs
      <3>2. groups'[n] = groups[n]
        BY <1>0, <2>5, <3>1 DEF GroupsInv
      <3>3. Live(n) => Live(n)'
        BY <3>2 DEF Live
      <3> QED BY <1>0, <2>1, <2>2, <3>2, <3>3, RecoveringKept DEF Own
    <2> QED BY <1>2, <2>3, <2>4, <2>5
  <1> QED BY <1>1, <1>2

LEMMA RecDelivered ==
  ASSUME Shape, [Next]_vars, Paced, NetInv, ShardsInv, DataInv, ReceivedInv, RecInv,
         NEW d, Deliver(d), NEW r \in received'
  PROVE  Recovering(r)'
  <1>1. PICK s \in Slots : s = d.slot /\ s < nextSlot
    BY DeliverIs
  <1>2. PICK n, q : n = GroupNum(s) /\ q = Generation(s)
    OBVIOUS
  <1>3. r \in Slots /\ r < nextSlot /\ SlotsOK
    BY NewlyReceived DEF Shape
  <1>4. r \in received \/ (r = s /\ Own /\ SessionOf(s) = installed)
    <2>1. CASE installed = SessionOf(s) /\ key = installed
      BY <1>1, <2>1, RecordedIs
    <2>2. CASE ~(installed = SessionOf(s) /\ key = installed)
      BY <1>1, <2>2, RecordedIs
    <2> QED BY <2>1, <2>2
  <1>5. CASE ~(Own /\ SessionOf(s) = installed /\ Generation(r) = q)
    BY <1>1, <1>2, <1>4, <1>5, RecOthers
  <1>6. CASE Own /\ SessionOf(s) = installed /\ Generation(r) = q
    <2>1. GroupNum(r)' = n /\ Generation(r)' = q /\ GroupNum(r) = n
      BY <1>1, <1>2, <1>3, <1>6, SameGeneration, PastKept
    <2>2. strangers' = strangers
      BY <1>1, <1>6, RecordedIs
    <2>3. CASE Strange(n)
      <3>1. Strange(n)'
        BY <2>2, <2>3 DEF Strange
      <3> QED BY <2>1, <3>1 DEF Recovering
    <2>4. CASE ~Strange(n)
      <3>1. CASE \A t \in received : Generation(t) # q
        <4>1. /\ s \notin late'
              /\ DataOf(q) \subseteq forwarded' \/
                   (Cardinality(Timely(q)') < K /\ Held(n, q)')
          BY <1>1, <1>2, <1>6, <2>4, <3>1, ComesFirst
        <4>2. r = s
          BY <1>4, <1>6, <3>1
        <4> QED BY <2>1, <4>1, <4>2 DEF Recovering, DataOf, Manager!Packet
      <3>2. CASE \E t \in received : Generation(t) = q
        <4>1. /\ since' = since
              /\ \A t \in late' \ late : since[n] > GroupTimeout
              /\ DataOf(q) \subseteq forwarded' \/
                   (Cardinality(Timely(q)') < K /\ Held(n, q)')
          BY <1>1, <1>2, <1>6, <2>4, <3>2, ComesLater
        <4>2. ASSUME Own', Latest(r)', r \in late'
              PROVE  since'[n] > GroupTimeout
          <5>1. Latest(r)
            BY <1>3, <4>2, LatestBefore
          <5>2. CASE r \in late
            BY <1>6, <2>1, <2>4, <4>1, <5>1, <5>2, ReceivedSlots DEF RecInv, Recovering
          <5>3. CASE r \notin late
            BY <4>1, <4>2, <5>3
          <5> QED BY <5>2, <5>3
        <4> QED BY <2>1, <4>1, <4>2 DEF Recovering, DataOf, Manager!Packet
      <3> QED BY <3>1, <3>2
    <2> QED BY <2>3, <2>4
  <1> QED BY <1>5, <1>6

LEMMA RecStep ==
  ASSUME Shape, [Next]_vars, Paced, NetInv, ShardsInv, DataInv, ReceivedInv, RecInv
  PROVE  RecInv'
  BY RecNotDelivered, RecDelivered DEF RecInv

LEMMA RecImplies == RecInv => LostRecovered
  BY DEF RecInv, Recovering, LostRecovered, Timely, Strange

(* FEC keeps its promise: if K frames of a generation come to the manager of *)
(* their session within a groupTimeout of the first, whichever, in whatever  *)
(* order and with whatever repeated, all its data is forwarded, unless       *)
(* frames of another session came with its number.                           *)
THEOREM RecoversTheLost ==
  ASSUME Paced
  PROVE  Spec => []LostRecovered
  <1>1. Init => RecInv
    BY DEF Init, RecInv
  <1>2. Shape /\ ShardsInv /\ NetInv /\ ReceivedInv /\ DataInv /\ RecInv /\ [Next]_vars
          => RecInv'
    BY RecStep
  <1> QED BY <1>1, <1>2, RecImplies, ShapeHolds, OriginsHold, HistoryHolds, PTL DEF Spec

=============================================================================
