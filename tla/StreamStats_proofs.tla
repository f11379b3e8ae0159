------------------------- MODULE StreamStats_proofs -------------------------
(* Proofs about StreamStats: the receiver's loss counters, for every space   *)
(* of sequence numbers, every width of the window, every number of frames    *)
(* and every amount of reordering up to half of the space; then the FEC      *)
(* analyzer, for every set of sizes and every history.  What the analyzer    *)
(* computes with folds (SumFunction, FoldLeft) is proved by minimal counter- *)
(* example over a well-founded order.                                        *)
EXTENDS StreamStats, FiniteSetTheorems, TLAPS

(* Quotient and remainder are what they are called.                          *)
LEMMA RemainderIs ==
  ASSUME NEW m \in Nat, NEW q \in Int, NEW r \in Int, NEW p \in Int, NEW s \in Int,
         m * q + r = m * p + s, 0 <= r, r < m, 0 <= s, s < m
  PROVE  r = s
  <1> DEFINE d == q - p
  <1>1. d \in Int /\ m * d = s - r
    OBVIOUS
  <1> HIDE DEF d
  <1>2. d >= 1 => m * d >= m
    BY <1>1
  <1>3. d <= -1 => m * d <= -m
    BY <1>1
  <1> QED BY <1>1, <1>2, <1>3

LEMMA DivMod ==
  \A a \in Int, m \in Int : m > 0 => /\ a = m * (a \div m) + (a % m)
                                    /\ a % m \in 0..(m - 1) /\ a \div m \in Int
  <1>1. \A a \in Int, m \in Int : m > 0 => a = m * (a \div m) + (a % m)
    OBVIOUS
  <1>2. \A a \in Int, m \in Int : m > 0 => a % m \in 0..(m - 1) /\ a \div m \in Int
    OBVIOUS
  <1> QED BY <1>1, <1>2, Zenon

(* What the assumptions come to.                                             *)
LEMMA Constants ==
  /\ SeqSpace \in Nat /\ 0 < SeqSpace
  /\ Window \in Nat /\ 0 < Window
  /\ Reach \in Nat /\ 2 * Reach <= SeqSpace
  BY FECAnalyzerAssumption, StreamStatsAssumption

LEMMA MaxIs ==
  ASSUME NEW S \in SUBSET Int, NEW x \in S, \A y \in S : y <= x
  PROVE  Max(S) = x
  <1>1. Max(S) \in S /\ \A y \in S : Max(S) >= y
    <2>1. \E z \in S : \A y \in S : z >= y
      OBVIOUS
    <2> QED BY <2>1 DEF Max
  <1>2. Max(S) >= x /\ x >= Max(S) /\ Max(S) \in Int
    BY <1>1
  <1> QED BY <1>2
-----------------------------------------------------------------------------
(* The signed difference of two numbers that are taken modulo SeqSpace is    *)
(* the true one when that is small.                                          *)
LEMMA ModOf ==
  ASSUME NEW a \in Int
  PROVE  \E q \in Int : a = SeqSpace * q + (a % SeqSpace) /\ a % SeqSpace \in 0..(SeqSpace - 1)
  <1>1. a \in Int /\ SeqSpace \in Int /\ SeqSpace > 0
    BY Constants
  <1> QED BY <1>1, DivMod, Zenon

LEMMA ModSmall ==
  ASSUME NEW a \in Nat, a < SeqSpace
  PROVE  a % SeqSpace = a
  <1>1. PICK q \in Int : a = SeqSpace * q + (a % SeqSpace)
                         /\ a % SeqSpace \in 0..(SeqSpace - 1)
    BY ModOf
  <1> DEFINE r == a % SeqSpace
  <1>2. a = SeqSpace * q + r /\ r \in 0..(SeqSpace - 1)
    BY <1>1
  <1> HIDE DEF r
  <1>3. SeqSpace * q + r = SeqSpace * 0 + a /\ r \in Int
    BY <1>2, Constants
  <1>4. r = a
    BY <1>2, <1>3, RemainderIs, Constants
  <1> QED BY <1>4 DEF r

LEMMA DiffType ==
  ASSUME NEW a \in Int, NEW b \in Int
  PROVE  Diff(a, b) \in Int /\ Diff(a, a) = 0
  <1>1. (a - b) % SeqSpace \in Int
    BY ModOf, Constants
  <1>2. (a - a) % SeqSpace = 0
    <2>1. a - a = 0
      OBVIOUS
    <2> QED BY <2>1, ModSmall, Constants
  <1> QED BY <1>1, <1>2, Constants DEF Diff

LEMMA DiffExact ==
  ASSUME NEW a \in Int, NEW b \in Int, 2 * (a - b) < SeqSpace, -SeqSpace <= 2 * (a - b)
  PROVE  Diff(a % SeqSpace, b % SeqSpace) = a - b
  <1> DEFINE x == a % SeqSpace
             y == b % SeqSpace
             d == (x - y) % SeqSpace
  <1>1. PICK q \in Int : a = SeqSpace * q + x /\ x \in 0..(SeqSpace - 1)
    BY ModOf
  <1>2. PICK p \in Int : b = SeqSpace * p + y /\ y \in 0..(SeqSpace - 1)
    BY ModOf
  <1> HIDE DEF x, y
  <1>3. PICK k \in Int : x - y = SeqSpace * k + d /\ d \in 0..(SeqSpace - 1)
    <2>1. x - y \in Int
      BY <1>1, <1>2, Constants
    <2> QED BY <2>1, ModOf
  <1> HIDE DEF d
  <1> DEFINE e == k + q - p
  <1>4. e \in Int /\ a - b = SeqSpace * e + d
    BY <1>1, <1>2, <1>3, Constants
  <1> HIDE DEF e
  <1>5. CASE a - b >= 0
    <2>1. SeqSpace * e + d = SeqSpace * 0 + (a - b) /\ a - b \in Int /\ d \in Int
      BY <1>3, <1>4, Constants
    <2>2. d = a - b
      BY <1>3, <1>4, <1>5, <2>1, RemainderIs, Constants
    <2> QED BY <2>2, Constants DEF Diff, x, y, d
  <1>6. CASE a - b < 0
    <2>1. SeqSpace * e + d = SeqSpace * (-1) + (a - b + SeqSpace)
          /\ a - b + SeqSpace \in Int /\ d \in Int
      BY <1>3, <1>4, Constants
    <2>2. d = a - b + SeqSpace
      BY <1>3, <1>4, <1>6, <2>1, RemainderIs, Constants
    <2> QED BY <2>2, Constants DEF Diff, x, y, d
  <1> QED BY <1>5, <1>6
-----------------------------------------------------------------------------
(* What has been sent and what has arrived; the sender is at most Reach      *)
(* frames ahead of the newest that arrived.                                  *)
Stream == [hasLastSeq : BOOLEAN, lastSeq : Int, window : SUBSET (0..(Window - 1)),
           lost : Nat, panicked : BOOLEAN]

NewestOK ==
  /\ Newest \in arrived \cup {-1}
  /\ \A s \in arrived : s <= Newest
  /\ sent > 0 => sent - Newest <= Reach

Shape ==
  /\ sent \in Nat /\ base \in 0..sent
  /\ stream \in Stream
  /\ stream.hasLastSeq <=> arrived # {}
  /\ arrived \in SUBSET (0..(sent - 1))
  /\ ahead \in 0..Window
  /\ NewestOK

(* Numbers and window are in step with the stream: lastSeq is the newest     *)
(* frame's, and the bits that stand for what the newest has passed since two *)
(* numberings met are right.                                                 *)
InStep ==
  /\ Newest >= base
  /\ stream.lastSeq = SeqNum(Newest)
  /\ \A i \in 0..(ahead - 1) :
       /\ i \in stream.window <=> Newest - i \in arrived
       /\ Newest - i \in arrived => Newest - i >= base

WindowInv ==
  /\ base = 0 => ahead = Window /\ ~stream.panicked
  /\ arrived # {} /\ ahead > 0 => InStep

LEMMA NoneArrived == Newest = -1 \/ arrived # {}
  <1> SUFFICES ASSUME arrived = {} PROVE Newest = -1
    OBVIOUS
  <1>1. arrived \cup {-1} \in SUBSET Int /\ -1 \in arrived \cup {-1}
        /\ \A y \in arrived \cup {-1} : y <= -1
    OBVIOUS
  <1> QED BY <1>1, MaxIs DEF Newest

LEMMA InitOK == Init => Shape /\ WindowInv
  <1> SUFFICES ASSUME Init PROVE Shape /\ WindowInv
    OBVIOUS
  <1>1. Newest = -1
    BY NoneArrived DEF Init
  <1>2. stream \in Stream
    BY DEF Init, Stream
  <1> QED BY <1>1, <1>2, Constants DEF Init, Shape, NewestOK, WindowInv

LEMMA WindowInvIsTruthful == Shape /\ WindowInv => WindowTruthful
  BY Constants DEF Shape, WindowInv, InStep, WindowTruthful
-----------------------------------------------------------------------------
(* A frame that arrives is near the newest that has.                         *)
LEMMA Arrival ==
  ASSUME Shape, NEW slot \in 0..(sent - 1), sent - slot <= Reach,
         arrived' = arrived \cup {slot}, sent' = sent
  PROVE  /\ Newest \in Int /\ -1 <= Newest /\ slot \in Nat
         /\ Newest' = IF slot > Newest THEN slot ELSE Newest
         /\ NewestOK'
         /\ arrived # {} => Newest \in arrived /\ Newest \in Nat
         /\ 2 * (slot - Newest) < SeqSpace /\ 2 * (Newest - slot) < SeqSpace
  <1>1. Newest \in Int /\ -1 <= Newest /\ slot \in Nat /\ sent \in Nat /\ sent > 0
    BY DEF Shape, NewestOK
  <1>2. Newest' = IF slot > Newest THEN slot ELSE Newest
    <2> DEFINE x == IF slot > Newest THEN slot ELSE Newest
    <2>1. x \in arrived' \cup {-1} /\ x \in Int
      BY <1>1 DEF Shape, NewestOK
    <2>2. \A y \in arrived' \cup {-1} : y <= x /\ y \in Int
      BY <1>1 DEF Shape, NewestOK
    <2> HIDE DEF x
    <2>3. Max(arrived' \cup {-1}) = x
      BY <2>1, <2>2, MaxIs
    <2> QED BY <2>3 DEF Newest, x
  <1>3. NewestOK'
    BY <1>1, <1>2 DEF Shape, NewestOK
  <1>4. arrived # {} => Newest \in arrived /\ Newest \in Nat
    <2> SUFFICES ASSUME NEW s \in arrived PROVE Newest \in arrived /\ Newest \in Nat
      OBVIOUS
    <2>1. s \in Nat /\ s <= Newest
      BY <1>1 DEF Shape, NewestOK
    <2> QED BY <1>1, <2>1 DEF Shape, NewestOK
  <1>5. 2 * (slot - Newest) < SeqSpace /\ 2 * (Newest - slot) < SeqSpace
    BY <1>1, Constants DEF Shape, NewestOK
  <1> QED BY <1>1, <1>2, <1>3, <1>4, <1>5

(* The numbers of two frames of one worker.                                  *)
LEMMA SameWorker ==
  ASSUME NEW a \in Nat, NEW b \in Nat, base \in Nat, a >= base, b >= base,
         2 * (a - b) < SeqSpace, 2 * (b - a) < SeqSpace
  PROVE  Diff(SeqNum(a), SeqNum(b)) = a - b
  <1>1. Place(a) = a - base /\ Place(b) = b - base
    BY DEF Place
  <1> DEFINE x == a - base
             y == b - base
  <1>2. x \in Int /\ y \in Int /\ x - y = a - b
        /\ 2 * (x - y) < SeqSpace /\ -SeqSpace <= 2 * (x - y)
    BY Constants
  <1> HIDE DEF x, y
  <1>3. Diff(x % SeqSpace, y % SeqSpace) = x - y
    BY <1>2, DiffExact
  <1> QED BY <1>1, <1>2, <1>3 DEF SeqNum, x, y

LEMMA SeqNumType ==
  ASSUME base \in Nat, NEW slot \in Nat
  PROVE  SeqNum(slot) \in Nat
  <1>1. Place(slot) \in Int
    BY DEF Place
  <1> QED BY <1>1, ModOf, Constants DEF SeqNum

(* StreamStats.Update, in its three cases.                                   *)
LEMMA UpdateFirst ==
  ASSUME NEW s \in Stream, NEW seq \in Int, ~s.hasLastSeq
  PROVE  /\ Update(s, seq) \in Stream
         /\ Update(s, seq).hasLastSeq /\ Update(s, seq).lastSeq = seq
         /\ Update(s, seq).window = {0}
         /\ Update(s, seq).lost = s.lost /\ Update(s, seq).panicked = s.panicked
  <1>1. Update(s, seq) = [s EXCEPT !.hasLastSeq = TRUE, !.lastSeq = seq, !.window = {0}]
    BY DEF Update
  <1>2. {0} \in SUBSET (0..(Window - 1))
    BY Constants
  <1> QED BY <1>1, <1>2 DEF Stream

LEMMA UpdateAhead ==
  ASSUME NEW s \in Stream, NEW seq \in Int, s.hasLastSeq, Diff(seq, s.lastSeq) > 0
  PROVE  /\ Update(s, seq) \in Stream
         /\ Update(s, seq).hasLastSeq /\ Update(s, seq).lastSeq = seq
         /\ Update(s, seq).window = Shifted(s.window, Diff(seq, s.lastSeq))
         /\ Update(s, seq).lost = s.lost + Diff(seq, s.lastSeq) - 1
         /\ Update(s, seq).panicked = s.panicked
  <1> DEFINE d == Diff(seq, s.lastSeq)
  <1>1. d \in Int /\ d > 0
    BY DiffType DEF Stream
  <1>2. Update(s, seq) = Ahead(s, seq, d)
    BY <1>1 DEF Update
  <1>3. Shifted(s.window, d) \in SUBSET (0..(Window - 1))
    BY Constants DEF Shifted
  <1>4. s.lost + d - 1 \in Nat
    BY <1>1 DEF Stream
  <1> HIDE DEF d
  <1>5. Ahead(s, seq, d) = [s EXCEPT !.window = Shifted(s.window, d), !.lost = s.lost + d - 1,
                                    !.lastSeq = seq]
    BY DEF Ahead
  <1> QED BY <1>2, <1>3, <1>4, <1>5 DEF Stream, d

LEMMA UpdateLate ==
  ASSUME NEW s \in Stream, NEW seq \in Int, s.hasLastSeq,
         NEW offset \in Nat, Diff(seq, s.lastSeq) = -offset
  PROVE  /\ Update(s, seq) \in Stream
         /\ Update(s, seq).hasLastSeq /\ Update(s, seq).lastSeq = s.lastSeq
         /\ 2 * offset # SeqSpace =>
              LET fits == offset < Window /\ offset \notin s.window
              IN /\ Update(s, seq).window = IF fits THEN s.window \cup {offset} ELSE s.window
                 /\ Update(s, seq).lost = IF fits /\ s.lost > 0 THEN s.lost - 1 ELSE s.lost
                 /\ Update(s, seq).panicked = s.panicked
  <1> DEFINE d == Diff(seq, s.lastSeq)
  <1>0. d <= 0 /\ ~(d > 0) /\ -d = offset
    OBVIOUS
  <1> HIDE DEF d
  <1>1. Update(s, seq) = Late(s, offset)
    BY <1>0 DEF Update, d
  <1>2. CASE 2 * offset = SeqSpace
    <2>1. Late(s, offset) = [s EXCEPT !.panicked = TRUE]
      BY <1>2 DEF Late
    <2> QED BY <1>1, <1>2, <2>1 DEF Stream
  <1>3. CASE 2 * offset # SeqSpace /\ offset < Window /\ offset \notin s.window
    <2> DEFINE w == s.window \cup {offset}
               l == IF s.lost > 0 THEN s.lost - 1 ELSE s.lost
    <2>1. Late(s, offset) = [s EXCEPT !.window = w, !.lost = l]
      BY <1>3 DEF Late
    <2>2. w \in SUBSET (0..(Window - 1)) /\ l \in Nat
      BY <1>3, Constants DEF Stream
    <2> HIDE DEF w, l
    <2>3. /\ Late(s, offset) \in Stream /\ Late(s, offset).hasLastSeq
          /\ Late(s, offset).lastSeq = s.lastSeq /\ Late(s, offset).window = w
          /\ Late(s, offset).lost = l /\ Late(s, offset).panicked = s.panicked
      BY <2>1, <2>2 DEF Stream
    <2> QED BY <1>1, <1>3, <2>3 DEF w, l
  <1>4. CASE 2 * offset # SeqSpace /\ ~(offset < Window /\ offset \notin s.window)
    <2>1. Late(s, offset) = s
      BY <1>4 DEF Late
    <2> QED BY <1>1, <1>4, <2>1
  <1> QED BY <1>2, <1>3, <1>4
-----------------------------------------------------------------------------
(* What Receive does to the counters, without the histories.                 *)
Arrives(slot) ==
  /\ slot \in 0..(sent - 1) /\ sent - slot <= Reach
  /\ stream' = Update(stream, SeqNum(slot))
  /\ arrived' = arrived \cup {slot}
  /\ UNCHANGED <<sent, base>>

LEMMA SeqNumKept ==
  ASSUME UNCHANGED base, NEW x, Newest' = x
  PROVE  SeqNum(Newest)' = SeqNum(x)
  BY DEF SeqNum, Place

(* In step, the next frame of the same worker keeps it so.                   *)
Follows(slot) ==
  /\ arrived # {} /\ ahead > 0 /\ slot >= base
  /\ ahead' \in 0..Window
  /\ ahead' <= ahead + (IF slot > Newest THEN slot - Newest ELSE 0)

LEMMA StaysInStep ==
  ASSUME Shape, InStep, NEW slot, Arrives(slot), Follows(slot)
  PROVE  InStep' /\ stream'.panicked = stream.panicked
  <1>0. slot \in 0..(sent - 1) /\ sent - slot <= Reach /\ arrived' = arrived \cup {slot}
        /\ sent' = sent /\ base' = base /\ stream' = Update(stream, SeqNum(slot))
    BY DEF Arrives
  <1>p. PICK n : n = ahead'
    OBVIOUS
  <1>n. n \in Nat /\ n <= Window
    BY <1>p, Constants DEF Follows
  <1>m. n <= ahead + (IF slot > Newest THEN slot - Newest ELSE 0)
    BY <1>p DEF Follows
  <1>f. arrived # {} /\ ahead > 0 /\ slot >= base
    BY DEF Follows
  <1>1. /\ Newest \in arrived /\ Newest \in Nat /\ slot \in Nat
        /\ Newest' = IF slot > Newest THEN slot ELSE Newest
        /\ 2 * (slot - Newest) < SeqSpace /\ 2 * (Newest - slot) < SeqSpace
        /\ \A s \in arrived : s <= Newest
    BY <1>0, <1>f, Arrival DEF Shape, NewestOK
  <1>2. /\ base \in Nat /\ Newest >= base /\ stream.lastSeq = SeqNum(Newest)
        /\ stream \in Stream /\ stream.hasLastSeq /\ ahead \in 0..Window
    BY <1>f DEF Shape, InStep
  <1>3. Diff(SeqNum(slot), stream.lastSeq) = slot - Newest
    BY <1>1, <1>2, <1>f, SameWorker
  <1>4. SeqNum(slot) \in Int
    BY <1>1, <1>2, SeqNumType
  <1>5. CASE slot > Newest
    <2> DEFINE d == slot - Newest
    <2>1. d \in Nat /\ d > 0 /\ Diff(SeqNum(slot), stream.lastSeq) = d
      BY <1>1, <1>3, <1>5
    <2>2. /\ stream'.lastSeq = SeqNum(slot)
          /\ stream'.window = Shifted(stream.window, d)
          /\ stream'.panicked = stream.panicked
      BY <1>0, <1>2, <1>4, <2>1, UpdateAhead
    <2>3. Newest' = slot
      BY <1>1, <1>5
    <2>4. stream'.lastSeq = SeqNum(Newest)'
      BY <1>0, <2>2, <2>3, SeqNumKept
    <2>5. ASSUME NEW i \in 0..(n - 1)
          PROVE  /\ i \in stream'.window <=> slot - i \in arrived'
                 /\ slot - i \in arrived' => slot - i >= base
      <3>1. i \in 0..(Window - 1) /\ i \in Nat
        BY <1>n, <2>5, Constants
      <3>2. i \in stream'.window <=> i = 0 \/ i - d \in stream.window
        BY <2>2, <3>1 DEF Shifted
      <3>3. slot - i \in arrived' <=> i = 0 \/ slot - i \in arrived
        BY <1>0, <1>1, <3>1
      <3>4. CASE i < d
        <4>1. i - d \notin stream.window
          BY <1>2, <2>1, <3>1, <3>4 DEF Stream
        <4>2. slot - i \notin arrived
          BY <1>1, <3>1, <3>4
        <4> QED BY <1>f, <3>1, <3>2, <3>3, <4>1, <4>2, <1>1
      <3>5. CASE i >= d
        <4>1. i - d \in 0..(ahead - 1) /\ slot - i = Newest - (i - d)
          BY <1>n, <1>m, <1>1, <1>2, <1>5, <2>1, <2>5, <3>1, <3>5, Constants
        <4> QED BY <3>1, <3>2, <3>3, <3>5, <4>1, <2>1 DEF InStep
      <3> QED BY <2>1, <3>1, <3>4, <3>5
    <2> QED BY <1>p, <1>0, <1>1, <1>2, <1>5, <2>2, <2>3, <2>4, <2>5 DEF InStep
  <1>6. CASE slot <= Newest
    <2> DEFINE o == Newest - slot
    <2>1. o \in Nat /\ Diff(SeqNum(slot), stream.lastSeq) = -o /\ 2 * o # SeqSpace
      BY <1>1, <1>3, <1>6
    <2>2. Newest' = Newest
      BY <1>1, <1>6
    <2>3. /\ stream'.lastSeq = stream.lastSeq
          /\ stream'.window = IF o < Window /\ o \notin stream.window
                              THEN stream.window \cup {o} ELSE stream.window
          /\ stream'.panicked = stream.panicked
      BY <1>0, <1>2, <1>4, <2>1, UpdateLate
    <2>4. stream'.lastSeq = SeqNum(Newest)'
      BY <1>0, <1>2, <2>2, <2>3, SeqNumKept
    <2>5. ASSUME NEW i \in 0..(n - 1)
          PROVE  /\ i \in stream'.window <=> Newest - i \in arrived'
                 /\ Newest - i \in arrived' => Newest - i >= base
      <3>1. i \in 0..(ahead - 1) /\ i < Window /\ i \in Nat
        BY <1>n, <1>m, <1>2, <1>6, <2>5, <1>1, Constants
      <3>2. i \in stream'.window <=> i \in stream.window \/ i = o
        BY <2>3, <3>1
      <3>3. Newest - i \in arrived' <=> Newest - i \in arrived \/ i = o
        <4>1. Newest - i = slot <=> i = o
          BY <1>1, <3>1
        <4> QED BY <1>0, <4>1
      <3>4. i = o => Newest - i >= base
        BY <1>1, <1>f
      <3>5. /\ i \in stream.window <=> Newest - i \in arrived
            /\ Newest - i \in arrived => Newest - i >= base
        BY <3>1 DEF InStep
      <3> QED BY <3>2, <3>3, <3>4, <3>5
    <2> QED BY <1>p, <1>0, <1>2, <2>2, <2>3, <2>4, <2>5 DEF InStep
  <1> QED BY <1>1, <1>5, <1>6

(* The first frame is in step, and so is the newest of all when lastSeq      *)
(* follows it, as far as both have moved.                                    *)
Leads(slot) ==
  /\ slot >= base /\ slot > Newest
  /\ ahead' \in 0..Window
  /\ arrived # {} => LET d == Diff(SeqNum(slot), stream.lastSeq)
                     IN d > 0 /\ ahead' <= d /\ ahead' <= slot - Newest

LEMMA FallsInStep ==
  ASSUME Shape, NEW slot, Arrives(slot), Leads(slot)
  PROVE  InStep' /\ stream'.panicked = stream.panicked
  <1>0. slot \in 0..(sent - 1) /\ sent - slot <= Reach /\ arrived' = arrived \cup {slot}
        /\ sent' = sent /\ base' = base /\ stream' = Update(stream, SeqNum(slot))
    BY DEF Arrives
  <1>p. PICK n : n = ahead'
    OBVIOUS
  <1>n. n \in Nat /\ n <= Window
    BY <1>p, Constants DEF Leads
  <1>f. slot >= base /\ slot > Newest
    BY DEF Leads
  <1>1. /\ Newest \in Int /\ slot \in Nat /\ Newest' = slot
        /\ \A s \in arrived : s <= Newest
    BY <1>0, <1>f, Arrival DEF Shape, NewestOK
  <1>2. base \in Nat /\ stream \in Stream /\ (stream.hasLastSeq <=> arrived # {})
    BY DEF Shape
  <1>3. SeqNum(slot) \in Int
    BY <1>1, <1>2, SeqNumType
  <1> DEFINE d == Diff(SeqNum(slot), stream.lastSeq)
  <1>4. d \in Int
    BY <1>2, <1>3, DiffType DEF Stream
  <1>d. arrived # {} => d > 0 /\ n <= d /\ n <= slot - Newest
    BY <1>p DEF Leads
  <1>5. /\ stream'.lastSeq = SeqNum(slot) /\ stream'.panicked = stream.panicked
        /\ stream'.window = IF arrived = {} THEN {0} ELSE Shifted(stream.window, d)
    <2>1. CASE arrived = {}
      BY <1>0, <1>2, <1>3, <2>1, UpdateFirst
    <2>2. CASE arrived # {}
      BY <1>0, <1>2, <1>3, <1>d, <2>2, UpdateAhead
    <2> QED BY <2>1, <2>2
  <1>6. stream'.lastSeq = SeqNum(Newest)'
    BY <1>0, <1>1, <1>5, SeqNumKept
  <1> HIDE DEF d
  <1>7. ASSUME NEW i \in 0..(n - 1)
        PROVE  /\ i \in stream'.window <=> slot - i \in arrived'
               /\ slot - i \in arrived' => slot - i >= base
    <2>1. i \in 0..(Window - 1) /\ i \in Nat
      BY <1>n, <1>7, Constants
    <2>2. i \in stream'.window <=> i = 0
      <3>1. CASE arrived = {}
        BY <1>5, <3>1
      <3>2. CASE arrived # {}
        <4>1. i - d \notin stream.window
          BY <1>n, <1>2, <1>4, <1>d, <1>7, <2>1, <3>2 DEF Stream
        <4> QED BY <1>5, <2>1, <3>2, <4>1 DEF Shifted
      <3> QED BY <3>1, <3>2
    <2>3. slot - i \in arrived' <=> i = 0
      BY <1>n, <1>0, <1>1, <1>d, <1>7, <2>1
    <2> QED BY <1>1, <1>f, <2>2, <2>3
  <1> QED BY <1>p, <1>0, <1>1, <1>f, <1>5, <1>6, <1>7 DEF InStep
-----------------------------------------------------------------------------
Slots == {s \in 0..(sent - 1) : sent - s <= Reach}

LEMMA ReceiveArrives ==
  ASSUME NEW slot \in Slots, Receive(slot)
  PROVE  Arrives(slot)
  BY DEF Slots, Receive, Arrives

LEMMA ArrivesShape ==
  ASSUME Shape, NEW slot, Arrives(slot)
  PROVE  /\ stream' \in Stream
         /\ stream'.hasLastSeq /\ arrived' # {}
         /\ arrived' \in SUBSET (0..(sent' - 1))
         /\ sent' \in Nat /\ base' \in 0..sent'
         /\ NewestOK'
  <1>0. slot \in 0..(sent - 1) /\ sent - slot <= Reach /\ arrived' = arrived \cup {slot}
        /\ sent' = sent /\ base' = base /\ stream' = Update(stream, SeqNum(slot))
    BY DEF Arrives
  <1>1. slot \in Nat /\ base \in Nat /\ stream \in Stream /\ sent \in Nat
    BY <1>0 DEF Shape
  <1>2. SeqNum(slot) \in Int
    BY <1>1, SeqNumType
  <1>3. stream' \in Stream /\ stream'.hasLastSeq
    <2> DEFINE d == Diff(SeqNum(slot), stream.lastSeq)
    <2>1. d \in Int
      BY <1>1, <1>2, DiffType DEF Stream
    <2>2. CASE ~stream.hasLastSeq
      BY <1>0, <1>1, <1>2, <2>2, UpdateFirst
    <2>3. CASE stream.hasLastSeq /\ d > 0
      BY <1>0, <1>1, <1>2, <2>3, UpdateAhead
    <2>4. CASE stream.hasLastSeq /\ ~(d > 0)
      <3>1. PICK o \in Nat : d = -o
        <4>1. -d \in Nat /\ d = -(-d)
          BY <2>1, <2>4
        <4> QED BY <4>1
      <3> QED BY <1>0, <1>1, <1>2, <2>4, <3>1, UpdateLate
    <2>5. stream.hasLastSeq \in BOOLEAN
      BY <1>1 DEF Stream
    <2> QED BY <2>2, <2>3, <2>4, <2>5
  <1>4. NewestOK'
    BY <1>0, Arrival
  <1> QED BY <1>0, <1>1, <1>3, <1>4 DEF Shape

(* What lastSeq has moved by.                                                *)
LEMMA LastSeqMoves ==
  ASSUME Shape, NEW slot, Arrives(slot), arrived # {}
  PROVE  LET d == Diff(SeqNum(slot), stream.lastSeq)
             m == Diff(stream'.lastSeq, stream.lastSeq)
         IN d \in Int /\ m = IF d > 0 THEN d ELSE 0
  <1>0. slot \in 0..(sent - 1) /\ stream' = Update(stream, SeqNum(slot))
    BY DEF Arrives
  <1>1. slot \in Nat /\ base \in Nat /\ stream \in Stream /\ stream.hasLastSeq
    BY <1>0 DEF Shape
  <1>2. SeqNum(slot) \in Int /\ stream.lastSeq \in Int
    BY <1>1, SeqNumType DEF Stream
  <1> DEFINE d == Diff(SeqNum(slot), stream.lastSeq)
  <1>3. d \in Int
    BY <1>2, DiffType
  <1>4. CASE d > 0
    <2>1. stream'.lastSeq = SeqNum(slot)
      BY <1>0, <1>1, <1>2, <1>4, UpdateAhead
    <2> QED BY <1>3, <1>4, <2>1
  <1>5. CASE ~(d > 0)
    <2>1. PICK o \in Nat : d = -o
      <3>1. -d \in Nat /\ d = -(-d)
        BY <1>3, <1>5
      <3> QED BY <3>1
    <2>2. stream'.lastSeq = stream.lastSeq
      BY <1>0, <1>1, <1>2, <2>1, UpdateLate
    <2>3. Diff(stream'.lastSeq, stream.lastSeq) = 0
      BY <1>2, <2>2, DiffType
    <2> QED BY <1>3, <1>5, <2>3
  <1> QED BY <1>4, <1>5

(* Before a reconnection the whole window follows.                           *)
LEMMA ReceiveBefore ==
  ASSUME Shape, WindowInv, NEW slot \in Slots, Receive(slot), base = 0
  PROVE  ahead' \in 0..Window /\ WindowInv'
  <1>1. Arrives(slot) /\ slot \in Nat /\ base' = 0 /\ ahead' = ahead
    BY ReceiveArrives DEF Receive, Slots
  <1>2. ahead = Window /\ ~stream.panicked
    BY DEF WindowInv
  <1>3. InStep' /\ stream'.panicked = stream.panicked
    <2>1. CASE arrived = {}
      <3>1. Newest = -1
        BY <2>1, NoneArrived
      <3>2. Leads(slot)
        BY <1>1, <1>2, <2>1, <3>1, Constants DEF Leads
      <3> QED BY <1>1, <3>2, FallsInStep
    <2>2. CASE arrived # {}
      <3>1. InStep
        BY <1>2, <2>2, Constants DEF WindowInv
      <3>2. Newest \in Int
        BY DEF Shape, NewestOK
      <3>3. Follows(slot)
        BY <1>1, <1>2, <2>2, <3>2, Constants DEF Follows
      <3> QED BY <1>1, <3>1, <3>3, StaysInStep
    <2> QED BY <2>1, <2>2
  <1> QED BY <1>1, <1>2, <1>3, Constants DEF WindowInv

LEMMA MinOf ==
  ASSUME NEW a \in Int, NEW b \in Int, NEW c \in Int
  PROVE  LET m == Min({a, b, c}) IN m \in {a, b, c} /\ m <= a /\ m <= b /\ m <= c
  <1>1. \E z \in {a, b, c} : \A y \in {a, b, c} : z <= y
    <2>1. CASE a <= b /\ a <= c
      BY <2>1
    <2>2. CASE b <= a /\ b <= c
      BY <2>2
    <2>3. CASE c <= a /\ c <= b
      BY <2>3
    <2> QED BY <2>1, <2>2, <2>3
  <1>2. Min({a, b, c}) \in {a, b, c} /\ \A y \in {a, b, c} : Min({a, b, c}) <= y
    BY <1>1 DEF Min
  <1> QED BY <1>2

(* After one, what has been moved since follows.                             *)
LEMMA ReceiveAfter ==
  ASSUME Shape, WindowInv, NEW slot \in Slots, Receive(slot), base # 0
  PROVE  ahead' \in 0..Window /\ WindowInv'
  <1>1. /\ Arrives(slot) /\ slot \in Nat /\ base' = base /\ ahead' = MovedAhead(slot)
        /\ slot \in 0..(sent - 1) /\ sent - slot <= Reach
        /\ stream' = Update(stream, SeqNum(slot))
    BY ReceiveArrives DEF Receive, Slots
  <1>2. Newest \in Int /\ ahead \in Nat /\ ahead <= Window /\ base \in Nat
    BY Constants DEF Shape, NewestOK
  <1> DEFINE m == Diff(stream'.lastSeq, stream.lastSeq)
             w == Min({Window, ahead + m, ahead + slot - Newest})
  <1>3. m \in Int
    <2>1. stream \in Stream /\ stream' \in Stream
      BY <1>1, ArrivesShape DEF Shape
    <2> QED BY <2>1, DiffType DEF Stream
  <1>4. w \in {Window, ahead + m, ahead + slot - Newest}
        /\ w <= Window /\ w <= ahead + m /\ w <= ahead + slot - Newest
    <2>1. Window \in Int /\ ahead + m \in Int /\ ahead + slot - Newest \in Int
      BY <1>1, <1>2, <1>3, Constants
    <2> QED BY <2>1, MinOf
  <1>5. \/ ahead' = 0
        \/ slot >= base /\ slot > Newest /\ m > 0 /\ ahead' = w
        \/ slot >= base /\ ~(slot > Newest) /\ ~(m > 0) /\ ahead' = ahead
    <2>1. MovedAhead(slot) = IF slot < base \/ (slot > Newest) # (m > 0) THEN 0
                             ELSE IF m > 0 THEN w ELSE ahead
      BY DEF MovedAhead
    <2> HIDE DEF m, w
    <2>2. slot < base \/ slot >= base
      BY <1>1, <1>2
    <2> QED BY <1>1, <2>1, <2>2
  <1> HIDE DEF m, w
  <1>6. ahead' \in 0..Window
    BY <1>1, <1>2, <1>3, <1>4, <1>5, Constants
  <1>7. ASSUME ahead' > 0 PROVE InStep'
    <2>1. CASE arrived = {}
      <3>1. Newest = -1
        BY <2>1, NoneArrived
      <3>2. Leads(slot)
        BY <1>1, <1>5, <1>6, <1>7, <2>1, <3>1 DEF Leads
      <3> QED BY <1>1, <3>2, FallsInStep
    <2>2. CASE arrived # {}
      <3> DEFINE d == Diff(SeqNum(slot), stream.lastSeq)
      <3>1. d \in Int /\ m = IF d > 0 THEN d ELSE 0
        BY <1>1, <2>2, LastSeqMoves DEF m
      <3>2. CASE ahead = 0
        <4>1. slot >= base /\ slot > Newest /\ m > 0 /\ ahead' = w
          BY <1>5, <1>7, <3>2
        <4>2. d > 0 /\ m = d
          BY <3>1, <4>1
        <4>3. ahead' <= d /\ ahead' <= slot - Newest
          BY <1>1, <1>2, <1>3, <1>4, <3>2, <4>1, <4>2
        <4>4. Leads(slot)
          BY <1>6, <4>1, <4>2, <4>3 DEF Leads
        <4> QED BY <1>1, <4>4, FallsInStep
      <3>3. CASE ahead > 0
        <4>1. InStep
          BY <2>2, <3>3 DEF WindowInv
        <4>2. slot >= base /\ ahead' <= ahead + (IF slot > Newest THEN slot - Newest ELSE 0)
          BY <1>1, <1>2, <1>3, <1>4, <1>5, <1>7
        <4>3. Follows(slot)
          BY <1>6, <2>2, <3>3, <4>2 DEF Follows
        <4> QED BY <1>1, <4>1, <4>3, StaysInStep
      <3> QED BY <1>2, <3>2, <3>3
    <2> QED BY <2>1, <2>2
  <1> QED BY <1>1, <1>6, <1>7 DEF WindowInv

LEMMA NextOK == Shape /\ WindowInv /\ [Next]_vars => Shape' /\ WindowInv'
  <1> SUFFICES ASSUME Shape, WindowInv, [Next]_vars PROVE Shape' /\ WindowInv'
    OBVIOUS
  <1>1. CASE Send
    <2>1. /\ sent' = sent + 1 /\ sent - Newest < Reach
          /\ UNCHANGED <<base, stream, arrived, ahead>>
      BY <1>1 DEF Send, history
    <2>2. UNCHANGED Newest /\ Newest \in Int
      <3>1. UNCHANGED Newest
        BY <2>1 DEF Newest
      <3> QED BY <3>1 DEF Shape, NewestOK
    <2>3. UNCHANGED <<SeqNum(Newest), WindowInv>>
      BY <2>1, <2>2 DEF SeqNum, Place, WindowInv, InStep
    <2> QED BY <2>1, <2>2, <2>3, Constants DEF Shape, NewestOK
  <1>2. CASE Reconnect
    <2>1. /\ base' = sent /\ ahead' = 0 /\ sent > 0
          /\ UNCHANGED <<sent, stream, arrived>>
      BY <1>2 DEF Reconnect
    <2>2. UNCHANGED Newest
      BY <2>1 DEF Newest
    <2> QED BY <2>1, <2>2, Constants DEF Shape, NewestOK, WindowInv
  <1>3. ASSUME NEW slot \in Slots, Receive(slot) PROVE Shape' /\ WindowInv'
    <2>1. ahead' \in 0..Window /\ WindowInv'
      BY <1>3, ReceiveBefore, ReceiveAfter
    <2>2. /\ stream' \in Stream /\ stream'.hasLastSeq /\ arrived' # {}
          /\ arrived' \in SUBSET (0..(sent' - 1))
          /\ sent' \in Nat /\ base' \in 0..sent' /\ NewestOK'
      BY <1>3, ReceiveArrives, ArrivesShape
    <2>3. Stream' = Stream
      BY DEF Stream
    <2> QED BY <2>1, <2>2, <2>3 DEF Shape
  <1>4. CASE Report \/ UNCHANGED vars
    <2>1. UNCHANGED <<sent, base, stream, arrived, ahead>>
      BY <1>4 DEF Report, vars, history
    <2>2. UNCHANGED Newest
      BY <2>1 DEF Newest
    <2> QED BY <2>1, <2>2 DEF Shape, NewestOK, WindowInv, InStep, SeqNum, Place
  <1> QED BY <1>1, <1>2, <1>3, <1>4 DEF Next, Slots

(* The window knows which of the last frames have come, through every shift  *)
(* and every wrap of the sequence numbers, and after a reconnection again.   *)
THEOREM WindowTellsTheTruth == Spec => []WindowTruthful
  <1>1. Spec => [](Shape /\ WindowInv)
    BY InitOK, NextOK, PTL DEF Spec
  <1> QED BY <1>1, WindowInvIsTruthful, PTL
-----------------------------------------------------------------------------
(* Both counters of a stream that comes in order: what ReceiverStats expects *)
(* is the number after the newest.                                           *)
CountersInv ==
  /\ receiver \in [isFirst : BOOLEAN, expected : Int, lost : Nat]
  /\ inOrder /\ base = 0 /\ Newest < SeqSpace =>
       /\ stream.lost = receiver.lost
       /\ receiver.isFirst <=> arrived = {}
       /\ arrived # {} => receiver.expected = (Newest + 1) % SeqSpace

LEMMA AddPacketType ==
  ASSUME NEW r \in [isFirst : BOOLEAN, expected : Int, lost : Nat], NEW seq \in Nat
  PROVE  AddPacket(r, seq) \in [isFirst : BOOLEAN, expected : Int, lost : Nat]
  <1>1. NextExpected(seq) \in Int
    BY ModOf, Constants DEF NextExpected
  <1>2. (IF ~r.isFirst /\ seq > r.expected THEN r.lost + seq - r.expected ELSE r.lost) \in Nat
    OBVIOUS
  <1> QED BY <1>1, <1>2 DEF AddPacket

LEMMA CountersReceive ==
  ASSUME Shape, WindowInv, CountersInv, NEW slot \in Slots, Receive(slot)
  PROVE  CountersInv'
  <1>1. /\ Arrives(slot) /\ slot \in Nat /\ base' = base /\ slot \in 0..(sent - 1)
        /\ sent - slot <= Reach /\ arrived' = arrived \cup {slot} /\ sent' = sent
        /\ stream' = Update(stream, SeqNum(slot)) /\ stream \in Stream /\ base \in Nat
        /\ stream.hasLastSeq <=> arrived # {}
    BY ReceiveArrives DEF Receive, Slots, Arrives, Shape
  <1>2. receiver' = AddPacket(receiver, SeqNum(slot)) /\ inOrder' = (inOrder /\ slot > Newest)
    BY DEF Receive
  <1>3. SeqNum(slot) \in Nat
    BY <1>1, SeqNumType
  <1>4. receiver' \in [isFirst : BOOLEAN, expected : Int, lost : Nat]
    BY <1>2, <1>3, AddPacketType DEF CountersInv
  <1>5. ASSUME inOrder', base' = 0, Newest' < SeqSpace
        PROVE  /\ stream'.lost = receiver'.lost
               /\ receiver'.isFirst = FALSE
               /\ receiver'.expected = (Newest' + 1) % SeqSpace
    <2>1. /\ Newest \in Int /\ -1 <= Newest /\ inOrder /\ slot > Newest /\ base = 0
          /\ Newest' = slot /\ slot < SeqSpace
          /\ 2 * (slot - Newest) < SeqSpace /\ 2 * (Newest - slot) < SeqSpace
          /\ arrived # {} => Newest \in Nat
      BY <1>1, <1>2, <1>5, Arrival
    <2>2. SeqNum(slot) = slot
      BY <1>1, <2>1, ModSmall DEF SeqNum, Place
    <2>3. Newest < SeqSpace
      BY <1>1, <2>1, Constants
    <2>4. /\ stream.lost = receiver.lost
          /\ receiver.isFirst <=> arrived = {}
          /\ arrived # {} => receiver.expected = (Newest + 1) % SeqSpace
      BY <2>1, <2>3 DEF CountersInv
    <2>5. stream'.lost = receiver'.lost
      <3>1. CASE arrived = {}
        <4>1. stream'.lost = stream.lost
          BY <1>1, <1>3, <3>1, UpdateFirst
        <4> QED BY <1>2, <2>4, <3>1, <4>1 DEF AddPacket
      <3>2. CASE arrived # {}
        <4>1. receiver.expected = Newest + 1
          <5>1. Newest + 1 \in Nat /\ Newest + 1 < SeqSpace
            BY <1>1, <2>1, Constants
          <5> QED BY <2>4, <3>2, <5>1, ModSmall
        <4>2. stream.lastSeq = SeqNum(Newest)
          BY <2>1, <3>2, Constants DEF WindowInv, InStep
        <4>3. Diff(SeqNum(slot), stream.lastSeq) = slot - Newest
          BY <1>1, <2>1, <3>2, <4>2, SameWorker
        <4>4. stream'.lost = stream.lost + (slot - Newest) - 1
          BY <1>1, <1>3, <2>1, <3>2, <4>3, UpdateAhead
        <4>5. ~receiver.isFirst
          BY <2>4, <3>2
        <4>6. receiver'.lost = IF slot > receiver.expected
                               THEN receiver.lost + slot - receiver.expected
                               ELSE receiver.lost
          BY <1>2, <2>2, <4>5 DEF AddPacket
        <4>7. receiver.lost \in Nat /\ stream.lost = receiver.lost
          BY <2>4 DEF CountersInv
        <4> QED BY <1>1, <2>1, <4>1, <4>4, <4>6, <4>7
      <3> QED BY <3>1, <3>2
    <2>6. receiver'.expected = (Newest' + 1) % SeqSpace
      BY <1>2, <2>1, <2>2 DEF AddPacket, NextExpected
    <2> QED BY <1>2, <2>5, <2>6 DEF AddPacket
  <1> QED BY <1>1, <1>4, <1>5 DEF CountersInv

LEMMA CountersNext ==
  Shape /\ WindowInv /\ CountersInv /\ [Next]_vars => CountersInv'
  <1> SUFFICES ASSUME Shape, WindowInv, CountersInv, [Next]_vars PROVE CountersInv'
    OBVIOUS
  <1>1. ASSUME NEW slot \in Slots, Receive(slot) PROVE CountersInv'
    BY <1>1, CountersReceive
  <1>2. CASE Reconnect
    <2>1. base' # 0 /\ receiver' = receiver
      BY <1>2 DEF Reconnect, Shape
    <2> QED BY <2>1 DEF CountersInv
  <1>3. CASE Send \/ Report \/ UNCHANGED vars
    <2>1. UNCHANGED <<base, stream, receiver, arrived, inOrder>>
      BY <1>3 DEF Send, Report, vars, history
    <2>2. UNCHANGED Newest
      BY <2>1 DEF Newest
    <2> QED BY <2>1, <2>2 DEF CountersInv
  <1> QED BY <1>1, <1>2, <1>3 DEF Next, Slots

(* On a stream without reordering and duplicates the receiver's two loss     *)
(* counters agree, until the sequence numbers wrap or start again.           *)
THEOREM LossCountersAgree == Spec => []CountersAgree
  <1>1. Init => CountersInv
    BY DEF Init, CountersInv
  <1>2. Spec => [](Shape /\ WindowInv /\ CountersInv)
    BY InitOK, NextOK, <1>1, CountersNext, PTL DEF Spec
  <1>3. CountersInv => CountersAgree
    BY DEF CountersInv, CountersAgree
  <1> QED BY <1>2, <1>3, PTL
-----------------------------------------------------------------------------
(* What StreamStats has lost, in terms of the sets of frames.                *)
Older == {s \in arrived : s < first}

LossInv ==
  base = 0 =>
    /\ stale \subseteq arrived
    /\ first \in Nat
    /\ arrived # {} => first \in arrived
    /\ arrived = {} => stream.lost = 0
    /\ stream.lost <= Cardinality(Missing) + Cardinality(stale)
    /\ stream.lost >= Cardinality(Missing) - Cardinality(Older)

LEMMA Finite ==
  ASSUME Shape, stale \subseteq arrived, first \in Nat
  PROVE  /\ IsFiniteSet(Missing) /\ IsFiniteSet(stale) /\ IsFiniteSet(Older)
         /\ Cardinality(Missing) \in Nat /\ Cardinality(stale) \in Nat
         /\ Cardinality(Older) \in Nat
  <1>1. IsFiniteSet(0..(sent - 1)) /\ IsFiniteSet(first..Newest)
    <2>1. 0 \in Int /\ sent - 1 \in Int /\ first \in Int /\ Newest \in Int
      BY DEF Shape, NewestOK
    <2> QED BY <2>1, FS_Interval
  <1>2. /\ stale \in SUBSET (0..(sent - 1)) /\ Older \in SUBSET (0..(sent - 1))
        /\ Missing \in SUBSET (first..Newest)
    BY DEF Shape, Older, Missing
  <1>3. IsFiniteSet(Missing) /\ IsFiniteSet(stale) /\ IsFiniteSet(Older)
    BY <1>1, <1>2, FS_Subset
  <1> QED BY <1>3, FS_CardinalityType

(* The difference Update computes as long as one worker numbers.             *)
LEMMA UpdateInStep ==
  ASSUME Shape, WindowInv, base = 0, arrived # {}, NEW slot \in Slots, Receive(slot)
  PROVE  /\ slot > Newest => stream'.lost = stream.lost + (slot - Newest) - 1
         /\ slot <= Newest =>
              stream'.lost = IF Newest - slot < Window /\ slot \notin arrived /\ stream.lost > 0
                             THEN stream.lost - 1 ELSE stream.lost
  <1>1. /\ Arrives(slot) /\ slot \in 0..(sent - 1) /\ sent - slot <= Reach
        /\ arrived' = arrived \cup {slot} /\ sent' = sent /\ slot \in Nat
        /\ stream' = Update(stream, SeqNum(slot)) /\ stream \in Stream
        /\ base = 0 /\ stream.hasLastSeq
    BY ReceiveArrives DEF Slots, Arrives, Shape
  <1>2. /\ Newest \in Nat
        /\ 2 * (slot - Newest) < SeqSpace /\ 2 * (Newest - slot) < SeqSpace
    BY <1>1, Arrival
  <1>3. stream.lastSeq = SeqNum(Newest)
        /\ \A i \in 0..(Window - 1) : i \in stream.window <=> Newest - i \in arrived
    BY Constants DEF WindowInv, InStep
  <1>4. Diff(SeqNum(slot), stream.lastSeq) = slot - Newest /\ SeqNum(slot) \in Int
    BY <1>1, <1>2, <1>3, SameWorker, SeqNumType
  <1>5. ASSUME slot > Newest PROVE stream'.lost = stream.lost + (slot - Newest) - 1
    BY <1>1, <1>2, <1>4, <1>5, UpdateAhead
  <1>6. ASSUME slot <= Newest
        PROVE  stream'.lost = IF Newest - slot < Window /\ slot \notin arrived /\ stream.lost > 0
                              THEN stream.lost - 1 ELSE stream.lost
    <2> DEFINE o == Newest - slot
    <2>1. o \in Nat /\ Diff(SeqNum(slot), stream.lastSeq) = -o /\ 2 * o # SeqSpace
          /\ Newest - o = slot
      BY <1>1, <1>2, <1>4, <1>6
    <2>2. o < Window => (o \in stream.window <=> slot \in arrived)
      BY <1>3, <2>1, Constants
    <2> HIDE DEF o
    <2>3. stream'.lost = IF (o < Window /\ o \notin stream.window) /\ stream.lost > 0
                         THEN stream.lost - 1 ELSE stream.lost
      BY <1>1, <1>4, <2>1, UpdateLate
    <2> QED BY <2>2, <2>3 DEF o
  <1> QED BY <1>5, <1>6

LEMMA LossReceive ==
  ASSUME Shape, WindowInv, LossInv, NEW slot \in Slots, Receive(slot)
  PROVE  LossInv'
  <1> SUFFICES ASSUME base' = 0 PROVE LossInv'
    BY DEF LossInv
  <1>1. /\ base = 0 /\ slot \in Nat /\ slot \in 0..(sent - 1) /\ sent - slot <= Reach
        /\ sent' = sent /\ arrived' = arrived \cup {slot}
        /\ first' = IF arrived = {} THEN slot ELSE first
        /\ stale' = IF slot \notin arrived /\ Newest - slot >= Window
                    THEN stale \cup {slot} ELSE stale
        /\ stream' = Update(stream, SeqNum(slot)) /\ stream \in Stream
        /\ stream.hasLastSeq <=> arrived # {}
    BY DEF Receive, Slots, Shape
  <1>2. /\ stale \subseteq arrived /\ first \in Nat /\ (arrived # {} => first \in arrived)
        /\ stream.lost <= Cardinality(Missing) + Cardinality(stale)
        /\ stream.lost >= Cardinality(Missing) - Cardinality(Older)
        /\ stream.lost \in Nat
    BY <1>1 DEF LossInv, Stream
  <1>3. /\ Newest \in Int /\ -1 <= Newest /\ (arrived # {} => Newest \in Nat)
        /\ Newest' = IF slot > Newest THEN slot ELSE Newest
        /\ \A s \in arrived : s \in Nat /\ s <= Newest
    BY <1>1, Arrival DEF Shape, NewestOK
  <1>4. /\ IsFiniteSet(Missing) /\ IsFiniteSet(stale) /\ IsFiniteSet(Older)
        /\ Cardinality(Missing) \in Nat /\ Cardinality(stale) \in Nat
        /\ Cardinality(Older) \in Nat
    BY <1>2, Finite
  <1>5. stale' \subseteq arrived' /\ first' \in Nat /\ first' \in arrived' /\ arrived' # {}
    BY <1>1, <1>2
  <1>6. CASE arrived = {}
    <2>1. Newest = -1 /\ Newest' = slot
      BY <1>1, <1>3, <1>6, NoneArrived
    <2>2. Missing' = {} /\ Older' = {} /\ stale' = {}
      BY <1>1, <1>2, <1>6, <2>1, Constants DEF Missing, Older
    <2>3. stream'.lost = 0
      <3>1. SeqNum(slot) \in Int
        BY <1>1, SeqNumType
      <3>2. stream'.lost = stream.lost
        BY <1>1, <1>6, <3>1, UpdateFirst
      <3> QED BY <1>1, <1>6, <3>2 DEF LossInv
    <2> QED BY <1>5, <2>2, <2>3, FS_EmptySet DEF LossInv
  <1>7. CASE arrived # {} /\ slot > Newest
    <2>1. Newest' = slot /\ first' = first /\ first <= Newest /\ stale' = stale
          /\ slot - Newest - 1 \in Nat
      BY <1>1, <1>2, <1>3, <1>7, Constants
    <2>2. stream'.lost = stream.lost + (slot - Newest - 1)
      BY <1>1, <1>2, <1>3, <1>7, UpdateInStep
    <2> DEFINE gap == (Newest + 1)..(slot - 1)
    <2>3. IsFiniteSet(gap) /\ Cardinality(gap) = slot - Newest - 1
      <3>1. Newest + 1 \in Int /\ slot - 1 \in Int
        BY <1>1, <1>3
      <3>2. IsFiniteSet(gap) /\ Cardinality(gap) =
              IF Newest + 1 > slot - 1 THEN 0 ELSE (slot - 1) - (Newest + 1) + 1
        BY <3>1, FS_Interval
      <3> HIDE DEF gap
      <3> QED BY <1>1, <1>3, <2>1, <3>2
    <2>4. Missing' = Missing \cup gap /\ Missing \cap gap = {}
      BY <1>1, <1>2, <1>3, <2>1 DEF Missing
    <2>5. Older' = Older
      BY <1>1, <1>2, <1>3, <2>1 DEF Older
    <2> HIDE DEF gap
    <2>6. Cardinality(Missing') = Cardinality(Missing) + (slot - Newest - 1)
      <3>1. Cardinality(Missing \cup gap) =
              Cardinality(Missing) + Cardinality(gap) - Cardinality(Missing \cap gap)
        BY <1>4, <2>3, FS_Union
      <3>2. Cardinality(Missing \cap gap) = 0
        BY <2>4, FS_EmptySet
      <3> QED BY <1>4, <2>1, <2>3, <2>4, <3>1, <3>2
    <2> QED BY <1>2, <1>4, <1>5, <2>1, <2>2, <2>5, <2>6 DEF LossInv
  <1>8. CASE slot \in arrived
    <2>1. UNCHANGED <<arrived, first, stale>> /\ slot <= Newest /\ Newest' = Newest
      BY <1>1, <1>3, <1>8
    <2>2. stream'.lost = stream.lost
      BY <1>1, <1>8, <2>1, UpdateInStep
    <2>3. Missing' = Missing /\ Older' = Older
      BY <2>1 DEF Missing, Older
    <2> QED BY <1>2, <1>5, <2>1, <2>2, <2>3 DEF LossInv
  <1>9. CASE arrived # {} /\ slot <= Newest /\ slot \notin arrived
    <2>1. first' = first /\ Newest' = Newest
      BY <1>1, <1>3, <1>9
    <2>2. stream'.lost = IF Newest - slot < Window /\ stream.lost > 0
                         THEN stream.lost - 1 ELSE stream.lost
      BY <1>1, <1>9, UpdateInStep
    <2>3. Cardinality(stale') = IF Newest - slot < Window THEN Cardinality(stale)
                                ELSE Cardinality(stale) + 1
      <3>1. slot \notin stale
        BY <1>2, <1>9
      <3>2. stale' = IF Newest - slot < Window THEN stale ELSE stale \cup {slot}
        BY <1>1, <1>3, <1>9, Constants
      <3> QED BY <1>4, <3>1, <3>2, FS_AddElement
    <2>4. CASE slot >= first
      <3>1. Missing' = Missing \ {slot} /\ slot \in Missing /\ Older' = Older
        BY <1>1, <1>2, <1>3, <1>9, <2>1, <2>4 DEF Missing, Older
      <3>2. Cardinality(Missing') = Cardinality(Missing) - 1
        BY <1>4, <3>1, FS_RemoveElement
      <3>3. Cardinality(Older') = Cardinality(Older)
        BY <3>1
      <3>4. Cardinality(Missing') \in Nat
        BY <1>4, <3>1, FS_RemoveElement, FS_CardinalityType
      <3> QED BY <1>2, <1>4, <1>5, <2>2, <2>3, <3>2, <3>3, <3>4 DEF LossInv
    <2>5. CASE slot < first
      <3>1. Missing' = Missing /\ Older' = Older \cup {slot} /\ slot \notin Older
        BY <1>1, <1>2, <1>3, <1>9, <2>1, <2>5 DEF Missing, Older
      <3>2. Cardinality(Older') = Cardinality(Older) + 1
        BY <1>4, <3>1, FS_AddElement
      <3>3. Cardinality(Missing') = Cardinality(Missing)
        BY <3>1
      <3> QED BY <1>2, <1>4, <1>5, <2>2, <2>3, <3>2, <3>3 DEF LossInv
    <2> QED BY <1>1, <1>2, <2>4, <2>5
  <1> QED BY <1>1, <1>3, <1>6, <1>7, <1>8, <1>9

LEMMA LossNext == Shape /\ WindowInv /\ LossInv /\ [Next]_vars => LossInv'
  <1> SUFFICES ASSUME Shape, WindowInv, LossInv, [Next]_vars PROVE LossInv'
    OBVIOUS
  <1>1. ASSUME NEW slot \in Slots, Receive(slot) PROVE LossInv'
    BY <1>1, LossReceive
  <1>2. CASE Reconnect
    <2>1. base' # 0
      BY <1>2 DEF Reconnect, Shape
    <2> QED BY <2>1 DEF LossInv
  <1>3. CASE Send \/ Report \/ UNCHANGED vars
    <2>1. UNCHANGED <<base, stream, arrived, first, stale>>
      BY <1>3 DEF Send, Report, vars, history
    <2>2. UNCHANGED Newest
      BY <2>1 DEF Newest
    <2>3. UNCHANGED <<Missing, Older>>
      BY <2>1, <2>2 DEF Missing, Older
    <2> QED BY <2>1, <2>3 DEF LossInv
  <1> QED BY <1>1, <1>2, <1>3 DEF Next, Slots

(* lostPackets is the number of the frames that have not come, up to those   *)
(* that came too late for the window or are older than the first.            *)
THEOREM LossesAreBounded == Spec => []LossBounded
  <1>1. Init => LossInv
    <2> SUFFICES ASSUME Init PROVE LossInv
      OBVIOUS
    <2>1. Newest = -1
      BY NoneArrived DEF Init
    <2>2. Missing = {} /\ Older = {} /\ stale = {}
      BY <2>1 DEF Init, Missing, Older
    <2> QED BY <2>2, FS_EmptySet DEF Init, LossInv
  <1>2. Spec => [](Shape /\ WindowInv /\ LossInv)
    BY InitOK, NextOK, <1>1, LossNext, PTL DEF Spec
  <1>3. LossInv => LossBounded
    BY DEF LossInv, LossBounded, Older
  <1> QED BY <1>2, <1>3, PTL
-----------------------------------------------------------------------------
(* A nonempty set of numbers, or of subsets of a finite set, has a minimal   *)
(* element.                                                                  *)
LEMMA LeastNat ==
  ASSUME NEW T \in SUBSET Nat, T # {}
  PROVE  \E x \in T : \A y \in T : x <= y
  <1> DEFINE R == OpToRel(<, Nat)
  <1>1. IsWellFoundedOn(R, Nat)
    BY NatLessThanWellFounded
  <1>2. \A x, y \in Nat : x < y => <<x, y>> \in R
    BY DEF OpToRel
  <1> HIDE DEF R
  <1>3. PICK x \in T : \A y \in T : ~ (<<y, x>> \in R)
    BY <1>1, WFMin
  <1>4. \A y \in T : x <= y
    <2> SUFFICES ASSUME NEW y \in T, ~(x <= y) PROVE FALSE
      OBVIOUS
    <2>1. y < x
      OBVIOUS
    <2> QED BY <1>2, <1>3, <2>1
  <1> QED BY <1>4

LEMMA LeastSubset ==
  ASSUME NEW S, IsFiniteSet(S), NEW Bad \in SUBSET SUBSET S, Bad # {}
  PROVE  \E s \in Bad : \A t \in Bad : ~(t \subseteq s /\ t # s)
  <1>1. IsWellFoundedOn(StrictSubsetOrdering(S), FiniteSubsetsOf(S))
    BY FS_StrictSubsetOrderingWellFounded
  <1>2. Bad \subseteq FiniteSubsetsOf(S)
    BY FS_FiniteSubsetsOfFinite
  <1>3. PICK s \in Bad : \A t \in Bad : ~(<<t, s>> \in StrictSubsetOrdering(S))
    BY <1>1, <1>2, WFMin
  <1> QED BY <1>3 DEF StrictSubsetOrdering

(* A function on the subsets of a finite set may be defined by recursion on  *)
(* the subset without one of its elements.                                   *)
FoldArgs(S, V, unit, c, G) ==
  /\ IsFiniteSet(S) /\ unit \in V
  /\ \A s \in SUBSET S : s # {} => c[s] \in s
  /\ G \in [(SUBSET S) \X V -> V]

IsFold(h, S, V, unit, c, G) ==
  /\ h \in [SUBSET S -> V]
  /\ \A s \in SUBSET S : h[s] = IF s = {} THEN unit ELSE G[<<s, h[s \ {c[s]}]>>]

LEMMA FoldExists ==
  ASSUME NEW S, NEW V, NEW unit, NEW c, NEW G, FoldArgs(S, V, unit, c, G)
  PROVE  \E h : IsFold(h, S, V, unit, c, G)
  <1> USE DEF FoldArgs
  <1> DEFINE Level(n) == {s \in SUBSET S : Cardinality(s) <= n}
             Right(n, h) == /\ h \in [Level(n) -> V]
                            /\ \A s \in Level(n) :
                                 h[s] = IF s = {} THEN unit ELSE G[<<s, h[s \ {c[s]}]>>]
             Bad == {n \in Nat : ~ \E h : Right(n, h)}
  <1>1. \A s \in SUBSET S : IsFiniteSet(s) /\ Cardinality(s) \in Nat
                            /\ (Cardinality(s) = 0 <=> s = {})
    BY FS_Subset, FS_CardinalityType, FS_EmptySet
  <1>2. \A s \in SUBSET S : s # {} =>
          s \ {c[s]} \in SUBSET S /\ Cardinality(s \ {c[s]}) = Cardinality(s) - 1
    BY <1>1, FS_RemoveElement
  <1>3. Bad = {}
    <2> SUFFICES ASSUME Bad # {} PROVE FALSE
      OBVIOUS
    <2>1. PICK m \in Bad : \A n \in Bad : m <= n
      <3>1. Bad \in SUBSET Nat
        OBVIOUS
      <3> HIDE DEF Bad
      <3> QED BY <3>1, LeastNat
    <2>2. m \in Nat /\ ~ \E h : Right(m, h)
      OBVIOUS
    <2>3. CASE m = 0
      <3> DEFINE h == [s \in Level(0) |-> unit]
      <3>1. \A s \in Level(0) : s = {}
        BY <1>1
      <3>2. Right(0, h)
        BY <3>1
      <3> QED BY <2>2, <2>3, <3>2
    <2>4. CASE m # 0
      <3>1. m - 1 \in Nat /\ ~(m <= m - 1)
        BY <2>2, <2>4
      <3>2. PICK h : Right(m - 1, h)
        BY <2>1, <3>1
      <3> DEFINE g == [s \in Level(m) |->
                         IF s = {} THEN unit ELSE G[<<s, h[s \ {c[s]}]>>]]
      <3>3. \A s \in Level(m) : s # {} => s \ {c[s]} \in Level(m - 1)
        BY <1>1, <1>2, <2>2
      <3>4. Level(m - 1) \subseteq Level(m)
        BY <1>1, <2>2
      <3>5. \A t \in Level(m - 1) : g[t] = h[t]
        BY <3>2, <3>4
      <3>6. g \in [Level(m) -> V]
        <4> SUFFICES ASSUME NEW s \in Level(m), s # {}
                     PROVE  G[<<s, h[s \ {c[s]}]>>] \in V
          OBVIOUS
        <4>1. h[s \ {c[s]}] \in V
          BY <3>2, <3>3
        <4> QED BY <4>1
      <3>7. \A s \in Level(m) : g[s] = IF s = {} THEN unit ELSE G[<<s, g[s \ {c[s]}]>>]
        BY <3>3, <3>5
      <3>8. Right(m, g)
        BY <3>6, <3>7
      <3> QED BY <2>2, <3>8
    <2> QED BY <2>3, <2>4
  <1>4. PICK h : Right(Cardinality(S), h)
    BY <1>1, <1>3
  <1>5. Level(Cardinality(S)) = SUBSET S
    BY FS_Subset
  <1> QED BY <1>4, <1>5 DEF IsFold
-----------------------------------------------------------------------------
(* SumFunction and SumFunctionOnSet, which are folds.                        *)
Some(s) == CHOOSE x \in s : TRUE

SumFcn(f, S, h) ==
  h = [s \in SUBSET S |-> IF s = {} THEN 0 ELSE f[Some(s)] + h[s \ {Some(s)}]]

Sum(f, S) == SumFunctionOnSet(f, S)

LEMMA SumIs ==
  ASSUME NEW S, NEW f
  PROVE  Sum(f, S) = (CHOOSE h : SumFcn(f, S, h))[S]
  BY DEF Sum, SumFunctionOnSet, FoldFunctionOnSet, MapThenFoldSet, SumFcn, Some

LEMMA SumFcnExists ==
  ASSUME NEW S, IsFiniteSet(S), NEW f, \A x \in S : f[x] \in Int
  PROVE  LET h == CHOOSE h : SumFcn(f, S, h)
         IN  SumFcn(f, S, h) /\ h \in [SUBSET S -> Int]
  <1> DEFINE c == [s \in SUBSET S |-> Some(s)]
             V == Int
             Term(p) == IF p[1] = {} THEN 0 ELSE f[c[p[1]]] + p[2]
             G == [p \in (SUBSET S) \X V |-> Term(p)]
  <1>1. \A s \in SUBSET S : s # {} => c[s] \in s
    BY DEF Some
  <1>2. G \in [(SUBSET S) \X V -> V]
    <2>1. ASSUME NEW p \in (SUBSET S) \X V
          PROVE  Term(p) \in V
      <3>1. CASE p[1] = {}
        BY <3>1
      <3>2. CASE p[1] # {}
        <4>1. c[p[1]] \in S
          BY <1>1, <3>2
        <4> HIDE DEF c
        <4> QED BY <3>2, <4>1
      <3> QED BY <3>1, <3>2
    <2> HIDE DEF Term
    <2> QED BY <2>1
  <1>4. PICK h \in [SUBSET S -> V] :
          \A s \in SUBSET S : h[s] = IF s = {} THEN 0 ELSE G[<<s, h[s \ {c[s]}]>>]
    <2> DEFINE zero == 0
    <2>1. zero \in V
      OBVIOUS
    <2> HIDE DEF c, G, V, zero
    <2>2. FoldArgs(S, V, zero, c, G)
      BY <1>1, <1>2, <2>1 DEF FoldArgs
    <2>3. \E h : IsFold(h, S, V, zero, c, G)
      BY <2>2, FoldExists, Zenon
    <2> QED BY <2>3 DEF zero, IsFold
  <1>5. \A s \in SUBSET S : h[s] = IF s = {} THEN 0 ELSE f[Some(s)] + h[s \ {Some(s)}]
    <2> SUFFICES ASSUME NEW s \in SUBSET S, s # {}
                 PROVE  h[s] = f[Some(s)] + h[s \ {Some(s)}]
      BY <1>4
    <2>1. c[s] = Some(s)
      OBVIOUS
    <2>2. h[s \ {c[s]}] \in Int
      BY <1>4
    <2>3. G[<<s, h[s \ {c[s]}]>>] = f[c[s]] + h[s \ {c[s]}]
      <3> HIDE DEF c
      <3> QED BY <2>2
    <2> QED BY <1>4, <2>1, <2>3
  <1>6. SumFcn(f, S, h)
    BY <1>4, <1>5 DEF SumFcn
  <1> DEFINE g == CHOOSE g : SumFcn(f, S, g)
  <1>7. SumFcn(f, S, g)
    BY <1>6
  <1>8. g \in [SUBSET S -> Int]
    <2> DEFINE Bad == {s \in SUBSET S : g[s] # h[s]}
    <2> HIDE DEF g, c, G
    <2>1. Bad = {}
      <3> SUFFICES ASSUME Bad # {} PROVE FALSE
        OBVIOUS
      <3>1. PICK s \in Bad : \A t \in Bad : ~(t \subseteq s /\ t # s)
        <4>1. Bad \in SUBSET SUBSET S
          OBVIOUS
        <4> HIDE DEF Bad
        <4> QED BY <4>1, LeastSubset
      <3>2. g[s] = IF s = {} THEN 0 ELSE f[Some(s)] + g[s \ {Some(s)}]
        BY <1>7 DEF SumFcn
      <3>3. s # {}
        BY <1>5, <3>2
      <3>4. Some(s) \in s
        BY <3>3 DEF Some
      <3>5. g[s \ {Some(s)}] = h[s \ {Some(s)}]
        BY <3>1, <3>4
      <3> QED BY <1>5, <3>2, <3>3, <3>5
    <2>2. \A s \in SUBSET S : g[s] = h[s]
      BY <2>1
    <2>3. g = [s \in SUBSET S |-> IF s = {} THEN 0 ELSE f[Some(s)] + g[s \ {Some(s)}]]
      BY <1>7 DEF SumFcn
    <2> QED BY <1>4, <2>2, <2>3
  <1> QED BY <1>7, <1>8

LEMMA SumUnfold ==
  ASSUME NEW S, IsFiniteSet(S), NEW f, \A x \in S : f[x] \in Int
  PROVE  /\ Sum(f, S) \in Int
         /\ S = {} => Sum(f, S) = 0
         /\ S # {} => Some(S) \in S /\ Sum(f, S) = f[Some(S)] + Sum(f, S \ {Some(S)})
  <1> DEFINE g == CHOOSE h : SumFcn(f, S, h)
             T == S \ {Some(S)}
             k == CHOOSE h : SumFcn(f, T, h)
  <1>1. Sum(f, S) = g[S] /\ Sum(f, T) = k[T]
    BY SumIs
  <1>2. SumFcn(f, S, g) /\ g \in [SUBSET S -> Int]
    BY SumFcnExists
  <1>3. SumFcn(f, T, k) /\ k \in [SUBSET T -> Int]
    <2>1. IsFiniteSet(T) /\ \A x \in T : f[x] \in Int
      BY FS_Subset
    <2> HIDE DEF T
    <2> QED BY <2>1, SumFcnExists
  <1> HIDE DEF g, k
  <1>4. S # {} => Some(S) \in S
    BY DEF Some
  <1>5. g[T] = k[T]
    <2> DEFINE Bad == {s \in SUBSET T : g[s] # k[s]}
    <2>1. Bad = {}
      <3> SUFFICES ASSUME Bad # {} PROVE FALSE
        OBVIOUS
      <3>1. PICK s \in Bad : \A t \in Bad : ~(t \subseteq s /\ t # s)
        <4>1. Bad \in SUBSET SUBSET S
          OBVIOUS
        <4> HIDE DEF Bad
        <4> QED BY <4>1, LeastSubset
      <3>2. g[s] = IF s = {} THEN 0 ELSE f[Some(s)] + g[s \ {Some(s)}]
        BY <1>2 DEF SumFcn
      <3>3. k[s] = IF s = {} THEN 0 ELSE f[Some(s)] + k[s \ {Some(s)}]
        BY <1>3 DEF SumFcn
      <3>4. s # {} => Some(s) \in s
        BY DEF Some
      <3>5. s # {} => g[s \ {Some(s)}] = k[s \ {Some(s)}]
        BY <3>1, <3>4
      <3> QED BY <3>2, <3>3, <3>5
    <2> QED BY <2>1
  <1>6. g[S] = IF S = {} THEN 0 ELSE f[Some(S)] + g[T]
    BY <1>2 DEF SumFcn
  <1> QED BY <1>1, <1>2, <1>4, <1>5, <1>6

LEMMA SumAdd ==
  ASSUME NEW S, IsFiniteSet(S), NEW x, x \notin S, NEW f, f[x] \in Int,
         \A y \in S : f[y] \in Int
  PROVE  Sum(f, S \cup {x}) = Sum(f, S) + f[x]
  <1> DEFINE U == S \cup {x}
             Holds(s, z) == Sum(f, s \cup {z}) = Sum(f, s) + f[z]
             Bad == {s \in SUBSET U : \E z \in U \ s : ~Holds(s, z)}
  <1>1. IsFiniteSet(U) /\ \A z \in U : f[z] \in Int
    BY FS_AddElement
  <1>2. S \in SUBSET U /\ x \in U \ S
    OBVIOUS
  <1> HIDE DEF U
  <1>3. \A s \in SUBSET U : IsFiniteSet(s) /\ Sum(f, s) \in Int
    BY <1>1, FS_Subset, SumUnfold
  <1>4. Bad = {}
    <2> SUFFICES ASSUME Bad # {} PROVE FALSE
      OBVIOUS
    <2>1. PICK s \in Bad : \A t \in Bad : ~(t \subseteq s /\ t # s)
      <3>1. Bad \in SUBSET SUBSET U
        OBVIOUS
      <3> HIDE DEF Bad
      <3> QED BY <1>1, <3>1, LeastSubset
    <2>2. PICK z \in U \ s : ~Holds(s, z)
      BY <2>1
    <2>3. s \in SUBSET U
      BY <2>1
    <2> DEFINE y == Some(s \cup {z})
               t == s \ {y}
    <2>4. Sum(f, s \cup {z}) = f[y] + Sum(f, (s \cup {z}) \ {y}) /\ y \in s \cup {z}
      <3>1. s \cup {z} # {} /\ IsFiniteSet(s \cup {z}) /\ \A v \in s \cup {z} : f[v] \in Int
        BY <1>1, <1>3, <2>2, <2>3
      <3> QED BY <3>1, SumUnfold
    <2> HIDE DEF y
    <2>5. Sum(f, s) \in Int /\ f[z] \in Int /\ f[y] \in Int
      BY <1>1, <1>3, <2>2, <2>3, <2>4
    <2>6. CASE y = z
      <3>1. (s \cup {z}) \ {y} = s
        BY <2>2, <2>6
      <3>2. Sum(f, s \cup {z}) = f[z] + Sum(f, s)
        BY <2>4, <2>6, <3>1
      <3> QED BY <2>2, <2>5, <3>2
    <2>7. CASE y # z
      <3>1. /\ y \in s /\ (s \cup {z}) \ {y} = t \cup {z} /\ t \cup {y} = s
            /\ t \subseteq s /\ t # s /\ t \in SUBSET U /\ z \in U \ t /\ y \in U \ t
        BY <2>2, <2>3, <2>4, <2>7
      <3> HIDE DEF t
      <3>2. t \notin Bad
        BY <2>1, <3>1
      <3>3. Holds(t, z) /\ Holds(t, y) /\ Sum(f, t) \in Int
        BY <1>3, <3>1, <3>2
      <3> QED BY <2>2, <2>4, <2>5, <3>1, <3>3
    <2> QED BY <2>6, <2>7
  <1> QED BY <1>2, <1>4 DEF U

LEMMA SumUnion ==
  ASSUME NEW S, IsFiniteSet(S), NEW T, IsFiniteSet(T), S \cap T = {},
         NEW f, \A x \in S \cup T : f[x] \in Int
  PROVE  Sum(f, S \cup T) = Sum(f, S) + Sum(f, T)
  <1> DEFINE Bad == {t \in SUBSET T : Sum(f, S \cup t) # Sum(f, S) + Sum(f, t)}
  <1>1. \A t \in SUBSET T : IsFiniteSet(t) /\ IsFiniteSet(S \cup t) /\ Sum(f, t) \in Int
    <2> SUFFICES ASSUME NEW t \in SUBSET T
                 PROVE  IsFiniteSet(t) /\ IsFiniteSet(S \cup t) /\ Sum(f, t) \in Int
      OBVIOUS
    <2>1. IsFiniteSet(t)
      BY FS_Subset
    <2> QED BY <2>1, FS_Union, SumUnfold
  <1>2. Sum(f, S) \in Int
    BY SumUnfold
  <1>3. Bad = {}
    <2> SUFFICES ASSUME Bad # {} PROVE FALSE
      OBVIOUS
    <2>1. PICK t \in Bad : \A v \in Bad : ~(v \subseteq t /\ v # t)
      <3>1. Bad \in SUBSET SUBSET T
        OBVIOUS
      <3> HIDE DEF Bad
      <3> QED BY <3>1, LeastSubset
    <2>2. t \in SUBSET T /\ Sum(f, S \cup t) # Sum(f, S) + Sum(f, t)
      BY <2>1
    <2>3. CASE t = {}
      <3>1. S \cup t = S
        BY <2>3
      <3>2. Sum(f, t) = 0
        BY <2>3, SumUnfold, FS_EmptySet
      <3>3. Sum(f, S \cup t) = Sum(f, S)
        BY <3>1
      <3> QED BY <1>2, <2>2, <3>2, <3>3
    <2>4. CASE t # {}
      <3>1. PICK x \in t : TRUE
        BY <2>4
      <3> DEFINE v == t \ {x}
      <3>2. v \in SUBSET T /\ v \subseteq t /\ v # t /\ x \notin v /\ v \cup {x} = t
            /\ x \notin S \cup v /\ (S \cup v) \cup {x} = S \cup t /\ f[x] \in Int
            /\ \A y \in S \cup v : f[y] \in Int
        BY <2>2, <3>1
      <3> HIDE DEF v
      <3>3. Sum(f, S \cup v) = Sum(f, S) + Sum(f, v)
        BY <2>1, <3>2
      <3>4. Sum(f, S \cup t) = Sum(f, S \cup v) + f[x]
        <4> DEFINE w == S \cup v
        <4>1. IsFiniteSet(w) /\ x \notin w /\ f[x] \in Int /\ \A y \in w : f[y] \in Int
          BY <1>1, <3>2
        <4>2. w \cup {x} = S \cup t
          BY <3>2
        <4> HIDE DEF w
        <4>3. Sum(f, w \cup {x}) = Sum(f, w) + f[x]
          BY <4>1, SumAdd
        <4>4. Sum(f, S \cup t) = Sum(f, w) + f[x]
          BY <4>2, <4>3
        <4> QED BY <4>4 DEF w
      <3>5. Sum(f, t) = Sum(f, v) + f[x]
        BY <1>1, <3>2, SumAdd
      <3>6. Sum(f, v) \in Int /\ Sum(f, S \cup t) = (Sum(f, S) + Sum(f, v)) + f[x]
        BY <1>1, <3>2, <3>3, <3>4
      <3> QED BY <1>2, <2>2, <3>2, <3>5, <3>6
    <2> QED BY <2>3, <2>4
  <1> QED BY <1>3

LEMMA SumSame ==
  ASSUME NEW S, IsFiniteSet(S), NEW f, NEW g, \A x \in S : f[x] \in Int /\ f[x] = g[x]
  PROVE  Sum(f, S) = Sum(g, S)
  <1> DEFINE Bad == {t \in SUBSET S : Sum(f, t) # Sum(g, t)}
  <1>1. Bad = {}
    <2> SUFFICES ASSUME Bad # {} PROVE FALSE
      OBVIOUS
    <2>1. PICK t \in Bad : \A v \in Bad : ~(v \subseteq t /\ v # t)
      <3>1. Bad \in SUBSET SUBSET S
        OBVIOUS
      <3> HIDE DEF Bad
      <3> QED BY <3>1, LeastSubset
    <2>2. t \in SUBSET S /\ Sum(f, t) # Sum(g, t) /\ IsFiniteSet(t)
          /\ (\A x \in t : f[x] \in Int) /\ (\A x \in t : g[x] \in Int)
      BY <2>1, FS_Subset
    <2>3. t # {} /\ Some(t) \in t
      BY <2>2, SumUnfold
    <2>4. Sum(f, t) = f[Some(t)] + Sum(f, t \ {Some(t)})
      BY <2>2, <2>3, SumUnfold
    <2>5. Sum(g, t) = g[Some(t)] + Sum(g, t \ {Some(t)})
      BY <2>2, <2>3, SumUnfold
    <2>6. Sum(f, t \ {Some(t)}) = Sum(g, t \ {Some(t)})
      <3> DEFINE v == t \ {Some(t)}
      <3>1. v \in SUBSET S /\ v \subseteq t /\ v # t
        BY <2>2, <2>3
      <3> HIDE DEF v
      <3>2. Sum(f, v) = Sum(g, v)
        BY <2>1, <3>1
      <3> QED BY <3>2 DEF v
    <2>7. f[Some(t)] = g[Some(t)]
      BY <2>2, <2>3
    <2> QED BY <2>2, <2>4, <2>5, <2>6, <2>7
  <1> QED BY <1>1

LEMMA SumZero ==
  ASSUME NEW S, IsFiniteSet(S), NEW f, \A x \in S : f[x] = 0
  PROVE  Sum(f, S) = 0
  <1> DEFINE Bad == {t \in SUBSET S : Sum(f, t) # 0}
  <1>1. Bad = {}
    <2> SUFFICES ASSUME Bad # {} PROVE FALSE
      OBVIOUS
    <2>1. PICK t \in Bad : \A v \in Bad : ~(v \subseteq t /\ v # t)
      <3>1. Bad \in SUBSET SUBSET S
        OBVIOUS
      <3> HIDE DEF Bad
      <3> QED BY <3>1, LeastSubset
    <2>2. t \in SUBSET S /\ Sum(f, t) # 0 /\ IsFiniteSet(t) /\ (\A x \in t : f[x] \in Int)
      BY <2>1, FS_Subset
    <2>3. t # {} /\ Some(t) \in t /\ Sum(f, t) = f[Some(t)] + Sum(f, t \ {Some(t)})
      <3>1. t # {}
        BY <2>2, SumUnfold
      <3> QED BY <2>2, <3>1, SumUnfold
    <2>4. Sum(f, t \ {Some(t)}) = 0
      <3> DEFINE v == t \ {Some(t)}
      <3>1. v \in SUBSET S /\ v \subseteq t /\ v # t
        BY <2>2, <2>3
      <3> HIDE DEF v
      <3>2. Sum(f, v) = 0
        BY <2>1, <3>1
      <3> QED BY <3>2 DEF v
    <2>5. f[Some(t)] = 0
      BY <2>2, <2>3
    <2> QED BY <2>2, <2>3, <2>4, <2>5
  <1> QED BY <1>1

LEMMA SumNat ==
  ASSUME NEW S, IsFiniteSet(S), NEW f, \A x \in S : f[x] \in Nat
  PROVE  Sum(f, S) \in Nat
  <1> DEFINE Bad == {t \in SUBSET S : Sum(f, t) \notin Nat}
  <1>1. Bad = {}
    <2> SUFFICES ASSUME Bad # {} PROVE FALSE
      OBVIOUS
    <2>1. PICK t \in Bad : \A v \in Bad : ~(v \subseteq t /\ v # t)
      <3>1. Bad \in SUBSET SUBSET S
        OBVIOUS
      <3> HIDE DEF Bad
      <3> QED BY <3>1, LeastSubset
    <2>2. t \in SUBSET S /\ Sum(f, t) \notin Nat /\ IsFiniteSet(t) /\ (\A x \in t : f[x] \in Int)
      BY <2>1, FS_Subset
    <2>3. t # {} /\ Some(t) \in t /\ Sum(f, t) = f[Some(t)] + Sum(f, t \ {Some(t)})
      <3>1. t # {}
        <4>1. t = {} => Sum(f, t) = 0
          BY <2>2, SumUnfold, Zenon
        <4> QED BY <2>2, <4>1
      <3> QED BY <2>2, <3>1, SumUnfold
    <2>4. Sum(f, t \ {Some(t)}) \in Nat
      <3> DEFINE v == t \ {Some(t)}
      <3>1. v \in SUBSET S /\ v \subseteq t /\ v # t
        BY <2>2, <2>3
      <3> HIDE DEF v
      <3>2. Sum(f, v) \in Nat
        BY <2>1, <3>1
      <3> QED BY <3>2 DEF v
    <2>5. f[Some(t)] \in Nat
      BY <2>2, <2>3
    <2> QED BY <2>2, <2>3, <2>4, <2>5
  <1> QED BY <1>1
-----------------------------------------------------------------------------
(* What a simulation is.                                                     *)
GroupIds(n) == 0..(SeqSpace \div n)

Groups(n) ==
  UNION {[ids -> [received : SUBSET (0..(n - 1)), evaluated : BOOLEAN]] :
         ids \in SUBSET GroupIds(n)}

Simulation(sim) ==
  [groups : Groups(sim[2]), last : Nat, delivered : Nat, recovered : Nat, lost : Nat]

LEMMA SimSizes ==
  ASSUME NEW sim \in Sims
  PROVE  /\ sim[1] \in Nat /\ sim[2] \in Nat /\ 0 < sim[1] /\ sim[1] < sim[2]
         /\ SeqSpace \in Nat /\ 0 < SeqSpace /\ History \in Nat /\ MaxGap \in Nat
  BY FECAnalyzerAssumption

LEMMA DivBounds ==
  ASSUME NEW n \in Nat, 0 < n, NEW a \in Nat
  PROVE  /\ a \div n \in Nat /\ a % n \in 0..(n - 1)
         /\ a = n * (a \div n) + (a % n)
  <1>1. a \in Int /\ n \in Int /\ n > 0
    OBVIOUS
  <1>2. a = n * (a \div n) + (a % n) /\ a % n \in 0..(n - 1) /\ a \div n \in Int
    BY <1>1, DivMod, Zenon
  <1> DEFINE q == a \div n
             r == a % n
  <1>3. a = n * q + r /\ r \in 0..(n - 1) /\ q \in Int
    BY <1>2
  <1> HIDE DEF q, r
  <1>4. q >= 0
    <2> SUFFICES ASSUME q <= -1 PROVE FALSE
      BY <1>3
    <2> DEFINE d == -1 - q
    <2>1. d \in Nat /\ n * q = -n - n * d /\ n * d >= 0
      BY <1>3
    <2> QED BY <1>3, <2>1
  <1>5. q \in Nat
    BY <1>3, <1>4
  <1> QED BY <1>2, <1>5 DEF q

(* Numbers at a distance below m * n are at most m groups of n apart.        *)
LEMMA DivNear ==
  ASSUME NEW n \in Nat, 0 < n, NEW a \in Nat, NEW b \in Nat, NEW m \in Nat, b - a < m * n
  PROVE  b \div n <= a \div n + m
  <1> DEFINE x == a \div n
             y == b \div n
             r == a % n
             s == b % n
  <1>1. x \in Nat /\ y \in Nat /\ r \in 0..(n - 1) /\ s \in 0..(n - 1)
        /\ a = n * x + r /\ b = n * y + s
    BY DivBounds
  <1> HIDE DEF x, y, r, s
  <1>2. ~(y >= x + m + 1)
    <2> SUFFICES ASSUME y >= x + m + 1 PROVE FALSE
      OBVIOUS
    <2> DEFINE d == y - (x + m + 1)
    <2>1. d \in Nat /\ n * d >= 0
      BY <1>1
    <2>2. y = x + m + 1 + d
      BY <1>1
    <2> HIDE DEF d
    <2>3. n * y = n * x + n * m + n + n * d
      BY <1>1, <2>1, <2>2
    <2>4. n * m = m * n
      OBVIOUS
    <2> DEFINE p == n * x
               q == n * m
               t == n * d
    <2>5. p \in Int /\ q \in Int /\ t \in Int /\ t >= 0 /\ b - a < q
          /\ a = p + r /\ b = p + q + n + t + s
      BY <1>1, <2>1, <2>3, <2>4
    <2> HIDE DEF p, q, t
    <2> QED BY <1>1, <2>5
  <1> QED BY <1>1, <1>2 DEF x, y

LEMMA DivMono ==
  ASSUME NEW n \in Nat, 0 < n, NEW a \in Nat, NEW b \in Nat, a <= b
  PROVE  a \div n <= b \div n
  <1> DEFINE x == a \div n
             y == b \div n
             r == a % n
             s == b % n
  <1>1. x \in Nat /\ y \in Nat /\ r \in 0..(n - 1) /\ s \in 0..(n - 1)
        /\ a = n * x + r /\ b = n * y + s
    BY DivBounds
  <1> HIDE DEF x, y, r, s
  <1>2. ~(x >= y + 1)
    <2> SUFFICES ASSUME x >= y + 1 PROVE FALSE
      OBVIOUS
    <2> DEFINE d == x - (y + 1)
    <2>1. d \in Nat /\ n * d >= 0 /\ x = y + 1 + d
      BY <1>1
    <2> HIDE DEF d
    <2>2. n * x = n * y + n + n * d
      BY <1>1, <2>1
    <2> DEFINE p == n * y
               t == n * d
    <2>3. p \in Int /\ t \in Int /\ t >= 0 /\ b = p + s /\ a = p + n + t + r
      BY <1>1, <2>1, <2>2
    <2> HIDE DEF p, t
    <2> QED BY <1>1, <2>3
  <1> QED BY <1>1, <1>2 DEF x, y

(* The next number is in the same group or in the next.                      *)
LEMMA DivNext ==
  ASSUME NEW n \in Nat, 0 < n, NEW a \in Nat
  PROVE  (a + 1) \div n \in {a \div n, a \div n + 1}
  <1>1. a \div n <= (a + 1) \div n
    BY DivMono
  <1>2. a + 1 \in Nat /\ 1 \in Nat
    OBVIOUS
  <1>3. a \div n \in Nat /\ (a + 1) \div n \in Nat
    BY <1>2, DivBounds
  <1>4. (a + 1) \div n <= a \div n + 1
    <2>1. CASE n = 1
      <3>1. (a + 1) - a < 2 * n
        BY <2>1
      <3>2. a \div n = a /\ (a + 1) \div n = a + 1
        BY <2>1
      <3> QED BY <3>2
    <2>2. CASE n # 1
      <3>1. (a + 1) - a < 1 * n
        BY <2>2
      <3> QED BY <1>2, <3>1, DivNear
    <2> QED BY <2>1, <2>2
  <1> QED BY <1>1, <1>3, <1>4
-----------------------------------------------------------------------------
(* What finalizeGroup adds to the counters for the groups in ids.            *)
Delivered(k, vf, ids) == [id \in ids |-> Worth(k, vf.groups[id].received).delivered]
Saved(k, vf, ids) == [id \in ids |-> Worth(k, vf.groups[id].received).recovered]
Gone(k, vf, ids) == [id \in ids |-> Worth(k, vf.groups[id].received).lost]

LEMMA WorthType ==
  ASSUME NEW k \in Nat, NEW n \in Nat, NEW r \in SUBSET (0..(n - 1))
  PROVE  /\ Worth(k, r).delivered \in Nat /\ Worth(k, r).recovered \in Nat
         /\ Worth(k, r).lost \in Nat
         /\ Worth(k, r).delivered = Cardinality(r \cap 0..(k - 1))
         /\ Worth(k, r).delivered <= k
         /\ Cardinality(r) >= k =>
              Worth(k, r).recovered = k - Worth(k, r).delivered /\ Worth(k, r).lost = 0
         /\ Cardinality(r) < k =>
              Worth(k, r).recovered = 0 /\ Worth(k, r).lost = k - Worth(k, r).delivered
  <1> DEFINE d == {i \in r : i < k}
             c == Cardinality(d)
  <1>1. IsFiniteSet(0..(k - 1)) /\ Cardinality(0..(k - 1)) = k /\ IsFiniteSet(r)
    <2>1. 0 \in Int /\ k - 1 \in Int /\ n - 1 \in Int
      OBVIOUS
    <2>2. IsFiniteSet(0..(n - 1))
      BY <2>1, FS_Interval
    <2>3. IsFiniteSet(r)
      BY <2>2, FS_Subset
    <2>4. IsFiniteSet(0..(k - 1)) /\ Cardinality(0..(k - 1)) = IF 0 > k - 1 THEN 0 ELSE k - 1 - 0 + 1
      BY <2>1, FS_Interval
    <2> QED BY <2>3, <2>4
  <1>2. d \in SUBSET (0..(k - 1)) /\ d = r \cap 0..(k - 1)
    <2>1. \A i \in r : i \in Nat
      OBVIOUS
    <2>2. \A i \in Nat : i < k <=> i \in 0..(k - 1)
      OBVIOUS
    <2> DEFINE e == 0..(k - 1)
    <2>3. \A i \in Nat : i < k <=> i \in e
      BY <2>2
    <2> HIDE DEF e
    <2>4. d = r \cap e
      BY <2>1, <2>3
    <2> QED BY <2>4 DEF e
  <1>3. c \in Nat /\ c <= k /\ Cardinality(r) \in Nat
    BY <1>1, <1>2, FS_Subset, FS_CardinalityType
  <1> HIDE DEF d
  <1> HIDE DEF c
  <1>4. Worth(k, r) = [delivered |-> c,
                       recovered |-> IF Cardinality(r) >= k THEN k - c ELSE 0,
                       lost |-> k - c - (IF Cardinality(r) >= k THEN k - c ELSE 0)]
    BY DEF Worth, c, d
  <1>5. c = Cardinality(r \cap 0..(k - 1))
    BY <1>2 DEF c
  <1> QED BY <1>3, <1>4, <1>5

LEMMA SimulationIs ==
  ASSUME NEW sim \in Sims, NEW vf \in Simulation(sim)
  PROVE  /\ DOMAIN vf.groups \subseteq GroupIds(sim[2])
         /\ IsFiniteSet(DOMAIN vf.groups)
         /\ \A id \in DOMAIN vf.groups :
              /\ vf.groups[id].received \in SUBSET (0..(sim[2] - 1))
              /\ vf.groups[id].evaluated \in BOOLEAN
         /\ vf = [groups |-> vf.groups, last |-> vf.last, delivered |-> vf.delivered,
                  recovered |-> vf.recovered, lost |-> vf.lost]
         /\ vf.last \in Nat /\ vf.delivered \in Nat /\ vf.recovered \in Nat /\ vf.lost \in Nat
  <1>1. vf.groups \in Groups(sim[2])
    BY DEF Simulation
  <1>2. PICK ids \in SUBSET GroupIds(sim[2]) :
          vf.groups \in [ids -> [received : SUBSET (0..(sim[2] - 1)), evaluated : BOOLEAN]]
    BY <1>1 DEF Groups
  <1>3. IsFiniteSet(ids)
    <2>1. SeqSpace \div sim[2] \in Int /\ 0 \in Int
      BY SimSizes, DivBounds
    <2>2. IsFiniteSet(GroupIds(sim[2]))
      BY <2>1, FS_Interval DEF GroupIds
    <2> QED BY <2>2, FS_Subset
  <1> QED BY <1>2, <1>3 DEF Simulation

LEMMA FinalizedIs ==
  ASSUME NEW sim \in Sims, NEW vf \in Simulation(sim), NEW ids \in SUBSET DOMAIN vf.groups
  PROVE  LET w == Finalized(sim[1], vf, ids)
             k == sim[1]
         IN /\ w \in Simulation(sim)
            /\ DOMAIN w.groups = DOMAIN vf.groups /\ w.last = vf.last
            /\ \A id \in DOMAIN vf.groups :
                 /\ w.groups[id].received = vf.groups[id].received
                 /\ w.groups[id].evaluated = (vf.groups[id].evaluated \/ id \in ids)
            /\ w.delivered = vf.delivered + Sum(Delivered(k, vf, ids), ids)
            /\ w.recovered = vf.recovered + Sum(Saved(k, vf, ids), ids)
            /\ w.lost = vf.lost + Sum(Gone(k, vf, ids), ids)
            /\ Sum(Delivered(k, vf, ids), ids) \in Nat
            /\ Sum(Saved(k, vf, ids), ids) \in Nat
            /\ Sum(Gone(k, vf, ids), ids) \in Nat
  <1> DEFINE k == sim[1]
             rec == [received : SUBSET (0..(sim[2] - 1)), evaluated : BOOLEAN]
             gs == [id \in DOMAIN vf.groups |->
                      [received |-> vf.groups[id].received,
                       evaluated |-> vf.groups[id].evaluated \/ id \in ids]]
             d == Sum(Delivered(k, vf, ids), ids)
             r == Sum(Saved(k, vf, ids), ids)
             o == Sum(Gone(k, vf, ids), ids)
  <1>1. /\ DOMAIN vf.groups \in SUBSET GroupIds(sim[2])
        /\ IsFiniteSet(ids)
        /\ \A id \in DOMAIN vf.groups :
             /\ vf.groups[id].received \in SUBSET (0..(sim[2] - 1))
             /\ vf.groups[id].evaluated \in BOOLEAN
        /\ vf.last \in Nat /\ vf.delivered \in Nat /\ vf.recovered \in Nat /\ vf.lost \in Nat
    BY SimulationIs, FS_Subset
  <1>2. d \in Nat /\ r \in Nat /\ o \in Nat
    <2>1. \A id \in ids : /\ Delivered(k, vf, ids)[id] \in Nat
                          /\ Saved(k, vf, ids)[id] \in Nat
                          /\ Gone(k, vf, ids)[id] \in Nat
      BY <1>1, SimSizes, WorthType DEF Delivered, Saved, Gone
    <2> QED BY <1>1, <2>1, SumNat
  <1>3. Finalized(k, vf, ids) =
          [vf EXCEPT !.delivered = @ + d, !.recovered = @ + r, !.lost = @ + o, !.groups = gs]
    BY DEF Finalized, Delivered, Saved, Gone, SumFunction, Sum
  <1>4. /\ DOMAIN gs = DOMAIN vf.groups
        /\ \A id \in DOMAIN vf.groups :
             /\ gs[id].received = vf.groups[id].received
             /\ gs[id].evaluated = (vf.groups[id].evaluated \/ id \in ids)
    OBVIOUS
  <1>5. gs \in [DOMAIN vf.groups -> rec]
    <2> SUFFICES ASSUME NEW id \in DOMAIN vf.groups
                 PROVE  [received |-> vf.groups[id].received,
                         evaluated |-> vf.groups[id].evaluated \/ id \in ids] \in rec
      OBVIOUS
    <2>1. vf.groups[id].received \in SUBSET (0..(sim[2] - 1))
      BY <1>1
    <2>2. (vf.groups[id].evaluated \/ id \in ids) \in BOOLEAN
      OBVIOUS
    <2> QED BY <2>1, <2>2
  <1> HIDE DEF gs, d, r, o
  <1>6. Finalized(k, vf, ids) =
          [groups |-> gs, last |-> vf.last, delivered |-> vf.delivered + d,
           recovered |-> vf.recovered + r, lost |-> vf.lost + o]
    BY <1>3, SimulationIs DEF Simulation
  <1>7. Finalized(k, vf, ids) \in Simulation(sim)
    <2>1. vf.delivered + d \in Nat /\ vf.recovered + r \in Nat /\ vf.lost + o \in Nat
      BY <1>1, <1>2
    <2>2. gs \in Groups(sim[2])
      BY <1>1, <1>5 DEF Groups
    <2> QED BY <1>1, <1>6, <2>1, <2>2 DEF Simulation
  <1> DEFINE w == Finalized(k, vf, ids)
  <1>8. /\ w.groups = gs /\ w.last = vf.last /\ w.delivered = vf.delivered + d
        /\ w.recovered = vf.recovered + r /\ w.lost = vf.lost + o
    BY <1>6
  <1> HIDE DEF w
  <1> QED BY <1>2, <1>4, <1>7, <1>8 DEF d, r, o, w

LEMMA CleanedUpIs ==
  ASSUME NEW sim \in Sims, NEW vf \in Simulation(sim)
  PROVE  LET w == CleanedUp(sim[1], vf)
             k == sim[1]
             old == {id \in Unevaluated(vf) : id + History < vf.last}
         IN /\ w \in Simulation(sim)
            /\ DOMAIN w.groups = DOMAIN vf.groups \ old /\ w.last = vf.last
            /\ \A id \in DOMAIN vf.groups \ old :
                 /\ w.groups[id].received = vf.groups[id].received
                 /\ w.groups[id].evaluated = vf.groups[id].evaluated
            /\ w.delivered = vf.delivered + Sum(Delivered(k, vf, old), old)
            /\ w.recovered = vf.recovered + Sum(Saved(k, vf, old), old)
            /\ w.lost = vf.lost + Sum(Gone(k, vf, old), old)
  <1> DEFINE k == sim[1]
             old == {id \in Unevaluated(vf) : id + History < vf.last}
             v == Finalized(k, vf, old)
             w == CleanedUp(k, vf)
             ids == DOMAIN vf.groups \ old
             gs == [id \in ids |-> v.groups[id]]
  <1>1. old \in SUBSET DOMAIN vf.groups
    BY DEF Unevaluated
  <1>2. w = [v EXCEPT !.groups = Restrict(@, DOMAIN @ \ old)]
    BY DEF CleanedUp
  <1> HIDE DEF w, old
  <1>3. /\ v \in Simulation(sim)
        /\ DOMAIN v.groups = DOMAIN vf.groups /\ v.last = vf.last
        /\ \A id \in DOMAIN vf.groups :
             /\ v.groups[id].received = vf.groups[id].received
             /\ v.groups[id].evaluated = (vf.groups[id].evaluated \/ id \in old)
        /\ v.delivered = vf.delivered + Sum(Delivered(k, vf, old), old)
        /\ v.recovered = vf.recovered + Sum(Saved(k, vf, old), old)
        /\ v.lost = vf.lost + Sum(Gone(k, vf, old), old)
    BY <1>1, FinalizedIs
  <1> HIDE DEF v
  <1>4. w = [groups |-> gs, last |-> v.last, delivered |-> v.delivered,
             recovered |-> v.recovered, lost |-> v.lost]
    <2>1. v = [groups |-> v.groups, last |-> v.last, delivered |-> v.delivered,
               recovered |-> v.recovered, lost |-> v.lost]
      BY <1>3, SimulationIs
    <2>2. Restrict(v.groups, DOMAIN v.groups \ old) = gs
      BY <1>3 DEF Restrict
    <2> QED BY <1>2, <2>1, <2>2
  <1>5. DOMAIN gs = ids /\ \A id \in ids : gs[id] = v.groups[id]
    OBVIOUS
  <1>6. gs \in Groups(sim[2])
    <2>1. PICK D \in SUBSET GroupIds(sim[2]) :
            v.groups \in [D -> [received : SUBSET (0..(sim[2] - 1)), evaluated : BOOLEAN]]
      BY <1>3 DEF Simulation, Groups
    <2>2. ids \in SUBSET D
      BY <1>3, <2>1
    <2>3. gs \in [ids -> [received : SUBSET (0..(sim[2] - 1)), evaluated : BOOLEAN]]
      BY <2>1, <2>2
    <2> HIDE DEF gs, ids
    <2> QED BY <2>1, <2>2, <2>3 DEF Groups
  <1>7. v.last \in Nat /\ v.delivered \in Nat /\ v.recovered \in Nat /\ v.lost \in Nat
    BY <1>3, SimulationIs
  <1> HIDE DEF gs
  <1>8. w \in Simulation(sim)
    BY <1>4, <1>6, <1>7 DEF Simulation
  <1>9. /\ w.groups = gs /\ w.last = v.last /\ w.delivered = v.delivered
        /\ w.recovered = v.recovered /\ w.lost = v.lost
    BY <1>4
  <1>10. \A id \in ids : id \notin old /\ vf.groups[id].evaluated \in BOOLEAN
    BY SimulationIs
  <1> QED BY <1>3, <1>5, <1>8, <1>9, <1>10 DEF old, w

LEMMA OpenedIs ==
  ASSUME NEW sim \in Sims, NEW vf \in Simulation(sim), NEW id \in GroupIds(sim[2]),
         id \notin DOMAIN vf.groups
  PROVE  LET k == sim[1]
             w == Opened(k, vf, id)
             old == {g \in Unevaluated(vf) : id > vf.last /\ g + History < id}
         IN /\ w \in Simulation(sim)
            /\ DOMAIN w.groups = (DOMAIN vf.groups \cup {id}) \ old
            /\ w.last = (IF id > vf.last THEN id ELSE vf.last)
            /\ \A g \in DOMAIN vf.groups \ old :
                 /\ w.groups[g].received = vf.groups[g].received
                 /\ w.groups[g].evaluated = vf.groups[g].evaluated
            /\ id \notin old
            /\ w.groups[id].received = {} /\ w.groups[id].evaluated = FALSE
            /\ w.delivered = vf.delivered + Sum(Delivered(k, vf, old), old)
            /\ w.recovered = vf.recovered + Sum(Saved(k, vf, old), old)
            /\ w.lost = vf.lost + Sum(Gone(k, vf, old), old)
  <1> DEFINE k == sim[1]
             old == {g \in Unevaluated(vf) : id > vf.last /\ g + History < id}
             ids == DOMAIN vf.groups \cup {id}
             rec == [received : SUBSET (0..(sim[2] - 1)), evaluated : BOOLEAN]
             new == [received |-> {}, evaluated |-> FALSE]
             gs == [g \in ids |-> IF g \in DOMAIN vf.groups THEN vf.groups[g] ELSE new]
             u == [vf EXCEPT !.groups = gs]
             v == [u EXCEPT !.last = id]
             w == Opened(k, vf, id)
  <1>1. w = IF id > vf.last THEN CleanedUp(k, v) ELSE u
    BY DEF Opened
  <1> HIDE DEF w
  <1>2. PICK D \in SUBSET GroupIds(sim[2]) : vf.groups \in [D -> rec]
    BY DEF Simulation, Groups
  <1>3. gs \in Groups(sim[2])
    <2>1. ids \in SUBSET GroupIds(sim[2]) /\ DOMAIN vf.groups = D
      BY <1>2
    <2>2. new \in rec
      OBVIOUS
    <2>3. gs \in [ids -> rec]
      <3> HIDE DEF new, rec
      <3> QED BY <1>2, <2>2
    <2> QED BY <2>1, <2>3 DEF Groups
  <1>4. /\ DOMAIN gs = ids /\ gs[id] = new
        /\ \A g \in DOMAIN vf.groups : gs[g] = vf.groups[g]
    OBVIOUS
  <1> HIDE DEF gs
  <1>5. /\ vf = [groups |-> vf.groups, last |-> vf.last, delivered |-> vf.delivered,
                 recovered |-> vf.recovered, lost |-> vf.lost]
        /\ vf.last \in Nat /\ vf.delivered \in Nat /\ vf.recovered \in Nat /\ vf.lost \in Nat
    BY SimulationIs
  <1>6. u = [groups |-> gs, last |-> vf.last, delivered |-> vf.delivered,
             recovered |-> vf.recovered, lost |-> vf.lost]
    BY <1>5
  <1> HIDE DEF u
  <1>7. v = [groups |-> gs, last |-> id, delivered |-> vf.delivered,
             recovered |-> vf.recovered, lost |-> vf.lost]
    BY <1>6
  <1> HIDE DEF v
  <1>8. id \in Nat
    BY SimSizes, DivBounds DEF GroupIds
  <1>9. u \in Simulation(sim) /\ v \in Simulation(sim)
    BY <1>3, <1>5, <1>6, <1>7, <1>8 DEF Simulation
  <1>10. id \notin old /\ \A g \in old : g \in DOMAIN vf.groups
    BY DEF Unevaluated
  <1>11. CASE ~(id > vf.last)
    <2>1. old = {} /\ w = u
      BY <1>1, <1>11
    <2>2. Sum(Delivered(k, vf, {}), {}) = 0 /\ Sum(Saved(k, vf, {}), {}) = 0
          /\ Sum(Gone(k, vf, {}), {}) = 0
      <3>1. IsFiniteSet({})
        BY FS_EmptySet
      <3> QED BY <3>1, SumZero
    <2>3. /\ w.groups = gs /\ w.last = vf.last /\ w.delivered = vf.delivered
          /\ w.recovered = vf.recovered /\ w.lost = vf.lost
      BY <1>6, <2>1
    <2> HIDE DEF old
    <2> QED BY <1>4, <1>5, <1>9, <1>11, <2>1, <2>2, <2>3 DEF w, old
  <1>12. CASE id > vf.last
    <2> DEFINE dead == {g \in Unevaluated(v) : g + History < v.last}
    <2>1. dead = old
      <3>1. v.groups = gs /\ v.last = id
        BY <1>7
      <3>2. Unevaluated(v) = Unevaluated(vf) \cup {id}
        BY <1>4, <3>1 DEF Unevaluated
      <3>3. ~(id + History < id)
        BY <1>8, SimSizes
      <3> QED BY <1>12, <3>1, <3>2, <3>3
    <2>2. w = CleanedUp(k, v)
      BY <1>1, <1>12
    <2>3. /\ w \in Simulation(sim)
          /\ DOMAIN w.groups = DOMAIN v.groups \ dead /\ w.last = v.last
          /\ \A g \in DOMAIN v.groups \ dead :
               /\ w.groups[g].received = v.groups[g].received
               /\ w.groups[g].evaluated = v.groups[g].evaluated
          /\ w.delivered = v.delivered + Sum(Delivered(k, v, dead), dead)
          /\ w.recovered = v.recovered + Sum(Saved(k, v, dead), dead)
          /\ w.lost = v.lost + Sum(Gone(k, v, dead), dead)
      BY <1>9, <2>2, CleanedUpIs
    <2> HIDE DEF dead, old
    <2>4. /\ v.groups = gs /\ v.last = id /\ v.delivered = vf.delivered
          /\ v.recovered = vf.recovered /\ v.lost = vf.lost
      BY <1>7
    <2>5. \A g \in old : v.groups[g] = vf.groups[g]
      BY <1>4, <1>10, <2>4
    <2>6. /\ Delivered(k, v, old) = Delivered(k, vf, old)
          /\ Saved(k, v, old) = Saved(k, vf, old) /\ Gone(k, v, old) = Gone(k, vf, old)
      BY <2>5 DEF Delivered, Saved, Gone
    <2> QED BY <1>4, <1>10, <1>12, <2>1, <2>3, <2>4, <2>6 DEF w, old
  <1> QED BY <1>11, <1>12

(* VirtualFEC.RecordPacket: the groups it judges, and what it leaves.        *)
Dead(sim, vf, seq) ==
  LET id == seq \div sim[2]
  IN {g \in Unevaluated(vf) : id \notin DOMAIN vf.groups /\ id > vf.last /\ g + History < id}

LEMMA IdOf ==
  ASSUME NEW sim \in Sims, NEW seq \in 0..(SeqSpace - 1)
  PROVE  seq \div sim[2] \in GroupIds(sim[2]) /\ seq \div sim[2] \in Nat /\ seq \in Nat
         /\ seq % sim[2] \in 0..(sim[2] - 1)
  <1>1. seq \in Nat /\ seq <= SeqSpace /\ SeqSpace \in Nat /\ sim[2] \in Nat /\ 0 < sim[2]
    BY SimSizes
  <1>2. seq \div sim[2] <= SeqSpace \div sim[2]
    BY <1>1, DivMono
  <1>3. seq \div sim[2] \in Nat /\ SeqSpace \div sim[2] \in Nat
        /\ seq % sim[2] \in 0..(sim[2] - 1)
    BY <1>1, DivBounds
  <1> QED BY <1>1, <1>2, <1>3 DEF GroupIds

(* VirtualFEC.RecordPacket leaves w, with the indices add to those that came. *)
RecordedAs(sim, vf, seq, add, w) ==
  LET k == sim[1]
      id == seq \div sim[2]
      old == Dead(sim, vf, seq)
  IN /\ w \in Simulation(sim)
     /\ old \subseteq DOMAIN vf.groups /\ id \notin old
     /\ DOMAIN w.groups = (DOMAIN vf.groups \cup {id}) \ old
     /\ w.last = (IF id \notin DOMAIN vf.groups /\ id > vf.last THEN id ELSE vf.last)
     /\ \A g \in (DOMAIN vf.groups \ old) \ {id} :
          /\ w.groups[g].received = vf.groups[g].received
          /\ w.groups[g].evaluated = vf.groups[g].evaluated
     /\ w.groups[id].received =
          (IF id \in DOMAIN vf.groups THEN vf.groups[id].received ELSE {}) \cup add
     /\ w.groups[id].evaluated =
          (IF id \in DOMAIN vf.groups THEN vf.groups[id].evaluated ELSE FALSE)
     /\ w.delivered = vf.delivered + Sum(Delivered(k, vf, old), old)
     /\ w.recovered = vf.recovered + Sum(Saved(k, vf, old), old)
     /\ w.lost = vf.lost + Sum(Gone(k, vf, old), old)

LEMMA RecordedIs ==
  ASSUME NEW sim \in Sims, NEW vf \in Simulation(sim), NEW seq \in 0..(SeqSpace - 1)
  PROVE  /\ RecordedAs(sim, vf, seq, {}, Recorded(sim, vf, seq, TRUE))
         /\ RecordedAs(sim, vf, seq, {seq % sim[2]}, Recorded(sim, vf, seq, FALSE))
  <1> DEFINE k == sim[1]
             id == seq \div sim[2]
             i == seq % sim[2]
             rec == [received : SUBSET (0..(sim[2] - 1)), evaluated : BOOLEAN]
             old == Dead(sim, vf, seq)
             u == IF id \in DOMAIN vf.groups THEN vf ELSE Opened(k, vf, id)
             w == Recorded(sim, vf, seq, FALSE)
  <1>0. id \in GroupIds(sim[2]) /\ id \in Nat /\ i \in 0..(sim[2] - 1)
    BY IdOf
  <1>1. /\ Recorded(sim, vf, seq, TRUE) = u
        /\ w = [u EXCEPT !.groups[id].received = @ \cup {i}]
    BY DEF Recorded
  <1> HIDE DEF w
  <1>2. /\ u \in Simulation(sim)
        /\ old \subseteq DOMAIN vf.groups /\ id \notin old
        /\ DOMAIN u.groups = (DOMAIN vf.groups \cup {id}) \ old
        /\ u.last = (IF id \notin DOMAIN vf.groups /\ id > vf.last THEN id ELSE vf.last)
        /\ \A g \in (DOMAIN vf.groups \ old) \ {id} :
             /\ u.groups[g].received = vf.groups[g].received
             /\ u.groups[g].evaluated = vf.groups[g].evaluated
        /\ u.groups[id].received =
             (IF id \in DOMAIN vf.groups THEN vf.groups[id].received ELSE {})
        /\ u.groups[id].evaluated =
             (IF id \in DOMAIN vf.groups THEN vf.groups[id].evaluated ELSE FALSE)
        /\ u.delivered = vf.delivered + Sum(Delivered(k, vf, old), old)
        /\ u.recovered = vf.recovered + Sum(Saved(k, vf, old), old)
        /\ u.lost = vf.lost + Sum(Gone(k, vf, old), old)
    <2>1. CASE id \in DOMAIN vf.groups
      <3>1. old = {} /\ u = vf
        BY <2>1 DEF Dead
      <3>2. Sum(Delivered(k, vf, {}), {}) = 0 /\ Sum(Saved(k, vf, {}), {}) = 0
            /\ Sum(Gone(k, vf, {}), {}) = 0
        <4>1. IsFiniteSet({})
          BY FS_EmptySet
        <4> QED BY <4>1, SumZero
      <3>3. vf.delivered \in Nat /\ vf.recovered \in Nat /\ vf.lost \in Nat
        BY SimulationIs
      <3> HIDE DEF old, u, id
      <3> QED BY <2>1, <3>1, <3>2, <3>3
    <2>2. CASE id \notin DOMAIN vf.groups
      <3> DEFINE dead == {g \in Unevaluated(vf) : id > vf.last /\ g + History < id}
      <3>1. u = Opened(k, vf, id) /\ old = dead
        BY <2>2 DEF Dead
      <3>2. dead \subseteq DOMAIN vf.groups
        BY DEF Unevaluated
      <3>3. LET v == Opened(k, vf, id)
            IN /\ v \in Simulation(sim)
               /\ DOMAIN v.groups = (DOMAIN vf.groups \cup {id}) \ dead
               /\ v.last = (IF id > vf.last THEN id ELSE vf.last)
               /\ \A g \in DOMAIN vf.groups \ dead :
                    /\ v.groups[g].received = vf.groups[g].received
                    /\ v.groups[g].evaluated = vf.groups[g].evaluated
               /\ id \notin dead
               /\ v.groups[id].received = {} /\ v.groups[id].evaluated = FALSE
               /\ v.delivered = vf.delivered + Sum(Delivered(k, vf, dead), dead)
               /\ v.recovered = vf.recovered + Sum(Saved(k, vf, dead), dead)
               /\ v.lost = vf.lost + Sum(Gone(k, vf, dead), dead)
        <4> HIDE DEF id
        <4> QED BY <1>0, <2>2, OpenedIs
      <3> HIDE DEF dead, old, u, id
      <3> QED BY <2>2, <3>1, <3>2, <3>3
    <2> QED BY <2>1, <2>2
  <1> HIDE DEF u, old
  <1>3. RecordedAs(sim, vf, seq, {}, Recorded(sim, vf, seq, TRUE))
    <2>1. u.groups[id].received = u.groups[id].received \cup {}
      OBVIOUS
    <2>2. RecordedAs(sim, vf, seq, {}, u)
      <3> HIDE DEF id
      <3> QED BY <1>2, <2>1 DEF RecordedAs, old, id
    <2> QED BY <1>1, <2>2
  <1>4. RecordedAs(sim, vf, seq, {i}, w)
    <2> DEFINE gs == [u.groups EXCEPT ![id].received = @ \cup {i}]
    <2>1. PICK D \in SUBSET GroupIds(sim[2]) : u.groups \in [D -> rec]
      BY <1>2 DEF Simulation, Groups
    <2>2. id \in D /\ DOMAIN u.groups = D
      BY <1>2, <2>1
    <2>3. /\ DOMAIN gs = D
          /\ \A g \in D \ {id} : gs[g] = u.groups[g]
          /\ gs[id] = [u.groups[id] EXCEPT !.received = @ \cup {i}]
      BY <2>1, <2>2
    <2>4. /\ u.groups[id].received \in SUBSET (0..(sim[2] - 1))
          /\ u.groups[id].evaluated \in BOOLEAN
          /\ u.groups[id] = [received |-> u.groups[id].received,
                             evaluated |-> u.groups[id].evaluated]
      BY <2>1, <2>2
    <2>5. gs[id] = [received |-> u.groups[id].received \cup {i},
                    evaluated |-> u.groups[id].evaluated]
      BY <2>3, <2>4
    <2>6. gs[id] \in rec
      <3> DEFINE r == u.groups[id].received \cup {i}
                 b == u.groups[id].evaluated
      <3>1. r \in SUBSET (0..(sim[2] - 1)) /\ b \in BOOLEAN
        BY <1>0, <2>4
      <3>2. gs[id] = [received |-> r, evaluated |-> b]
        BY <2>5
      <3> HIDE DEF r, b, gs
      <3> QED BY <3>1, <3>2
    <2>7. gs \in [D -> rec]
      <3>1. gs = [g \in D |-> gs[g]]
        BY <2>1
      <3>2. \A g \in D : gs[g] \in rec
        BY <2>1, <2>3, <2>6
      <3> HIDE DEF gs, rec
      <3> QED BY <3>1, <3>2
    <2>8. gs \in Groups(sim[2])
      <3> HIDE DEF gs
      <3> QED BY <2>7 DEF Groups
    <2>9. /\ u = [groups |-> u.groups, last |-> u.last, delivered |-> u.delivered,
                  recovered |-> u.recovered, lost |-> u.lost]
          /\ u.last \in Nat /\ u.delivered \in Nat /\ u.recovered \in Nat /\ u.lost \in Nat
      BY <1>2, SimulationIs
    <2>10. w = [u EXCEPT !.groups = gs]
      BY <1>1
    <2> HIDE DEF gs
    <2>11. w = [groups |-> gs, last |-> u.last, delivered |-> u.delivered,
                recovered |-> u.recovered, lost |-> u.lost]
      BY <2>9, <2>10
    <2>12. w \in Simulation(sim)
      BY <2>8, <2>9, <2>11 DEF Simulation
    <2>13. /\ w.groups = gs /\ w.last = u.last /\ w.delivered = u.delivered
           /\ w.recovered = u.recovered /\ w.lost = u.lost
      BY <2>11
    <2>14. gs[id].received = u.groups[id].received \cup {i}
           /\ gs[id].evaluated = u.groups[id].evaluated
      BY <2>5
    <2>15. \A g \in (DOMAIN vf.groups \ old) \ {id} : g \in D \ {id}
      BY <1>2, <2>2
    <2> HIDE DEF id, i
    <2> QED BY <1>2, <2>2, <2>3, <2>12, <2>13, <2>14, <2>15 DEF RecordedAs, old, id
  <1> QED BY <1>3, <1>4 DEF w, i
-----------------------------------------------------------------------------
(* FoldLeft chooses the greatest index first.                                *)
LEMMA MaxOfInterval ==
  ASSUME NEW m \in Nat, NEW s \in SUBSET (1..m), s # {}
  PROVE  Max(s) \in s /\ \A x \in s : x <= Max(s)
  <1> DEFINE T == {y \in Nat : \A x \in s : x <= y}
  <1>1. m \in T /\ T \in SUBSET Nat
    OBVIOUS
  <1>2. PICK y \in T : \A z \in T : y <= z
    <2> HIDE DEF T
    <2> QED BY <1>1, LeastNat
  <1>3. y \in s
    <2> SUFFICES ASSUME y \notin s PROVE FALSE
      OBVIOUS
    <2>1. y \in Nat /\ \A x \in s : x < y
      OBVIOUS
    <2>2. PICK x \in s : TRUE
      OBVIOUS
    <2>3. y - 1 \in Nat /\ \A z \in s : z <= y - 1
      BY <2>1, <2>2
    <2>4. y - 1 \in T
      BY <2>3
    <2> HIDE DEF T
    <2> QED BY <1>2, <2>1, <2>4
  <1>4. \E x \in s : \A z \in s : x >= z
    BY <1>3
  <1> QED BY <1>4 DEF Max

(* What the gap does to a simulation: one number after the other.            *)
IsRun(st, sim, vf, gap, m) ==
  /\ st \in [0..m -> Simulation(sim)]
  /\ st[0] = vf
  /\ \A j \in 1..m : st[j] = Recorded(sim, st[j - 1], gap[j], TRUE)

IsIter(h, sim, vf, gap, m) ==
  h = [s \in SUBSET (1..m) |->
         IF s = {} THEN vf ELSE Recorded(sim, h[s \ {Max(s)}], gap[Max(s)], TRUE)]

LEMMA SkippedIter ==
  ASSUME NEW sim, NEW vf, NEW m \in Nat, NEW gap, DOMAIN gap = 1..m
  PROVE  Skipped(sim, vf, gap) = (CHOOSE h : IsIter(h, sim, vf, gap, m))[1..m]
  BY DEF Skipped, FoldLeft, MapThenFoldSet, IsIter

LEMMA SkippedIs ==
  ASSUME NEW sim \in Sims, NEW vf \in Simulation(sim), NEW m \in Nat,
         NEW gap \in [1..m -> 0..(SeqSpace - 1)]
  PROVE  \E st : IsRun(st, sim, vf, gap, m) /\ Skipped(sim, vf, gap) = st[m]
  <1> DEFINE S == 1..m
             V == Simulation(sim)
             c == [s \in SUBSET S |-> Max(s)]
             Step(p) == IF p[1] = {} THEN vf ELSE Recorded(sim, p[2], gap[c[p[1]]], TRUE)
             G == [p \in (SUBSET S) \X V |-> Step(p)]
  <1>1. \A s \in SUBSET S : s # {} => c[s] \in s
    BY MaxOfInterval
  <1>2. G \in [(SUBSET S) \X V -> V]
    <2>1. ASSUME NEW p \in (SUBSET S) \X V
          PROVE  Step(p) \in V
      <3>1. CASE p[1] = {}
        BY <3>1
      <3>2. CASE p[1] # {}
        <4>1. c[p[1]] \in S
          BY <1>1, <3>2
        <4>2. gap[c[p[1]]] \in 0..(SeqSpace - 1) /\ p[2] \in Simulation(sim)
          <5> HIDE DEF c
          <5> QED BY <4>1
        <4>3. Recorded(sim, p[2], gap[c[p[1]]], TRUE) \in Simulation(sim)
          <5> HIDE DEF c
          <5> QED BY <4>2, RecordedIs DEF RecordedAs
        <4> QED BY <3>2, <4>3
      <3> QED BY <3>1, <3>2
    <2> HIDE DEF Step, V
    <2> QED BY <2>1
  <1>3. PICK h \in [SUBSET S -> V] :
          \A s \in SUBSET S : h[s] = IF s = {} THEN vf ELSE G[<<s, h[s \ {c[s]}]>>]
    <2>1. IsFiniteSet(S)
      BY FS_Interval
    <2> HIDE DEF c, G, S, V
    <2>2. FoldArgs(S, V, vf, c, G)
      BY <1>1, <1>2, <2>1 DEF FoldArgs, V
    <2>3. \E h : IsFold(h, S, V, vf, c, G)
      BY <2>2, FoldExists, Zenon
    <2> QED BY <2>3 DEF IsFold
  <1>4. \A s \in SUBSET S :
          h[s] = IF s = {} THEN vf ELSE Recorded(sim, h[s \ {Max(s)}], gap[Max(s)], TRUE)
    <2> SUFFICES ASSUME NEW s \in SUBSET S, s # {}
                 PROVE  h[s] = Recorded(sim, h[s \ {Max(s)}], gap[Max(s)], TRUE)
      BY <1>3
    <2>1. c[s] = Max(s)
      OBVIOUS
    <2>2. h[s \ {c[s]}] \in V
      BY <1>3
    <2>3. G[<<s, h[s \ {c[s]}]>>] = Recorded(sim, h[s \ {c[s]}], gap[c[s]], TRUE)
      <3> HIDE DEF c, V
      <3> QED BY <2>2
    <2> QED BY <1>3, <2>1, <2>3
  <1>5. IsIter(h, sim, vf, gap, m)
    BY <1>3, <1>4 DEF IsIter
  <1> DEFINE g == CHOOSE g : IsIter(g, sim, vf, gap, m)
             st == [j \in 0..m |-> g[1..j]]
  <1>6. IsIter(g, sim, vf, gap, m)
    BY <1>5
  <1>7. \A s \in SUBSET S :
          g[s] = IF s = {} THEN vf ELSE Recorded(sim, g[s \ {Max(s)}], gap[Max(s)], TRUE)
    <2> HIDE DEF g
    <2> QED BY <1>6 DEF IsIter
  <1> HIDE DEF g
  <1>8. st[0] = vf
    <2>1. 1..0 = {} /\ 0 \in 0..m
      OBVIOUS
    <2> QED BY <1>7, <2>1
  <1>9. \A j \in 1..m : st[j] = Recorded(sim, st[j - 1], gap[j], TRUE)
    <2> SUFFICES ASSUME NEW j \in 1..m
                 PROVE  st[j] = Recorded(sim, st[j - 1], gap[j], TRUE)
      OBVIOUS
    <2>1. 1..j \in SUBSET S /\ 1..j # {} /\ j \in 0..m /\ j - 1 \in 0..m /\ j \in 1..j
      <3>1. j \in Nat /\ 1 <= j /\ j <= m
        OBVIOUS
      <3>2. j \in 1..j /\ \A i \in 1..j : i \in 1..m
        BY <3>1
      <3>3. 1..j # {}
        BY <3>2
      <3> QED BY <3>1, <3>2, <3>3
    <2>2. Max(1..j) = j
      <3>1. Max(1..j) \in 1..j /\ \A x \in 1..j : x <= Max(1..j)
        BY <2>1, MaxOfInterval
      <3>2. j <= Max(1..j)
        BY <2>1, <3>1
      <3> QED BY <3>1, <3>2
    <2>3. (1..j) \ {j} = 1..(j - 1)
      OBVIOUS
    <2>4. g[1..j] = Recorded(sim, g[(1..j) \ {j}], gap[j], TRUE)
      BY <1>7, <2>1, <2>2
    <2> QED BY <2>1, <2>3, <2>4
  <1>10. \A j \in 0..m : st[j] \in Simulation(sim)
    <2> DEFINE Bad == {j \in Nat : j \in 0..m /\ st[j] \notin Simulation(sim)}
    <2> HIDE DEF st
    <2> SUFFICES ASSUME Bad # {} PROVE FALSE
      OBVIOUS
    <2>1. PICK j \in Bad : \A i \in Bad : j <= i
      <3>1. Bad \in SUBSET Nat
        OBVIOUS
      <3> HIDE DEF Bad
      <3> QED BY <3>1, LeastNat
    <2>2. j \in 1..m
      BY <1>8
    <2>3. st[j - 1] \in Simulation(sim)
      BY <2>1, <2>2
    <2>4. gap[j] \in 0..(SeqSpace - 1)
      BY <2>2
    <2>5. Recorded(sim, st[j - 1], gap[j], TRUE) \in Simulation(sim)
      <3> HIDE DEF Bad
      <3> QED BY <2>3, <2>4, RecordedIs DEF RecordedAs
    <2>6. st[j] \notin Simulation(sim)
      OBVIOUS
    <2> QED BY <1>9, <2>2, <2>5, <2>6
  <1>11. st \in [0..m -> Simulation(sim)]
    BY <1>10
  <1>12. Skipped(sim, vf, gap) = st[m]
    <2>1. Skipped(sim, vf, gap) = g[1..m]
      BY SkippedIter DEF g
    <2> QED BY <2>1
  <1> HIDE DEF st
  <1> QED BY <1>8, <1>9, <1>11, <1>12 DEF IsRun
-----------------------------------------------------------------------------
(* What bounds a simulation: its newest group is that of the number m, its   *)
(* oldest is lo; those in rep may have been judged by a report, the others   *)
(* are not older than the history.                                           *)
Fresh(sim, vf, rep, lo, m) ==
  /\ vf \in Simulation(sim)
  /\ vf.last = m \div sim[2]
  /\ \A g \in DOMAIN vf.groups :
       /\ lo <= g /\ g <= vf.last
       /\ ~vf.groups[g].evaluated => g + History >= vf.last
       /\ vf.groups[g].evaluated => g \in rep

Farthest(a, b) == IF a > b THEN a ELSE b
Lowest(a, b) == IF a < b THEN a ELSE b

(* A number recorded within the history, below SeqSpace.                     *)
LEMMA FreshRecorded ==
  ASSUME NEW sim \in Sims, NEW vf, NEW rep, NEW lo \in Nat, NEW m \in Nat,
         Fresh(sim, vf, rep, lo, m),
         NEW seq \in 0..(SeqSpace - 1), m - seq < History * sim[2],
         NEW add, NEW w, RecordedAs(sim, vf, seq, add, w)
  PROVE  LET id == seq \div sim[2]
         IN /\ Fresh(sim, w, rep, Lowest(lo, id), Farthest(m, seq))
            /\ Lowest(lo, id) \in Nat /\ Farthest(m, seq) \in Nat
            /\ id + History >= Farthest(m, seq) \div sim[2]
            /\ id \in Nat
            /\ Farthest(m, seq) \div sim[2] = Farthest(m \div sim[2], id)
            /\ id > m \div sim[2] => id \notin DOMAIN vf.groups
  <1> DEFINE id == seq \div sim[2]
             top == m \div sim[2]
             old == Dead(sim, vf, seq)
             gs == vf.groups
  <1>1. vf \in Simulation(sim) /\ vf.last = top
        /\ \A g \in DOMAIN gs :
             /\ lo <= g /\ g <= top
             /\ ~gs[g].evaluated => g + History >= top
             /\ gs[g].evaluated => g \in rep
    BY DEF Fresh
  <1>2. id \in Nat /\ top \in Nat /\ seq \in Nat /\ History \in Nat /\ id \in GroupIds(sim[2])
    <2>1. sim[2] \in Nat /\ 0 < sim[2] /\ History \in Nat
      BY SimSizes
    <2>2. top \in Nat
      BY <2>1, DivBounds
    <2>3. id \in GroupIds(sim[2]) /\ id \in Nat /\ seq \in Nat
      BY IdOf
    <2> QED BY <2>1, <2>2, <2>3
  <1>3. Farthest(m, seq) \in Nat /\ Lowest(lo, id) \in Nat
    BY <1>2 DEF Farthest, Lowest
  <1>4. /\ seq > m => top <= id
        /\ seq <= m => id <= top /\ top <= id + History
    <2>1. sim[2] \in Nat /\ 0 < sim[2] /\ History \in Nat /\ seq \in Nat
      BY SimSizes
    <2>2. ASSUME seq > m PROVE top <= id
      BY <2>1, <2>2, DivMono
    <2>3. ASSUME seq <= m PROVE id <= top
      BY <2>1, <2>3, DivMono
    <2>4. top <= id + History
      BY <2>1, DivNear
    <2> QED BY <2>2, <2>3, <2>4
  <1>5. Farthest(m, seq) \div sim[2] = Farthest(top, id)
    <2>1. CASE seq > m
      <3>1. Farthest(m, seq) = seq
        BY <1>2, <2>1 DEF Farthest
      <3> HIDE DEF id, top
      <3>2. Farthest(top, id) = id
        BY <1>2, <1>4, <2>1 DEF Farthest
      <3> QED BY <3>1, <3>2 DEF id
    <2>2. CASE seq <= m
      <3>1. Farthest(m, seq) = m
        BY <1>2, <2>2 DEF Farthest
      <3> HIDE DEF id, top
      <3>2. Farthest(top, id) = top
        BY <1>2, <1>4, <2>2 DEF Farthest
      <3> QED BY <3>1, <3>2 DEF top
    <2> QED BY <1>2, <2>1, <2>2
  <1>6. /\ w \in Simulation(sim)
        /\ old \subseteq DOMAIN gs /\ id \notin old
        /\ DOMAIN w.groups = (DOMAIN gs \cup {id}) \ old
        /\ w.last = (IF id \notin DOMAIN gs /\ id > vf.last THEN id ELSE vf.last)
        /\ \A g \in (DOMAIN gs \ old) \ {id} :
             w.groups[g].evaluated = gs[g].evaluated
        /\ w.groups[id].evaluated = (IF id \in DOMAIN gs THEN gs[id].evaluated ELSE FALSE)
    BY DEF RecordedAs
  <1>7. old = {g \in Unevaluated(vf) : id \notin DOMAIN gs /\ id > top /\ g + History < id}
    BY <1>1 DEF Dead
  <1>8. DOMAIN gs \subseteq Nat
    <2>1. SeqSpace \div sim[2] \in Nat
      BY SimSizes, DivBounds
    <2> QED BY <1>1, <2>1, SimulationIs DEF GroupIds
  <1>9. id > top => id \notin DOMAIN gs
    <2> HIDE DEF id, top
    <2> QED BY <1>1, <1>2, <1>8
  <1> HIDE DEF old, id, top, gs
  <1>10. w.last = Farthest(top, id)
    BY <1>1, <1>2, <1>6, <1>9 DEF Farthest
  <1>11. id + History >= Farthest(top, id)
    BY <1>2, <1>4 DEF Farthest
  <1>12. ASSUME NEW g \in DOMAIN w.groups
         PROVE  /\ Lowest(lo, id) <= g /\ g <= w.last
                /\ ~w.groups[g].evaluated => g + History >= w.last
                /\ w.groups[g].evaluated => g \in rep
    <2>1. CASE g = id
      <3>1. w.groups[id].evaluated => id \in rep
        BY <1>1, <1>6
      <3> QED BY <1>2, <1>10, <1>11, <2>1, <3>1 DEF Lowest, Farthest
    <2>2. CASE g # id
      <3>1. g \in (DOMAIN gs \ old) \ {id} /\ g \in Nat
        BY <1>6, <1>8, <1>12, <2>2
      <3>2. w.groups[g].evaluated = gs[g].evaluated /\ lo <= g /\ g <= top
            /\ (~gs[g].evaluated => g + History >= top) /\ (gs[g].evaluated => g \in rep)
        BY <1>1, <1>6, <3>1
      <3>3. ~gs[g].evaluated => g + History >= Farthest(top, id)
        <4> SUFFICES ASSUME ~gs[g].evaluated, id > top PROVE g + History >= id
          BY <1>2, <3>2 DEF Farthest
        <4>1. g \in Unevaluated(vf)
          BY <3>1 DEF Unevaluated, gs
        <4> QED BY <1>2, <1>7, <1>9, <3>1, <4>1
      <3> QED BY <1>2, <1>10, <3>1, <3>2, <3>3 DEF Lowest, Farthest
    <2> QED BY <2>1, <2>2
  <1>13. Fresh(sim, w, rep, Lowest(lo, id), Farthest(m, seq))
    <2>1. w.last = Farthest(m, seq) \div sim[2]
      BY <1>5, <1>10
    <2> QED BY <1>6, <1>12, <2>1 DEF Fresh
  <1>14. id + History >= Farthest(m, seq) \div sim[2]
    BY <1>5, <1>11
  <1> QED BY <1>2, <1>3, <1>5, <1>9, <1>13, <1>14 DEF id, gs, top
-----------------------------------------------------------------------------
(* The indices, in groups of n, of the numbers in A that fall into group g.  *)
Came(A, n, g) == {s % n : s \in {t \in A : t \div n = g}}

LEMMA CameType ==
  ASSUME NEW A \in SUBSET Nat, NEW n \in Nat, 0 < n, NEW g
  PROVE  Came(A, n, g) \in SUBSET (0..(n - 1))
  <1>1. \A s \in Nat : s % n \in 0..(n - 1)
    BY DivBounds
  <1> QED BY <1>1 DEF Came

(* What has been counted: the groups in judged, by the indices got.          *)
DeliveredOf(k, got, judged) == [g \in judged |-> Worth(k, got[g]).delivered]
SavedOf(k, got, judged) == [g \in judged |-> Worth(k, got[g]).recovered]
GoneOf(k, got, judged) == [g \in judged |-> Worth(k, got[g]).lost]

Counted(k, vf, got, judged) ==
  /\ vf.delivered = Sum(DeliveredOf(k, got, judged), judged)
  /\ vf.recovered = Sum(SavedOf(k, got, judged), judged)
  /\ vf.lost = Sum(GoneOf(k, got, judged), judged)

(* A sum over two sets without a common element, of functions on each.       *)
LEMMA SumJoin ==
  ASSUME NEW S, IsFiniteSet(S), NEW T, IsFiniteSet(T), S \cap T = {},
         NEW f, NEW a, NEW b,
         \A x \in S : a[x] \in Int /\ f[x] = a[x],
         \A x \in T : b[x] \in Int /\ f[x] = b[x]
  PROVE  Sum(f, S \cup T) = Sum(a, S) + Sum(b, T)
  <1>1. \A x \in S \cup T : f[x] \in Int
    OBVIOUS
  <1>2. Sum(f, S \cup T) = Sum(f, S) + Sum(f, T)
    BY <1>1, SumUnion
  <1>3. Sum(f, S) = Sum(a, S)
    <2>1. \A x \in S : f[x] \in Int /\ f[x] = a[x]
      OBVIOUS
    <2> QED BY <2>1, SumSame
  <1>4. Sum(f, T) = Sum(b, T)
    <2>1. \A x \in T : f[x] \in Int /\ f[x] = b[x]
      OBVIOUS
    <2> QED BY <2>1, SumSame
  <1> QED BY <1>2, <1>3, <1>4

(* The groups in dead are judged, too, by what has come.                     *)
Adds(k, vf, w, dead) ==
  /\ w.delivered = vf.delivered + Sum(Delivered(k, vf, dead), dead)
  /\ w.recovered = vf.recovered + Sum(Saved(k, vf, dead), dead)
  /\ w.lost = vf.lost + Sum(Gone(k, vf, dead), dead)

Grows(n, vf, got, all, judged, dead) ==
  /\ judged \cap dead = {}
  /\ \A g \in judged : got[g] \in SUBSET (0..(n - 1)) /\ all[g] = got[g]
  /\ \A g \in dead : all[g] = vf.groups[g].received

LEMMA CountedMore ==
  ASSUME NEW sim \in Sims, NEW vf \in Simulation(sim), NEW w,
         NEW judged, IsFiniteSet(judged), NEW dead \in SUBSET DOMAIN vf.groups,
         NEW got, NEW all, Grows(sim[2], vf, got, all, judged, dead),
         Counted(sim[1], vf, got, judged), Adds(sim[1], vf, w, dead)
  PROVE  Counted(sim[1], w, all, judged \cup dead)
  <1> DEFINE k == sim[1]
             both == judged \cup dead
  <1>1. IsFiniteSet(dead) /\ \A g \in dead : vf.groups[g].received \in SUBSET (0..(sim[2] - 1))
    BY SimulationIs, FS_Subset
  <1>2. k \in Nat /\ sim[2] \in Nat
    BY SimSizes
  <1>3. \A g \in judged : /\ DeliveredOf(k, got, judged)[g] \in Int
                          /\ SavedOf(k, got, judged)[g] \in Int
                          /\ GoneOf(k, got, judged)[g] \in Int
    <2> SUFFICES ASSUME NEW g \in judged
                 PROVE  /\ Worth(k, got[g]).delivered \in Int
                        /\ Worth(k, got[g]).recovered \in Int
                        /\ Worth(k, got[g]).lost \in Int
      BY DEF DeliveredOf, SavedOf, GoneOf
    <2>1. got[g] \in SUBSET (0..(sim[2] - 1))
      BY DEF Grows
    <2> HIDE DEF k
    <2>2. /\ Worth(k, got[g]).delivered \in Nat /\ Worth(k, got[g]).recovered \in Nat
          /\ Worth(k, got[g]).lost \in Nat
      BY <1>2, <2>1, WorthType
    <2> QED BY <2>2
  <1>4. \A g \in dead : /\ Delivered(k, vf, dead)[g] \in Int
                        /\ Saved(k, vf, dead)[g] \in Int
                        /\ Gone(k, vf, dead)[g] \in Int
    <2> SUFFICES ASSUME NEW g \in dead
                 PROVE  /\ Worth(k, vf.groups[g].received).delivered \in Int
                        /\ Worth(k, vf.groups[g].received).recovered \in Int
                        /\ Worth(k, vf.groups[g].received).lost \in Int
      BY DEF Delivered, Saved, Gone
    <2>1. vf.groups[g].received \in SUBSET (0..(sim[2] - 1))
      BY <1>1
    <2> HIDE DEF k
    <2>2. /\ Worth(k, vf.groups[g].received).delivered \in Nat
          /\ Worth(k, vf.groups[g].received).recovered \in Nat
          /\ Worth(k, vf.groups[g].received).lost \in Nat
      BY <1>2, <2>1, WorthType
    <2> QED BY <2>2
  <1>5. \A g \in judged : /\ DeliveredOf(k, all, both)[g] = DeliveredOf(k, got, judged)[g]
                          /\ SavedOf(k, all, both)[g] = SavedOf(k, got, judged)[g]
                          /\ GoneOf(k, all, both)[g] = GoneOf(k, got, judged)[g]
    BY DEF DeliveredOf, SavedOf, GoneOf, Grows
  <1>6. \A g \in dead : /\ DeliveredOf(k, all, both)[g] = Delivered(k, vf, dead)[g]
                        /\ SavedOf(k, all, both)[g] = Saved(k, vf, dead)[g]
                        /\ GoneOf(k, all, both)[g] = Gone(k, vf, dead)[g]
    BY DEF DeliveredOf, SavedOf, GoneOf, Delivered, Saved, Gone, Grows
  <1>7. Sum(DeliveredOf(k, all, both), both) =
          Sum(DeliveredOf(k, got, judged), judged) + Sum(Delivered(k, vf, dead), dead)
    <2> DEFINE f == DeliveredOf(k, all, both)
               a == DeliveredOf(k, got, judged)
               b == Delivered(k, vf, dead)
    <2>1. /\ \A x \in judged : a[x] \in Int /\ f[x] = a[x]
          /\ \A x \in dead : b[x] \in Int /\ f[x] = b[x]
      BY <1>3, <1>4, <1>5, <1>6
    <2> HIDE DEF f, a, b
    <2>2. Sum(f, judged \cup dead) = Sum(a, judged) + Sum(b, dead)
      BY <1>1, <2>1, SumJoin DEF Grows
    <2> QED BY <2>2 DEF f, a, b
  <1>8. Sum(SavedOf(k, all, both), both) =
          Sum(SavedOf(k, got, judged), judged) + Sum(Saved(k, vf, dead), dead)
    <2> DEFINE f == SavedOf(k, all, both)
               a == SavedOf(k, got, judged)
               b == Saved(k, vf, dead)
    <2>1. /\ \A x \in judged : a[x] \in Int /\ f[x] = a[x]
          /\ \A x \in dead : b[x] \in Int /\ f[x] = b[x]
      BY <1>3, <1>4, <1>5, <1>6
    <2> HIDE DEF f, a, b
    <2>2. Sum(f, judged \cup dead) = Sum(a, judged) + Sum(b, dead)
      BY <1>1, <2>1, SumJoin DEF Grows
    <2> QED BY <2>2 DEF f, a, b
  <1>9. Sum(GoneOf(k, all, both), both) =
          Sum(GoneOf(k, got, judged), judged) + Sum(Gone(k, vf, dead), dead)
    <2> DEFINE f == GoneOf(k, all, both)
               a == GoneOf(k, got, judged)
               b == Gone(k, vf, dead)
    <2>1. /\ \A x \in judged : a[x] \in Int /\ f[x] = a[x]
          /\ \A x \in dead : b[x] \in Int /\ f[x] = b[x]
      BY <1>3, <1>4, <1>5, <1>6
    <2> HIDE DEF f, a, b
    <2>2. Sum(f, judged \cup dead) = Sum(a, judged) + Sum(b, dead)
      BY <1>1, <2>1, SumJoin DEF Grows
    <2> QED BY <2>2 DEF f, a, b
  <1> QED BY <1>7, <1>8, <1>9 DEF Counted, Adds
-----------------------------------------------------------------------------
(* What the frames that came make of a simulation of size n: A has come, R   *)
(* before the report, which has judged the groups in rep; the lowest group   *)
(* of A is lo, that of the first frame fg; p is the number recorded last, m  *)
(* the newest.                                                               *)
Span(n, A, R, rep, lo, fg, p, m) ==
  /\ A \in SUBSET Nat /\ R \in SUBSET A
  /\ lo \in Nat /\ fg \in Nat /\ m \in Nat /\ p \in Nat
  /\ p <= m /\ lo <= fg /\ fg <= m \div n
  /\ \A t \in A : lo <= t \div n /\ t \div n <= m \div n
  /\ rep \in SUBSET (fg..(m \div n))

JudgedIn(rep, lo, top) == (lo..(top - History - 1)) \cup rep

Got(n, A, R, rep, judged) == [g \in judged |-> IF g \in rep THEN Came(R, n, g) ELSE Came(A, n, g)]

Filled(n, vf, A, rep) ==
  \A g \in DOMAIN vf.groups :
    /\ vf.groups[g].received = Came(A, n, g)
    /\ vf.groups[g].evaluated = (g \in rep)

(* Groups that ought to be open are.                                         *)
Open(n, vf, A, lo, fg, p, m) ==
  \A g \in lo..(m \div n) :
    /\ g <= p \div n \/ g >= fg \/ Came(A, n, g) # {}
    /\ g + History >= m \div n
    => g \in DOMAIN vf.groups

Exact(sim, vf, A, R, rep, lo, fg, p, m) ==
  LET n == sim[2]
      judged == JudgedIn(rep, lo, m \div n)
  IN /\ Span(n, A, R, rep, lo, fg, p, m)
     /\ Fresh(sim, vf, rep, lo, m)
     /\ Filled(n, vf, A, rep)
     /\ Open(n, vf, A, lo, fg, p, m)
     /\ Counted(sim[1], vf, Got(n, A, R, rep, judged), judged)

(* Of n, either nothing or seq joins A.                                      *)
Joins(n, A, seq, add, B) ==
  \/ B = A /\ add = {}
  \/ B = A \cup {seq} /\ add = {seq % n}

LEMMA CameMore ==
  ASSUME NEW n, NEW A, NEW seq, NEW add, NEW B, Joins(n, A, seq, add, B)
  PROVE  /\ \A g : g # seq \div n => Came(B, n, g) = Came(A, n, g)
         /\ Came(B, n, seq \div n) = Came(A, n, seq \div n) \cup add
  <1>1. CASE B = A /\ add = {}
    BY <1>1
  <1>2. CASE B = A \cup {seq} /\ add = {seq % n}
    <2>1. ASSUME NEW g, g # seq \div n PROVE Came(B, n, g) = Came(A, n, g)
      <3>1. {t \in B : t \div n = g} = {t \in A : t \div n = g}
        BY <1>2, <2>1
      <3> QED BY <3>1 DEF Came
    <2>2. Came(B, n, seq \div n) = Came(A, n, seq \div n) \cup {seq % n}
      <3>1. {t \in B : t \div n = seq \div n} = {t \in A : t \div n = seq \div n} \cup {seq}
        BY <1>2
      <3> QED BY <3>1 DEF Came
    <2> QED BY <1>2, <2>1, <2>2
  <1> QED BY <1>1, <1>2 DEF Joins

(* A number recorded, lost or come: whatever order numbers come in, as long  *)
(* as it is not beyond the next one and not older than the history.          *)
LEMMA ExactRecorded ==
  ASSUME NEW sim \in Sims, NEW vf, NEW A, NEW R, NEW rep, NEW lo, NEW fg, NEW p, NEW m,
         Exact(sim, vf, A, R, rep, lo, fg, p, m),
         NEW seq \in 0..(SeqSpace - 1), m - seq < History * sim[2], seq <= p + 1,
         NEW add, NEW B, Joins(sim[2], A, seq, add, B),
         NEW w, RecordedAs(sim, vf, seq, add, w)
  PROVE  Exact(sim, w, B, R, rep, Lowest(lo, seq \div sim[2]), fg, seq, Farthest(m, seq))
  <1> DEFINE n == sim[2]
             k == sim[1]
             id == seq \div n
             top == m \div n
             newTop == Farthest(m, seq) \div n
             newLo == Lowest(lo, id)
             old == Dead(sim, vf, seq)
             gs == vf.groups
  <1>1. /\ A \in SUBSET Nat /\ R \in SUBSET A
        /\ lo \in Nat /\ fg \in Nat /\ m \in Nat /\ p \in Nat
        /\ p <= m /\ lo <= fg /\ fg <= top
        /\ \A t \in A : lo <= t \div n /\ t \div n <= top
        /\ rep \in SUBSET (fg..top)
    BY DEF Exact, Span
  <1>2. /\ Fresh(sim, vf, rep, lo, m) /\ vf \in Simulation(sim) /\ vf.last = top
        /\ \A g \in DOMAIN gs :
             /\ lo <= g /\ g <= top
             /\ gs[g].received = Came(A, n, g) /\ gs[g].evaluated = (g \in rep)
             /\ g \notin rep => g + History >= top
        /\ \A g \in lo..top :
             (g <= p \div n \/ g >= fg \/ Came(A, n, g) # {}) /\ g + History >= top
             => g \in DOMAIN gs
    BY DEF Exact, Fresh, Filled, Open
  <1>3. k \in Nat /\ n \in Nat /\ 0 < n /\ History \in Nat /\ seq \in Nat
    BY SimSizes
  <1>4. /\ Fresh(sim, w, rep, newLo, Farthest(m, seq))
        /\ newLo \in Nat /\ Farthest(m, seq) \in Nat
        /\ id + History >= newTop /\ id \in Nat /\ newTop = Farthest(top, id)
        /\ id > top => id \notin DOMAIN gs
    BY <1>1, <1>2, FreshRecorded
  <1>5. top \in Nat /\ p \div n \in Nat /\ p \div n <= top /\ DOMAIN gs \subseteq Nat
        /\ id <= p \div n + 1
    <2>1. top \in Nat /\ p \div n \in Nat
      BY <1>1, <1>3, DivBounds
    <2>2. p \div n <= top
      BY <1>1, <1>3, DivMono
    <2>3. DOMAIN gs \subseteq Nat
      BY <1>2, SimulationIs DEF GroupIds
    <2>4. id <= (p + 1) \div n /\ (p + 1) \div n \in {p \div n, p \div n + 1}
      <3>1. p + 1 \in Nat
        BY <1>1
      <3>2. id <= (p + 1) \div n
        BY <1>1, <1>3, <3>1, DivMono
      <3> QED BY <1>1, <1>3, <3>2, DivNext
    <2>5. id <= p \div n + 1
      BY <1>4, <2>1, <2>4
    <2> QED BY <2>1, <2>2, <2>3, <2>5
  <1>6. /\ old \subseteq DOMAIN gs /\ id \notin old
        /\ DOMAIN w.groups = (DOMAIN gs \cup {id}) \ old
        /\ \A g \in (DOMAIN gs \ old) \ {id} :
             /\ w.groups[g].received = gs[g].received
             /\ w.groups[g].evaluated = gs[g].evaluated
        /\ w.groups[id].received = (IF id \in DOMAIN gs THEN gs[id].received ELSE {}) \cup add
        /\ w.groups[id].evaluated = (IF id \in DOMAIN gs THEN gs[id].evaluated ELSE FALSE)
        /\ w.delivered = vf.delivered + Sum(Delivered(k, vf, old), old)
        /\ w.recovered = vf.recovered + Sum(Saved(k, vf, old), old)
        /\ w.lost = vf.lost + Sum(Gone(k, vf, old), old)
    BY DEF RecordedAs
  <1>7. /\ \A g : g # id => Came(B, n, g) = Came(A, n, g)
        /\ Came(B, n, id) = Came(A, n, id) \cup add
    BY CameMore
  <1>8. old = {g \in DOMAIN gs : g \notin rep /\ id > top /\ g + History < id}
    BY <1>2, <1>4 DEF Dead, Unevaluated
  <1>9. B \in SUBSET Nat /\ R \in SUBSET B /\ \A t \in B : t \in A \/ t = seq
    BY <1>1, <1>3 DEF Joins
  <1>g. \A g \in rep : g \in Nat /\ fg <= g /\ g <= top
    BY <1>1, <1>5
  <1>c. \A g : Came(A, n, g) # {} => lo <= g /\ g <= top
    BY <1>1 DEF Came
  <1> HIDE DEF n, k, id, top, newTop, newLo, old, gs
  <1>10. id \notin DOMAIN gs => Came(A, n, id) = {} /\ id \notin rep
    <2> SUFFICES ASSUME id \notin DOMAIN gs, Came(A, n, id) # {} \/ id \in rep
                 PROVE  FALSE
      OBVIOUS
    <2>1. lo <= id /\ id <= top /\ (id >= fg \/ Came(A, n, id) # {})
      BY <1>1, <1>4, <1>5, <1>g, <1>c
    <2>2. id + History >= top
      BY <1>3, <1>4, <1>5 DEF Farthest
    <2> QED BY <1>1, <1>2, <1>4, <1>5, <2>1, <2>2
  <1>11. Span(n, B, R, rep, newLo, fg, seq, Farthest(m, seq))
    <2>1. seq <= Farthest(m, seq)
      BY <1>1, <1>3 DEF Farthest
    <2>2. newLo <= fg /\ fg <= newTop
      BY <1>1, <1>4, <1>5 DEF Farthest, newLo, Lowest
    <2>3. \A t \in B : newLo <= t \div n /\ t \div n <= newTop
      <3> SUFFICES ASSUME NEW t \in B PROVE newLo <= t \div n /\ t \div n <= newTop
        OBVIOUS
      <3>1. CASE t = seq
        <4>1. t \div n = id
          BY <3>1 DEF id
        <4> QED BY <1>1, <1>4, <1>5, <4>1 DEF Farthest, newLo, Lowest
      <3>2. CASE t \in A
        <4>1. lo <= t \div n /\ t \div n <= top /\ t \div n \in Nat
          BY <1>1, <1>3, <3>2, DivBounds
        <4> QED BY <1>1, <1>4, <1>5, <4>1 DEF Farthest, newLo, Lowest
      <3> QED BY <1>9, <3>1, <3>2
    <2>4. rep \in SUBSET (fg..newTop)
      BY <1>1, <1>4, <1>5, <1>g DEF Farthest
    <2>5. newTop = Farthest(m, seq) \div n
      BY DEF newTop
    <2> QED BY <1>1, <1>3, <1>4, <1>9, <2>1, <2>2, <2>3, <2>4, <2>5 DEF Span
  <1>12. Filled(n, w, B, rep)
    <2> SUFFICES ASSUME NEW g \in DOMAIN w.groups
                 PROVE  /\ w.groups[g].received = Came(B, n, g)
                        /\ w.groups[g].evaluated = (g \in rep)
      BY DEF Filled
    <2>1. CASE g = id
      <3>1. CASE id \in DOMAIN gs
        BY <1>2, <1>6, <1>7, <2>1, <3>1
      <3>2. CASE id \notin DOMAIN gs
        <4>1. w.groups[id].received = {} \cup add /\ Came(B, n, id) = {} \cup add
          BY <1>6, <1>7, <1>10, <3>2
        <4>2. ~w.groups[id].evaluated /\ w.groups[id].evaluated \in BOOLEAN /\ id \notin rep
          BY <1>6, <1>10, <3>2
        <4> QED BY <2>1, <4>1, <4>2
      <3> QED BY <3>1, <3>2
    <2>2. CASE g # id
      <3>1. g \in (DOMAIN gs \ old) \ {id} /\ g \in DOMAIN gs
        BY <1>6, <2>2
      <3> QED BY <1>2, <1>6, <1>7, <2>2, <3>1
    <2> QED BY <2>1, <2>2
  <1>13. Open(n, w, B, newLo, fg, seq, Farthest(m, seq))
    <2> SUFFICES ASSUME NEW g \in newLo..newTop, g + History >= newTop,
                        g <= id \/ g >= fg \/ Came(B, n, g) # {}
                 PROVE  g \in DOMAIN w.groups
      BY DEF Open, newTop, id
    <2>1. CASE g = id
      BY <1>6, <2>1
    <2>2. CASE g # id
      <3>1. lo <= g /\ g <= top
        BY <1>1, <1>3, <1>4, <1>5, <1>7, <1>c, <2>2 DEF Farthest, newLo, Lowest
      <3>2. g <= p \div n \/ g >= fg \/ Came(A, n, g) # {}
        BY <1>4, <1>5, <1>7, <2>2
      <3>3. g + History >= top
        BY <1>3, <1>4, <1>5 DEF Farthest
      <3>4. g \in DOMAIN gs
        BY <1>1, <1>2, <1>5, <3>1, <3>2, <3>3
      <3>5. g \notin old
        BY <1>3, <1>4, <1>5, <1>8 DEF Farthest
      <3> QED BY <1>6, <3>4, <3>5
    <2> QED BY <2>1, <2>2
  <1> DEFINE judged == JudgedIn(rep, lo, top)
             newJudged == JudgedIn(rep, newLo, newTop)
             got == Got(n, A, R, rep, judged)
             newGot == Got(n, B, R, rep, newJudged)
  <1>14. newJudged = judged \cup old
    <2>1. CASE id <= top
      <3>1. old = {} /\ newTop = top
        BY <1>4, <1>5, <1>8, <2>1 DEF Farthest
      <3>2. newLo..(top - History - 1) = lo..(top - History - 1)
        <4>1. CASE id < lo
          <5>1. top - History - 1 < newLo /\ top - History - 1 < lo
                /\ top - History - 1 \in Int
            BY <1>1, <1>3, <1>4, <1>5, <3>1, <4>1 DEF newLo, Lowest
          <5>2. newLo..(top - History - 1) = {} /\ lo..(top - History - 1) = {}
            <6> DEFINE y == top - History - 1
            <6>1. y \in Int /\ y < newLo /\ y < lo /\ newLo \in Nat /\ lo \in Nat
              BY <1>1, <1>4, <5>1
            <6> HIDE DEF y, newLo
            <6>2. newLo..y = {} /\ lo..y = {}
              BY <6>1
            <6> QED BY <6>2 DEF y
          <5> QED BY <5>2
        <4>2. CASE ~(id < lo)
          <5>1. newLo = lo
            BY <1>1, <1>4, <4>2 DEF newLo, Lowest
          <5> QED BY <5>1
        <4> QED BY <4>1, <4>2
      <3> QED BY <3>1, <3>2 DEF JudgedIn
    <2>2. CASE id > top
      <3>1. newTop = id /\ id = top + 1 /\ p \div n = top /\ newLo = lo
        BY <1>1, <1>4, <1>5, <2>2 DEF Farthest, newLo, Lowest
      <3>2. ASSUME NEW g \in newJudged PROVE g \in judged \cup old
        <4> SUFFICES ASSUME g \notin rep, g \notin lo..(top - History - 1)
                     PROVE  g \in old
          BY DEF JudgedIn
        <4>1. g \in lo..(top - History)
          <5>1. g \in newLo..(newTop - History - 1)
            BY <3>2 DEF JudgedIn
          <5> HIDE DEF newJudged, judged
          <5> QED BY <1>1, <1>3, <1>5, <3>1, <5>1
        <4>2. g + History = top /\ lo <= g /\ g \in Nat
          BY <1>1, <1>3, <1>5, <4>1
        <4>3. g \in DOMAIN gs
          BY <1>1, <1>2, <1>3, <1>5, <3>1, <4>2
        <4> QED BY <1>5, <1>8, <3>1, <4>2, <4>3
      <3>3. ASSUME NEW g \in judged \cup old PROVE g \in newJudged
        <4>1. CASE g \in rep
          BY <4>1 DEF JudgedIn
        <4>2. CASE g \in lo..(top - History - 1)
          BY <1>1, <1>3, <1>5, <3>1, <4>2 DEF JudgedIn
        <4>3. CASE g \in old
          <5>1. g \in DOMAIN gs /\ g \notin rep /\ g + History < id /\ g \in Nat /\ lo <= g
            BY <1>2, <1>5, <1>8, <4>3
          <5>2. g \in newLo..(newTop - History - 1)
            BY <1>1, <1>3, <1>5, <3>1, <5>1
          <5> QED BY <5>2 DEF JudgedIn
        <4> QED BY <3>3, <4>1, <4>2, <4>3 DEF JudgedIn
      <3> QED BY <3>2, <3>3
    <2> QED BY <1>4, <1>5, <2>1, <2>2
  <1>15. judged \cap old = {}
    <2> SUFFICES ASSUME NEW g \in judged, g \in old PROVE FALSE
      OBVIOUS
    <2>1. g \in DOMAIN gs /\ g \notin rep /\ g \in Nat
      BY <1>5, <1>8
    <2>2. g + History >= top /\ g \in lo..(top - History - 1)
      BY <1>2, <2>1 DEF JudgedIn
    <2> HIDE DEF judged
    <2>3. g \in Nat /\ top \in Nat /\ History \in Nat /\ g <= top - History - 1
      BY <1>1, <1>3, <1>5, <2>1, <2>2
    <2> QED BY <2>2, <2>3
  <1>16. IsFiniteSet(judged)
    <2>1. judged \in SUBSET (0..top)
      BY <1>1, <1>3, <1>5, <1>g DEF JudgedIn
    <2>2. IsFiniteSet(0..top)
      BY <1>5, FS_Interval
    <2> HIDE DEF judged
    <2> QED BY <2>1, <2>2, FS_Subset
  <1>17. \A g \in judged : got[g] \in SUBSET (0..(sim[2] - 1)) /\ newGot[g] = got[g]
    <2> SUFFICES ASSUME NEW g \in judged
                 PROVE  got[g] \in SUBSET (0..(sim[2] - 1)) /\ newGot[g] = got[g]
      OBVIOUS
    <2>1. Came(A, n, g) \in SUBSET (0..(n - 1)) /\ Came(R, n, g) \in SUBSET (0..(n - 1))
      BY <1>1, <1>3, CameType
    <2>2. g \notin rep => g # id
      <3> SUFFICES ASSUME g \notin rep, g = id PROVE FALSE
        OBVIOUS
      <3>1. g \in lo..(top - History - 1)
        BY DEF JudgedIn
      <3>2. id + History >= top
        BY <1>3, <1>4, <1>5 DEF Farthest
      <3> QED BY <1>1, <1>3, <1>4, <1>5, <3>1, <3>2
    <2>3. g \in newJudged
      BY <1>14
    <2> HIDE DEF judged, newJudged
    <2> QED BY <1>7, <2>1, <2>2, <2>3 DEF Got, n
  <1>18. \A g \in old : newGot[g] = gs[g].received
    <2> SUFFICES ASSUME NEW g \in old PROVE newGot[g] = gs[g].received
      OBVIOUS
    <2>1. g \in newJudged /\ g \notin rep /\ g \in DOMAIN gs /\ g # id
      BY <1>6, <1>8, <1>14
    <2> HIDE DEF judged, newJudged
    <2> QED BY <1>2, <1>7, <2>1 DEF Got
  <1>19. Counted(k, vf, got, judged)
    BY DEF Exact, k, n, top
  <1>20. Counted(k, w, newGot, newJudged)
    <2> HIDE DEF judged, newJudged, got, newGot
    <2>1. old \in SUBSET DOMAIN vf.groups /\ \A g \in old : newGot[g] = vf.groups[g].received
      BY <1>6, <1>18 DEF gs
    <2>2. Counted(sim[1], w, newGot, judged \cup old)
      <3>1. Adds(sim[1], vf, w, old) /\ Counted(sim[1], vf, got, judged)
        BY <1>6, <1>19 DEF k, Adds
      <3>2. Grows(sim[2], vf, got, newGot, judged, old)
        BY <1>15, <1>17, <2>1 DEF Grows
      <3> QED BY <1>2, <1>16, <2>1, <3>1, <3>2, CountedMore
    <2> QED BY <1>14, <2>2 DEF k
  <1> QED BY <1>4, <1>11, <1>12, <1>13, <1>20 DEF Exact, n, k, newLo, newTop, id
-----------------------------------------------------------------------------
(* The numbers of a gap, in turn, each a lost packet.                        *)
LEMMA RunExact ==
  ASSUME NEW sim \in Sims, NEW vf, NEW A, NEW R, NEW rep, NEW lo \in Nat, NEW fg,
         NEW p \in Nat, NEW m \in Nat,
         Fresh(sim, vf, rep, lo, m), lo <= p \div sim[2], p <= m,
         m - p < History * sim[2],
         NEW len \in Nat, p + len < SeqSpace,
         NEW gap, \A j \in 1..len : gap[j] = p + j,
         NEW st, IsRun(st, sim, vf, gap, len)
  PROVE  \A j \in 0..len :
           /\ Fresh(sim, st[j], rep, lo, Farthest(m, p + j))
           /\ Exact(sim, vf, A, R, rep, lo, fg, p, m) =>
                Exact(sim, st[j], A, R, rep, lo, fg, p + j, Farthest(m, p + j))
  <1> DEFINE P(j) == /\ Fresh(sim, st[j], rep, lo, Farthest(m, p + j))
                     /\ Exact(sim, vf, A, R, rep, lo, fg, p, m) =>
                          Exact(sim, st[j], A, R, rep, lo, fg, p + j, Farthest(m, p + j))
             Bad == {j \in Nat : j <= len /\ ~P(j)}
  <1>1. /\ st[0] = vf
        /\ \A j \in 1..len : /\ st[j - 1] \in Simulation(sim)
                             /\ st[j] = Recorded(sim, st[j - 1], gap[j], TRUE)
    <2>1. \A j \in 1..len : j - 1 \in 0..len
      OBVIOUS
    <2> QED BY <2>1 DEF IsRun
  <1>2. P(0)
    <2>1. p + 0 = p /\ Farthest(m, p) = m
      BY DEF Farthest
    <2> QED BY <1>1, <2>1
  <1>3. ASSUME NEW j \in 1..len, P(j - 1)
        PROVE  P(j)
    <2> DEFINE q == p + j
               o == p + (j - 1)
               far == Farthest(m, o)
    <2>1. q \in 0..(SeqSpace - 1) /\ q \in Nat /\ o \in Nat /\ q = o + 1 /\ p <= q /\ gap[j] = q
          /\ j - 1 \in Nat
      BY SimSizes
    <2>2. far \in Nat /\ far - q < History * sim[2] /\ Farthest(far, q) = Farthest(m, q)
      <3>1. sim[2] \in Nat /\ 0 < sim[2] /\ History \in Nat /\ 0 < History * sim[2]
            /\ History * sim[2] \in Nat
        <4>1. sim[2] \in Nat /\ 0 < sim[2] /\ History \in Nat
          BY SimSizes
        <4> DEFINE h == History * sim[2]
        <4>2. h \in Nat /\ m - p < h
          BY <4>1
        <4> HIDE DEF h
        <4>3. 0 < h
          BY <4>2
        <4> QED BY <4>1, <4>2, <4>3 DEF h
      <3> DEFINE h == History * sim[2]
      <3>2. h \in Nat /\ 0 < h /\ m - p < h
        BY <3>1
      <3> HIDE DEF h, q, o
      <3> QED BY <2>1, <3>2 DEF Farthest, h
    <2>3. st[j - 1] \in Simulation(sim) /\ st[j] = Recorded(sim, st[j - 1], q, TRUE)
      BY <1>1, <2>1
    <2>4. RecordedAs(sim, st[j - 1], q, {}, st[j])
      BY <2>1, <2>3, RecordedIs
    <2>5. Lowest(lo, q \div sim[2]) = lo
      <3>1. sim[2] \in Nat /\ 0 < sim[2]
        BY SimSizes
      <3>2. p \div sim[2] <= q \div sim[2] /\ p \div sim[2] \in Nat /\ q \div sim[2] \in Nat
        BY <2>1, <3>1, DivMono, DivBounds
      <3> DEFINE x == p \div sim[2]
                 y == q \div sim[2]
      <3>3. x <= y /\ x \in Nat /\ y \in Nat /\ lo <= x
        BY <3>2
      <3> HIDE DEF x, y
      <3>4. Lowest(lo, y) = lo
        BY <3>3 DEF Lowest
      <3> QED BY <3>4 DEF y
    <2> HIDE DEF q, o, far
    <2>6. Fresh(sim, st[j - 1], rep, lo, far)
      BY <1>3 DEF far, o
    <2>7. Fresh(sim, st[j], rep, lo, Farthest(m, q))
      <3>1. Fresh(sim, st[j], rep, Lowest(lo, q \div sim[2]), Farthest(far, q))
        BY <2>1, <2>2, <2>4, <2>6, FreshRecorded
      <3> QED BY <2>2, <2>5, <3>1
    <2>8. ASSUME Exact(sim, vf, A, R, rep, lo, fg, p, m)
          PROVE  Exact(sim, st[j], A, R, rep, lo, fg, q, Farthest(m, q))
      <3>1. Exact(sim, st[j - 1], A, R, rep, lo, fg, o, far)
        BY <1>3, <2>8 DEF far, o
      <3>2. Joins(sim[2], A, q, {}, A) /\ q <= o + 1
        BY <2>1 DEF Joins
      <3>3. Exact(sim, st[j], A, R, rep, Lowest(lo, q \div sim[2]), fg, q, Farthest(far, q))
        BY <2>1, <2>2, <2>4, <3>1, <3>2, ExactRecorded
      <3> QED BY <2>2, <2>5, <3>3
    <2> QED BY <2>7, <2>8 DEF q
  <1> HIDE DEF P
  <1>4. Bad = {}
    <2> SUFFICES ASSUME Bad # {} PROVE FALSE
      OBVIOUS
    <2>1. PICK j \in Bad : \A i \in Bad : j <= i
      <3>1. Bad \in SUBSET Nat
        OBVIOUS
      <3> HIDE DEF Bad
      <3> QED BY <3>1, LeastNat
    <2>2. j \in Nat /\ j <= len /\ ~P(j)
      BY <2>1
    <2>3. j # 0
      BY <1>2, <2>2
    <2>4. P(j - 1)
      <3>1. j - 1 \in Nat /\ j - 1 <= len /\ ~(j <= j - 1)
        BY <2>2, <2>3
      <3> QED BY <2>1, <3>1
    <2> QED BY <1>3, <2>2, <2>3, <2>4
  <1>5. \A j \in 0..len : P(j)
    <2>1. \A j \in 0..len : j \in Nat /\ j <= len
      OBVIOUS
    <2> QED BY <1>4, <2>1
  <1> QED BY <1>5 DEF P

(* The whole of what FECAnalyzer.RecordPacket does to one simulation, with   *)
(* the number recorded last at p.                                            *)
GapFrom(p, q) == IF q > p + 1 THEN [i \in 1..(q - (p + 1)) |-> p + 1 + i - 1] ELSE <<>>

LEMMA NoGap ==
  ASSUME NEW sim \in Sims, NEW vf \in Simulation(sim)
  PROVE  Skipped(sim, vf, <<>>) = vf
  <1>1. <<>> \in [1..0 -> 0..(SeqSpace - 1)] /\ 0 \in Nat
    OBVIOUS
  <1>2. PICK st : IsRun(st, sim, vf, <<>>, 0) /\ Skipped(sim, vf, <<>>) = st[0]
    BY <1>1, SkippedIs
  <1> QED BY <1>2 DEF IsRun

LEMMA PacketExact ==
  ASSUME NEW sim \in Sims, NEW vf, NEW A, NEW R, NEW rep, NEW lo \in Nat, NEW fg,
         NEW p \in Nat, NEW m \in Nat,
         Fresh(sim, vf, rep, lo, m), lo <= p \div sim[2], p <= m,
         m - p < History * sim[2],
         NEW q \in 0..(SeqSpace - 1), m - q < History * sim[2]
  PROVE  LET w == Recorded(sim, Skipped(sim, vf, GapFrom(p, q)), q, FALSE)
             newLo == Lowest(lo, q \div sim[2])
         IN /\ Fresh(sim, w, rep, newLo, Farthest(m, q))
            /\ Exact(sim, vf, A, R, rep, lo, fg, p, m) =>
                 Exact(sim, w, A \cup {q}, R, rep, newLo, fg, q, Farthest(m, q))
  <1> DEFINE w == Recorded(sim, Skipped(sim, vf, GapFrom(p, q)), q, FALSE)
             newLo == Lowest(lo, q \div sim[2])
  <1>1. vf \in Simulation(sim) /\ q \in Nat /\ SeqSpace \in Nat
    BY SimSizes DEF Fresh
  <1>2. Joins(sim[2], A, q, {q % sim[2]}, A \cup {q})
    BY DEF Joins
  <1>3. CASE ~(q > p + 1)
    <2>1. Skipped(sim, vf, GapFrom(p, q)) = vf
      BY <1>1, <1>3, NoGap DEF GapFrom
    <2>2. RecordedAs(sim, vf, q, {q % sim[2]}, w)
      BY <1>1, <2>1, RecordedIs
    <2> HIDE DEF w
    <2>3. Fresh(sim, w, rep, newLo, Farthest(m, q))
      BY <2>2, FreshRecorded
    <2>4. q <= p + 1
      BY <1>1, <1>3
    <2>5. ASSUME Exact(sim, vf, A, R, rep, lo, fg, p, m)
          PROVE  Exact(sim, w, A \cup {q}, R, rep, newLo, fg, q, Farthest(m, q))
      BY <1>2, <2>2, <2>4, <2>5, ExactRecorded
    <2> QED BY <2>3, <2>5 DEF w
  <1>4. CASE q > p + 1
    <2> DEFINE len == q - (p + 1)
               gap == [i \in 1..len |-> p + 1 + i - 1]
               o == p + len
               far == Farthest(m, o)
    <2>1. len \in Nat /\ o \in Nat /\ q = o + 1 /\ p + len < SeqSpace
      BY <1>1, <1>4
    <2>2. \A j \in 1..len : gap[j] = p + j
      OBVIOUS
    <2>3. gap \in [1..len -> 0..(SeqSpace - 1)]
      <3> SUFFICES ASSUME NEW i \in 1..len PROVE p + 1 + i - 1 \in 0..(SeqSpace - 1)
        OBVIOUS
      <3> QED BY <1>1, <1>4
    <2>4. GapFrom(p, q) = gap
      BY <1>4 DEF GapFrom
    <2> HIDE DEF gap, len
    <2>5. PICK st : IsRun(st, sim, vf, gap, len) /\ Skipped(sim, vf, gap) = st[len]
      BY <1>1, <2>1, <2>3, SkippedIs
    <2> DEFINE u == st[len]
    <2>6. /\ Fresh(sim, u, rep, lo, far)
          /\ Exact(sim, vf, A, R, rep, lo, fg, p, m) =>
               Exact(sim, u, A, R, rep, lo, fg, o, far)
      <3>1. len \in 0..len
        BY <2>1
      <3>2. \A j \in 0..len :
              /\ Fresh(sim, st[j], rep, lo, Farthest(m, p + j))
              /\ Exact(sim, vf, A, R, rep, lo, fg, p, m) =>
                   Exact(sim, st[j], A, R, rep, lo, fg, p + j, Farthest(m, p + j))
        BY <2>1, <2>2, <2>5, RunExact
      <3> QED BY <3>1, <3>2
    <2>7. w = Recorded(sim, u, q, FALSE) /\ u \in Simulation(sim)
      BY <2>4, <2>5, <2>6 DEF Fresh
    <2> HIDE DEF u, w
    <2>8. RecordedAs(sim, u, q, {q % sim[2]}, w)
      BY <2>7, RecordedIs
    <2>9. far \in Nat /\ far - q < History * sim[2] /\ Farthest(far, q) = Farthest(m, q)
      <3> DEFINE h == History * sim[2]
      <3>1. h \in Nat /\ m - q < h
        BY SimSizes
      <3>2. 0 < h
        BY <3>1, SimSizes
      <3> HIDE DEF h, o
      <3> QED BY <1>1, <2>1, <3>1, <3>2 DEF Farthest, h
    <2> HIDE DEF far, o
    <2>10. Fresh(sim, w, rep, newLo, Farthest(m, q))
      <3>1. Fresh(sim, w, rep, newLo, Farthest(far, q))
        BY <2>6, <2>8, <2>9, FreshRecorded
      <3> QED BY <2>9, <3>1
    <2>11. ASSUME Exact(sim, vf, A, R, rep, lo, fg, p, m)
           PROVE  Exact(sim, w, A \cup {q}, R, rep, newLo, fg, q, Farthest(m, q))
      <3>1. Exact(sim, u, A, R, rep, lo, fg, o, far) /\ q <= o + 1
        BY <2>1, <2>6, <2>11
      <3>2. Exact(sim, w, A \cup {q}, R, rep, newLo, fg, q, Farthest(far, q))
        BY <1>2, <2>8, <2>9, <3>1, ExactRecorded
      <3> QED BY <2>9, <3>2
    <2> QED BY <2>10, <2>11 DEF w
  <1> QED BY <1>3, <1>4
-----------------------------------------------------------------------------
(* A simulation that has recorded nothing.                                   *)
Blank(sim, vf) ==
  /\ vf \in Simulation(sim) /\ DOMAIN vf.groups = {} /\ vf.last = 0
  /\ vf.delivered = 0 /\ vf.recovered = 0 /\ vf.lost = 0

(* The first frame.                                                          *)
LEMMA NewIs ==
  ASSUME NEW sim \in Sims
  PROVE  NewVirtualFEC \in Simulation(sim) /\ DOMAIN NewVirtualFEC.groups = {}
         /\ NewVirtualFEC.last = 0 /\ NewVirtualFEC.delivered = 0
         /\ NewVirtualFEC.recovered = 0 /\ NewVirtualFEC.lost = 0
  <1>1. <<>> \in Groups(sim[2])
    <2> DEFINE rec == [received : SUBSET (0..(sim[2] - 1)), evaluated : BOOLEAN]
    <2>1. <<>> \in [{} -> rec]
      <3> HIDE DEF rec
      <3> QED OBVIOUS
    <2>2. {} \in SUBSET GroupIds(sim[2])
      OBVIOUS
    <2> QED BY <2>1, <2>2 DEF Groups
  <1>2. NewVirtualFEC \in Simulation(sim)
    BY <1>1 DEF Simulation, NewVirtualFEC
  <1> QED BY <1>2 DEF NewVirtualFEC

LEMMA FirstExact ==
  ASSUME NEW sim \in Sims, NEW vf, Blank(sim, vf), NEW q \in 0..(SeqSpace - 1)
  PROVE  LET id == q \div sim[2]
             w == Recorded(sim, vf, q, FALSE)
         IN Exact(sim, w, {q}, {}, {}, id, id, q, q)
  <1> DEFINE n == sim[2]
             k == sim[1]
             id == q \div n
             w == Recorded(sim, vf, q, FALSE)
             judged == JudgedIn({}, id, id)
             got == Got(n, {q}, {}, {}, judged)
  <1>1. id \in Nat /\ q \in Nat /\ History \in Nat /\ n \in Nat /\ 0 < n
    BY IdOf, SimSizes
  <1>2. vf \in Simulation(sim) /\ DOMAIN vf.groups = {} /\ vf.last = 0 /\ vf.delivered = 0
        /\ vf.recovered = 0 /\ vf.lost = 0
    BY DEF Blank
  <1>3. Dead(sim, vf, q) = {}
    BY <1>2 DEF Dead, Unevaluated
  <1>4. RecordedAs(sim, vf, q, {q % n}, w)
    BY <1>2, RecordedIs
  <1> HIDE DEF w, id, n, k
  <1>5. Sum(Delivered(k, vf, {}), {}) = 0 /\ Sum(Saved(k, vf, {}), {}) = 0
        /\ Sum(Gone(k, vf, {}), {}) = 0
    BY FS_EmptySet, SumZero
  <1>6. /\ w \in Simulation(sim) /\ DOMAIN w.groups = {id}
        /\ w.last = id
        /\ w.groups[id].received = {q % n} /\ w.groups[id].evaluated = FALSE
        /\ w.delivered = 0 /\ w.recovered = 0 /\ w.lost = 0
    <2>1. /\ w \in Simulation(sim) /\ DOMAIN w.groups = ({} \cup {id}) \ {}
          /\ w.last = (IF id > 0 THEN id ELSE 0)
          /\ w.groups[id].received = {} \cup {q % n} /\ w.groups[id].evaluated = FALSE
          /\ w.delivered = 0 + Sum(Delivered(k, vf, {}), {})
          /\ w.recovered = 0 + Sum(Saved(k, vf, {}), {})
          /\ w.lost = 0 + Sum(Gone(k, vf, {}), {})
      BY <1>2, <1>3, <1>4 DEF RecordedAs, id, n, k
    <2> QED BY <1>1, <1>5, <2>1
  <1>7. Came({q}, n, id) = {q % n}
    <2>1. {t \in {q} : t \div n = id} = {q}
      BY DEF id
    <2> QED BY <2>1 DEF Came
  <1>8. judged = {}
    <2> DEFINE y == id - History - 1
    <2>1. y \in Int /\ y < id /\ id \in Int
      BY <1>1
    <2> HIDE DEF y
    <2>2. id..y = {}
      BY <2>1
    <2> QED BY <2>2 DEF JudgedIn, y
  <1>9. Span(n, {q}, {}, {}, id, id, q, q)
    <2>1. q \div n = id /\ \A t \in {q} : t \div n = id
      BY DEF id
    <2>2. \A t \in {q} : id <= t \div n /\ t \div n <= q \div n
      BY <1>1, <2>1
    <2>3. {q} \in SUBSET Nat /\ {} \in SUBSET {q} /\ {} \in SUBSET (id..(q \div n))
      BY <1>1
    <2>4. id <= id /\ id <= q \div n /\ q <= q
      BY <1>1, <2>1
    <2> QED BY <1>1, <2>2, <2>3, <2>4 DEF Span
  <1>10. Fresh(sim, w, {}, id, q)
    BY <1>1, <1>6 DEF Fresh, id, n
  <1>11. Filled(n, w, {q}, {})
    <2> SUFFICES ASSUME NEW g \in DOMAIN w.groups
                 PROVE  /\ w.groups[g].received = Came({q}, n, g)
                        /\ w.groups[g].evaluated = (g \in {})
      BY DEF Filled
    <2>1. g = id
      BY <1>6
    <2>2. w.groups[g].evaluated = FALSE
      BY <1>6, <2>1
    <2>3. (g \in {}) = FALSE
      OBVIOUS
    <2>4. w.groups[g].received = Came({q}, n, g)
      BY <1>6, <1>7, <2>1
    <2> QED BY <2>2, <2>3, <2>4, Zenon
  <1>12. Open(n, w, {q}, id, id, q, q)
    <2>1. \A g \in id..id : g = id
      BY <1>1
    <2> QED BY <1>6, <2>1 DEF Open, id
  <1>13. Counted(k, w, got, judged)
    <2> HIDE DEF got
    <2>1. Sum(DeliveredOf(k, got, {}), {}) = 0 /\ Sum(SavedOf(k, got, {}), {}) = 0
          /\ Sum(GoneOf(k, got, {}), {}) = 0
      BY FS_EmptySet, SumZero
    <2> QED BY <1>6, <1>8, <2>1 DEF Counted
  <1> QED BY <1>9, <1>10, <1>11, <1>12, <1>13 DEF Exact, w, id, n, k

(* A report judges every group that is open.                                 *)
LEMMA FreshReported ==
  ASSUME NEW sim \in Sims, NEW vf, NEW lo \in Nat, NEW m \in Nat,
         NEW rep, Fresh(sim, vf, {}, lo, m), lo..(m \div sim[2]) \subseteq rep
  PROVE  Fresh(sim, Finalized(sim[1], vf, Unevaluated(vf)), rep, lo, m)
  <1> DEFINE ids == Unevaluated(vf)
             w == Finalized(sim[1], vf, ids)
             gs == vf.groups
  <1>1. vf \in Simulation(sim) /\ vf.last = m \div sim[2]
        /\ \A g \in DOMAIN gs : lo <= g /\ g <= vf.last
    BY DEF Fresh
  <1>2. ids \in SUBSET DOMAIN vf.groups
    BY DEF Unevaluated
  <1>3. /\ w \in Simulation(sim)
        /\ DOMAIN w.groups = DOMAIN gs /\ w.last = vf.last
        /\ \A g \in DOMAIN gs : w.groups[g].evaluated = (gs[g].evaluated \/ g \in ids)
    BY <1>1, <1>2, FinalizedIs
  <1>4. \A g \in DOMAIN gs : g \in Nat
    BY <1>1, SimulationIs DEF GroupIds
  <1>5. m \div sim[2] \in Nat
    BY SimSizes, DivBounds
  <1>6. \A g \in DOMAIN gs : w.groups[g].evaluated /\ g \in rep
    <2> SUFFICES ASSUME NEW g \in DOMAIN gs PROVE w.groups[g].evaluated /\ g \in rep
      OBVIOUS
    <2>1. g \in lo..(m \div sim[2])
      BY <1>1, <1>4, <1>5
    <2>2. gs[g].evaluated \/ g \in ids
      BY DEF Unevaluated
    <2> HIDE DEF w, ids
    <2> QED BY <1>3, <2>1, <2>2
  <1> HIDE DEF w
  <1> QED BY <1>1, <1>3, <1>6 DEF Fresh, w

(* A report leaves the counters right if nothing older than the first frame  *)
(* has come.                                                                 *)
LEMMA ExactReported ==
  ASSUME NEW sim \in Sims, NEW vf, NEW A, NEW lo, NEW p, NEW m,
         Exact(sim, vf, A, {}, {}, lo, lo, p, m)
  PROVE  LET rep == lo..(m \div sim[2])
         IN Exact(sim, Finalized(sim[1], vf, Unevaluated(vf)), A, A, rep, lo, lo, p, m)
  <1> DEFINE n == sim[2]
             k == sim[1]
             top == m \div n
             rep == lo..top
             ids == Unevaluated(vf)
             w == Finalized(k, vf, ids)
             gs == vf.groups
             judged == JudgedIn({}, lo, top)
             newJudged == JudgedIn(rep, lo, top)
             got == Got(n, A, {}, {}, judged)
             newGot == Got(n, A, A, rep, newJudged)
  <1>1. /\ A \in SUBSET Nat
        /\ lo \in Nat /\ m \in Nat /\ p \in Nat
        /\ p <= m /\ lo <= top
        /\ \A t \in A : lo <= t \div n /\ t \div n <= top
    BY DEF Exact, Span
  <1>2. /\ Fresh(sim, vf, {}, lo, m) /\ vf \in Simulation(sim)
        /\ \A g \in DOMAIN gs :
             /\ lo <= g /\ g <= top /\ g + History >= top
             /\ gs[g].received = Came(A, n, g) /\ gs[g].evaluated = FALSE
        /\ \A g \in lo..top : g + History >= top => g \in DOMAIN gs
    <2>1. /\ Fresh(sim, vf, {}, lo, m) /\ Filled(n, vf, A, {}) /\ Open(n, vf, A, lo, lo, p, m)
      BY DEF Exact
    <2>2. \A g \in lo..top : g >= lo
      BY <1>1
    <2> QED BY <2>1, <2>2 DEF Fresh, Filled, Open
  <1>3. k \in Nat /\ n \in Nat /\ 0 < n /\ History \in Nat /\ top \in Nat
        /\ DOMAIN gs \subseteq Nat
    <2>1. DOMAIN gs \subseteq Nat
      BY <1>2, SimulationIs DEF GroupIds
    <2> QED BY <1>1, <2>1, SimSizes, DivBounds
  <1>4. ids = DOMAIN gs
    BY <1>2 DEF Unevaluated
  <1>5. /\ DOMAIN w.groups = DOMAIN gs
        /\ \A g \in DOMAIN gs :
             /\ w.groups[g].received = gs[g].received
             /\ w.groups[g].evaluated = (gs[g].evaluated \/ g \in ids)
        /\ Adds(k, vf, w, ids)
    BY <1>2, <1>4, FinalizedIs DEF Adds
  <1>6. Fresh(sim, w, rep, lo, m)
    BY <1>1, <1>2, FreshReported
  <1> HIDE DEF w, ids, n, k, top
  <1>7. Span(n, A, A, rep, lo, lo, p, m)
    BY <1>1, <1>3 DEF Span, top
  <1>8. \A g \in DOMAIN gs : g \in rep
    BY <1>1, <1>2, <1>3
  <1>9. Filled(n, w, A, rep)
    <2> SUFFICES ASSUME NEW g \in DOMAIN gs
                 PROVE  /\ w.groups[g].received = Came(A, n, g)
                        /\ w.groups[g].evaluated = (g \in rep)
      BY <1>5 DEF Filled
    <2>1. w.groups[g].received = Came(A, n, g)
      BY <1>2, <1>5
    <2>2. w.groups[g].evaluated = TRUE /\ g \in rep
      BY <1>4, <1>5, <1>8
    <2> QED BY <2>1, <2>2
  <1>10. Open(n, w, A, lo, lo, p, m)
    BY <1>2, <1>5 DEF Open, top
  <1>11. newJudged = judged \cup ids
    <2>1. newJudged = rep
      <3>1. ASSUME NEW g \in lo..(top - History - 1) PROVE g \in rep
        BY <1>1, <1>3
      <3> QED BY <3>1 DEF JudgedIn
    <2>2. ASSUME NEW g \in rep PROVE g \in judged \cup ids
      <3>1. CASE g + History >= top
        BY <1>2, <1>4, <3>1
      <3>2. CASE ~(g + History >= top)
        <4>1. g \in lo..(top - History - 1)
          BY <1>1, <1>3, <3>2
        <4> QED BY <4>1 DEF JudgedIn
      <3> QED BY <3>1, <3>2
    <2>3. ASSUME NEW g \in judged PROVE g \in rep
      <3>1. g \in lo..(top - History - 1)
        BY DEF JudgedIn
      <3> QED BY <1>1, <1>3, <3>1
    <2> HIDE DEF rep, judged, newJudged
    <2> QED BY <1>4, <1>8, <2>1, <2>2, <2>3
  <1>12. IsFiniteSet(judged)
    <2>1. judged = lo..(top - History - 1)
      BY DEF JudgedIn
    <2>2. lo \in Int /\ top - History - 1 \in Int
      BY <1>1, <1>3
    <2> HIDE DEF judged
    <2> QED BY <2>1, <2>2, FS_Interval
  <1>13. Grows(n, vf, got, newGot, judged, ids)
    <2>1. ASSUME NEW g \in judged, g \in ids PROVE FALSE
      <3>1. g \in lo..(top - History - 1)
        BY DEF JudgedIn
      <3>2. g + History >= top /\ g \in Nat
        BY <1>2, <1>3, <1>4, <2>1
      <3> QED BY <1>1, <1>3, <3>1, <3>2
    <2>2. ASSUME NEW g \in judged
          PROVE  got[g] \in SUBSET (0..(n - 1)) /\ newGot[g] = got[g]
      <3>1. Came(A, n, g) \in SUBSET (0..(n - 1))
        BY <1>1, <1>3, CameType
      <3>2. g \in newJudged
        BY <1>11
      <3> HIDE DEF judged, newJudged
      <3> QED BY <3>1, <3>2 DEF Got
    <2>3. ASSUME NEW g \in ids PROVE newGot[g] = gs[g].received
      <3>1. g \in newJudged
        BY <1>11
      <3> HIDE DEF judged, newJudged
      <3> QED BY <1>2, <1>4, <3>1 DEF Got
    <2> HIDE DEF judged, newJudged, got, newGot
    <2> QED BY <2>1, <2>2, <2>3 DEF Grows
  <1>14. Counted(k, w, newGot, newJudged)
    <2> HIDE DEF judged, newJudged, got, newGot
    <2>1. Counted(k, vf, got, judged)
      BY DEF Exact, k, n, top, got, judged
    <2>2. Counted(k, w, newGot, judged \cup ids)
      BY <1>2, <1>4, <1>5, <1>12, <1>13, <2>1, CountedMore DEF k, n
    <2> QED BY <1>11, <2>2
  <1> QED BY <1>6, <1>7, <1>9, <1>10, <1>14 DEF Exact, w, ids, n, k, top
-----------------------------------------------------------------------------
(* The analyzer and its simulations have their types, whatever comes.        *)
AnalyzerOK ==
  /\ analyzer = [enabled |-> analyzer.enabled, hasSeq |-> analyzer.hasSeq,
                 lastSeq |-> analyzer.lastSeq, sims |-> analyzer.sims]
  /\ analyzer.enabled = FECTest
  /\ analyzer.hasSeq \in BOOLEAN
  /\ analyzer.lastSeq \in 0..(SeqSpace - 1)
  /\ DOMAIN analyzer.sims = Sims
  /\ \A sim \in Sims : analyzer.sims[sim] \in Simulation(sim)

LEMMA GapIs ==
  ASSUME NEW fa, fa.lastSeq \in 0..(SeqSpace - 1), NEW seq \in 0..(SeqSpace - 1)
  PROVE  \E m \in Nat : Gap(fa, seq) \in [1..m -> 0..(SeqSpace - 1)]
  <1> DEFINE from == (fa.lastSeq + 1) % SeqSpace
  <1>1. from \in 0..(SeqSpace - 1)
    <2>1. fa.lastSeq + 1 \in Int
      BY Constants
    <2> QED BY <2>1, ModOf
  <1> HIDE DEF from
  <1>2. CASE fa.hasSeq /\ seq > from /\ seq - from < MaxGap
    <2> DEFINE len == seq - from
    <2>1. Gap(fa, seq) = [i \in 1..len |-> from + i - 1]
      BY <1>2 DEF Gap, from
    <2>2. \A i \in 1..len : from + i - 1 \in 0..(SeqSpace - 1)
      BY <1>1, Constants
    <2>3. len \in Nat
      BY <1>1, <1>2, Constants
    <2> HIDE DEF len
    <2>4. [i \in 1..len |-> from + i - 1] \in [1..len -> 0..(SeqSpace - 1)]
      BY <2>2
    <2> QED BY <2>1, <2>3, <2>4
  <1>3. CASE ~(fa.hasSeq /\ seq > from /\ seq - from < MaxGap)
    <2>1. Gap(fa, seq) = <<>>
      BY <1>3 DEF Gap, from
    <2>2. <<>> \in [1..0 -> 0..(SeqSpace - 1)] /\ 0 \in Nat
      OBVIOUS
    <2> QED BY <2>1, <2>2
  <1> QED BY <1>2, <1>3

LEMMA RecordPacketIs ==
  ASSUME AnalyzerOK, NEW seq \in 0..(SeqSpace - 1)
  PROVE  LET fa == RecordPacket(analyzer, seq)
         IN /\ ~FECTest => fa = analyzer
            /\ FECTest =>
                 fa = [enabled |-> TRUE, hasSeq |-> TRUE, lastSeq |-> seq,
                       sims |-> [sim \in Sims |->
                         Recorded(sim, Skipped(sim, analyzer.sims[sim], Gap(analyzer, seq)),
                                  seq, FALSE)]]
  <1>1. FECTest \in BOOLEAN /\ analyzer.enabled = FECTest
    BY StreamStatsAssumption DEF AnalyzerOK
  <1>2. CASE ~FECTest
    BY <1>1, <1>2 DEF RecordPacket
  <1>3. CASE FECTest
    <2> DEFINE new == [sim \in Sims |->
                 Recorded(sim, Skipped(sim, analyzer.sims[sim], Gap(analyzer, seq)), seq, FALSE)]
    <2>1. RecordPacket(analyzer, seq) =
            [analyzer EXCEPT !.hasSeq = TRUE, !.lastSeq = seq, !.sims = new]
      BY <1>1, <1>3 DEF RecordPacket
    <2> HIDE DEF new
    <2>2. analyzer = [enabled |-> analyzer.enabled, hasSeq |-> analyzer.hasSeq,
                      lastSeq |-> analyzer.lastSeq, sims |-> analyzer.sims]
      BY DEF AnalyzerOK
    <2>3. RecordPacket(analyzer, seq) =
            [enabled |-> TRUE, hasSeq |-> TRUE, lastSeq |-> seq, sims |-> new]
      BY <1>1, <1>3, <2>1, <2>2
    <2> QED BY <1>3, <2>3 DEF new
  <1> QED BY <1>1, <1>2, <1>3

LEMMA DumpReportIs ==
  ASSUME AnalyzerOK, FECTest
  PROVE  DumpReport(analyzer) =
           [enabled |-> TRUE, hasSeq |-> analyzer.hasSeq, lastSeq |-> analyzer.lastSeq,
            sims |-> [sim \in Sims |->
              Finalized(sim[1], analyzer.sims[sim], Unevaluated(analyzer.sims[sim]))]]
  <1> DEFINE new == [sim \in Sims |->
               Finalized(sim[1], analyzer.sims[sim], Unevaluated(analyzer.sims[sim]))]
  <1>1. analyzer.enabled = TRUE
    BY StreamStatsAssumption DEF AnalyzerOK
  <1>2. DumpReport(analyzer) = [analyzer EXCEPT !.sims = new]
    BY <1>1 DEF DumpReport
  <1> HIDE DEF new
  <1>3. analyzer = [enabled |-> analyzer.enabled, hasSeq |-> analyzer.hasSeq,
                    lastSeq |-> analyzer.lastSeq, sims |-> analyzer.sims]
    BY DEF AnalyzerOK
  <1>4. DumpReport(analyzer) = [enabled |-> TRUE, hasSeq |-> analyzer.hasSeq,
                                lastSeq |-> analyzer.lastSeq, sims |-> new]
    BY <1>1, <1>2, <1>3
  <1> QED BY <1>4 DEF new

(* The sum of the parts that Shape does not speak of.                        *)
FramesOK ==
  /\ sent <= MaxSlots
  /\ stream.lastSeq \in 0..(SeqSpace - 1)
  /\ receiver \in [isFirst : BOOLEAN, expected : 0..(SeqSpace - 1), lost : Nat]
  /\ arrived \subseteq {s \in 0..(sent - 1) : IsData(s)}
  /\ report \subseteq arrived
  /\ twice \in 0..MaxTwice
  /\ first \in 0..MaxSlots
  /\ stale \subseteq arrived
  /\ inOrder \in BOOLEAN

LEMMA InitTypes == Init => AnalyzerOK /\ FramesOK
  <1> SUFFICES ASSUME Init PROVE AnalyzerOK /\ FramesOK
    OBVIOUS
  <1>1. analyzer = [enabled |-> FECTest, hasSeq |-> FALSE, lastSeq |-> 0,
                    sims |-> [sim \in Sims |-> NewVirtualFEC]]
    BY DEF Init, NewFECAnalyzer
  <1>2. \A sim \in Sims : NewVirtualFEC \in Simulation(sim)
    BY NewIs
  <1>3. 0 \in 0..(SeqSpace - 1)
    BY Constants
  <1>4. AnalyzerOK
    <2> HIDE DEF NewVirtualFEC
    <2> QED BY <1>1, <1>2, <1>3 DEF AnalyzerOK
  <1>5. FramesOK
    BY <1>3, StreamStatsAssumption DEF Init, FramesOK
  <1> QED BY <1>4, <1>5

LEMMA SeqNumRange ==
  ASSUME base \in Nat, NEW slot \in Nat
  PROVE  SeqNum(slot) \in 0..(SeqSpace - 1)
  <1>1. Place(slot) \in Int
    BY DEF Place
  <1> QED BY <1>1, ModOf DEF SeqNum

LEMMA AnalyzerReceives ==
  ASSUME AnalyzerOK, NEW seq \in 0..(SeqSpace - 1), analyzer' = RecordPacket(analyzer, seq)
  PROVE  AnalyzerOK'
  <1>1. CASE ~FECTest
    <2>1. analyzer' = analyzer
      BY <1>1, RecordPacketIs
    <2> QED BY <2>1 DEF AnalyzerOK
  <1>2. CASE FECTest
    <2> DEFINE gap == Gap(analyzer, seq)
               new == [sim \in Sims |->
                 Recorded(sim, Skipped(sim, analyzer.sims[sim], gap), seq, FALSE)]
    <2>1. analyzer' = [enabled |-> TRUE, hasSeq |-> TRUE, lastSeq |-> seq, sims |-> new]
      BY <1>2, RecordPacketIs
    <2>2. PICK m \in Nat : gap \in [1..m -> 0..(SeqSpace - 1)]
      <3>1. analyzer.lastSeq \in 0..(SeqSpace - 1)
        BY DEF AnalyzerOK
      <3> QED BY <3>1, GapIs
    <2>3. ASSUME NEW sim \in Sims PROVE new[sim] \in Simulation(sim)
      <3> DEFINE vf == analyzer.sims[sim]
      <3>1. vf \in Simulation(sim)
        BY DEF AnalyzerOK
      <3> HIDE DEF vf, gap
      <3>2. PICK st : IsRun(st, sim, vf, gap, m) /\ Skipped(sim, vf, gap) = st[m]
        BY <2>2, <3>1, SkippedIs
      <3>3. Skipped(sim, vf, gap) \in Simulation(sim)
        BY <3>2 DEF IsRun
      <3>4. Recorded(sim, Skipped(sim, vf, gap), seq, FALSE) \in Simulation(sim)
        BY <3>3, RecordedIs DEF RecordedAs
      <3> QED BY <3>4 DEF vf
    <2>4. DOMAIN new = Sims
      OBVIOUS
    <2> HIDE DEF new
    <2> QED BY <1>2, <2>1, <2>3, <2>4 DEF AnalyzerOK
  <1> QED BY <1>1, <1>2, StreamStatsAssumption

LEMMA AnalyzerReports ==
  ASSUME AnalyzerOK, FECTest, analyzer' = DumpReport(analyzer)
  PROVE  AnalyzerOK'
  <1> DEFINE new == [sim \in Sims |->
               Finalized(sim[1], analyzer.sims[sim], Unevaluated(analyzer.sims[sim]))]
  <1>1. analyzer' = [enabled |-> TRUE, hasSeq |-> analyzer.hasSeq,
                     lastSeq |-> analyzer.lastSeq, sims |-> new]
    BY DumpReportIs
  <1>2. ASSUME NEW sim \in Sims PROVE new[sim] \in Simulation(sim)
    <2> DEFINE vf == analyzer.sims[sim]
    <2>1. vf \in Simulation(sim)
      BY DEF AnalyzerOK
    <2>2. Unevaluated(vf) \in SUBSET DOMAIN vf.groups
      BY DEF Unevaluated
    <2> HIDE DEF vf
    <2>3. Finalized(sim[1], vf, Unevaluated(vf)) \in Simulation(sim)
      BY <2>1, <2>2, FinalizedIs
    <2> QED BY <2>3 DEF vf
  <1>3. DOMAIN new = Sims
    OBVIOUS
  <1> HIDE DEF new
  <1> QED BY <1>1, <1>2, <1>3 DEF AnalyzerOK
-----------------------------------------------------------------------------
(* The counters stay in their ranges.                                        *)
LEMMA LastSeqRange ==
  ASSUME NEW s \in Stream, s.lastSeq \in 0..(SeqSpace - 1), NEW seq \in 0..(SeqSpace - 1)
  PROVE  Update(s, seq).lastSeq \in 0..(SeqSpace - 1)
  <1>1. seq \in Int /\ s.lastSeq \in Int
    BY Constants
  <1>2. CASE ~s.hasLastSeq
    BY <1>1, <1>2, UpdateFirst
  <1>3. CASE s.hasLastSeq
    <2> DEFINE d == Diff(seq, s.lastSeq)
    <2>1. d \in Int
      BY <1>1, DiffType
    <2>2. CASE d > 0
      BY <1>1, <1>3, <2>2, UpdateAhead
    <2>3. CASE ~(d > 0)
      <3> DEFINE offset == -d
      <3>1. offset \in Nat /\ Diff(seq, s.lastSeq) = -offset
        BY <2>1, <2>3
      <3> HIDE DEF offset, d
      <3>2. Update(s, seq).lastSeq = s.lastSeq
        BY <1>1, <1>3, <3>1, UpdateLate
      <3> QED BY <3>2
    <2> QED BY <2>2, <2>3
  <1>4. s.hasLastSeq \in BOOLEAN
    BY DEF Stream
  <1> QED BY <1>2, <1>3

LEMMA ReceiverRange ==
  ASSUME NEW r \in [isFirst : BOOLEAN, expected : 0..(SeqSpace - 1), lost : Nat],
         NEW seq \in 0..(SeqSpace - 1)
  PROVE  AddPacket(r, seq) \in [isFirst : BOOLEAN, expected : 0..(SeqSpace - 1), lost : Nat]
  <1>1. NextExpected(seq) \in 0..(SeqSpace - 1)
    <2>1. seq + 1 \in Int
      BY Constants
    <2> QED BY <2>1, ModOf DEF NextExpected
  <1>2. (IF ~r.isFirst /\ seq > r.expected THEN r.lost + seq - r.expected ELSE r.lost) \in Nat
    BY Constants
  <1> QED BY <1>1, <1>2 DEF AddPacket

LEMMA FramesNext ==
  ASSUME Shape, FramesOK, [Next]_vars
  PROVE  FramesOK'
  <1>1. CASE Send
    <2>1. /\ sent' = sent + 1 /\ sent < MaxSlots
          /\ UNCHANGED <<base, stream, receiver, arrived, report, twice, first, stale, inOrder>>
      BY <1>1 DEF Send, history
    <2>2. \A s : IsData(s)' = IsData(s)
      BY <2>1 DEF IsData, Place
    <2>3. arrived' \subseteq {s \in 0..(sent' - 1) : IsData(s)'}
      BY <2>1, <2>2 DEF FramesOK, Shape
    <2>4. sent' <= MaxSlots
      BY <2>1, StreamStatsAssumption DEF Shape
    <2> QED BY <2>1, <2>3, <2>4 DEF FramesOK
  <1>2. CASE Reconnect
    <2>1. /\ base' = sent /\ base = 0
          /\ UNCHANGED <<sent, stream, receiver, arrived, report, twice, first, stale, inOrder>>
      BY <1>2 DEF Reconnect
    <2>2. ASSUME NEW s \in arrived PROVE s \in 0..(sent' - 1) /\ IsData(s)'
      <3>1. s \in 0..(sent - 1) /\ IsData(s) /\ s \in Nat /\ sent \in Nat
        BY DEF FramesOK, Shape
      <3>2. Place(s) = s /\ Place(s)' = s
        BY <2>1, <3>1 DEF Place
      <3> QED BY <2>1, <3>1, <3>2 DEF IsData
    <2>3. arrived' \subseteq {s \in 0..(sent' - 1) : IsData(s)'}
      BY <2>1, <2>2
    <2> QED BY <2>1, <2>3 DEF FramesOK
  <1>3. ASSUME NEW slot \in Slots, Receive(slot) PROVE FramesOK'
    <2>1. /\ IsData(slot) /\ twice' <= MaxTwice
          /\ twice' = (IF slot \in arrived THEN twice + 1 ELSE twice)
          /\ stream' = Update(stream, SeqNum(slot))
          /\ receiver' = AddPacket(receiver, SeqNum(slot))
          /\ arrived' = arrived \cup {slot}
          /\ first' = (IF arrived = {} THEN slot ELSE first)
          /\ stale' = (IF slot \notin arrived /\ Newest - slot >= Window
                       THEN stale \cup {slot} ELSE stale)
          /\ inOrder' = (inOrder /\ slot > Newest)
          /\ UNCHANGED <<sent, base, report>>
      BY <1>3 DEF Receive
    <2>2. slot \in 0..(sent - 1) /\ slot \in Nat /\ base \in Nat /\ sent \in Nat
          /\ stream \in Stream
      BY DEF Slots, Shape
    <2>3. SeqNum(slot) \in 0..(SeqSpace - 1)
      BY <2>2, SeqNumRange
    <2>4. stream'.lastSeq \in 0..(SeqSpace - 1)
      BY <2>1, <2>2, <2>3, LastSeqRange DEF FramesOK
    <2>5. receiver' \in [isFirst : BOOLEAN, expected : 0..(SeqSpace - 1), lost : Nat]
      BY <2>1, <2>3, ReceiverRange DEF FramesOK
    <2>6. \A s : IsData(s)' = IsData(s)
      BY <2>1 DEF IsData, Place
    <2>7. arrived' \subseteq {s \in 0..(sent' - 1) : IsData(s)'}
      BY <2>1, <2>2, <2>6 DEF FramesOK
    <2>8. twice' \in 0..MaxTwice /\ first' \in 0..MaxSlots
      BY <2>1, <2>2, StreamStatsAssumption DEF FramesOK
    <2>9. report' \subseteq arrived' /\ stale' \subseteq arrived' /\ inOrder' \in BOOLEAN
      BY <2>1 DEF FramesOK
    <2>10. sent' <= MaxSlots
      BY <2>1 DEF FramesOK
    <2> QED BY <2>4, <2>5, <2>7, <2>8, <2>9, <2>10 DEF FramesOK
  <1>4. CASE Report
    <2>1. /\ report' = arrived
          /\ UNCHANGED <<sent, base, stream, receiver, arrived, twice, first, stale, inOrder>>
      BY <1>4 DEF Report
    <2>2. \A s : IsData(s)' = IsData(s)
      BY <2>1 DEF IsData, Place
    <2> QED BY <2>1, <2>2 DEF FramesOK
  <1>5. CASE UNCHANGED vars
    <2>1. UNCHANGED <<sent, base, stream, receiver, arrived, report, twice, first, stale, inOrder>>
      BY <1>5 DEF vars, history
    <2>2. \A s : IsData(s)' = IsData(s)
      BY <2>1 DEF IsData, Place
    <2> QED BY <2>1, <2>2 DEF FramesOK
  <1> QED BY <1>1, <1>2, <1>3, <1>4, <1>5 DEF Next, Slots

LEMMA AnalyzerNext ==
  ASSUME Shape, AnalyzerOK, [Next]_vars
  PROVE  AnalyzerOK'
  <1>1. ASSUME NEW slot \in Slots, Receive(slot) PROVE AnalyzerOK'
    <2>1. slot \in Nat /\ base \in Nat /\ analyzer' = RecordPacket(analyzer, SeqNum(slot))
      BY <1>1 DEF Slots, Shape, Receive
    <2>2. SeqNum(slot) \in 0..(SeqSpace - 1)
      BY <2>1, SeqNumRange
    <2> QED BY <2>1, <2>2, AnalyzerReceives
  <1>2. CASE Report
    BY <1>2, AnalyzerReports DEF Report
  <1>3. CASE Send \/ Reconnect \/ UNCHANGED vars
    <2>1. analyzer' = analyzer
      BY <1>3 DEF Send, Reconnect, vars
    <2> QED BY <2>1 DEF AnalyzerOK
  <1> QED BY <1>1, <1>2, <1>3 DEF Next, Slots

(* Everything has its type; lostPackets (cmd/recv.go) does not go below 0,   *)
(* and a simulation evaluates only groups it has opened.                     *)
THEOREM TypeCorrect == Spec => []TypeOK
  <1>1. Spec => [](Shape /\ WindowInv /\ AnalyzerOK /\ FramesOK)
    <2>1. Shape /\ AnalyzerOK /\ FramesOK /\ [Next]_vars => AnalyzerOK' /\ FramesOK'
      BY AnalyzerNext, FramesNext
    <2> QED BY <2>1, InitOK, InitTypes, NextOK, PTL DEF Spec
  <1>2. Shape /\ AnalyzerOK /\ FramesOK => TypeOK
    <2> SUFFICES ASSUME Shape, AnalyzerOK, FramesOK PROVE TypeOK
      OBVIOUS
    <2>1. sent \in 0..MaxSlots /\ base \in 0..sent
      BY StreamStatsAssumption DEF Shape, FramesOK
    <2>2. stream \in [hasLastSeq : BOOLEAN, lastSeq : 0..(SeqSpace - 1),
                      window : SUBSET (0..(Window - 1)), lost : Nat, panicked : BOOLEAN]
      BY DEF Shape, FramesOK, Stream
    <2>3. ASSUME NEW sim \in Sims
          PROVE  LET vf == analyzer.sims[sim] IN
                   /\ {vf.delivered, vf.recovered, vf.lost} \subseteq Nat
                   /\ DOMAIN vf.groups \subseteq 0..(SeqSpace \div sim[2])
                   /\ \A id \in DOMAIN vf.groups : vf.groups[id].received \subseteq 0..(sim[2] - 1)
      <3> DEFINE vf == analyzer.sims[sim]
      <3>1. vf \in Simulation(sim)
        BY DEF AnalyzerOK
      <3> HIDE DEF vf
      <3>2. /\ {vf.delivered, vf.recovered, vf.lost} \subseteq Nat
            /\ DOMAIN vf.groups \subseteq 0..(SeqSpace \div sim[2])
            /\ \A id \in DOMAIN vf.groups : vf.groups[id].received \subseteq 0..(sim[2] - 1)
        BY <3>1, SimulationIs DEF GroupIds
      <3> QED BY <3>2 DEF vf
    <2> QED BY <2>1, <2>2, <2>3 DEF TypeOK, FramesOK, AnalyzerOK, Shape
  <1> QED BY <1>1, <1>2, PTL
-----------------------------------------------------------------------------
(* The least of a set, and of one that has grown by one.                     *)
LEMMA MinIs ==
  ASSUME NEW S \in SUBSET Nat, NEW x \in S, \A y \in S : x <= y
  PROVE  Min(S) = x
  <1>1. Min(S) \in S /\ \A y \in S : Min(S) <= y
    <2>1. \E z \in S : \A y \in S : z <= y
      OBVIOUS
    <2> QED BY <2>1 DEF Min
  <1>2. Min(S) <= x /\ x <= Min(S) /\ Min(S) \in Nat
    BY <1>1
  <1> QED BY <1>2

LEMMA MinOK ==
  ASSUME NEW S \in SUBSET Nat, S # {}
  PROVE  Min(S) \in S /\ Min(S) \in Nat /\ \A y \in S : Min(S) <= y
  <1>1. PICK x \in S : \A y \in S : x <= y
    BY LeastNat
  <1>2. Min(S) = x
    BY <1>1, MinIs
  <1> QED BY <1>1, <1>2

LEMMA MinMore ==
  ASSUME NEW S \in SUBSET Nat, S # {}, NEW q \in Nat
  PROVE  Min(S \cup {q}) = Lowest(Min(S), q)
  <1> DEFINE x == Lowest(Min(S), q)
             T == S \cup {q}
  <1>1. Min(S) \in S /\ Min(S) \in Nat /\ \A y \in S : Min(S) <= y
    BY MinOK
  <1>2. x \in T /\ T \in SUBSET Nat
    BY <1>1 DEF Lowest
  <1>3. \A y \in T : x <= y
    <2>1. \A y \in S : y \in Nat
      OBVIOUS
    <2> QED BY <1>1, <2>1 DEF Lowest
  <1> HIDE DEF x, T
  <1>4. Min(T) = x
    BY <1>2, <1>3, MinIs
  <1> QED BY <1>4 DEF x, T

LEMMA DivLowest ==
  ASSUME NEW n \in Nat, 0 < n, NEW a \in Nat, NEW b \in Nat
  PROVE  Lowest(a, b) \div n = Lowest(a \div n, b \div n)
  <1>1. a \div n \in Nat /\ b \div n \in Nat
    BY DivBounds
  <1>2. CASE a < b
    <2>1. a \div n <= b \div n
      BY <1>2, DivMono
    <2>2. Lowest(a, b) = a
      BY <1>2 DEF Lowest
    <2> DEFINE x == a \div n
               y == b \div n
    <2>3. x \in Nat /\ y \in Nat /\ x <= y
      BY <1>1, <2>1
    <2> HIDE DEF x, y
    <2>4. Lowest(x, y) = x
      BY <2>3 DEF Lowest
    <2> QED BY <2>2, <2>4 DEF x, y
  <1>3. CASE ~(a < b)
    <2>1. b \div n <= a \div n
      BY <1>3, DivMono
    <2>2. Lowest(a, b) = b
      BY <1>3 DEF Lowest
    <2> DEFINE x == a \div n
               y == b \div n
    <2>3. x \in Nat /\ y \in Nat /\ y <= x
      BY <1>1, <2>1
    <2> HIDE DEF x, y
    <2>4. Lowest(x, y) = y
      BY <2>3 DEF Lowest
    <2> QED BY <2>2, <2>4 DEF x, y
  <1> QED BY <1>2, <1>3
-----------------------------------------------------------------------------
(* What the analyzer knows, as long as no number has been used twice.        *)
Lo(n) == Min(arrived) \div n

Simulated(sim) ==
  LET vf == analyzer.sims[sim]
      n == sim[2]
  IN /\ Fresh(sim, vf, Reported(n), Lo(n), Newest)
     /\ (\A s \in report : s >= first) =>
          Exact(sim, vf, arrived, report, Reported(n), Lo(n), first \div n,
                analyzer.lastSeq, Newest)

Near ==
  /\ analyzer.hasSeq
  /\ analyzer.lastSeq \in arrived
  /\ Newest - analyzer.lastSeq < Reach
  /\ first \in arrived

JudgedInv ==
  FECTest /\ OneNumbering =>
    /\ arrived = {} =>
         ~analyzer.hasSeq /\ \A sim \in Sims : Blank(sim, analyzer.sims[sim])
    /\ arrived # {} => Near /\ \A sim \in Sims : Simulated(sim)

LEMMA BlankReported ==
  ASSUME NEW sim \in Sims, NEW vf, Blank(sim, vf)
  PROVE  Blank(sim, Finalized(sim[1], vf, Unevaluated(vf)))
  <1> DEFINE ids == Unevaluated(vf)
             w == Finalized(sim[1], vf, ids)
             k == sim[1]
  <1>1. ids = {}
    BY DEF Unevaluated, Blank
  <1>2. vf \in Simulation(sim) /\ ids \in SUBSET DOMAIN vf.groups
    BY DEF Blank, Unevaluated
  <1>4. /\ w \in Simulation(sim) /\ DOMAIN w.groups = DOMAIN vf.groups /\ w.last = vf.last
        /\ Adds(k, vf, w, ids)
    BY <1>2, FinalizedIs DEF Adds
  <1> HIDE DEF w, ids
  <1>3. Sum(Delivered(k, vf, ids), ids) = 0 /\ Sum(Saved(k, vf, ids), ids) = 0
        /\ Sum(Gone(k, vf, ids), ids) = 0
    BY <1>1, FS_EmptySet, SumZero
  <1>5. Blank(sim, w)
    BY <1>3, <1>4 DEF Blank, Adds
  <1> QED BY <1>5 DEF w, ids

LEMMA JudgedInit == Init => JudgedInv
  <1> SUFFICES ASSUME Init PROVE JudgedInv
    OBVIOUS
  <1>1. arrived = {} /\ ~analyzer.hasSeq
        /\ \A sim \in Sims : analyzer.sims[sim] = NewVirtualFEC
    BY DEF Init, NewFECAnalyzer
  <1>2. \A sim \in Sims : Blank(sim, NewVirtualFEC)
    BY NewIs DEF Blank
  <1> HIDE DEF NewVirtualFEC
  <1> QED BY <1>1, <1>2 DEF JudgedInv

LEMMA SameReport ==
  ASSUME report' = report, NEW n
  PROVE  Reported(n)' = Reported(n)
  BY DEF Reported
-----------------------------------------------------------------------------
(* The gap is what lies between the two numbers, also behind a late frame    *)
(* and at the end of the number space.                                       *)
LEMMA GapNear ==
  ASSUME NEW fa, NEW p \in 0..(SeqSpace - 1), NEW q \in 0..(SeqSpace - 1),
         fa.hasSeq, fa.lastSeq = p, q - p <= MaxGap, p = SeqSpace - 1 => q >= MaxGap
  PROVE  Gap(fa, q) = GapFrom(p, q)
  <1> DEFINE from == (p + 1) % SeqSpace
  <1>1. p \in Nat /\ q \in Nat /\ SeqSpace \in Nat /\ 0 < SeqSpace /\ MaxGap \in Nat
    BY FECAnalyzerAssumption
  <1>2. CASE p + 1 < SeqSpace
    <2>1. p + 1 \in Nat
      BY <1>1
    <2>2. from = p + 1
      BY <1>2, <2>1, ModSmall
    <2>3. fa.hasSeq /\ q > from /\ q - from < MaxGap <=> q > p + 1
      BY <1>1, <2>2
    <2> QED BY <2>2, <2>3 DEF Gap, GapFrom
  <1>3. CASE ~(p + 1 < SeqSpace)
    <2>1. p + 1 = SeqSpace /\ q >= MaxGap
      BY <1>1, <1>3
    <2>2. SeqSpace % SeqSpace = 0
      BY <1>1
    <2>3. from = 0
      BY <2>1, <2>2
    <2>4. ~(q > from /\ q - from < MaxGap) /\ ~(q > p + 1)
      BY <1>1, <2>1, <2>3
    <2> QED BY <2>4 DEF Gap, GapFrom
  <1> QED BY <1>2, <1>3

(* A frame that does not come behind a reconnection, below SeqSpace.         *)
LEMMA Numbered ==
  ASSUME Shape, FramesOK, NEW slot \in Slots, Receive(slot), (OneNumbering)'
  PROVE  /\ OneNumbering /\ base' = base
         /\ SeqNum(slot) = slot /\ slot \in 0..(SeqSpace - 1)
         /\ arrived' = arrived \cup {slot} /\ sent' = sent /\ report' = report
         /\ first' = (IF arrived = {} THEN slot ELSE first)
         /\ analyzer' = RecordPacket(analyzer, slot)
         /\ slot - Newest < Reach /\ Newest - slot < Reach /\ sent - slot <= Reach
         /\ Newest' = Farthest(Newest, slot) /\ Newest \in Int /\ -1 <= Newest
         /\ arrived # {} => Newest \in arrived /\ Newest \in Nat
         /\ Newest < sent
  <1>1. /\ slot \in 0..(sent - 1) /\ sent - slot <= Reach /\ sent \in Nat
        /\ arrived' = arrived \cup {slot} /\ sent' = sent /\ base' = base /\ report' = report
        /\ first' = (IF arrived = {} THEN slot ELSE first)
        /\ analyzer' = RecordPacket(analyzer, SeqNum(slot))
    BY DEF Receive, Slots, Shape
  <1>2. base = 0 /\ Newest' < SeqSpace
    BY <1>1 DEF OneNumbering
  <1>3. /\ Newest \in Int /\ -1 <= Newest /\ slot \in Nat
        /\ Newest' = IF slot > Newest THEN slot ELSE Newest
        /\ arrived # {} => Newest \in arrived /\ Newest \in Nat
    BY <1>1, Arrival
  <1>4. Newest < sent
    BY <1>1, <1>3 DEF Shape, NewestOK
  <1>5. sent - Newest <= Reach
    BY <1>1 DEF Shape, NewestOK
  <1> DEFINE m == Newest
  <1> HIDE DEF m
  <1>6. Newest' = Farthest(Newest, slot)
    BY <1>3 DEF Farthest
  <1>7. Newest < SeqSpace /\ slot < SeqSpace /\ Newest - slot < Reach /\ slot - Newest < Reach
    BY <1>1, <1>2, <1>3, <1>4, <1>5, Constants
  <1>8. SeqNum(slot) = slot
    BY <1>2, <1>3, <1>7, ModSmall DEF SeqNum, Place
  <1>9. slot \in 0..(SeqSpace - 1)
    BY <1>3, <1>7, Constants
  <1>10. OneNumbering
    BY <1>2, <1>7 DEF OneNumbering
  <1> QED BY <1>1, <1>3, <1>4, <1>6, <1>7, <1>8, <1>9, <1>10

(* What a frame does to every simulation.                                    *)
LEMMA AllRecorded ==
  ASSUME AnalyzerOK, FECTest, NEW q \in 0..(SeqSpace - 1),
         analyzer' = RecordPacket(analyzer, q), NEW gap, Gap(analyzer, q) = gap
  PROVE  /\ analyzer'.hasSeq /\ analyzer'.lastSeq = q
         /\ \A sim \in Sims :
              analyzer'.sims[sim] =
                Recorded(sim, Skipped(sim, analyzer.sims[sim], gap), q, FALSE)
  <1> DEFINE new == [sim \in Sims |->
               Recorded(sim, Skipped(sim, analyzer.sims[sim], gap), q, FALSE)]
  <1>1. analyzer' = [enabled |-> TRUE, hasSeq |-> TRUE, lastSeq |-> q, sims |-> new]
    BY RecordPacketIs
  <1>2. \A sim \in Sims :
          new[sim] = Recorded(sim, Skipped(sim, analyzer.sims[sim], gap), q, FALSE)
    OBVIOUS
  <1> HIDE DEF new
  <1>3. analyzer'.hasSeq = TRUE /\ analyzer'.lastSeq = q /\ analyzer'.sims = new
    BY <1>1
  <1> QED BY <1>2, <1>3

LEMMA JudgedReceiveFirst ==
  ASSUME Shape, AnalyzerOK, FramesOK, JudgedInv, NEW slot \in Slots, Receive(slot),
         FECTest, OneNumbering', arrived = {}
  PROVE  Near' /\ \A sim \in Sims : Simulated(sim)'
  <1>1. /\ OneNumbering
        /\ slot \in 0..(SeqSpace - 1) /\ slot \in Nat /\ sent \in Nat /\ slot < sent
        /\ arrived' = {slot} /\ report' = {} /\ first' = slot
        /\ analyzer' = RecordPacket(analyzer, slot)
        /\ sent - slot <= Reach
    <2>1. /\ OneNumbering /\ slot \in 0..(SeqSpace - 1) /\ sent - slot <= Reach
          /\ arrived' = arrived \cup {slot} /\ report' = report
          /\ first' = (IF arrived = {} THEN slot ELSE first)
          /\ analyzer' = RecordPacket(analyzer, slot)
      BY Numbered
    <2>2. slot \in 0..(sent - 1) /\ sent \in Nat
      BY DEF Slots, Shape
    <2>3. slot \in Nat /\ slot < sent
      BY <2>2
    <2>4. report = {}
      BY DEF FramesOK
    <2> QED BY <2>1, <2>2, <2>3, <2>4
  <1>2. ~analyzer.hasSeq /\ \A sim \in Sims : Blank(sim, analyzer.sims[sim])
    BY <1>1 DEF JudgedInv
  <1>3. Gap(analyzer, slot) = <<>>
    BY <1>2 DEF Gap
  <1>4. Newest' = slot
    <2>1. \A y \in {slot} \cup {-1} : y <= slot
      BY <1>1
    <2>2. {slot} \cup {-1} \in SUBSET Int /\ slot \in {slot} \cup {-1}
      BY <1>1
    <2>3. Max({slot} \cup {-1}) = slot
      BY <2>1, <2>2, MaxIs
    <2> QED BY <1>1, <2>3 DEF Newest
  <1>5. Min({slot}) = slot
    <2>1. {slot} \in SUBSET Nat /\ slot \in {slot} /\ \A y \in {slot} : slot <= y
      BY <1>1
    <2> QED BY <2>1, MinIs
  <1>6. /\ analyzer'.hasSeq /\ analyzer'.lastSeq = slot
        /\ \A sim \in Sims :
             analyzer'.sims[sim] =
               Recorded(sim, Skipped(sim, analyzer.sims[sim], <<>>), slot, FALSE)
    BY <1>1, <1>3, AllRecorded
  <1>7. Near'
    BY <1>1, <1>4, <1>6, Constants DEF Near
  <1>8. ASSUME NEW sim \in Sims PROVE Simulated(sim)'
    <2> DEFINE n == sim[2]
               id == slot \div n
               vf == analyzer.sims[sim]
               w == Recorded(sim, vf, slot, FALSE)
    <2>1. Blank(sim, vf) /\ vf \in Simulation(sim)
      BY <1>2 DEF Blank
    <2>2. analyzer'.sims[sim] = w
      BY <1>6, <2>1, NoGap
    <2> HIDE DEF vf
    <2>3. Exact(sim, w, {slot}, {}, {}, id, id, slot, slot)
      BY <1>1, <2>1, FirstExact
    <2> HIDE DEF w
    <2>4. Fresh(sim, w, {}, id, slot)
      BY <2>3 DEF Exact
    <2>5. Reported(n)' = {} /\ Lo(n)' = id
      BY <1>1, <1>5 DEF Reported, Lo
    <2>6. first' \div n = id
      BY <1>1
    <2> HIDE DEF id, n
    <2>7. Fresh(sim, analyzer'.sims[sim], Reported(n)', Lo(n)', Newest')
      BY <1>4, <2>2, <2>4, <2>5
    <2>8. Exact(sim, analyzer'.sims[sim], arrived', report', Reported(n)', Lo(n)', first' \div n,
                analyzer'.lastSeq, Newest')
      BY <1>1, <1>4, <1>6, <2>2, <2>3, <2>5, <2>6
    <2> QED BY <2>7, <2>8 DEF Simulated, n
  <1> QED BY <1>7, <1>8

LEMMA JudgedReceiveNext ==
  ASSUME Shape, AnalyzerOK, FramesOK, JudgedInv, NEW slot \in Slots, Receive(slot),
         FECTest, OneNumbering', arrived # {}
  PROVE  Near' /\ \A sim \in Sims : Simulated(sim)'
  <1> DEFINE p == analyzer.lastSeq
             m == Newest
  <1>1. /\ OneNumbering
        /\ slot \in 0..(SeqSpace - 1) /\ slot \in Nat /\ sent \in Nat /\ slot < sent
        /\ arrived' = arrived \cup {slot} /\ report' = report /\ first' = first
        /\ analyzer' = RecordPacket(analyzer, slot)
        /\ sent - slot <= Reach /\ slot - m < Reach /\ m - slot < Reach
        /\ Newest' = Farthest(m, slot) /\ m \in Nat /\ m < sent /\ m < SeqSpace
    BY Numbered DEF Shape, Slots, OneNumbering
  <1>2. /\ analyzer.hasSeq /\ p \in arrived /\ m - p < Reach /\ first \in arrived
        /\ \A sim \in Sims : Simulated(sim)
    BY <1>1 DEF JudgedInv, Near
  <1>3. /\ arrived \in SUBSET Nat /\ p \in Nat /\ p <= m /\ p \in 0..(SeqSpace - 1)
        /\ Reach \in Nat
    <2>1. p <= m
      BY <1>2 DEF Shape, NewestOK
    <2> QED BY <1>2, <2>1, Constants DEF Shape, AnalyzerOK
  <1>4. Gap(analyzer, slot) = GapFrom(p, slot)
    <2>1. slot - p <= MaxGap
      BY <1>1, <1>2, <1>3, StreamStatsAssumption, FECAnalyzerAssumption
    <2>2. p = SeqSpace - 1 => slot >= MaxGap
      BY <1>1, <1>3, StreamStatsAssumption, FECAnalyzerAssumption
    <2> QED BY <1>1, <1>2, <1>3, <2>1, <2>2, GapNear
  <1>5. /\ analyzer'.hasSeq /\ analyzer'.lastSeq = slot
        /\ \A sim \in Sims :
             analyzer'.sims[sim] =
               Recorded(sim, Skipped(sim, analyzer.sims[sim], GapFrom(p, slot)), slot, FALSE)
    BY <1>1, <1>4, AllRecorded
  <1> HIDE DEF p, m
  <1>6. Near'
    <2>1. Newest' - slot < Reach
      BY <1>1, <1>3 DEF Farthest
    <2> QED BY <1>1, <1>2, <1>5, <2>1 DEF Near
  <1>7. ASSUME NEW sim \in Sims PROVE Simulated(sim)'
    <2> DEFINE n == sim[2]
               id == slot \div n
               vf == analyzer.sims[sim]
               rep == Reported(n)
               lo == Lo(n)
               w == Recorded(sim, Skipped(sim, vf, GapFrom(p, slot)), slot, FALSE)
    <2>1. n \in Nat /\ 0 < n /\ History * n \in Nat /\ Reach <= History * n
      BY SimSizes, StreamStatsAssumption
    <2>2. /\ Fresh(sim, vf, rep, lo, m)
          /\ (\A s \in report : s >= first) =>
               Exact(sim, vf, arrived, report, rep, lo, first \div n, p, m)
      BY <1>2 DEF Simulated, p, m
    <2>3. /\ Min(arrived) \in Nat /\ Min(arrived) <= p
          /\ Min(arrived \cup {slot}) = Lowest(Min(arrived), slot)
      BY <1>1, <1>2, <1>3, MinOK, MinMore
    <2>4. lo \in Nat /\ lo <= p \div n
      BY <1>3, <2>1, <2>3, DivBounds, DivMono DEF Lo
    <2>5. Lo(n)' = Lowest(lo, id)
      BY <1>1, <2>1, <2>3, DivLowest DEF Lo
    <2>6. Reported(n)' = rep
      BY <1>1, SameReport
    <2>7. analyzer'.sims[sim] = w
      BY <1>5
    <2>8. m - p < History * n /\ m - slot < History * n
      <3> DEFINE x == History * n
      <3>1. x \in Nat /\ Reach <= x
        BY <2>1
      <3> HIDE DEF x
      <3>2. m - p < x /\ m - slot < x
        BY <1>1, <1>2, <1>3, <3>1
      <3> QED BY <3>2 DEF x
    <2> HIDE DEF vf, rep, lo
    <2>9. /\ Fresh(sim, w, rep, Lowest(lo, id), Farthest(m, slot))
          /\ Exact(sim, vf, arrived, report, rep, lo, first \div n, p, m) =>
               Exact(sim, w, arrived \cup {slot}, report, rep, Lowest(lo, id), first \div n,
                     slot, Farthest(m, slot))
      BY <1>1, <1>3, <2>2, <2>4, <2>8, PacketExact
    <2> HIDE DEF w, id, n
    <2>10. Fresh(sim, analyzer'.sims[sim], Reported(n)', Lo(n)', Newest')
      BY <1>1, <2>5, <2>6, <2>7, <2>9
    <2>11. ASSUME \A s \in report' : s >= first'
           PROVE  Exact(sim, analyzer'.sims[sim], arrived', report', Reported(n)', Lo(n)',
                        first' \div n, analyzer'.lastSeq, Newest')
      <3>1. Exact(sim, vf, arrived, report, rep, lo, first \div n, p, m)
        BY <1>1, <2>2, <2>11
      <3> QED BY <1>1, <1>5, <2>5, <2>6, <2>7, <2>9, <3>1
    <2> QED BY <2>10, <2>11 DEF Simulated, n
  <1> QED BY <1>6, <1>7
-----------------------------------------------------------------------------
(* What a report does to every simulation.                                   *)
LEMMA AllReported ==
  ASSUME AnalyzerOK, FECTest, analyzer' = DumpReport(analyzer)
  PROVE  /\ analyzer'.hasSeq = analyzer.hasSeq /\ analyzer'.lastSeq = analyzer.lastSeq
         /\ \A sim \in Sims :
              analyzer'.sims[sim] =
                Finalized(sim[1], analyzer.sims[sim], Unevaluated(analyzer.sims[sim]))
  <1> DEFINE new == [sim \in Sims |->
               Finalized(sim[1], analyzer.sims[sim], Unevaluated(analyzer.sims[sim]))]
  <1>1. analyzer' = [enabled |-> TRUE, hasSeq |-> analyzer.hasSeq,
                     lastSeq |-> analyzer.lastSeq, sims |-> new]
    BY DumpReportIs
  <1>2. \A sim \in Sims :
          new[sim] = Finalized(sim[1], analyzer.sims[sim], Unevaluated(analyzer.sims[sim]))
    OBVIOUS
  <1> HIDE DEF new
  <1>3. analyzer'.hasSeq = analyzer.hasSeq /\ analyzer'.lastSeq = analyzer.lastSeq
        /\ analyzer'.sims = new
    BY <1>1
  <1> QED BY <1>2, <1>3

LEMMA JudgedReport ==
  ASSUME Shape, AnalyzerOK, FramesOK, JudgedInv, Report, FECTest, OneNumbering'
  PROVE  /\ arrived' = {} =>
              ~analyzer'.hasSeq /\ \A sim \in Sims : Blank(sim, analyzer'.sims[sim])
         /\ arrived' # {} => Near' /\ \A sim \in Sims : Simulated(sim)'
  <1>1. /\ report = {} /\ analyzer' = DumpReport(analyzer) /\ report' = arrived
        /\ UNCHANGED <<base, arrived, first>>
    BY DEF Report
  <1>2. Newest' = Newest
    BY <1>1 DEF Newest
  <1>3. OneNumbering
    BY <1>1, <1>2 DEF OneNumbering
  <1>4. /\ analyzer'.hasSeq = analyzer.hasSeq /\ analyzer'.lastSeq = analyzer.lastSeq
        /\ \A sim \in Sims :
             analyzer'.sims[sim] =
               Finalized(sim[1], analyzer.sims[sim], Unevaluated(analyzer.sims[sim]))
    BY <1>1, AllReported
  <1>5. CASE arrived = {}
    <2>1. ~analyzer.hasSeq /\ \A sim \in Sims : Blank(sim, analyzer.sims[sim])
      BY <1>3, <1>5 DEF JudgedInv
    <2>2. ASSUME NEW sim \in Sims PROVE Blank(sim, analyzer'.sims[sim])
      BY <1>4, <2>1, BlankReported
    <2> QED BY <1>1, <1>4, <1>5, <2>1, <2>2
  <1>6. CASE arrived # {}
    <2>1. Near /\ \A sim \in Sims : Simulated(sim)
      BY <1>3, <1>6 DEF JudgedInv
    <2>2. Near'
      BY <1>1, <1>2, <1>4, <2>1 DEF Near
    <2>3. /\ arrived \in SUBSET Nat /\ Newest \in arrived /\ Newest \in Nat
          /\ \A s \in arrived : s <= Newest
      <3>1. Newest \in arrived \cup {-1} /\ \A s \in arrived : s <= Newest
        BY DEF Shape, NewestOK
      <3>2. arrived \in SUBSET Nat
        BY DEF Shape
      <3>3. PICK s \in arrived : s \in Nat /\ s <= Newest
        BY <1>6, <3>1, <3>2
      <3>4. Newest # -1
        BY <3>3
      <3> QED BY <3>1, <3>2, <3>4
    <2>4. Max(arrived) = Newest
      <3>1. arrived \in SUBSET Int
        BY <2>3
      <3> QED BY <2>3, <3>1, MaxIs
    <2>5. ASSUME NEW sim \in Sims PROVE Simulated(sim)'
      <3> DEFINE n == sim[2]
                 vf == analyzer.sims[sim]
                 lo == Lo(n)
                 m == Newest
                 rep == lo..(m \div n)
                 w == Finalized(sim[1], vf, Unevaluated(vf))
      <3>1. Reported(n) = {} /\ Reported(n)' = rep
        BY <1>1, <1>6, <2>4 DEF Reported, Lo
      <3>2. Lo(n)' = lo
        BY <1>1 DEF Lo
      <3>3. /\ Fresh(sim, vf, {}, lo, m)
            /\ Exact(sim, vf, arrived, {}, {}, lo, first \div n, analyzer.lastSeq, m)
        BY <1>1, <2>1, <3>1 DEF Simulated
      <3>4. analyzer'.sims[sim] = w
        BY <1>4
      <3>5. lo \in Nat /\ m \in Nat
        BY <1>6, <2>3, MinOK, SimSizes, DivBounds DEF Lo
      <3> HIDE DEF vf, lo, m
      <3>6. Fresh(sim, w, rep, lo, m)
        BY <3>3, <3>5, FreshReported
      <3>7. ASSUME \A s \in report' : s >= first'
            PROVE  Exact(sim, w, arrived, arrived, rep, lo, first \div n, analyzer.lastSeq, m)
        <4>1. first \in arrived /\ \A s \in arrived : first <= s
          BY <1>1, <2>1, <2>3, <3>7 DEF Near
        <4>2. Min(arrived) = first
          BY <2>3, <4>1, MinIs
        <4>3. first \div n = lo
          BY <4>2 DEF Lo, lo
        <4>4. Exact(sim, vf, arrived, {}, {}, lo, lo, analyzer.lastSeq, m)
          BY <3>3, <4>3
        <4>5. Exact(sim, w, arrived, arrived, rep, lo, lo, analyzer.lastSeq, m)
          BY <4>4, ExactReported
        <4> QED BY <4>3, <4>5
      <3>8. m = Newest'
        BY <1>2 DEF m
      <3> HIDE DEF w, rep, n
      <3>9. Fresh(sim, analyzer'.sims[sim], Reported(n)', Lo(n)', Newest')
        BY <3>1, <3>2, <3>4, <3>6, <3>8
      <3>10. ASSUME \A s \in report' : s >= first'
             PROVE  Exact(sim, analyzer'.sims[sim], arrived', report', Reported(n)', Lo(n)',
                          first' \div n, analyzer'.lastSeq, Newest')
        BY <1>1, <1>4, <3>1, <3>2, <3>4, <3>7, <3>8, <3>10
      <3> QED BY <3>9, <3>10 DEF Simulated, n
    <2> QED BY <1>1, <1>6, <2>2, <2>5
  <1> QED BY <1>5, <1>6

LEMMA JudgedNext ==
  ASSUME Shape, AnalyzerOK, FramesOK, JudgedInv, [Next]_vars
  PROVE  JudgedInv'
  <1> SUFFICES ASSUME FECTest, OneNumbering'
               PROVE  /\ arrived' = {} =>
                           ~analyzer'.hasSeq /\ \A sim \in Sims : Blank(sim, analyzer'.sims[sim])
                      /\ arrived' # {} => Near' /\ \A sim \in Sims : Simulated(sim)'
    BY DEF JudgedInv
  <1>1. ASSUME NEW slot \in Slots, Receive(slot)
        PROVE  arrived' # {} /\ Near' /\ \A sim \in Sims : Simulated(sim)'
    <2>1. arrived' # {}
      BY <1>1 DEF Receive
    <2>2. CASE arrived = {}
      BY <1>1, <2>1, <2>2, JudgedReceiveFirst
    <2>3. CASE arrived # {}
      BY <1>1, <2>1, <2>3, JudgedReceiveNext
    <2> QED BY <2>2, <2>3
  <1>2. CASE Report
    BY <1>2, JudgedReport
  <1>3. CASE Reconnect
    <2>1. base' = sent /\ sent > 0
      BY <1>3 DEF Reconnect
    <2> QED BY <2>1 DEF OneNumbering, Shape
  <1>4. CASE Send \/ UNCHANGED vars
    <2>1. UNCHANGED <<base, analyzer, arrived, first, report>>
      BY <1>4 DEF Send, vars, history
    <2>2. Newest' = Newest
      BY <2>1 DEF Newest
    <2>3. OneNumbering
      BY <2>1, <2>2 DEF OneNumbering
    <2>4. Near' = Near
      BY <2>1, <2>2 DEF Near
    <2>5. ASSUME NEW sim \in Sims PROVE Simulated(sim)' = Simulated(sim)
      <3>1. Reported(sim[2])' = Reported(sim[2]) /\ Lo(sim[2])' = Lo(sim[2])
        BY <2>1 DEF Reported, Lo
      <3> QED BY <2>1, <2>2, <3>1 DEF Simulated
    <2> QED BY <2>1, <2>3, <2>4, <2>5 DEF JudgedInv
  <1> QED BY <1>1, <1>2, <1>3, <1>4 DEF Next, Slots

(* The inductive invariant of the analyzer, with those it rests on.          *)
LEMMA AnalyzerInvariant ==
  Spec => [](Shape /\ WindowInv /\ AnalyzerOK /\ FramesOK /\ JudgedInv)
  <1>1. Shape /\ AnalyzerOK /\ FramesOK /\ JudgedInv /\ [Next]_vars
        => AnalyzerOK' /\ FramesOK' /\ JudgedInv'
    BY AnalyzerNext, FramesNext, JudgedNext
  <1> QED BY <1>1, InitOK, InitTypes, JudgedInit, NextOK, PTL DEF Spec

(* No group waits longer to be judged than the history                       *)
(* (VirtualFEC.cleanupOldGroups), and the groups that stay for good are those *)
(* of the report.                                                            *)
THEOREM HistoryIsBounded == Spec => []HistoryBounded
  <1>1. Shape /\ AnalyzerOK /\ JudgedInv => HistoryBounded
    <2> SUFFICES ASSUME Shape, AnalyzerOK, JudgedInv, OneNumbering, analyzer.enabled,
                        NEW sim \in Sims
                 PROVE  LET vf == analyzer.sims[sim]
                        IN /\ \A id \in Unevaluated(vf) : id + History >= Newest \div sim[2]
                           /\ DOMAIN vf.groups \ Unevaluated(vf) \subseteq Reported(sim[2])
      BY DEF HistoryBounded
    <2> DEFINE vf == analyzer.sims[sim]
    <2>1. FECTest
      BY DEF AnalyzerOK
    <2>2. CASE arrived = {}
      <3>1. Blank(sim, vf)
        BY <2>1, <2>2 DEF JudgedInv
      <3> HIDE DEF vf
      <3>2. DOMAIN vf.groups = {} /\ Unevaluated(vf) = {}
        BY <3>1 DEF Blank, Unevaluated
      <3> QED BY <3>2 DEF vf
    <2>3. CASE arrived # {}
      <3>1. Fresh(sim, vf, Reported(sim[2]), Lo(sim[2]), Newest)
        BY <2>1, <2>3 DEF JudgedInv, Simulated
      <3> HIDE DEF vf
      <3>2. /\ \A id \in Unevaluated(vf) : id + History >= Newest \div sim[2]
            /\ DOMAIN vf.groups \ Unevaluated(vf) \subseteq Reported(sim[2])
        BY <3>1 DEF Fresh, Unevaluated
      <3> QED BY <3>2 DEF vf
    <2> QED BY <2>2, <2>3
  <1> QED BY <1>1, AnalyzerInvariant, PTL
-----------------------------------------------------------------------------
(* What has been counted is what JudgedRight says it is.                     *)
LEMMA CountedIs ==
  ASSUME NEW sim \in Sims, NEW vf, NEW judged, IsFiniteSet(judged),
         NEW got, \A g \in judged : got[g] \in SUBSET (0..(sim[2] - 1)),
         Counted(sim[1], vf, got, judged)
  PROVE  LET k == sim[1]
             data == [g \in judged |-> Cardinality(got[g] \cap 0..(k - 1))]
             lost == {g \in judged : Cardinality(got[g]) < k}
         IN /\ vf.delivered = SumFunction(data)
            /\ vf.lost = SumFunction([g \in lost |-> k - data[g]])
            /\ vf.recovered = SumFunction([g \in judged \ lost |-> k - data[g]])
  <1> DEFINE k == sim[1]
             data == [g \in judged |-> Cardinality(got[g] \cap 0..(k - 1))]
             lost == {g \in judged : Cardinality(got[g]) < k}
             whole == judged \ lost
             zero == [g \in judged |-> 0]
             holes(gs) == [g \in gs |-> k - data[g]]
             saved == SavedOf(k, got, judged)
             gone == GoneOf(k, got, judged)
  <1>1. /\ \A g \in judged : data[g] \in Nat /\ data[g] = Worth(k, got[g]).delivered
        /\ \A g \in lost : gone[g] = k - data[g] /\ saved[g] = 0
        /\ \A g \in whole : gone[g] = 0 /\ saved[g] = k - data[g]
        /\ k \in Nat
    <2>1. k \in Nat /\ sim[2] \in Nat
      BY SimSizes
    <2>2. ASSUME NEW g \in judged
          PROVE  /\ data[g] \in Nat /\ data[g] = Worth(k, got[g]).delivered
                 /\ Cardinality(got[g]) < k => gone[g] = k - data[g] /\ saved[g] = 0
                 /\ ~(Cardinality(got[g]) < k) => gone[g] = 0 /\ saved[g] = k - data[g]
      <3> DEFINE r == got[g]
      <3>1. r \in SUBSET (0..(sim[2] - 1))
        OBVIOUS
      <3>2. Cardinality(r) \in Nat
        <4>1. 0 \in Int /\ sim[2] - 1 \in Int
          BY <2>1
        <4>2. IsFiniteSet(r)
          BY <3>1, <4>1, FS_Interval, FS_Subset
        <4> QED BY <4>2, FS_CardinalityType
      <3>3. data[g] = Cardinality(r \cap 0..(k - 1)) /\ saved[g] = Worth(k, r).recovered
            /\ gone[g] = Worth(k, r).lost
        BY DEF SavedOf, GoneOf
      <3> HIDE DEF r, data, saved, gone
      <3>4. /\ Worth(k, r).delivered \in Nat
            /\ Worth(k, r).delivered = Cardinality(r \cap 0..(k - 1))
            /\ Cardinality(r) >= k =>
                 Worth(k, r).recovered = k - Worth(k, r).delivered /\ Worth(k, r).lost = 0
            /\ Cardinality(r) < k =>
                 Worth(k, r).recovered = 0 /\ Worth(k, r).lost = k - Worth(k, r).delivered
        BY <2>1, <3>1, WorthType
      <3>5. ~(Cardinality(r) < k) => Cardinality(r) >= k
        BY <2>1, <3>2
      <3>6. data[g] = Worth(k, r).delivered
        BY <3>3, <3>4
      <3> QED BY <3>3, <3>4, <3>5, <3>6 DEF r
    <2> HIDE DEF data, saved, gone, k
    <2> QED BY <2>1, <2>2
  <1>2. /\ IsFiniteSet(lost) /\ IsFiniteSet(whole) /\ lost \cap whole = {}
        /\ judged = lost \cup whole
    BY FS_Subset
  <1>3. vf.delivered = SumFunction(data)
    <2>1. DeliveredOf(k, got, judged) = data
      <3> HIDE DEF k
      <3>1. \A g \in judged : data[g] = Worth(k, got[g]).delivered
        BY <1>1
      <3>2. data = [g \in judged |-> data[g]]
        OBVIOUS
      <3> HIDE DEF data
      <3> QED BY <3>1, <3>2 DEF DeliveredOf
    <2>2. DOMAIN data = judged
      OBVIOUS
    <2> HIDE DEF data
    <2>3. vf.delivered = Sum(data, judged)
      BY <2>1 DEF Counted
    <2> QED BY <2>2, <2>3 DEF SumFunction, Sum
  <1>4. DOMAIN holes(lost) = lost /\ DOMAIN holes(whole) = whole
        /\ (\A g \in lost : holes(lost)[g] = k - data[g])
        /\ (\A g \in whole : holes(whole)[g] = k - data[g])
        /\ \A g \in judged : zero[g] = 0
    OBVIOUS
  <1>5. vf.lost = Sum(gone, judged) /\ vf.recovered = Sum(saved, judged)
    BY DEF Counted
  <1> DEFINE holesLost == holes(lost)
             holesWhole == holes(whole)
  <1> HIDE DEF data, zero, holesLost, holesWhole, saved, gone, lost, whole, k
  <1>6. Sum(zero, lost) = 0 /\ Sum(zero, whole) = 0
    BY <1>2, <1>4, SumZero
  <1>7. /\ \A g \in lost : holesLost[g] \in Int /\ zero[g] \in Int
        /\ \A g \in whole : holesWhole[g] \in Int /\ zero[g] \in Int
    BY <1>1, <1>2, <1>4 DEF holesLost, holesWhole
  <1>8. Sum(holesLost, lost) \in Int /\ Sum(holesWhole, whole) \in Int
    BY <1>2, <1>7, SumUnfold
  <1>9. Sum(gone, judged) = Sum(holesLost, lost) + Sum(zero, whole)
    <2>1. /\ \A g \in lost : gone[g] = holesLost[g]
          /\ \A g \in whole : gone[g] = zero[g]
      BY <1>1, <1>2, <1>4 DEF holesLost
    <2> QED BY <1>2, <1>7, <2>1, SumJoin
  <1>10. Sum(saved, judged) = Sum(zero, lost) + Sum(holesWhole, whole)
    <2>1. /\ \A g \in lost : saved[g] = zero[g]
          /\ \A g \in whole : saved[g] = holesWhole[g]
      BY <1>1, <1>2, <1>4 DEF holesWhole
    <2> QED BY <1>2, <1>7, <2>1, SumJoin
  <1>11. vf.lost = SumFunction(holesLost)
    <2>1. DOMAIN holesLost = lost
      BY <1>4 DEF holesLost
    <2>2. vf.lost = Sum(holesLost, lost)
      BY <1>5, <1>6, <1>8, <1>9
    <2> QED BY <2>1, <2>2 DEF SumFunction, Sum
  <1>12. vf.recovered = SumFunction(holesWhole)
    <2>1. DOMAIN holesWhole = whole
      BY <1>4 DEF holesWhole
    <2>2. vf.recovered = Sum(holesWhole, whole)
      BY <1>5, <1>6, <1>8, <1>10
    <2> QED BY <2>1, <2>2 DEF SumFunction, Sum
  <1> QED BY <1>3, <1>11, <1>12 DEF data, lost, whole, holesLost, holesWhole, k
-----------------------------------------------------------------------------
(* The groups judged, and what came of them, in the terms of JudgedRight.    *)
LEMMA JudgedCounted ==
  ASSUME Shape, FramesOK, JudgedInv, FECTest, OneNumbering, \A s \in report : s >= first,
         NEW sim \in Sims
  PROVE  LET n == sim[2]
             judged == Aged(n) \cup Reported(n)
             got == [g \in judged |->
                       Came(IF g \in Reported(n) THEN report ELSE arrived, n, g)]
         IN /\ IsFiniteSet(judged)
            /\ \A g \in judged : got[g] \in SUBSET (0..(n - 1))
            /\ Counted(sim[1], analyzer.sims[sim], got, judged)
  <1> DEFINE n == sim[2]
             k == sim[1]
             vf == analyzer.sims[sim]
             rep == Reported(n)
             judged == Aged(n) \cup rep
             got == [g \in judged |-> Came(IF g \in rep THEN report ELSE arrived, n, g)]
  <1>1. n \in Nat /\ 0 < n /\ History \in Nat
    BY SimSizes
  <1>2. arrived \in SUBSET Nat /\ report \in SUBSET Nat
    BY DEF Shape, FramesOK
  <1>3. \A g \in judged : got[g] \in SUBSET (0..(n - 1))
    <2> SUFFICES ASSUME NEW g \in judged PROVE got[g] \in SUBSET (0..(n - 1))
      OBVIOUS
    <2>1. Came(arrived, n, g) \in SUBSET (0..(n - 1)) /\ Came(report, n, g) \in SUBSET (0..(n - 1))
      BY <1>1, <1>2, CameType
    <2> HIDE DEF judged, rep, n
    <2> QED BY <2>1
  <1>4. CASE arrived = {}
    <2>1. judged = {}
      BY <1>4 DEF FramesOK, Aged, Reported
    <2>2. Blank(sim, vf)
      BY <1>4 DEF JudgedInv
    <2> HIDE DEF judged, got, vf
    <2>3. IsFiniteSet(judged)
      BY <2>1, FS_EmptySet
    <2>4. Sum(DeliveredOf(k, got, judged), judged) = 0 /\ Sum(SavedOf(k, got, judged), judged) = 0
          /\ Sum(GoneOf(k, got, judged), judged) = 0
      BY <2>1, <2>3, SumZero
    <2>5. Counted(k, vf, got, judged)
      BY <2>2, <2>4 DEF Counted, Blank
    <2> QED BY <1>3, <2>3, <2>5 DEF judged, got, vf
  <1>5. CASE arrived # {}
    <2> DEFINE top == Newest \div n
               lo == Lo(n)
    <2>1. Exact(sim, vf, arrived, report, rep, lo, first \div n, analyzer.lastSeq, Newest)
      BY <1>5 DEF JudgedInv, Simulated
    <2> HIDE DEF vf
    <2>2. judged = JudgedIn(rep, lo, top)
      BY <1>5 DEF Aged, JudgedIn, Lo
    <2>3. Counted(k, vf, Got(n, arrived, report, rep, judged), judged)
      BY <2>1, <2>2 DEF Exact
    <2>4. Got(n, arrived, report, rep, judged) = got
      <3> HIDE DEF rep, judged
      <3>1. \A g \in judged : (IF g \in rep THEN Came(report, n, g) ELSE Came(arrived, n, g))
                              = Came(IF g \in rep THEN report ELSE arrived, n, g)
        OBVIOUS
      <3> QED BY <3>1 DEF Got
    <2>5. /\ Newest \in Nat /\ lo \in Nat /\ first \div n \in Nat
          /\ rep \in SUBSET ((first \div n)..top)
      BY <2>1 DEF Exact, Span
    <2>6. top \in Nat
      BY <1>1, <2>5, DivBounds
    <2>7. IsFiniteSet(judged)
      <3> HIDE DEF rep, top, lo
      <3> DEFINE y == top - History - 1
                 x == first \div n
      <3>1. y \in Int /\ x \in Int /\ lo \in Int /\ top \in Int
        BY <1>1, <2>5, <2>6
      <3>2. rep \in SUBSET (x..top) /\ JudgedIn(rep, lo, top) = (lo..y) \cup rep
        BY <2>5 DEF JudgedIn
      <3> HIDE DEF x, y, judged
      <3>3. IsFiniteSet(lo..y) /\ IsFiniteSet(x..top)
        BY <3>1, FS_Interval
      <3>4. IsFiniteSet((lo..y) \cup rep)
        BY <3>2, <3>3, FS_Subset, FS_Union
      <3> QED BY <2>2, <3>2, <3>4
    <2> HIDE DEF judged, got
    <2>8. Counted(k, vf, got, judged)
      BY <2>3, <2>4
    <2> QED BY <1>3, <2>7, <2>8 DEF judged, got, vf
  <1> QED BY <1>4, <1>5

(* Exact says what JudgedRight says.                                         *)
LEMMA RightWhenJudged ==
  Shape /\ AnalyzerOK /\ FramesOK /\ JudgedInv => JudgedRight
  <1> SUFFICES ASSUME Shape, AnalyzerOK, FramesOK, JudgedInv, OneNumbering,
                      analyzer.enabled, \A s \in report : s >= first, NEW sim \in Sims
               PROVE  LET n      == sim[2]
                          G(g)   == {s % n : s \in {t \in IF g \in Reported(n) THEN report
                                                          ELSE arrived : t \div n = g}}
                          Data(g) == G(g) \cap 0..(sim[1] - 1)
                          judged == Aged(n) \cup Reported(n)
                          lost   == {g \in judged : Cardinality(G(g)) < sim[1]}
                          Holes(gs) == SumFunction([g \in gs |-> sim[1] - Cardinality(Data(g))])
                          vf == analyzer.sims[sim]
                      IN /\ vf.delivered = SumFunction([g \in judged |-> Cardinality(Data(g))])
                         /\ vf.lost = Holes(lost)
                         /\ vf.recovered = Holes(judged \ lost)
    BY DEF JudgedRight
  <1> DEFINE n == sim[2]
             k == sim[1]
             vf == analyzer.sims[sim]
             judged == Aged(n) \cup Reported(n)
             G(g) == Came(IF g \in Reported(n) THEN report ELSE arrived, n, g)
             got == [g \in judged |-> G(g)]
             data == [g \in judged |-> Cardinality(got[g] \cap 0..(k - 1))]
             Size(g) == Cardinality(G(g) \cap 0..(k - 1))
             lost == {g \in judged : Cardinality(got[g]) < k}
  <1>1. FECTest
    BY DEF AnalyzerOK
  <1>2. /\ IsFiniteSet(judged) /\ \A g \in judged : got[g] \in SUBSET (0..(n - 1))
        /\ Counted(k, vf, got, judged)
    BY <1>1, JudgedCounted
  <1>3. \A g \in judged : got[g] = G(g)
    OBVIOUS
  <1> HIDE DEF judged, got, vf, G
  <1>4. /\ vf.delivered = SumFunction(data)
        /\ vf.lost = SumFunction([g \in lost |-> k - data[g]])
        /\ vf.recovered = SumFunction([g \in judged \ lost |-> k - data[g]])
    BY <1>2, CountedIs
  <1>5. data = [g \in judged |-> Size(g)]
    BY <1>3
  <1>6. lost = {g \in judged : Cardinality(G(g)) < k}
    BY <1>3
  <1>7. [g \in lost |-> k - data[g]] = [g \in lost |-> k - Size(g)]
        /\ [g \in judged \ lost |-> k - data[g]] = [g \in judged \ lost |-> k - Size(g)]
    <2>1. \A g \in judged : data[g] = Size(g)
      BY <1>3
    <2>2. lost \subseteq judged
      OBVIOUS
    <2> HIDE DEF data, Size, lost
    <2> QED BY <2>1, <2>2
  <1> HIDE DEF data, lost
  <1>8. /\ vf.delivered = SumFunction([g \in judged |-> Size(g)])
        /\ vf.lost = SumFunction([g \in lost |-> k - Size(g)])
        /\ vf.recovered = SumFunction([g \in judged \ lost |-> k - Size(g)])
    BY <1>4, <1>5, <1>7
  <1> QED BY <1>6, <1>8 DEF judged, vf, G, Came

(* What a simulation reports is what FEC of its size would have made of the  *)
(* frames that came (VirtualFEC, internal/fec/analyzer.go): each group is    *)
(* judged once, by exactly its frames.                                       *)
THEOREM JudgedAright == Spec => []JudgedRight
  BY AnalyzerInvariant, RightWhenJudged, PTL
=============================================================================
