------------------------------ MODULE FECPath ------------------------------
(* The FEC stream from the sender to the multicast group behind the          *)
(* receiver: for each session the framed stream that SessionWorker           *)
(* implements, one after the other in the slots of FramedStream; a network   *)
(* that loses, delays, reorders and repeats datagrams;                       *)
(* and the receiver's FECManager.  The sender's group number wraps after     *)
(* GroupCount generations while the receiver may still hold a group of that  *)
(* number; whether it can is a matter of time, so frames and groups age.     *)
(* When the receiver registers (again), the sender's new worker starts at    *)
(* group 0 at once, before the receiver has the answer; then the receiver    *)
(* publishes the key and, after it, a new manager, while frames of the old   *)
(* session still arrive.  In plain text nothing tells the sessions apart.    *)
EXTENDS FramedStream, FiniteSets, FiniteSetsExt, Sequences

CONSTANTS K, N, None,
          EncryptionModes, \* the values cfg.Encryption.Enabled may have
          GroupCount,      \* 2048 in the code
          GroupTimeout,    \* ticks until a group is stale
          MaxDelay,        \* ticks a frame can spend in the network
          MaxRepeats,      \* bound: frames the network delivers again
          Paced,           \* within a session no group number returns before its
                           \* old frames and groups are gone; see MaySend
          MaxSessions,     \* bound: sessions
          MaxSlots         \* bound: slots of the stream

ASSUME FECPathAssumption ==
  /\ K \in Nat \ {0} /\ N \in Nat /\ K < N /\ N <= 16
  /\ None \notin (1..MaxSessions) \X (0..(MaxSlots - 1))
  /\ EncryptionModes \subseteq BOOLEAN
  /\ GroupCount \in Nat \ {0} /\ GroupTimeout \in Nat /\ MaxDelay \in Nat
  /\ MaxSessions \in Nat \ {0} /\ MaxSlots \in Nat
  /\ MaxRepeats \in Nat /\ Paced \in BOOLEAN

VARIABLES encrypted,  \* cfg.Encryption.Enabled
          starts,     \* the sender's sessions so far: the first slot of each
          network,    \* the frames on their way, each with its age
          repeats,    \* how many of them it has delivered and kept
          quiet,      \* per group number, ticks since the newest session has
                      \* sent a frame in it
          key,        \* the session whose key the receiver has (globalAEAD), or 0
          installed,  \* the session fecManager was made for, or 0: there is none
          enabled, groups, forwarded,  \* see FECManager
          received,   \* history: the slots that came to the manager of their session
          late,       \* history: those that came a groupTimeout after the first of
                      \* their generation
          since,      \* history: per group number, ticks since that first one
          strangers,  \* history: group number and index of frames of another
                      \* session that came to this manager
          undecrypted, \* history: what was forwarded for want of a key
          mixed       \* history: garbage forwarded, in plain text, from a group
                      \* number where a frame of another session had come

Slots == 0..(MaxSlots - 1)
GroupNums == 0..(GroupCount - 1)

SessionOf(s) == Max({e \in DOMAIN starts : starts[e] <= s})

(* A slot's place among those of its session. *)
Place(s) == s - starts[SessionOf(s)]

Generation(s) == <<SessionOf(s), Place(s) \div N>>
GroupNum(s) == (Place(s) \div N) % GroupCount

(* The frame in a slot: what sessionWorker puts into FECInfo, decoded. *)
FrameOf(s) == [isFEC |-> Place(s) % N >= K, group |-> GroupNum(s),
               index |-> Place(s) % N, gen |-> Generation(s)]

Generations == (1..MaxSessions) \X Slots

Manager == INSTANCE FECManager WITH
  Modes <- {TRUE},
  Encrypted <- FALSE,   \* Refused says what is refused
  Gens <- Generations,
  Frames <- [isFEC : BOOLEAN, group : GroupNums, index : 0..(N - 1), gen : Generations],
  arrived <- {}         \* received says more

managerVars == <<enabled, groups, forwarded>>
senderVars == <<streamVars, starts, quiet>>
networkVars == <<network, repeats>>
history == <<received, late, since, strangers, undecrypted, mixed>>
vars == <<encrypted, senderVars, networkVars, key, installed, managerVars, history>>

(* After this long nothing of a group is left anywhere. *)
Settled == MaxDelay + GroupTimeout + 1

(* The receiver has registered for the first time; it does not know it yet. *)
Init ==
  /\ StreamInit
  /\ encrypted \in EncryptionModes
  /\ starts = <<0>>
  /\ network = {} /\ repeats = 0
  /\ quiet = [n \in GroupNums |-> Settled]
  /\ key = 0 /\ installed = 0
  /\ Manager!Init
  /\ received = {} /\ late = {} /\ strangers = {}
  /\ undecrypted = {} /\ mixed = {}
  /\ since = [n \in GroupNums |-> GroupTimeout + 1]
-----------------------------------------------------------------------------
(* A paced sender starts a new generation only in a group number that is     *)
(* settled as far as its session goes.                                       *)
MaySend(s) ==
  (Paced /\ Place(s) % N = 0) => quiet[GroupNum(s)] = Settled

(* The worker offers the next slot.  A frame that the write or the network   *)
(* loses never gets onto the wire.                                           *)
Send ==
  /\ nextSlot \in Slots
  /\ MaySend(nextSlot)
  /\ Offer
  /\ network' = network \cup {[slot |-> s, age |-> 0] : s \in onWire' \ onWire}
  /\ quiet' = [quiet EXCEPT ![GroupNum(nextSlot)] = 0]
  /\ UNCHANGED <<encrypted, starts, repeats, key, installed, managerVars, history>>

(* The receiver registers again, because it has lost its session or because  *)
(* the answer was lost, and AddSession starts a worker.  It waits for        *)
(* nothing: whatever the old one has sent is still on its way.               *)
Register ==
  /\ Len(starts) < MaxSessions
  /\ installed = key
  /\ starts' = Append(starts, nextSlot)
  /\ quiet' = [n \in GroupNums |-> Settled]
  /\ UNCHANGED <<encrypted, streamVars, networkVars, key, installed, managerVars, history>>

(* The reconnect loop has the answer: first the key ... *)
PublishKey ==
  /\ key < Len(starts)
  /\ key' = Len(starts)
  /\ UNCHANGED <<encrypted, senderVars, networkVars, installed, managerVars, history>>

(* ... then a new, empty manager. *)
NewManager ==
  /\ installed < key
  /\ installed' = key
  /\ received' = {} /\ late' = {} /\ strangers' = {}
  /\ since' = [n \in GroupNums |-> GroupTimeout + 1]
  /\ UNCHANGED <<encrypted, senderVars, networkVars, key, enabled, forwarded, undecrypted,
                 mixed>>

InstallManagerMutant == NewManager /\ UNCHANGED groups

InstallManager ==
  /\ NewManager
  /\ groups' = [n \in GroupNums |-> Manager!NoGroup]

(* What does not decrypt with the receiver's key. *)
Refused ==
  IF encrypted THEN {p \in Manager!Packets : p.gen = None \/ p.gen[1] # key} ELSE {}

(* Without a manager, data is forwarded and parity ignored; without a key,   *)
(* nothing is decrypted.                                                     *)
Undecrypted(f) ==
  IF encrypted /\ key = 0 THEN {Manager!Packet(None, p.index) : p \in Manager!Passed(f)}
  ELSE {}

NoManager(f) ==
  /\ undecrypted' = undecrypted \cup Undecrypted(f)
  /\ forwarded' = forwarded \cup
       (IF Undecrypted(f) # {} THEN Undecrypted(f) ELSE Manager!Passed(f) \ Refused)
  /\ UNCHANGED <<enabled, groups>>

(* What the history records of a frame: the manager of its own session gets  *)
(* it, or that of another.  In plain text garbage may come of the latter.    *)
Recorded(s) ==
  LET n == GroupNum(s)
      own == installed = SessionOf(s) /\ key = installed
      first == \A t \in received : Generation(t) # Generation(s)
  IN /\ received' = IF own THEN received \cup {s} ELSE received
     /\ since' = IF own /\ first THEN [since EXCEPT ![n] = 0] ELSE since
     /\ late' = IF own /\ s \notin received /\ ~first /\ since[n] > GroupTimeout
                THEN late \cup {s} ELSE late
     /\ strangers' = IF installed \in {0, SessionOf(s)} THEN strangers
                     ELSE strangers \cup {<<n, Place(s) % N>>}
     /\ mixed' = IF ~encrypted /\ \E x \in strangers' : x[1] = n
                 THEN mixed \cup Manager!Garbage(forwarded' \ forwarded) ELSE mixed

(* runRecvNormal reads a frame, in any order. *)
Deliver(d) ==
  /\ d \in network
  /\ \/ network' = network \ {d} /\ UNCHANGED repeats
     \/ repeats < MaxRepeats /\ repeats' = repeats + 1 /\ UNCHANGED network
  /\ IF installed = 0 THEN NoManager(FrameOf(d.slot))
     ELSE Manager!Process(FrameOf(d.slot), Refused) /\ UNCHANGED undecrypted
  /\ Recorded(d.slot)
  /\ UNCHANGED <<encrypted, senderVars, key, installed>>

CleanUpTimeouts ==
  /\ Manager!CleanUpTimeouts
  /\ UNCHANGED <<encrypted, senderVars, networkVars, key, installed, history>>

(* Time passes; a frame that got onto the wire arrives within MaxDelay. *)
Tick ==
  /\ \A d \in network : d.age < MaxDelay
  /\ network' = {[d EXCEPT !.age = @ + 1] : d \in network}
  /\ quiet' = [n \in GroupNums |-> Min({quiet[n] + 1, Settled})]
  /\ since' = [n \in GroupNums |-> Min({since[n] + 1, GroupTimeout + 1})]
  /\ Manager!Tick
  /\ UNCHANGED <<encrypted, streamVars, starts, repeats, key, installed,
                 received, late, strangers, undecrypted, mixed>>

Next ==
  \/ Send
  \/ Register \/ PublishKey \/ InstallManager
  \/ \E d \in network : Deliver(d)
  \/ CleanUpTimeouts \/ Tick

Spec == Init /\ [][Next]_vars
-----------------------------------------------------------------------------
(* The shape of the state; the receiver is never ahead of the sender, nor    *)
(* its manager of its key.                                                   *)
TypeOK ==
  /\ encrypted \in EncryptionModes
  /\ nextSlot \in 0..MaxSlots
  /\ Len(starts) \in 1..MaxSessions
  /\ key \in 0..Len(starts) /\ installed \in 0..key
  /\ onWire \subseteq Slots /\ late \subseteq received /\ received \subseteq onWire
  /\ network \subseteq [slot : onWire, age : 0..MaxDelay] /\ repeats \in 0..MaxRepeats
  /\ quiet \in [GroupNums -> 0..Settled]
  /\ since \in [GroupNums -> 0..(GroupTimeout + 1)]
  /\ Manager!TypeOK

PacketOf(s) == Manager!Packet(Generation(s), Place(s) % N)
DataOf(q) == {Manager!Packet(q, i) : i \in 0..(K - 1)}

Sent == {PacketOf(s) : s \in {t \in 0..(nextSlot - 1) : Place(t) % N < K}}

(* What reaches the multicast group is what was broadcast: a rebuilt packet  *)
(* is the one that was lost, never a mixture of two generations ("Delete and *)
(* recreate to prevent new packets from mixing with stale legacy state").    *)
(* Two exceptions remain: what arrives before the receiver's first key is    *)
(* forwarded as it is, encrypted; and in plain text, at a reconnection, the  *)
(* shards of two sessions can meet in one group, and what the decoder makes  *)
(* of them is forwarded as if it were data.                                  *)
Genuine == forwarded \subseteq Sent \cup undecrypted \cup mixed

(* No data packet that comes to the manager of its session (AddPacket,       *)
(* internal/fec/fec.go) is swallowed, unless a frame of another session has  *)
(* come to that manager with its group number and index.                     *)
DataForwarded ==
  \A s \in received :
    \/ Place(s) % N >= K
    \/ PacketOf(s) \in forwarded
    \/ <<GroupNum(s), Place(s) % N>> \in strangers

(* FEC keeps its promise, from end to end: if K frames of a generation come  *)
(* in time, whichever, in whatever order and with whatever repeated, all its *)
(* data is forwarded, unless frames of another session came with its number. *)
LostRecovered ==
  \A s \in received :
    \/ Cardinality({t \in received \ late : Generation(t) = Generation(s)}) < K
    \/ DataOf(Generation(s)) \subseteq forwarded
    \/ \E i \in 0..(N - 1) : <<GroupNum(s), i>> \in strangers

(* A group that expires with missing packets is reported as "Permanent loss  *)
(* of n packets" [303]: packets of its generation that were never forwarded. *)
LossReportsTrue ==
  [][\A n \in GroupNums :
       LET g == groups[n]
       IN (/\ g # Manager!NoGroup /\ Manager!Stale(g) /\ groups'[n] # g
           /\ Manager!Missing(g) # {} /\ Manager!Received(g) # {})
          => \E i \in Manager!Missing(g), j \in Manager!Received(g) :
               Manager!Packet(g.packets[j], i) \notin forwarded]_vars
=============================================================================
