----------------------------- MODULE FECManager -----------------------------
(* The receiver's FECManager (internal/fec/fec.go) and the end of            *)
(* runRecvNormal's loop that forwards what AddPacket releases.  Frames may   *)
(* arrive in any order and any number of times: what the network and a       *)
(* particular sender can produce is FECPath's business.  A shard is named by *)
(* the generation of packets it was computed from; its bytes are not         *)
(* modelled.  Reed-Solomon (external): any K shards of one generation give   *)
(* back its K data packets; K shards that mix generations give garbage.      *)
EXTENDS Integers, FiniteSets

CONSTANTS Modes,         \* the values m.enabled may have been given
          Encrypted,     \* forwarding authenticates each packet
          K, N,
          GroupNums,     \* the group numbers in use
          Gens,          \* the generations in use
          None,          \* no generation: an empty shard, or garbage
          Frames,        \* what may arrive
          GroupTimeout   \* groupTimeout, in ticks

DataIdx == 0..(K - 1)
AllIdx == 0..(N - 1)
AnyIdx == 0..15   \* what the header can carry

ASSUME FECManagerAssumption ==
  /\ Modes \subseteq BOOLEAN /\ Encrypted \in BOOLEAN
  /\ K \in Nat \ {0} /\ N \in Nat /\ K < N /\ N <= 16   \* registerWithSender refuses more
  /\ None \notin Gens
  /\ Frames \subseteq [isFEC : BOOLEAN, group : GroupNums, index : AnyIdx, gen : Gens]
  /\ GroupTimeout \in Nat

VARIABLES enabled,    \* m.enabled: cfg.FEC.Enabled, and k, n from the sender are usable
          groups,     \* m.groups: per number a GroupState or NoGroup
          arrived,    \* history: the data packets AddPacket was given
          forwarded   \* history: the packets given to the multicast write

history == <<arrived, forwarded>>
vars == <<enabled, groups, history>>

NoGroup == [packets |-> <<>>, sent |-> {}, age |-> 0]

NewGroup == [packets |-> [i \in AllIdx |-> None], sent |-> {}, age |-> 0]

Received(g) == {i \in AllIdx : g.packets[i] # None}
Missing(g) == DataIdx \ g.sent

(* The group is older than groupTimeout. *)
StaleMutant(g) == FALSE

Stale(g) == g.age > GroupTimeout

Packet(q, i) == [gen |-> q, index |-> i]

Init ==
  /\ enabled \in Modes
  /\ groups = [n \in GroupNums |-> NoGroup]
  /\ arrived = {}
  /\ forwarded = {}
-----------------------------------------------------------------------------
(* The loop over packetsToRelease.  Decryption refuses some packets; the     *)
(* length check may or may not stop garbage.  Payloads are not empty (an     *)
(* empty one is not sent), and whether the write succeeds makes no           *)
(* difference to what follows.                                               *)
Garbage(out) == {p \in out : p.gen = None}

ForwardMutant(out, refused) == forwarded' = forwarded \cup out

Forward(out, refused) ==
  \E dropped \in SUBSET Garbage(out) :
    forwarded' = forwarded \cup ((out \ dropped) \ refused)

(* With encryption garbage does not authenticate. *)
Unauthentic == IF Encrypted THEN [gen : {None}, index : AnyIdx] ELSE {}

(* The three checks on the index. *)
Valid(f) == f.index \in AllIdx /\ (f.isFEC <=> f.index >= K)

(* The state the packet is added to: the one in the map unless there is none *)
(* or it is a leftover of an earlier generation.                             *)
CurrentMutant(n) == IF groups[n] = NoGroup THEN NewGroup ELSE groups[n]

Current(n) ==
  IF groups[n] = NoGroup \/ Stale(groups[n]) THEN NewGroup ELSE groups[n]

(* The packet is buffered, and a data packet counts as sent. *)
BufferedMutant(g, f) ==
  [g EXCEPT !.packets[f.index] = f.gen, !.sent = @ \cup {f.index}]

Buffered(g, f) ==
  [g EXCEPT !.packets[f.index] = f.gen,
            !.sent = IF f.isFEC THEN @ ELSE @ \cup {f.index}]

EnoughMutant(g) == Cardinality(Received(g)) > K

Enough(g) == Cardinality(Received(g)) >= K

(* The decoder works from the first K shards it finds. *)
Used(g) == {i \in Received(g) : Cardinality({j \in Received(g) : j < i}) < K}

Rebuilt(g, i) ==
  LET gens == {g.packets[j] : j \in Used(g)}
  IN Packet(IF Cardinality(gens) = 1 THEN CHOOSE q \in gens : TRUE ELSE None, i)

RecoveredMutant(g) == {}

Recovered(g) == IF Enough(g) THEN {Rebuilt(g, i) : i \in Missing(g)} ELSE {}

Passed(f) == IF f.isFEC THEN {} ELSE {Packet(f.gen, f.index)}

(* A group all of whose data packets have been sent leaves the map. *)
Kept(g) == IF Missing(g) = {} \/ Enough(g) THEN NoGroup ELSE g

Store(n, g) == groups' = [groups EXCEPT ![n] = g]

(* A disabled manager releases every packet as it is, parity included. *)
PassThrough(f, refused) ==
  /\ Forward({IF f.isFEC THEN Packet(None, f.index) ELSE Packet(f.gen, f.index)}, refused)
  /\ UNCHANGED groups

(* AddPacket, and the loop over what it releases. *)
Process(f, refused) ==
  LET g == Current(f.group)
      b == Buffered(g, f)
  IN /\ UNCHANGED enabled
     /\ IF ~enabled THEN PassThrough(f, refused)
        ELSE IF Valid(f) /\ f.index \notin Received(g)
        THEN Store(f.group, Kept(b)) /\ Forward(Passed(f) \cup Recovered(b), refused)
        ELSE Store(f.group, g) /\ UNCHANGED forwarded

AddPacket(f) ==
  /\ Process(f, Unauthentic)
  /\ arrived' = arrived \cup Passed(f)

(* The ticker of each session calls CleanUpTimeouts. *)
CleanUpTimeoutsMutant == UNCHANGED vars

CleanUpTimeouts ==
  /\ enabled
  /\ groups' = [n \in GroupNums |-> IF Stale(groups[n]) THEN NoGroup ELSE groups[n]]
  /\ UNCHANGED <<enabled, history>>

(* Time passes; beyond the timeout it makes no difference any more. *)
Older(g) == IF g = NoGroup \/ Stale(g) THEN g ELSE [g EXCEPT !.age = @ + 1]

Tick ==
  /\ groups' = [n \in GroupNums |-> Older(groups[n])]
  /\ UNCHANGED <<enabled, history>>

Next == (\E f \in Frames : AddPacket(f)) \/ CleanUpTimeouts \/ Tick

Spec == Init /\ [][Next]_vars

(* Time passes and the ticker fires; nothing is assumed of arrivals. *)
FairSpec == Spec /\ WF_vars(CleanUpTimeouts) /\ WF_vars(Tick)
-----------------------------------------------------------------------------
GroupState == [packets : [AllIdx -> Gens \cup {None}], sent : SUBSET DataIdx,
               age : 0..(GroupTimeout + 1)]

Packets == [gen : Gens \cup {None}, index : AnyIdx]

(* The shape of the state. *)
TypeOK ==
  /\ enabled \in BOOLEAN
  /\ groups \in [GroupNums -> GroupState \cup {NoGroup}]
  /\ arrived \in SUBSET Packets
  /\ forwarded \in SUBSET Packets

(* Recovery is never put off: the manager keeps a group only while it has    *)
(* too few shards to rebuild it, so no packet it could rebuild is waiting,   *)
(* and its record of what it has sent is exactly the data it has received.   *)
RetainedIncomplete ==
  \A n \in GroupNums : groups[n] # NoGroup =>
    /\ Cardinality(Received(groups[n])) < K
    /\ groups[n].sent = Received(groups[n]) \cap DataIdx

(* A group leaves the map before its time only when every data packet of     *)
(* its generation has been forwarded (if nothing of another one got in).     *)
EarlyExitIsComplete ==
  [][\A n \in GroupNums, q \in Gens :
       LET g == groups[n]
       IN (/\ g # NoGroup /\ ~Stale(g) /\ groups'[n] = NoGroup
           /\ \A i \in Received(g) : g.packets[i] = q
           /\ \E f \in Frames : f.group = n /\ f.gen = q /\ AddPacket(f))
          => \A i \in DataIdx : Packet(q, i) \in forwarded']_vars

(* No garbage state stays behind: every group leaves the map or is replaced. *)
GroupsExpire ==
  \A n \in GroupNums :
    (groups[n] # NoGroup) ~> (groups[n] = NoGroup \/ groups[n].age = 0)

(* With FEC off at the receiver only, a disabled manager hides nothing and   *)
(* lets no parity through as data, as long as packets are authenticated:     *)
(* "If FEC is disabled, ignore redundant packets" rests on that, because the *)
(* branch that says so is never taken.                                       *)
DisabledIsTransparent ==
  ~enabled => arrived \subseteq forwarded /\ (Encrypted => Garbage(forwarded) = {})
=============================================================================
