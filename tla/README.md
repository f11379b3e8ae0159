# Multicast Bridge in TLA+

Multicast Bridge carries a multicast stream across a unicast network. A
*sender* joins a multicast group and copies every packet to each registered
*receiver*; a receiver sends what arrives to a multicast group of its own.
Forward error correction (FEC, Reed-Solomon) and encryption are optional. This
directory holds a model of the program in TLA+, the TLC runs that check it on
small instances, and proofs that hold for all values of the constants.

Paths below are relative to `src/`. `PROJECT.json` maps each definition of the
modules to the source lines it stands for.

## 1. The system

| Component | Source | State | Operations |
|---|---|---|---|
| Packet queue | `internal/data/queue.go` | packets, `maxSize`, `closed`, `droppedCount`, a condition variable | `Enqueue` (drops the oldest at the limit), `Dequeue` (blocks), `Close` |
| Session manager | `internal/data/session.go` | map of sessions, its mutex, a context | `AddSession`, `RemoveSession`, `RemoveSessionByControlAddr`, `UpdateLastActiveByControlAddr`, `CheckTimeouts`, `Broadcast`, `CloseAll` |
| Session worker | `session.go:286-474` | group buffer, group number, `SeqNum` | one goroutine per session: dequeue, encrypt, frame, write, parity |
| FEC manager | `internal/fec/fec.go` | the receiver's groups: shards, what was released, age | `AddPacket`, `CleanUpTimeouts` |
| Header | `internal/data/header.go` | none | the 16-bit `FECInfo` field: parity flag, group number, index |
| Control plane, sender | `cmd/send.go:422-688` | `pendingAuths`, `lastRegisterTime`, the sessions | REGISTER, AUTH_RESPONSE, KEEPALIVE, LEAVE; the timeout monitor |
| Control plane, receiver | `cmd/recv.go:491-641, 803-1001` | control socket, session key, `triggerReconnect` | reconnect loop, `registerWithSender`, `keepAliveLoop`, `listenForDisconnect`, `CleanUpRecv` |
| Loss statistics | `cmd/recv.go:24-149`, `internal/logger/stats.go` | last number, 64-bit window, counters | `StreamStats.Update`, `ReceiverStats.AddPacket` |
| FEC analyzer | `internal/fec/analyzer.go` | virtual groups of four parameter pairs, each with its counters | `RecordPacket`, `DumpReport`; on with `fec.test` |
| Configuration | `internal/config/config.go` | none | defaults, `Load...Config`, `Validate` |
| Sender statistics | `internal/logger/stats.go` | the listed sessions, figures | `SessionJoined`, `SessionTimeout`, ... |
| The rest | crypto, codec, sockets, logging, PID file, loopback modes | - | see section 7 |

How they interact:

    multicast -> Broadcast -> PacketQueue -> sessionWorker ==UDP==> runRecvNormal
                    |            (one each per session)               |        |
             SessionManager                                     FECManager   loss statistics,
                    ^                                                 |      FEC analyzer
     handleControlPackets <==UDP==> reconnect loop               multicast

- `Broadcast`, the control goroutine, the timeout monitor and shutdown call the
  session manager from four goroutines; each worker shares its queue with
  `Broadcast` and with whoever removes its session.
- The control goroutine decides by control address, the session map is keyed by
  data address.
- At the receiver the reconnect loop, two goroutines per session, the forwarding
  loop and the signal handler share the control socket and `triggerReconnect`.
- The reconnect loop gives the forwarding loop the session's key and, a few lines
  later, a new FEC manager; the statistics and the analyzer are not told.

What is hard, and what makes each part correct:

- **Queue**: wake-ups, eviction at the limit, Close against blocked consumers.
  It must hold the newest run of packets, deliver in order, count drops
  exactly, lose no wake-up.
- **Session manager**: several ways to take one session down, the lock released
  between two steps, shutdown from two goroutines. The limit holds, every session
  is closed, no worker goes on draining a queue or waits for ever, nothing is
  added after shutdown.
- **Worker**: failed encryption and writes, full groups, wraps of `SeqNum` and of
  the group number. Parity belongs to the packets it claims.
- **FEC manager**: loss, reordering, duplicates, reuse of group numbers. Recovery
  happens as soon as it can, invents nothing, swallows nothing.
- **Control plane**: lost, late and reordered datagrams, retries on the same and
  on new ports, restarts, tokens left in a channel. Both ends agree on the key;
  a receiver that lost its session gets one; the sender forgets dead receivers.
- **Reconnection**: frames of the old session meet the new key or manager, frames
  of the new session the old ones. With encryption nothing is mixed; nothing that
  arrives at the manager of its session is lost, and what FEC can recover is recovered.
- **Statistics**: reordering, gaps beyond the window, wraps, numbers spent on
  parity, numbers that start again. What is counted as lost was lost.
- **FEC analyzer**: groups judged while frames are still missing, groups that come
  back. Each verdict is what the parameters would have done, each group has one,
  and the history stays bounded.
- **Configuration**: what is accepted has to be usable by everything behind it.

`PROJECT.json` lists each hazard at its line, with the properties that cover it
or why none does.

## 2. Modules

    PacketQueueOps --+-- PacketQueue ------ MCPacketQueue
    (the queue as a  |       implements DropOldestBuffer
     value)          +-- SessionManager --- MCSessionManager
                     +-- SessionWorker -- FECHeader
                             implements FramedStream
                                            |
    FECManager --- MCFECManager          FECPath  (FramedStream per session, a network,
                                                   FECManager, the receiver's key)

    ControlPlane --- MCControlPlane          FECAnalyzer --- StreamStats --- MCStreamStats

    FECHeader --- Config

**PacketQueueOps** is the queue record and what each critical section does to
it. `Enqueued` appends and, at the limit, evicts; `Dequeued` takes the head;
`ClosedQueue` empties it. Three modules share it.

**PacketQueue** adds the condition variable. `waiting` and `ready` of a consumer
stand for `cond.Wait` before and after a signal; a signalled consumer still has
to get the mutex and re-test the loop condition. Packets are numbered.

**SessionManager** has one action per critical section of `sm.mu`, and one per
step a goroutine takes without it: `CheckTimeouts` collects keys and removes
them one by one later; `RemoveSession` unlinks, clears the statistics, cancels
and closes in four steps; `AddSession` of a known address does the same with the
lock held (`muHeld`). A worker checks its context, blocks, takes and sends in
separate steps.

**SessionWorker** is one worker's framing. `wire` is what it has written. The
final flush is modelled and never reached, because every caller cancels the
context before it closes the queue; `ClosedOnlyAfterCancel` says the one,
`ParityMatchesData` forbids the padding. The branch for a failing encoder is left out: the parameters are
validated before, the shards have equal length. With FEC off `FECInfo` is 0 and
only the numbering remains.

**FECManager** keeps, per group number, the generation each shard came from,
which the code cannot see: a packet rebuilt from shards of two generations is
garbage. `Process` is what `runRecvNormal` does with a frame, `Forward` its release
loop, to which the caller says what will not decrypt; in this module that is
garbage, which does not authenticate. Packets have a payload, and `forwarded` is what
is given to the multicast write: whether that fails changes nothing else.

**FECPath** connects the manager to the stream (`FramedStream`, which
`SessionWorker` is shown to implement), session after session, by a network that
loses, delays, reorders and repeats frames, and lets time pass. `Register` starts
a session at the sender; `PublishKey` and `InstallManager` are the two assignments
of the reconnect loop, with any number of frames before, between and after them.
Before the first key nothing is decrypted, and before the first manager data is
passed through and parity ignored. A new session starts at group 0 at once, while
frames of the old one, and the old manager with its groups, are still there.
`Paced` concerns the group numbers of one session only. `strangers` records where a
frame of another session came to a manager, which cannot tell. With encryption what is
decoded from shards of two sessions does not authenticate; in plain text it is forwarded,
and `mixed` records it.

**ControlPlane** has both ends and the datagrams between them. A receiver's `loc`
is its place in the reconnect loop: `dial`, `send`, `await` (a challenge or an
ack), `result`, `up`, `drop` (the trigger was taken, the session not yet
cancelled), `off`. A key is named by its challenge. `port` tells the sockets of
one receiver apart, so a datagram of an older socket arrives at a sender that has
a session, or a pending challenge, for another port. `calm` marks the end of
disturbances and matters for liveness only. One receiver is enough: the
per-address limits concern one receiver each, and what others do to it, filling
`max_sessions`, is the choice in `Full`. `forgotten` is a history variable: the
receivers with which the sender was in the middle of a dialogue when it last
restarted. Encryption is on at both ends or off at
both. Duplicated control datagrams, failing `DialUDP`, the AEAD error branch and
the check `n <= 16` are left out; DISCONNECT has a handler and no sender.

**StreamStats** feeds both loss counters and the analyzer with one stream of
frames. A slot is a frame's place in the stream; its `SeqNum` wraps. The window is
the set of its bits. `Reconnect` starts the numbers again, which no counter is
told; an offset of exactly -2^31 then panics, which is a state of the model
(`panicked`); `ahead` says how far the newest frame has moved since then. `Report` is
the periodic `DumpReport`, in which the analyzer judges the groups it still waits
for; `report` keeps the frames by which it judges them.

**FECAnalyzer** has the analyzer's functions as operators on one record:
`RecordPacket` with its gap rule, its three ways of judging a group (`Finalized`,
`CleanedUp`, `DumpReport`) and what `Worth` a group is to given parameters.

**Config** has the two configurations, what `Validate` accepts, and the numbers
the program derives: the FEC parameters as announced in an ack and as used at
either end, the timeouts, the largest payload.

The modules `*_proofs` hold the theorems: `PacketQueueOps_proofs` (lemmas on the
queue as a value, used by the next three), `PacketQueue_proofs`,
`SessionManager_proofs`, `SessionWorker_proofs` (with those about `Config` and `FECHeader`),
`FECManager_proofs`, `FECPath_proofs`, `ControlPlane_proofs`, `StreamStats_proofs`.

## 3. Runs

All passing runs finish within five minutes with two workers.
`CHECK_DEADLOCK FALSE` is set where the system may come to rest: a closed queue
that is drained, a sender that has shut down, a receiver that has stopped, a
bounded stream that has been sent.

| Run | Question | Instance |
|---|---|---|
| `PacketQueue` | order, drop accounting, wake-ups, refinement of `DropOldestBuffer`; queued packets leave, Close releases everyone | 3 consumers, capacity 2, 6 packets |
| `SessionManager_registry` | the limit, shutdown, orphaned sessions, ghosts in the statistics, sends after removal, cancel before close | 2 data addresses, 1 control address, 2 closers, limit 1, 2 sessions, queue size 0, 2 packets |
| `SessionManager_workers` | every worker ends, silent receivers go | 2 data addresses, 1 control address, 1 closer, limit 1, 2 sessions, queue of 1, 1 packet |
| `SessionWorker` | framing, numbering, refinement of `FramedStream` | K=2, N=4, 6 packets, 2 group numbers, 10 sequence numbers, queue of 2 |
| `FECManager` | recovery is immediate and complete, groups expire, an FEC manager that is off is transparent | K=2, N=3, two generations in one group number, one in another, ill-formed frames |
| `FECPath_paced` | only what was sent comes out, everything that arrives does, what FEC can recover is recovered; across a reconnection | K=2, N=3, 5 slots, one group number, 2 sessions, one repeated frame, with and without encryption |
| `FECPath_alarm` | *violation*: a loss report for delivered packets | K=2, N=3, 6 slots, two group numbers, one session, no repeats |
| `ControlPlane` | key agreement | 2 ports (symmetric), 4 challenges, 3 attempts, 2 datagrams in flight, both modes |
| `ControlPlane_recovers` | every receiver gets back in sync, stopped ones are forgotten | 2 attempts and 1 datagram in flight |
| `ControlPlane_silent` | *violation*: without encryption a dropped session stays unnoticed | 3 attempts, 1 datagram in flight, encryption off |
| `StreamStats` | what the counters count and the analyzer judges, across a reconnection and a report | K=3, N=4, 10 sequence numbers, window 2, reach 3, 14 slots, one simulated pair (2, 3) |
| `StreamStats_phantom` | *violation*: loss is reported although nothing was lost | 8 slots, no analyzer, no reconnection |

Why the bounds suffice:

- A queue of 2 is full, half full and empty; six packets pass it three times. A
  third consumer makes a signal that goes to the wrong one possible. Queue size
  0 is raised to 1 by the code.
- Two addresses and a limit of 1 make them compete: the second session takes the
  place of the first, at its address or at the other, while the first is still being
  taken down, by the monitor too. More sessions at once are left to the proofs, which hold for any number.
- Three groups with two group numbers, and more frames than sequence numbers,
  make both wrap; a parity count of 2 makes a partly written group possible.
- `FECPath` with one group number uses it again immediately, the hardest case.
  `Paced` says that within a session a sender returns to a number only after its old
  frames and groups are gone: with 2048 numbers that is a sender below 2048 groups per
  group timeout, which is the receiver's KeepAlive interval times its multiplier (1 s and 3
  by default, `recv.go:582`), and the network's delay. With `Paced = FALSE` `Genuine` fails
  in a few steps: shards of two generations are decoded together. Nothing is assumed of
  the pause between two sessions; there is none.
- Two ports tell old sockets from new ones. Four challenges suffice for the
  sender's session, its pending challenge, a datagram in flight and the
  receiver's last key to be different. Three attempts are the code's own number;
  the liveness run makes two, which is one retry on the same socket. Ports are
  interchangeable, so the safety run declares them symmetric. Two datagrams in flight let an old answer overtake a new one. For
  liveness one is enough to lose any message at any point.
- In `FECPath` five slots are a group and the beginning of the next, or of the next
  session's, in every split; each session can have K frames with one lost. A tick
  is longer than the network keeps a frame (`MaxDelay = 0`), but the sender may
  pause for ticks within a group, so frames still come after the timeout of
  theirs. A frame repeated is either the same manager's or, after a
  reconnection, the next one's.
- `StreamStats` has a window smaller than the reach of reordering, so frames come
  back inside the window and beyond it; 14 slots of 10 numbers make `SeqNum` wrap,
  and a reconnection can jump by half the number space. The simulated groups have
  other sizes than the stream's. `Reach` stays below half the number space, where
  `StreamStats_proofs` takes over. It is at most `History` groups: a group is
  judged for good when the stream is that far past it, as in the code, with a
  history of 100 groups. Gaps of a continuing stream are below `MaxGap`, also behind a
  frame that came late, which moves the analyzer's `lastSeq` back by up to `Reach`: so
  twice `Reach` has to fit. With `Reach` itself equal to `MaxGap` `JudgedRight` fails, because the code
  takes the way back from a late frame for an abnormal jump and never judges the groups
  in between. `MaxGap + Reach` fits into the number space, or a late frame after the last
  number would look like a gap from 0. With the code's 1000 and 2^32 both hold for
  frames that overtake each other by up to 501. Only the jump at a reconnection takes
  the branch for an abnormal gap.

## 4. Fairness

- `PacketQueue!FairSpec`: each consumer's steps, since its goroutine is runnable and a
  Go mutex does not starve a waiter. Nothing is assumed of producers or of Close.
- `SessionManager!FairSpec`: the monitor (a ticker), the removals under way, the
  closers, the workers. A worker's wait is not fair by itself: something has to
  wake it. No fairness is assumed of receivers, of `Broadcast` or of shutdown.
- `FECManager!FairSpec`: time passes and the ticker of `runRecvNormal` fires; no
  arrival is assumed.
- `ControlPlane!FairSpec`: every goroutine, timer and open socket, weakly. `Settle` says
  that disturbances (loss, restarts, bad frames, others holding all sessions)
  end some time; until then any number of them happens. From then on datagrams
  arrive before the timeout that waits for them: one second for an answer, an
  interval for a KeepAlive. In every phase two of the code's durations are far
  enough apart to be ordered: a session does not time out within the second in
  which its receiver awaits the result, and a challenge does not get a minute old
  while its dialogue goes on.

Both ends are taken to have the same `keepalive` section. Nothing enforces it: a
receiver whose interval exceeds the sender's timeout loses its session again and again.

The specifications that state only safety use `Spec`, without fairness.

## 5. What the code does differently from what it says

Three runs end in a counterexample that contradicts a sentence of the
repository.

1. `FECPath_alarm`: every complete group is deleted at its K-th shard; the parity
   that follows opens it again, and when that group expires, warning 303 reports
   all its packets as permanently lost although they were forwarded.
2. `ControlPlane_silent`: in plain text mode the sender answers KeepAlives of
   receivers it has no session for. A receiver whose session is gone
   stays "connected", without data, for ever. With encryption it
   notices, since the sender cannot read its KeepAlives (`Recovers`).
3. `StreamStats_phantom`: `sessionWorker` numbers parity and data from one
   counter, the receiver shows only data to the statistics, and warning 304
   reports each group's parity as loss.

The models contain further behaviour of that kind that no property forbids, or that
a property excepts by name; the hazards of `PROJECT.json` name it at its line.
Frames that arrive before the first key are sent to the multicast group encrypted
(`undecrypted` in `Genuine`), though the manual says the receiver decrypts. At a
reconnection in plain text, after a lost ack for instance, the new worker's group 0 meets
the old session's group 0 in the old manager, or late frames of the old session in the
new one; what the decoder makes of the shards of both is forwarded as if it were data
(`mixed` in `Genuine`), and a packet of the new session can be dropped as a duplicate of
one of the old (`strangers` in `DataForwarded`). After a
reconnection an offset of -2^31 panics, because it has no positive counterpart
(`WindowTruthful` allows it then and only then), and until the window has
passed, the counters mix two numberings. A sender that restarts while it talks to a
receiver forgets the challenge; a retry then opens a second dialogue, and the answer
to the first can leave the receiver with a key the sender does not have, until its
KeepAlives stay unanswered (`KeyAgreement` excepts the `forgotten` receivers; their
recovery is not checked, because it takes two datagrams in flight to get there and the
liveness run has one). A report judges groups that are still being
filled, and the analyzer keeps every judged group, although a comment
promises to clean up (`HistoryBounded` bounds the others). `CheckTimeouts` can remove a
session refreshed in the meantime; a session registered while its predecessor's
statistics entry is being removed runs unlisted; a data frame overtaken by its
group's parity is forwarded twice; FEC on at one end only loses data or forwards
parity; FEC off at the sender with an unused, unvalidated `n` above 16 makes every
receiver refuse the ack; a valid `n = k` means no FEC. `docs/manual_EN.md` draws the bits of `FECInfo` in another order than
`FECHeader` and the code have them, and gives 1438 bytes as the limit on a payload, which
is 1410 with encryption (`MaxPayloadSize` in `Config`).

## 6. Proofs

Checked by TLAPS with Z3, Zenon and LS4, for all values of the constants that
satisfy the named assumptions.

- **PacketQueueOps_proofs**: lemmas on the queue operations, by cases on "full".
- **PacketQueue_proofs**: `TypeCorrect`; `NewestRunKept`, `DeliveredInOrder`,
  `PacketsConserved` from the invariant `RunInv` (the queue is a run of
  consecutive packets ending in the newest, everything delivered is older);
  `WakeupsSuffice` from `WakeInv`: *when a packet is queued, a consumer is awake
  or none waits* is not inductive, what is inductive counts the awake consumers
  against the queued packets; `QueueImplementsBuffer`, step by step, each step
  an operation of the abstract buffer or a stutter.
- **SessionManager_proofs**: `SessionTypes` (with the references from places to
  objects, `ObjInv`); `AtMostOneLateSend` (`LateInv`: a worker past its check
  with a cancelled context has not sent late yet); `StopIsFinal` (`LockInv`:
  after shutdown the map is empty, and only the lock holder is inside
  `AddSession`); `CloseFollowsCancel`, `NobodyOrphaned` (`PlaceInv`: each object that has
  left the map is cancelled and closed, or exactly located in the hands of a
  remover or a closer); `CapacityHolds`; `NoGhosts`.
- **SessionWorker_proofs**: `HeaderRoundTrip`, with the widths of the code;
  `TypeCorrect`, `ParityIsOfItsData`, `GroupNumbersCorrect`, `SequenceNumbersIncrease`;
  `WorkerImplementsStream`, the refinement of `FramedStream`. Everything rests on
  `Core`: the packets taken, the buffer and the next sequence number all follow from
  the position in the stream (`Position`), and a cancelled context precedes a closed
  queue, so the flush, which would pad, is unreachable. `WireInv` says that each frame
  on the wire holds what its slot demands; `SeqInv` relates the wire's order to the slots
  until `SeqNum` wraps. In the refinement a failed write is an offer that loses its frame.
  The module ends with the configuration: `FECParametersAgree` (an accepted configuration
  with FEC on satisfies what `SessionWorker` and `FECManager` assume of `K` and `N`, survives
  the bytes of the ack, and turns FEC on at both ends or at neither), `FramesFitTheLink` (no
  datagram, parity included, exceeds the MTU, and the limit is tight), `TimeoutsAgree`.
  `Config` has no state and no run.
- **FECManager_proofs**: `NothingRecoverableWaits` from `GroupsInv` (a kept group has
  fewer than K shards and records exactly the data it has received), `ManagerTypes`,
  `OffIsTransparent`, and the action property `EarlyExitForwardsAll`, whose invariant
  `SentInv` says that what a kept group has released has been forwarded.
- **ControlPlane_proofs**: `TypeCorrect` and `KeysAgree`. The type invariant is not enough
  for the second: `AgreeInv` adds that in plain text a receiver has no key (`PlainOK`),
  that the sender challenges no control address it has a session for (`Apart`), and that
  a challenge to the receiver's socket, or its answer, is the only one in flight and the
  sender's pending one, while what the receiver derives its key from is what the
  sender's session uses (`Agrees`). It needs what the model's clock grants: no datagram of a
  challenge is in flight once the challenge is a minute old.
- **StreamStats_proofs**: `WindowTellsTheTruth`, `LossesAreBounded`, `LossCountersAgree`;
  `TypeCorrect`, `HistoryIsBounded`, `JudgedAright`. The
  arithmetic is `DiffExact`: the signed difference of two wrapped numbers is the true one
  as long as frames overtake each other by at most half the number space. `WindowInv`
  says that the first `ahead` bits of the window are right and that `lastSeq` is
  the newest frame's number, as soon as there is one such bit; `LossInv` follows the
  counter along the sets of missing, older and stale frames; `CountersInv` ties what
  `ReceiverStats` expects to the newest frame. The analyzer sums over sets and folds over
  gaps of any length. The library's induction theorems cannot be used here, so each fact
  about a fold is proved by a least counterexample: a nonempty set of numbers, or of
  subsets of a finite set, has a minimal element (`LeastNat`, `LeastSubset`), and the
  recursive function the fold chooses exists (`FoldExists`). From that come the laws of
  sums (`SumUnion`, `SumSame`) and what a gap does, number by number (`SkippedIs`). The
  invariant of a simulation is `Exact`: every group that ought to be open is, with exactly
  the indices that came, and the counters are the sums over the groups judged so far.
  `JudgedRight` alone is not inductive, since it is silent about open groups: `Open` has to
  say that the groups between the oldest and the number recorded last are open even if
  nothing of them came, since the clean-up judges only what has been opened. `Fresh` is the
  part that holds whatever the report judged, and gives `HistoryBounded`. `RunExact` carries
  both through a gap, `PacketExact` through a frame, `ExactReported` through a report.
- **FECPath_proofs**: `TypeCorrect`; `OnlyGenuine` if sessions are paced *or* all is
  encrypted; `EveryArrivalForwarded` and `RecoversTheLost` if sessions are paced. For any K < N
  up to 16, any number of group numbers, slots and sessions, any delay and timeout and any
  number of repeats. The first two layers of the invariant need no history. `Shape` says
  that the groups in the manager are well formed and everything on its way is older than
  the next slot. `ShardsInv` and `NetInv` say where shards come from: each is what some slot
  carried and, with pacing, every frame on its way and every group that has not
  expired belongs to the newest generation of its number in its session, and if that is the
  newest session, its sender has not been quiet on that number for longer than the frame, or the group and a frame's delay, is old
  (`Timed`). That clause is what makes an invariant of *the sender
  never returns too early*: without it nothing relates the age of a group to the time at
  which the sender may use the number again. For `OnlyGenuine`, `HomeInv` says that
  a shard in a group is of the manager's session unless its place is one where a stranger
  came; so a group that is decoded holds K shards of one generation, or it is one that `mixed` is about. For `EveryArrivalForwarded`,
  `DataInv` says that every shard of a group is either a data packet that was forwarded when
  it came, a parity of this session, or in a place where another session's frame has been; so
  a data packet that is refused as a duplicate is one already forwarded. For `RecoversTheLost`, `RecInv` says, of each generation that
  is still in time, that the manager's group holds exactly what came of it, or that all
  its data has been forwarded; that K distinct frames fill a group is a counting argument
  (an injection from the frames that came into the shards).

Model-checked only:

- liveness (`QueuedLeaves`, `CloseReleasesAll`, `WorkersEnd`, `SilentRemoved`,
  `GroupsExpire`, `Recovers`, `Drained`), which is out of the prover's reach;
- the properties of the three runs that end in a violation, which are false.

Pacing is an assumption about the sender's rate, not something the code enforces: section 3
says what it means in numbers, and what happens without it.

## 7. Not modelled

- Parsing of YAML, flags and addresses.
- Cryptography: taken as ideal.
- Byte layout of control messages and of the header's other fields.
- Sockets, multicast membership, DSCP, logging, PID file, notification.
- Loopback modes: self-tests of one host.
- Latency and throughput figures.
- A data race: `RemoveSession` reads `len(sm.sessions)` unlocked for a log line.

## 8. Plan

Done, in this order: the queue and its buffer, the session manager, the worker and
its stream, the FEC manager and the path, the control plane, the loss statistics;
then the path across a reconnection, the analyzer and renumbered streams, the
configuration; then the proofs of every safety property of the passing
runs and of both refinements (section 6). Left:

1. Two sessions of one sender in `ControlPlane` on top of the session manager's
   map, instead of the choice in `Full`; an abstract session protocol that
   `ControlPlane` implements.
2. An invariant of the control plane's clocks, from which the receiver's worst time
   without data could be bounded.
