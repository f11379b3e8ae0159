--------------------------- MODULE SessionManager ---------------------------
(* The sender's forwarding sessions (internal/data/session.go) and the       *)
(* goroutines that touch them:                                               *)
(*   control   handleControlPackets: AddSession, UpdateLastActive..., LEAVE  *)
(*   monitor   monitorSessionTimeouts: CheckTimeouts                         *)
(*   forward   runSendNormal's receive loop: Broadcast                       *)
(*   closers   CleanUpSender and runSendNormal's deferred CloseAll           *)
(* plus one sessionWorker per session.  sm.mu is held across two steps only  *)
(* while AddSession replaces a session; every other critical section is one  *)
(* action.  Session objects are numbered in the order AddSession makes them. *)
(* How a worker frames what it sends is in SessionWorker.                    *)
EXTENDS PacketQueueOps, FiniteSets

CONSTANTS Keys,          \* data addresses, the keys of sm.sessions
          ControlAddrs,  \* control addresses
          Closers,       \* the callers of CloseAll
          None,          \* not an address
          MaxSessions,   \* cfg.Unicast.MaxSessions
          QueueSize,     \* the queue size AddSession is given
          MaxCreated,    \* bound: Session objects ever created
          MaxBroadcasts  \* bound: packets broadcast

ASSUME SessionManagerAssumption ==
  /\ IsFiniteSet(Keys)
  /\ None \notin Keys \cup ControlAddrs
  /\ MaxSessions \in Nat
  /\ QueueSize \in Int
  /\ MaxCreated \in Nat
  /\ MaxBroadcasts \in Nat

Ids == 1..MaxCreated
NoSession == 0
Removers == {"control", "monitor"}

VARIABLES
  sessions,    \* sm.sessions: per key the Session object, or NoSession
  created,     \* how many Session objects exist
  key,         \* per object: Session.ID
  controlAddr, \* per object: Session.ControlAddr
  queue,       \* per object: Session.Queue
  cancelled,   \* per object: Session.Cancel has been called
  silent,      \* per object: LastActive is older than the timeout
  worker,      \* per object: where its sessionWorker is
  lateSends,   \* per object: packets sent after its context ended
  stopped,     \* sm.ctx has been cancelled
  muHeld,      \* the control goroutine keeps sm.mu across a step
  remover,     \* per remover: its place in RemoveSession or AddSession
  toRemove,    \* the keys CheckTimeouts has still to remove
  closing,     \* per closer: the objects CloseAll has still to close
  closeCalled, \* the closers that have called CloseAll
  stats,       \* GlobalSenderStats: the keys listed as active sessions
  broadcasts   \* how many packets have been broadcast

registry == <<sessions, created, key, controlAddr>>
delivery == <<queue, worker, lateSends>>
removal == <<remover, toRemove, muHeld>>
shutdown == <<stopped, closing, closeCalled>>
vars == <<registry, delivery, removal, shutdown, cancelled, silent, stats, broadcasts>>

Active == {k \in Keys : sessions[k] # NoSession}
Live == {sessions[k] : k \in Active}

(* Session.Ctx is a child of sm.ctx; Session.Cancel ends it alone. *)
CtxDone(i) == cancelled[i] \/ stopped

CancelContextMutant(i) == cancelled

CancelContext(i) == [cancelled EXCEPT ![i] = TRUE]

(* SenderStats.SessionRemoved, and SessionTimeout without its history. *)
UnlistedMutant(k) == stats

Unlisted(k) == stats \ {k}

(* A goroutine in RemoveSession: the key, then the object it has unlinked;   *)
(* in AddSession also the new control address.                               *)
Place(at, k, a, i) == [at |-> at, key |-> k, addr |-> a, id |-> i]
Idle == Place("idle", None, None, NoSession)

Init ==
  /\ sessions = [k \in Keys |-> NoSession]
  /\ created = 0
  /\ key = [i \in Ids |-> None]
  /\ controlAddr = [i \in Ids |-> None]
  /\ queue = [i \in Ids |-> NewPacketQueue(QueueSize)]
  /\ cancelled = [i \in Ids |-> FALSE]
  /\ silent = [i \in Ids |-> FALSE]
  /\ worker = [i \in Ids |-> "none"]
  /\ lateSends = [i \in Ids |-> 0]
  /\ stopped = FALSE
  /\ muHeld = FALSE
  /\ remover = [r \in Removers |-> Idle]
  /\ toRemove = {}
  /\ closing = [c \in Closers |-> {}]
  /\ closeCalled = {}
  /\ stats = {}
  /\ broadcasts = 0
-----------------------------------------------------------------------------
(* Queue.Close, and Queue.Enqueue, with the wake-up of the worker that may   *)
(* be blocked in Dequeue.                                                    *)
WokenMutant(i) == worker[i]

Woken(i) == IF worker[i] = "waiting" THEN "dequeue" ELSE worker[i]

CloseQueueMutant(i) == UNCHANGED <<queue, worker>>

CloseQueue(i) ==
  /\ queue' = [queue EXCEPT ![i] = ClosedQueue(@)]
  /\ worker' = [worker EXCEPT ![i] = Woken(i)]

(* AddSession: the check of sm.ctx, the capacity check, and what follows     *)
(* them: the new object, the map, the statistics, the worker.                *)
AcceptingMutant == TRUE

Accepting == ~stopped

HasRoomMutant == Cardinality(Active) <= MaxSessions

HasRoom == Cardinality(Active) < MaxSessions

InsertSession(k, a, workers) ==
  /\ created' = created + 1
  /\ sessions' = [sessions EXCEPT ![k] = created + 1]
  /\ key' = [key EXCEPT ![created + 1] = k]
  /\ controlAddr' = [controlAddr EXCEPT ![created + 1] = a]
  /\ stats' = stats \cup {k}
  /\ worker' = [workers EXCEPT ![created + 1] = "check"]

ControlFree == remover["control"].at = "idle"

(* AddSession for an address without a session.  After sm.cancel, or with    *)
(* the map full (error 104), it returns an error and changes nothing.        *)
AddNewSession(k, a) ==
  /\ ControlFree
  /\ Accepting
  /\ sessions[k] = NoSession
  /\ created < MaxCreated
  /\ HasRoom
  /\ InsertSession(k, a, worker)
  /\ UNCHANGED <<removal, shutdown, queue, cancelled, silent, lateSends,
                 broadcasts>>

(* AddSession for an address that has one.  First part: the old session      *)
(* leaves the map and the statistics and is cancelled; sm.mu stays held.     *)
UnlinkOldSession(k, a) ==
  /\ ControlFree
  /\ Accepting
  /\ sessions[k] # NoSession
  /\ created < MaxCreated
  /\ sessions' = [sessions EXCEPT ![k] = NoSession]
  /\ stats' = Unlisted(k)
  /\ cancelled' = CancelContext(sessions[k])
  /\ muHeld' = TRUE
  /\ remover' = [remover EXCEPT !["control"] = Place("replace", k, a, sessions[k])]
  /\ UNCHANGED <<delivery, shutdown, created, key, controlAddr, silent,
                 toRemove, broadcasts>>

(* Second part: close the old queue, then insert the new session. *)
ReplaceOldSession ==
  LET old == remover["control"].id
      k == remover["control"].key
      a == remover["control"].addr
      woken == [worker EXCEPT ![old] = Woken(old)]
  IN /\ remover["control"].at = "replace"
     /\ queue' = [queue EXCEPT ![old] = ClosedQueue(@)]
     /\ IF HasRoom THEN InsertSession(k, a, woken)
        ELSE worker' = woken /\ UNCHANGED <<registry, stats>>
     /\ muHeld' = FALSE
     /\ remover' = [remover EXCEPT !["control"] = Idle]
     /\ UNCHANGED <<shutdown, cancelled, silent, lateSends, toRemove,
                    broadcasts>>

(* UpdateLastActiveByControlAddr: some session with that control address.    *)
(* SenderStats.SessionKeepAlive changes no membership.                       *)
Refresh(a) ==
  /\ ControlFree
  /\ \E i \in Live : /\ controlAddr[i] = a
                     /\ silent' = [silent EXCEPT ![i] = FALSE]
  /\ UNCHANGED <<registry, delivery, removal, shutdown, cancelled, stats,
                 broadcasts>>

(* RemoveSessionByControlAddr finds the key under sm.mu, then calls          *)
(* RemoveSession, which takes sm.mu again.                                   *)
Leave(a) ==
  /\ ControlFree
  /\ \E i \in Live : /\ controlAddr[i] = a
                     /\ remover' = [remover EXCEPT !["control"] =
                                      Place("lookup", key[i], None, NoSession)]
  /\ UNCHANGED <<registry, delivery, shutdown, cancelled, silent, toRemove,
                 muHeld, stats, broadcasts>>

(* CheckTimeouts: the keys of the silent sessions, read under sm.mu.  A tick *)
(* that finds none changes nothing.                                          *)
SilentKeysMutant == {k \in Active : ~silent[sessions[k]]}

SilentKeys == {k \in Active : silent[sessions[k]]}

CheckTimeouts ==
  /\ remover["monitor"].at = "idle"
  /\ toRemove = {}
  /\ ~muHeld
  /\ SilentKeys # {}
  /\ toRemove' = SilentKeys
  /\ UNCHANGED <<registry, delivery, shutdown, cancelled, silent, remover,
                 muHeld, stats, broadcasts>>

(* Then, with sm.mu released, each key in turn: SessionTimeout takes it out  *)
(* of the statistics and RemoveSession is called.                            *)
TimeOutKey(k) ==
  /\ remover["monitor"].at = "idle"
  /\ k \in toRemove
  /\ toRemove' = toRemove \ {k}
  /\ stats' = Unlisted(k)
  /\ remover' = [remover EXCEPT !["monitor"] = Place("lookup", k, None, NoSession)]
  /\ UNCHANGED <<registry, delivery, shutdown, cancelled, silent, muHeld,
                 broadcasts>>

(* RemoveSession, in the goroutine r: unlink under sm.mu, ... *)
UnlinkSession(r) ==
  LET k == remover[r].key
  IN /\ remover[r].at = "lookup"
     /\ ~muHeld
     /\ IF sessions[k] = NoSession
        THEN /\ remover' = [remover EXCEPT ![r] = Idle]
             /\ UNCHANGED sessions
        ELSE /\ remover' = [remover EXCEPT ![r] = Place("stats", k, None, sessions[k])]
             /\ sessions' = [sessions EXCEPT ![k] = NoSession]
     /\ UNCHANGED <<delivery, shutdown, created, key, controlAddr, cancelled,
                    silent, toRemove, muHeld, stats, broadcasts>>

(* ... then, unlocked, the statistics, ... *)
RemoveStats(r) ==
  /\ remover[r].at = "stats"
  /\ stats' = Unlisted(remover[r].key)
  /\ remover' = [remover EXCEPT ![r].at = "cancel"]
  /\ UNCHANGED <<registry, delivery, shutdown, cancelled, silent, toRemove,
                 muHeld, broadcasts>>

(* ... the session's context ... *)
CancelSession(r) ==
  /\ remover[r].at = "cancel"
  /\ cancelled' = CancelContext(remover[r].id)
  /\ remover' = [remover EXCEPT ![r].at = "close"]
  /\ UNCHANGED <<registry, delivery, shutdown, silent, toRemove, muHeld,
                 stats, broadcasts>>

(* ... and its queue. *)
CloseSession(r) ==
  /\ remover[r].at = "close"
  /\ CloseQueue(remover[r].id)
  /\ remover' = [remover EXCEPT ![r] = Idle]
  /\ UNCHANGED <<registry, shutdown, cancelled, silent, lateSends, toRemove,
                 muHeld, stats, broadcasts>>

RemoveStep(r) ==
  UnlinkSession(r) \/ RemoveStats(r) \/ CancelSession(r) \/ CloseSession(r)
-----------------------------------------------------------------------------
(* Broadcast: under sm.mu, one copy into the queue of every session in the   *)
(* map; Enqueue on a queue that is already closed does nothing.              *)
Reached == {i \in Live : ~queue[i].closed}

Broadcast ==
  /\ ~muHeld
  /\ broadcasts < MaxBroadcasts
  /\ broadcasts' = broadcasts + 1
  /\ queue' = [i \in Ids |-> IF i \in Reached THEN Enqueued(queue[i], broadcasts + 1)
                             ELSE queue[i]]
  /\ worker' = [i \in Ids |-> IF i \in Reached THEN Woken(i) ELSE worker[i]]
  /\ UNCHANGED <<registry, removal, shutdown, cancelled, silent, lateSends,
                 stats>>

(* CloseAll: under sm.mu cancel sm.ctx, which ends every session context,    *)
(* and empty the map; then close the sessions one by one.  Session.Cancel    *)
(* has no further effect.                                                    *)
CloseAll(c) ==
  /\ ~muHeld
  /\ c \notin closeCalled
  /\ closeCalled' = closeCalled \cup {c}
  /\ stopped' = TRUE
  /\ closing' = [closing EXCEPT ![c] = Live]
  /\ sessions' = [k \in Keys |-> NoSession]
  /\ UNCHANGED <<delivery, removal, created, key, controlAddr, cancelled,
                 silent, stats, broadcasts>>

CloseOne(c, i) ==
  /\ i \in closing[c]
  /\ closing' = [closing EXCEPT ![c] = @ \ {i}]
  /\ cancelled' = CancelContext(i)
  /\ CloseQueue(i)
  /\ UNCHANGED <<registry, removal, silent, lateSends, stopped, closeCalled,
                 stats, broadcasts>>

(* Time passes without a KeepAlive from the session's receiver. *)
GoSilent(i) ==
  /\ i \in Live
  /\ ~silent[i]
  /\ silent' = [silent EXCEPT ![i] = TRUE]
  /\ UNCHANGED <<registry, delivery, removal, shutdown, cancelled, stats,
                 broadcasts>>
-----------------------------------------------------------------------------
(* sessionWorker. *)
MoveWorker(i, from, to) ==
  /\ worker[i] = from
  /\ worker' = [worker EXCEPT ![i] = to]

(* The context check at the top of the loop. *)
LoopEndsMutant(i) == FALSE

LoopEnds(i) == CtxDone(i)

WorkerChecks(i) ==
  /\ MoveWorker(i, "check", IF LoopEnds(i) THEN "done" ELSE "dequeue")
  /\ UNCHANGED <<registry, removal, shutdown, queue, cancelled, silent,
                 lateSends, stats, broadcasts>>

WorkerWaits(i) ==
  /\ MustWait(queue[i])
  /\ MoveWorker(i, "dequeue", "waiting")
  /\ UNCHANGED <<registry, removal, shutdown, queue, cancelled, silent,
                 lateSends, stats, broadcasts>>

WorkerTakes(i) ==
  /\ ~MustWait(queue[i])
  /\ ~queue[i].closed
  /\ MoveWorker(i, "dequeue", "send")
  /\ queue' = [queue EXCEPT ![i] = Dequeued(@)]
  /\ UNCHANGED <<registry, removal, shutdown, cancelled, silent, lateSends,
                 stats, broadcasts>>

(* The packet, and the parity it may complete, goes out. *)
WorkerSends(i) ==
  /\ MoveWorker(i, "send", "check")
  /\ lateSends' = [lateSends EXCEPT ![i] = IF CtxDone(i) THEN @ + 1 ELSE @]
  /\ UNCHANGED <<registry, removal, shutdown, queue, cancelled, silent, stats,
                 broadcasts>>

(* WriteToUDP fails: a warning, or the end if the context is done. *)
WorkerWriteFails(i) ==
  /\ MoveWorker(i, "send", IF CtxDone(i) THEN "done" ELSE "check")
  /\ UNCHANGED <<registry, removal, shutdown, queue, cancelled, silent,
                 lateSends, stats, broadcasts>>

(* Dequeue returns ErrQueueClosed: return at once if the context is done,    *)
(* otherwise leave the loop for the final flush.  Either way the worker ends.*)
WorkerStops(i) ==
  /\ queue[i].closed
  /\ MoveWorker(i, "dequeue", "done")
  /\ UNCHANGED <<registry, removal, shutdown, queue, cancelled, silent,
                 lateSends, stats, broadcasts>>

WorkerStep(i) ==
  \/ WorkerChecks(i) \/ WorkerWaits(i) \/ WorkerTakes(i)
  \/ WorkerSends(i) \/ WorkerWriteFails(i) \/ WorkerStops(i)
-----------------------------------------------------------------------------
ControlCall ==
  \E a \in ControlAddrs :
    \/ \E k \in Keys : AddNewSession(k, a) \/ UnlinkOldSession(k, a)
    \/ Refresh(a)
    \/ Leave(a)

Next ==
  \/ ControlCall
  \/ ReplaceOldSession
  \/ CheckTimeouts
  \/ \E k \in Keys : TimeOutKey(k)
  \/ \E r \in Removers : RemoveStep(r)
  \/ Broadcast
  \/ \E c \in Closers : CloseAll(c) \/ \E i \in Ids : CloseOne(c, i)
  \/ \E i \in Ids : GoSilent(i) \/ WorkerStep(i)

Spec == Init /\ [][Next]_vars

(* Every goroutine that can run does: workers, a RemoveSession, AddSession   *)
(* or CloseAll that has begun, and the monitor, whose ticker keeps firing.   *)
(* Steps that take sm.mu need strong fairness: Go's mutex does not starve a  *)
(* waiter.  Nothing is assumed of receivers, of Broadcast, or of shutdown.   *)
FairSpec ==
  /\ Spec
  /\ \A i \in Ids : WF_vars(WorkerStep(i))
  /\ WF_vars(ReplaceOldSession)
  /\ SF_vars(CheckTimeouts)
  /\ \A k \in Keys : WF_vars(TimeOutKey(k))
  /\ \A r \in Removers : SF_vars(RemoveStep(r))
  /\ \A c \in Closers, i \in Ids : WF_vars(CloseOne(c, i))
-----------------------------------------------------------------------------
Places == [at : {"idle", "lookup", "stats", "cancel", "close", "replace"},
           key : Keys \cup {None}, addr : ControlAddrs \cup {None},
           id : Ids \cup {NoSession}]

Locations == {"none", "check", "dequeue", "waiting", "send", "done"}

(* The shape of the state. *)
TypeOK ==
  /\ sessions \in [Keys -> Ids \cup {NoSession}]
  /\ created \in 0..MaxCreated
  /\ key \in [Ids -> Keys \cup {None}]
  /\ controlAddr \in [Ids -> ControlAddrs \cup {None}]
  /\ queue \in [Ids -> QueueRecord(1..MaxBroadcasts)]
  /\ cancelled \in [Ids -> BOOLEAN]
  /\ silent \in [Ids -> BOOLEAN]
  /\ worker \in [Ids -> Locations]
  /\ lateSends \in [Ids -> Nat]
  /\ stopped \in BOOLEAN
  /\ muHeld \in BOOLEAN
  /\ remover \in [Removers -> Places]
  /\ toRemove \in SUBSET Keys
  /\ closing \in [Closers -> SUBSET Ids]
  /\ closeCalled \in SUBSET Closers
  /\ stats \in SUBSET Keys
  /\ broadcasts \in 0..MaxBroadcasts

(* However registrations, re-registrations, timeouts and LEAVEs interleave,  *)
(* the number of sessions never exceeds the configured limit.                *)
CapacityRespected == Cardinality(Active) <= MaxSessions

(* Shutdown is final: a registration that comes in after CloseAll began does *)
(* not put a session back into the map nobody will close any more.           *)
NothingAfterStop == stopped => Active = {}

(* Nobody has been told to tear the object i down, or the teardown is in     *)
(* progress: some goroutine holds i and has Cancel or Close still to do.     *)
Teardown(i) ==
  \/ \E r \in Removers : remover[r].id = i
  \/ \E c \in Closers : i \in closing[c]

(* No goroutine leaks: a session object that is no longer in the map has its *)
(* context ended and its queue closed, which is what ends its worker, or a   *)
(* goroutine is on its way to do that.                                       *)
NoOrphan ==
  \A i \in 1..created :
    i \in Live \/ Teardown(i) \/ (CtxDone(i) /\ queue[i].closed)

(* A removed session stops at once: after its context has ended its worker   *)
(* sends at most the one packet it had already passed the check for, even if *)
(* the queue stays open and full a while longer.                             *)
OneLateSend == \A i \in Ids : lateSends[i] <= 1

(* A queue is never closed before the context: a worker that finds its queue *)
(* closed always returns at once.                                            *)
ClosedOnlyAfterCancel == \A i \in Ids : queue[i].closed => CtxDone(i)

(* The statistics list no receiver that has no session, except while the     *)
(* goroutine that removed it has still to say so, or after shutdown.         *)
NoGhostInStats ==
  stopped \/ \A k \in stats \ Active :
    \E r \in Removers : remover[r].at = "stats" /\ remover[r].key = k

(* Every worker whose session left the map ends. *)
WorkersEnd ==
  \A i \in Ids : (i \in 1..created /\ i \notin Live) ~> worker[i] = "done"

(* A receiver that stays silent is removed, however often sm.mu is taken and *)
(* though the monitor may still be removing another one when it goes silent. *)
SilentRemoved ==
  \A i \in Ids : (i \in Live /\ silent[i]) ~> (i \notin Live \/ ~silent[i])
=============================================================================
