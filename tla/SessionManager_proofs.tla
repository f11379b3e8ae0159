------------------------ MODULE SessionManager_proofs ------------------------
(* Proofs about SessionManager, for any number of addresses, sessions,       *)
(* packets and callers of CloseAll, and every session limit and queue size.  *)
EXTENDS SessionManager, PacketQueueOps_proofs, FiniteSetTheorems

(* What a goroutine inside RemoveSession or AddSession holds. *)
RemoverOK(r) ==
  /\ remover[r].at # "idle" => remover[r].key \in Keys
  /\ remover[r].at \in {"stats", "cancel", "close", "replace"}
       => remover[r].id \in 1..created
  /\ remover[r].at = "replace" => /\ r = "control" /\ remover[r].addr \in ControlAddrs
                                  /\ created < MaxCreated

(* References to session objects are never dangling. *)
RefInv ==
  /\ sessions \in [Keys -> 0..created]
  /\ \A i \in 1..created : key[i] \in Keys
  /\ \A c \in Closers : closing[c] \subseteq 1..created
  /\ \A r \in Removers : RemoverOK(r)

ObjInv == TypeOK /\ RefInv

LEMMA ObjInvInit == Init => ObjInv
  <1> SUFFICES ASSUME Init PROVE ObjInv
    OBVIOUS
  <1>1. queue \in [Ids -> QueueRecord(1..MaxBroadcasts)]
    BY NewQueueRecord, SessionManagerAssumption DEF Init
  <1>2. remover \in [Removers -> Places]
    <2>1. Idle \in Places
      BY DEF Places, Idle, Place, NoSession
    <2> QED BY <2>1 DEF Init
  <1>a. /\ sessions \in [Keys -> Ids \cup {NoSession}]
        /\ key \in [Ids -> Keys \cup {None}]
        /\ controlAddr \in [Ids -> ControlAddrs \cup {None}]
        /\ worker \in [Ids -> Locations] /\ lateSends \in [Ids -> Nat]
        /\ closing \in [Closers -> SUBSET Ids]
    BY DEF Init, NoSession, Locations
  <1>b. /\ created \in 0..MaxCreated /\ broadcasts \in 0..MaxBroadcasts
    BY SessionManagerAssumption DEF Init
  <1>c. /\ cancelled \in [Ids -> BOOLEAN] /\ silent \in [Ids -> BOOLEAN]
        /\ stopped \in BOOLEAN /\ muHeld \in BOOLEAN
        /\ toRemove \in SUBSET Keys /\ closeCalled \in SUBSET Closers
        /\ stats \in SUBSET Keys
    BY DEF Init
  <1>3. TypeOK
    BY <1>1, <1>2, <1>a, <1>b, <1>c DEF TypeOK
  <1>4. RefInv
    BY SessionManagerAssumption
    DEF Init, RefInv, RemoverOK, Idle, Place, NoSession, Ids
  <1> QED BY <1>3, <1>4 DEF ObjInv

(* The steps that leave the session objects and the removers alone. *)
LEMMA InsertKeepsObj ==
  ASSUME ObjInv, NEW k \in Keys, NEW a \in ControlAddrs, created < MaxCreated,
         NEW w \in [Ids -> Locations], InsertSession(k, a, w)
  PROVE  /\ sessions' \in [Keys -> 0..created'] /\ sessions' \in [Keys -> Ids \cup {NoSession}]
         /\ created' \in 0..MaxCreated /\ created' = created + 1
         /\ key' \in [Ids -> Keys \cup {None}]
         /\ controlAddr' \in [Ids -> ControlAddrs \cup {None}]
         /\ \A i \in 1..created' : key'[i] \in Keys
         /\ stats' \in SUBSET Keys
         /\ worker' \in [Ids -> Locations]
         /\ sessions'[k] = created + 1
         /\ \A j \in Keys \ {k} : sessions'[j] = sessions[j]
  <1>1. created \in 0..MaxCreated /\ created + 1 \in Ids
    BY SessionManagerAssumption DEF ObjInv, TypeOK, Ids
  <1>2. sessions \in [Keys -> 0..created] /\ key \in [Ids -> Keys \cup {None}]
        /\ controlAddr \in [Ids -> ControlAddrs \cup {None}]
    BY DEF ObjInv, RefInv, TypeOK
  <1>3. created' = created + 1 /\ sessions' = [sessions EXCEPT ![k] = created + 1]
    BY DEF InsertSession
  <1>4. sessions' \in [Keys -> 0..created'] /\ created' \in 0..MaxCreated
        /\ sessions' \in [Keys -> Ids \cup {NoSession}]
    BY <1>1, <1>2, <1>3, SessionManagerAssumption DEF Ids, NoSession
  <1>5. \A i \in 1..created' : key'[i] \in Keys
    BY <1>1, <1>2, <1>3, SessionManagerAssumption DEF InsertSession, ObjInv, RefInv, Ids
  <1> QED BY <1>1, <1>2, <1>3, <1>4, <1>5
          DEF InsertSession, ObjInv, TypeOK, Locations

(* A remover moves to the place p. *)
LEMMA MoveRemover ==
  ASSUME ObjInv, NEW r \in Removers, NEW p \in Places,
         p.at # "replace",
         p.at # "idle" => p.key \in Keys,
         p.at \in {"stats", "cancel", "close"} => p.id \in 1..created,
         remover' = [remover EXCEPT ![r] = p], created' = created
  PROVE  remover' \in [Removers -> Places] /\ \A q \in Removers : RemoverOK(q)'
  <1>1. remover \in [Removers -> Places] /\ \A q \in Removers : RemoverOK(q)
    BY DEF ObjInv, TypeOK, RefInv
  <1>2. remover'[r] = p /\ \A q \in Removers \ {r} : remover'[q] = remover[q]
    BY <1>1
  <1>3. RemoverOK(r)'
    BY <1>2 DEF RemoverOK
  <1>4. \A q \in Removers \ {r} : RemoverOK(q)'
    BY <1>1, <1>2 DEF RemoverOK
  <1> QED BY <1>1, <1>3, <1>4

(* Queue.Close keeps the queue and the worker well-formed. *)
LEMMA CloseKeepsTypes ==
  ASSUME ObjInv, NEW i \in Ids, CloseQueue(i)
  PROVE  queue' \in [Ids -> QueueRecord(1..MaxBroadcasts)] /\ worker' \in [Ids -> Locations]
  <1>1. queue \in [Ids -> QueueRecord(1..MaxBroadcasts)] /\ worker \in [Ids -> Locations]
    BY DEF ObjInv, TypeOK
  <1>2. ClosedQueue(queue[i]) \in QueueRecord(1..MaxBroadcasts)
    BY <1>1, SetClosed
  <1>3. queue' = [queue EXCEPT ![i] = ClosedQueue(@)]
        /\ worker' = [worker EXCEPT ![i] = Woken(i)]
    BY DEF CloseQueue
  <1>4. Woken(i) \in Locations
    BY <1>1 DEF Woken, Locations
  <1> QED BY <1>1, <1>2, <1>3, <1>4

LEMMA ObjInvStep == ObjInv /\ [Next]_vars => ObjInv'
  <1> SUFFICES ASSUME ObjInv, [Next]_vars PROVE ObjInv'
    OBVIOUS
  <1> USE SessionManagerAssumption DEF NoSession
  <1>t. TypeOK /\ RefInv /\ Ids \in SUBSET Nat /\ 1..created \in SUBSET Ids
    BY DEF ObjInv, TypeOK, Ids
  <1>1. ASSUME NEW k \in Keys, NEW a \in ControlAddrs, AddNewSession(k, a)
        PROVE  ObjInv'
    <2>1. created < MaxCreated /\ InsertSession(k, a, worker)
      BY <1>1 DEF AddNewSession
    <2>2. worker \in [Ids -> Locations]
      BY <1>t DEF TypeOK
    <2>3. /\ sessions' \in [Keys -> 0..created'] /\ sessions' \in [Keys -> Ids \cup {NoSession}]
          /\ created' \in 0..MaxCreated /\ created' = created + 1
          /\ key' \in [Ids -> Keys \cup {None}]
          /\ controlAddr' \in [Ids -> ControlAddrs \cup {None}]
          /\ \A i \in 1..created' : key'[i] \in Keys
          /\ stats' \in SUBSET Keys
          /\ worker' \in [Ids -> Locations]
      BY <2>1, <2>2, InsertKeepsObj
    <2>4. UNCHANGED <<removal, shutdown, queue, cancelled, silent, lateSends, broadcasts>>
      BY <1>1 DEF AddNewSession
    <2>5. TypeOK'
      BY <1>t, <2>3, <2>4 DEF TypeOK, removal, shutdown
    <2>6. created \in Nat /\ 1..created \in SUBSET (1..created')
      BY <1>t, <2>3 DEF TypeOK
    <2>7. RefInv'
      BY <1>t, <1>1, <2>3, <2>4, <2>6 DEF AddNewSession, ControlFree, RefInv, RemoverOK,
                                          removal, shutdown
    <2> QED BY <2>5, <2>7 DEF ObjInv
  <1>2. ASSUME NEW k \in Keys, NEW a \in ControlAddrs, UnlinkOldSession(k, a)
        PROVE  ObjInv'
    <2>1. sessions[k] \in 1..created
      BY <1>2, <1>t DEF UnlinkOldSession, RefInv, TypeOK
    <2>2. Place("replace", k, a, sessions[k]) \in Places
      BY <2>1, <1>t DEF Place, Places
    <2>3. TypeOK'
      BY <1>t, <1>2, <2>1, <2>2
      DEF UnlinkOldSession, TypeOK, delivery, shutdown, Unlisted, CancelContext, Removers
    <2>4. RefInv'
      BY <1>t, <1>2, <2>1 DEF UnlinkOldSession, RefInv, RemoverOK, TypeOK,
                              delivery, shutdown, Place, Removers
    <2> QED BY <2>3, <2>4 DEF ObjInv
  <1>3. ASSUME NEW a \in ControlAddrs, Refresh(a) PROVE ObjInv'
    BY <1>t, <1>3 DEF Refresh, ObjInv, TypeOK, RefInv, RemoverOK,
                      registry, delivery, removal, shutdown
  <1>4. ASSUME NEW a \in ControlAddrs, Leave(a) PROVE ObjInv'
    <2>1. PICK i \in Live : remover' = [remover EXCEPT !["control"] =
                                       Place("lookup", key[i], None, NoSession)]
      BY <1>4 DEF Leave
    <2>2. key[i] \in Keys
      BY <1>t, <2>1 DEF Live, Active, RefInv, TypeOK
    <2>3. Place("lookup", key[i], None, NoSession) \in Places
      BY <2>2 DEF Place, Places
    <2>4. TypeOK'
      BY <1>t, <1>4, <2>1, <2>3 DEF Leave, TypeOK, registry, delivery, shutdown, Removers
    <2>5. RefInv'
      BY <1>t, <1>4, <2>1, <2>2 DEF Leave, RefInv, RemoverOK, TypeOK,
                                    registry, delivery, shutdown, Place, Removers
    <2> QED BY <2>4, <2>5 DEF ObjInv
  <1>5. CASE ReplaceOldSession
    <2> DEFINE old == remover["control"].id
               k == remover["control"].key
               a == remover["control"].addr
               woken == [worker EXCEPT ![old] = Woken(old)]
    <2>1. old \in 1..created /\ k \in Keys /\ a \in ControlAddrs /\ old \in Ids
      BY <1>5, <1>t DEF ReplaceOldSession, RefInv, RemoverOK, Removers
    <2>2. woken \in [Ids -> Locations]
      BY <1>t, <2>1 DEF TypeOK, Woken, Locations
    <2>3. queue' \in [Ids -> QueueRecord(1..MaxBroadcasts)]
      <3>1. ClosedQueue(queue[old]) \in QueueRecord(1..MaxBroadcasts)
        BY <1>t, <2>1, SetClosed DEF TypeOK
      <3> QED BY <1>t, <1>5, <2>1, <3>1 DEF ReplaceOldSession, TypeOK
    <2>4. Idle \in Places
      BY DEF Idle, Place, Places
    <2>5. /\ remover' = [remover EXCEPT !["control"] = Idle] /\ muHeld' = FALSE
          /\ UNCHANGED <<shutdown, cancelled, silent, lateSends, toRemove, broadcasts>>
      BY <1>5 DEF ReplaceOldSession
    <2>6. \/ created < MaxCreated /\ InsertSession(k, a, woken)
          \/ worker' = woken /\ UNCHANGED <<registry, stats>>
      BY <1>5, <1>t DEF ReplaceOldSession, RefInv, RemoverOK, Removers
    <2> HIDE DEF old, k, a, woken
    <2>7. /\ sessions' \in [Keys -> 0..created'] /\ sessions' \in [Keys -> Ids \cup {NoSession}]
          /\ created' \in 0..MaxCreated /\ created' >= created
          /\ key' \in [Ids -> Keys \cup {None}]
          /\ controlAddr' \in [Ids -> ControlAddrs \cup {None}]
          /\ \A i \in 1..created' : key'[i] \in Keys
          /\ stats' \in SUBSET Keys
          /\ worker' \in [Ids -> Locations]
      <3>1. CASE created < MaxCreated /\ InsertSession(k, a, woken)
        <4>1. created \in Nat
          BY <1>t DEF TypeOK
        <4> QED BY <2>1, <2>2, <3>1, <4>1, InsertKeepsObj
      <3>2. CASE worker' = woken /\ UNCHANGED <<registry, stats>>
        BY <1>t, <2>2, <3>2 DEF registry, TypeOK, RefInv
      <3> QED BY <2>6, <3>1, <3>2
    <2>8. TypeOK'
      BY <1>t, <2>3, <2>4, <2>5, <2>7 DEF TypeOK, shutdown
    <2>9. created \in Nat /\ 1..created \in SUBSET (1..created')
      BY <1>t, <2>7 DEF TypeOK
    <2>10. RemoverOK("control")'
      BY <1>t, <2>5 DEF RemoverOK, Idle, Place, TypeOK, Removers
    <2>11. RemoverOK("monitor")'
      BY <1>t, <2>5, <2>9 DEF RefInv, RemoverOK, TypeOK, Removers
    <2>12. RefInv'
      BY <1>t, <2>5, <2>7, <2>9, <2>10, <2>11 DEF RefInv, shutdown, Removers
    <2> QED BY <2>8, <2>12 DEF ObjInv
  <1>6. CASE CheckTimeouts
    <2>1. SilentKeys \in SUBSET Keys
      BY DEF SilentKeys, Active
    <2> QED BY <1>t, <1>6, <2>1 DEF CheckTimeouts, ObjInv, TypeOK, RefInv, RemoverOK,
                                    registry, delivery, shutdown
  <1>7. ASSUME NEW k \in Keys, TimeOutKey(k) PROVE ObjInv'
    <2>1. Place("lookup", k, None, NoSession) \in Places
      BY DEF Place, Places
    <2>2. TypeOK'
      BY <1>t, <1>7, <2>1 DEF TimeOutKey, TypeOK, registry, delivery, shutdown,
                              Removers, Unlisted
    <2>3. RefInv'
      BY <1>t, <1>7 DEF TimeOutKey, RefInv, RemoverOK, TypeOK,
                        registry, delivery, shutdown, Place, Removers
    <2> QED BY <2>2, <2>3 DEF ObjInv
  <1>8. ASSUME NEW r \in Removers, UnlinkSession(r) PROVE ObjInv'
    <2>1. remover[r].key \in Keys
      BY <1>t, <1>8 DEF UnlinkSession, RefInv, RemoverOK
    <2> DEFINE k == remover[r].key
               p == IF sessions[k] = NoSession THEN Idle
                    ELSE Place("stats", k, None, sessions[k])
    <2>2. sessions[k] \in Ids \cup {NoSession} /\ sessions[k] \in 0..created
      BY <1>t, <2>1 DEF RefInv, TypeOK
    <2>3. p \in Places /\ p.at \in {"idle", "stats"}
          /\ (p.at # "idle" => p.key \in Keys /\ p.id \in 1..created)
      BY <2>1, <2>2 DEF Idle, Place, Places
    <2>4. /\ remover' = [remover EXCEPT ![r] = p]
          /\ sessions' = sessions \/ sessions' = [sessions EXCEPT ![k] = NoSession]
          /\ UNCHANGED <<delivery, shutdown, created, key, controlAddr, cancelled,
                         silent, toRemove, muHeld, stats, broadcasts>>
      BY <1>8 DEF UnlinkSession
    <2> HIDE DEF p
    <2>5. remover' \in [Removers -> Places] /\ \A q \in Removers : RemoverOK(q)'
      BY <1>t, <2>3, <2>4, MoveRemover DEF ObjInv
    <2>6. sessions' \in [Keys -> 0..created] /\ sessions' \in [Keys -> Ids \cup {NoSession}]
      <3>1. created \in Nat
        BY <1>t DEF TypeOK
      <3>2. sessions \in [Keys -> 0..created] /\ sessions \in [Keys -> Ids \cup {NoSession}]
        BY <1>t DEF TypeOK, RefInv
      <3> QED BY <2>4, <3>1, <3>2
    <2>4a. UNCHANGED <<queue, worker, lateSends, stopped, closing, closeCalled, created, key,
                      controlAddr, cancelled, silent, toRemove, muHeld, stats, broadcasts>>
      BY <2>4 DEF delivery, shutdown
    <2> HIDE DEF k
    <2>7. TypeOK'
      BY <1>t, <2>4a, <2>5, <2>6 DEF TypeOK
    <2>8. RefInv'
      BY <1>t, <2>4a, <2>5, <2>6 DEF RefInv
    <2> QED BY <2>7, <2>8 DEF ObjInv
  <1>9. ASSUME NEW r \in Removers, RemoveStats(r) PROVE ObjInv'
    <2> DEFINE p == [remover[r] EXCEPT !.at = "cancel"]
    <2>1. remover[r] \in Places /\ RemoverOK(r) /\ remover[r].at = "stats"
      BY <1>t, <1>9 DEF TypeOK, RefInv, RemoveStats
    <2>2. p \in Places /\ p.at = "cancel" /\ p.key \in Keys /\ p.id \in 1..created
      BY <2>1 DEF Places, RemoverOK
    <2>3. remover' = [remover EXCEPT ![r] = p]
      BY <1>9 DEF RemoveStats
    <2> HIDE DEF p
    <2>4. remover' \in [Removers -> Places] /\ \A q \in Removers : RemoverOK(q)'
      BY <1>t, <1>9, <2>2, <2>3, MoveRemover DEF RemoveStats, registry, ObjInv
    <2>5. TypeOK'
      BY <1>t, <1>9, <2>4 DEF RemoveStats, TypeOK, Unlisted, registry, delivery, shutdown
    <2>6. RefInv'
      BY <1>t, <1>9, <2>4 DEF RemoveStats, RefInv, registry, shutdown
    <2> QED BY <2>5, <2>6 DEF ObjInv
  <1>10. ASSUME NEW r \in Removers, CancelSession(r) PROVE ObjInv'
    <2> DEFINE p == [remover[r] EXCEPT !.at = "close"]
    <2>1. remover[r] \in Places /\ RemoverOK(r) /\ remover[r].at = "cancel"
      BY <1>t, <1>10 DEF TypeOK, RefInv, CancelSession
    <2>2. p \in Places /\ p.at = "close" /\ p.key \in Keys /\ p.id \in 1..created
      BY <2>1 DEF Places, RemoverOK
    <2>3. remover' = [remover EXCEPT ![r] = p]
      BY <1>10 DEF CancelSession
    <2> HIDE DEF p
    <2>4. remover' \in [Removers -> Places] /\ \A q \in Removers : RemoverOK(q)'
      BY <1>t, <1>10, <2>2, <2>3, MoveRemover DEF CancelSession, registry, ObjInv
    <2>5. cancelled' \in [Ids -> BOOLEAN]
      BY <1>t, <1>10 DEF CancelSession, CancelContext, TypeOK
    <2>6. TypeOK'
      BY <1>t, <1>10, <2>4, <2>5 DEF CancelSession, TypeOK, registry, delivery, shutdown
    <2>7. RefInv'
      BY <1>t, <1>10, <2>4 DEF CancelSession, RefInv, registry, shutdown
    <2> QED BY <2>6, <2>7 DEF ObjInv
  <1>11. ASSUME NEW r \in Removers, CloseSession(r) PROVE ObjInv'
    <2>1. remover[r].id \in 1..created
      BY <1>t, <1>11 DEF CloseSession, RefInv, RemoverOK
    <2>2. queue' \in [Ids -> QueueRecord(1..MaxBroadcasts)] /\ worker' \in [Ids -> Locations]
      BY <1>t, <1>11, <2>1, CloseKeepsTypes DEF CloseSession, ObjInv
    <2>3. Idle \in Places /\ Idle.at = "idle"
      BY DEF Idle, Place, Places
    <2>4. remover' \in [Removers -> Places] /\ \A q \in Removers : RemoverOK(q)'
      BY <1>t, <1>11, <2>3, MoveRemover DEF CloseSession, registry, ObjInv
    <2>5. TypeOK'
      BY <1>t, <1>11, <2>2, <2>4 DEF CloseSession, TypeOK, registry, shutdown
    <2>6. RefInv'
      BY <1>t, <1>11, <2>4 DEF CloseSession, RefInv, registry, shutdown
    <2> QED BY <2>5, <2>6 DEF ObjInv
  <1>12. CASE Broadcast
    <2>1. broadcasts + 1 \in 1..MaxBroadcasts /\ broadcasts' \in 0..MaxBroadcasts
      BY <1>t, <1>12 DEF Broadcast, TypeOK
    <2>2. \A i \in Ids : Enqueued(queue[i], broadcasts + 1) \in QueueRecord(1..MaxBroadcasts)
      <3>1. TAKE i \in Ids
      <3>2. queue[i] \in QueueRecord(1..MaxBroadcasts)
        BY <1>t DEF TypeOK
      <3> QED BY <2>1, <3>2, EnqueuedRecord
    <2>3. queue' \in [Ids -> QueueRecord(1..MaxBroadcasts)]
      BY <1>t, <1>12, <2>2 DEF Broadcast, TypeOK
    <2>4. worker' \in [Ids -> Locations]
      BY <1>t, <1>12 DEF Broadcast, TypeOK, Woken, Locations
    <2>5. UNCHANGED <<registry, removal, shutdown, cancelled, silent, lateSends, stats>>
      BY <1>12 DEF Broadcast
    <2>6. TypeOK'
      BY <1>t, <2>1, <2>3, <2>4, <2>5 DEF TypeOK, registry, removal, shutdown
    <2>7. RefInv'
      BY <1>t, <2>5 DEF RefInv, RemoverOK, registry, removal, shutdown
    <2> QED BY <2>6, <2>7 DEF ObjInv
  <1>13. ASSUME NEW c \in Closers, CloseAll(c) PROVE ObjInv'
    <2>1. Live \in SUBSET Ids /\ Live \subseteq 1..created
      BY <1>t DEF Live, Active, TypeOK, RefInv
    <2>1a. /\ closing' \in [Closers -> SUBSET Ids] /\ sessions' \in [Keys -> Ids \cup {NoSession}]
           /\ closeCalled' \in SUBSET Closers /\ stopped' \in BOOLEAN
      BY <1>t, <1>13, <2>1 DEF CloseAll, TypeOK
    <2>1b. UNCHANGED <<delivery, removal, created, key, controlAddr, cancelled,
                       silent, stats, broadcasts>>
      BY <1>13 DEF CloseAll
    <2>2. TypeOK'
      BY <1>t, <2>1a, <2>1b DEF TypeOK, delivery, removal
    <2>3. RefInv'
      <3>1. created \in Nat
        BY <1>t DEF TypeOK
      <3>2. closing' \in [Closers -> SUBSET (1..created)] /\ sessions' \in [Keys -> 0..created]
        BY <1>t, <1>13, <2>1, <3>1 DEF CloseAll, TypeOK, RefInv
      <3> QED BY <1>t, <2>1b, <3>2 DEF RefInv, RemoverOK, removal
    <2> QED BY <2>2, <2>3 DEF ObjInv
  <1>14. ASSUME NEW c \in Closers, NEW i \in Ids, CloseOne(c, i) PROVE ObjInv'
    <2>1. queue' \in [Ids -> QueueRecord(1..MaxBroadcasts)] /\ worker' \in [Ids -> Locations]
      BY <1>t, <1>14, CloseKeepsTypes DEF CloseOne, ObjInv
    <2>2. cancelled' \in [Ids -> BOOLEAN]
      BY <1>t, <1>14 DEF CloseOne, CancelContext, TypeOK
    <2>3. /\ closing' = [closing EXCEPT ![c] = @ \ {i}]
          /\ UNCHANGED <<registry, removal, silent, lateSends, stopped, closeCalled,
                         stats, broadcasts>>
      BY <1>14 DEF CloseOne
    <2>4. TypeOK'
      BY <1>t, <2>1, <2>2, <2>3 DEF TypeOK, registry, removal
    <2>5. RefInv'
      BY <1>t, <2>3 DEF TypeOK, RefInv, RemoverOK, registry, removal
    <2> QED BY <2>4, <2>5 DEF ObjInv
  <1>15. ASSUME NEW i \in Ids, GoSilent(i) PROVE ObjInv'
    BY <1>t, <1>15 DEF GoSilent, ObjInv, TypeOK, RefInv, RemoverOK,
                       registry, delivery, removal, shutdown
  <1>16. ASSUME NEW i \in Ids, WorkerStep(i) PROVE ObjInv'
    <2>1. /\ UNCHANGED <<registry, removal, shutdown, cancelled, silent, stats, broadcasts>>
          /\ worker' \in [Ids -> Locations]
          /\ lateSends' \in [Ids -> Nat]
      BY <1>t, <1>16
      DEF WorkerStep, WorkerChecks, WorkerWaits, WorkerTakes, WorkerSends, WorkerWriteFails,
          WorkerStops, MoveWorker, TypeOK, Locations
    <2>2. queue' \in [Ids -> QueueRecord(1..MaxBroadcasts)]
      <3>1. CASE WorkerTakes(i)
        <4>1. queue[i].packets # <<>> /\ queue[i] \in QueueRecord(1..MaxBroadcasts)
          BY <1>t, <3>1 DEF WorkerTakes, MustWait, TypeOK
        <4>2. Dequeued(queue[i]) \in QueueRecord(1..MaxBroadcasts)
          BY <4>1, DequeuedRecord
        <4> QED BY <1>t, <3>1, <4>2 DEF WorkerTakes, TypeOK
      <3>2. CASE ~WorkerTakes(i)
        <4>1. queue' = queue
          BY <1>16, <3>2 DEF WorkerStep, WorkerChecks, WorkerWaits, WorkerSends,
                             WorkerWriteFails, WorkerStops
        <4> QED BY <1>t, <4>1 DEF TypeOK
      <3> QED BY <3>1, <3>2
    <2>3. TypeOK'
      BY <1>t, <2>1, <2>2 DEF TypeOK, registry, removal, shutdown
    <2>4. RefInv'
      BY <1>t, <2>1 DEF RefInv, RemoverOK, registry, removal, shutdown
    <2> QED BY <2>3, <2>4 DEF ObjInv
  <1>17. CASE UNCHANGED vars
    BY <1>t, <1>17 DEF vars, ObjInv, TypeOK, RefInv, RemoverOK,
                       registry, delivery, removal, shutdown
  <1> QED BY <1>1, <1>2, <1>3, <1>4, <1>5, <1>6, <1>7, <1>8, <1>9, <1>10, <1>11, <1>12,
             <1>13, <1>14, <1>15, <1>16, <1>17 DEF Next, ControlCall, RemoveStep

(* Every reachable state of SessionManager is well-formed, and no stored     *)
(* reference to a session object dangles.                                    *)
LEMMA ObjectsExist == Spec => []ObjInv
  BY ObjInvInit, ObjInvStep, PTL DEF Spec

(* The state keeps its shape: Session fields, queues within QueueRecord,     *)
(* and a RemoveSession or AddSession in progress names a key it was given.   *)
THEOREM SessionTypes == Spec => []TypeOK
  <1>1. ObjInv => TypeOK
    BY DEF ObjInv
  <1> QED BY <1>1, ObjectsExist, PTL
-----------------------------------------------------------------------------
LEMMA ObjectIds ==
  ASSUME ObjInv
  PROVE  created \in Nat /\ 1..created \subseteq Ids /\ NoSession \notin Ids
  BY SessionManagerAssumption DEF ObjInv, TypeOK, Ids, NoSession

(* A context that has ended stays ended: nothing clears Session.Cancel or    *)
(* sm.cancel.                                                                *)
LEMMA CtxStable ==
  ASSUME ObjInv, [Next]_vars
  PROVE  /\ stopped => stopped'
         /\ \A i \in Ids : cancelled[i] => cancelled'[i]
         /\ \A i \in Ids : CtxDone(i) => CtxDone(i)'
  <1>1. cancelled \in [Ids -> BOOLEAN] /\ stopped \in BOOLEAN
    BY DEF ObjInv, TypeOK
  <1>2. cancelled' = cancelled \/ \E j \in Ids \cup {NoSession} : cancelled' = CancelContext(j)
    <2>1. \A k \in Keys : sessions[k] \in Ids \cup {NoSession}
      BY DEF ObjInv, TypeOK
    <2>2. \A r \in Removers : remover[r].id \in Ids \cup {NoSession}
      BY DEF ObjInv, TypeOK, Places
    <2> QED BY <2>1, <2>2
        DEF Next, ControlCall, RemoveStep, vars, AddNewSession, UnlinkOldSession, Refresh, Leave,
            ReplaceOldSession, CheckTimeouts, TimeOutKey, UnlinkSession, RemoveStats,
            CancelSession, CloseSession, Broadcast, CloseAll, CloseOne, GoSilent, WorkerStep,
            WorkerChecks, WorkerWaits, WorkerTakes, WorkerSends, WorkerWriteFails, WorkerStops
  <1>3. stopped' = stopped \/ stopped' = TRUE
    BY DEF Next, ControlCall, RemoveStep, vars, AddNewSession, UnlinkOldSession, Refresh, Leave,
           ReplaceOldSession, CheckTimeouts, TimeOutKey, UnlinkSession, RemoveStats,
           CancelSession, CloseSession, Broadcast, CloseAll, CloseOne, GoSilent, WorkerStep,
           WorkerChecks, WorkerWaits, WorkerTakes, WorkerSends, WorkerWriteFails, WorkerStops,
           shutdown
  <1>4. \A i \in Ids : cancelled[i] => cancelled'[i]
    BY <1>1, <1>2 DEF CancelContext
  <1>5. stopped => stopped'
    BY <1>1, <1>3
  <1> QED BY <1>4, <1>5 DEF CtxDone

(* A worker that has sent after its context ended is about to notice.        *)
LateInv ==
  \A i \in Ids : lateSends[i] = 0 \/ (lateSends[i] = 1 /\ CtxDone(i) /\ worker[i] \in {"check", "done"})

LEMMA LateInvStep == ObjInv /\ LateInv /\ [Next]_vars => LateInv'
  <1> SUFFICES ASSUME ObjInv, LateInv, [Next]_vars, NEW i \in Ids
               PROVE  \/ lateSends'[i] = 0
                      \/ lateSends'[i] = 1 /\ CtxDone(i)' /\ worker'[i] \in {"check", "done"}
    BY DEF LateInv
  <1>1. /\ worker \in [Ids -> Locations] /\ lateSends \in [Ids -> Nat]
        /\ CtxDone(i) => CtxDone(i)'
        /\ lateSends[i] = 0 \/ (lateSends[i] = 1 /\ CtxDone(i) /\ worker[i] \in {"check", "done"})
    BY CtxStable DEF ObjInv, TypeOK, LateInv
  <1>2. CASE /\ lateSends' = lateSends
             /\ worker'[i] = worker[i] \/ worker'[i] = Woken(i) \/ worker'[i] = "check"
    BY <1>1, <1>2 DEF Woken
  <1>3. ASSUME NEW j \in Ids, WorkerStep(j)
        PROVE  \/ lateSends'[i] = 0
               \/ lateSends'[i] = 1 /\ CtxDone(i)' /\ worker'[i] \in {"check", "done"}
    <2>1. CASE j # i
      BY <1>1, <1>3, <2>1
      DEF WorkerStep, WorkerChecks, WorkerWaits, WorkerTakes, WorkerSends, WorkerWriteFails,
          WorkerStops, MoveWorker
    <2>2. CASE j = i /\ WorkerSends(i)
      BY <1>1, <2>2 DEF WorkerSends, MoveWorker
    <2>3. CASE j = i /\ ~WorkerSends(i)
      BY <1>1, <1>3, <2>3
      DEF WorkerStep, WorkerChecks, WorkerWaits, WorkerTakes, WorkerWriteFails,
          WorkerStops, MoveWorker, LoopEnds
    <2> QED BY <2>1, <2>2, <2>3
  <1>4. CASE \A j \in Ids : ~WorkerStep(j)
    <2>1. lateSends' = lateSends
      BY <1>4 DEF Next, ControlCall, RemoveStep, vars, AddNewSession, UnlinkOldSession, Refresh,
                  Leave, ReplaceOldSession, CheckTimeouts, TimeOutKey, UnlinkSession,
                  RemoveStats, CancelSession, CloseSession, Broadcast, CloseAll, CloseOne,
                  GoSilent, delivery
    <2>2. \/ worker'[i] = worker[i] \/ worker'[i] = Woken(i) \/ worker'[i] = "check"
      <3>1. \A v : \A j \in Int : [worker EXCEPT ![j] = v][i] \in {worker[i], v}
                              /\ (j # i => [worker EXCEPT ![j] = v][i] = worker[i])
        BY <1>1
      <3>2. created + 1 \in Int
        BY DEF ObjInv, TypeOK
      <3>3. CASE \E j \in Ids : CloseQueue(j)
        BY <1>1, <3>3 DEF CloseQueue
      <3>4. CASE \E r \in Removers : CloseSession(r)
        <4>1. PICK r \in Removers : CloseSession(r)
          BY <3>4
        <4>2. remover[r].id \in Ids
          BY <4>1, ObjectIds DEF CloseSession, ObjInv, RefInv, RemoverOK
        <4> QED BY <3>3, <4>1, <4>2 DEF CloseSession
      <3>5. CASE ReplaceOldSession
        <4> DEFINE old == remover["control"].id
                   woken == [worker EXCEPT ![old] = Woken(old)]
        <4>1. old \in Ids
          BY <3>5, ObjectIds DEF ReplaceOldSession, ObjInv, RefInv, RemoverOK, Removers
        <4>2. woken \in [Ids -> Locations] /\ (woken[i] = worker[i] \/ woken[i] = Woken(i))
          BY <1>1, <4>1 DEF Woken, Locations
        <4>3. worker' = woken \/ worker' = [woken EXCEPT ![created + 1] = "check"]
          BY <3>5, Zenon DEF ReplaceOldSession, InsertSession
        <4> HIDE DEF woken
        <4> QED BY <4>2, <4>3, <3>2
      <3>6. CASE \E k \in Keys, a \in ControlAddrs : AddNewSession(k, a)
        <4>1. worker' = [worker EXCEPT ![created + 1] = "check"]
          BY <3>6, Zenon DEF AddNewSession, InsertSession
        <4> QED BY <1>1, <3>2, <4>1
      <3>7. CASE Broadcast
        BY <1>1, <3>7 DEF Broadcast
      <3> QED BY <1>4, <3>3, <3>4, <3>5, <3>6, <3>7
          DEF Next, ControlCall, RemoveStep, vars, UnlinkOldSession, Refresh, Leave,
              CheckTimeouts, TimeOutKey, UnlinkSession, RemoveStats, CancelSession, CloseAll,
              CloseOne, GoSilent, delivery
    <2> QED BY <1>2, <2>1, <2>2
  <1> QED BY <1>3, <1>4

(* A removed session stops at once: its worker sends at most one packet      *)
(* after its context has ended (session.go, the check at the loop's top).    *)
THEOREM AtMostOneLateSend == Spec => []OneLateSend
  <1>1. Init => LateInv
    BY DEF Init, LateInv
  <1>2. LateInv => OneLateSend
    BY DEF LateInv, OneLateSend
  <1> QED BY <1>1, <1>2, ObjectsExist, LateInvStep, PTL DEF Spec
-----------------------------------------------------------------------------
(* sm.mu held across a step: only by an AddSession that replaces a session,  *)
(* which no shutdown, removal or broadcast can then interrupt.               *)
LockInv ==
  /\ muHeld => remover["control"].at = "replace"
  /\ remover["control"].at = "replace" => /\ muHeld /\ ~stopped
                                          /\ sessions[remover["control"].key] = NoSession
  /\ stopped => \A k \in Keys : sessions[k] = NoSession

LEMMA LockInvStep == ObjInv /\ LockInv /\ [Next]_vars => LockInv'
  <1> SUFFICES ASSUME ObjInv, LockInv, [Next]_vars PROVE LockInv'
    OBVIOUS
  <1>t. /\ sessions \in [Keys -> Ids \cup {NoSession}] /\ remover \in [Removers -> Places]
        /\ muHeld \in BOOLEAN /\ stopped \in BOOLEAN
        /\ "control" \in Removers /\ "monitor" \in Removers
        /\ \A r \in Removers : RemoverOK(r)
    BY DEF ObjInv, TypeOK, RefInv, Removers
  <1>1. ASSUME UNCHANGED <<sessions, stopped, muHeld>>, remover'["control"] = remover["control"]
        PROVE  LockInv'
    BY <1>1 DEF LockInv
  <1>2. ASSUME NEW k \in Keys, NEW a \in ControlAddrs, AddNewSession(k, a) PROVE LockInv'
    BY <1>2, <1>t DEF AddNewSession, LockInv, ControlFree, Accepting, removal, shutdown
  <1>3. ASSUME NEW k \in Keys, NEW a \in ControlAddrs, UnlinkOldSession(k, a) PROVE LockInv'
    BY <1>3, <1>t DEF UnlinkOldSession, LockInv, Accepting, Place, shutdown
  <1>4. CASE ReplaceOldSession
    BY <1>4, <1>t DEF ReplaceOldSession, LockInv, Idle, Place, shutdown
  <1>5. ASSUME NEW a \in ControlAddrs, Leave(a) PROVE LockInv'
    <2>1. remover'["control"].at = "lookup"
      BY <1>5, <1>t DEF Leave, Place
    <2> QED BY <1>5, <1>t, <2>1 DEF Leave, LockInv, ControlFree, registry, shutdown
  <1>6. ASSUME NEW r \in Removers, UnlinkSession(r) PROVE LockInv'
    <2>1. ~muHeld /\ muHeld' = muHeld /\ stopped' = stopped
      BY <1>6 DEF UnlinkSession, shutdown
    <2>2. remover["control"].at # "replace" /\ remover'["control"].at # "replace"
      BY <1>6, <1>t, <2>1 DEF UnlinkSession, LockInv, Idle, Place
    <2>3. \A k \in Keys : sessions'[k] = sessions[k] \/ sessions'[k] = NoSession
      BY <1>6, <1>t DEF UnlinkSession
    <2> QED BY <2>1, <2>2, <2>3, <1>t DEF LockInv
  <1>7. ASSUME NEW r \in Removers, RemoveStats(r) \/ CancelSession(r) \/ CloseSession(r)
        PROVE  LockInv'
    <2>1. CASE r = "control"
      <3>1. remover["control"].at # "replace" /\ remover'["control"].at # "replace"
        BY <1>7, <1>t, <2>1 DEF RemoveStats, CancelSession, CloseSession, Idle, Place, Places
      <3> QED BY <1>7, <3>1, <1>t DEF RemoveStats, CancelSession, CloseSession, LockInv,
                                      registry, shutdown
    <2>2. CASE r # "control"
      BY <1>1, <1>7, <1>t, <2>2 DEF RemoveStats, CancelSession, CloseSession, registry, shutdown
    <2> QED BY <2>1, <2>2
  <1>8. ASSUME NEW c \in Closers, CloseAll(c) PROVE LockInv'
    BY <1>8, <1>t DEF CloseAll, LockInv, removal
  <1>9. ASSUME NEW k \in Keys, TimeOutKey(k) PROVE LockInv'
    BY <1>1, <1>9, <1>t DEF TimeOutKey, registry, shutdown
  <1>10. CASE \/ \E a \in ControlAddrs : Refresh(a)
              \/ CheckTimeouts \/ Broadcast
              \/ \E c \in Closers, i \in Ids : CloseOne(c, i)
              \/ \E i \in Ids : GoSilent(i) \/ WorkerStep(i)
              \/ UNCHANGED vars
    BY <1>1, <1>10
    DEF Refresh, CheckTimeouts, Broadcast, CloseOne, GoSilent, WorkerStep, WorkerChecks,
        WorkerWaits, WorkerTakes, WorkerSends, WorkerWriteFails, WorkerStops, vars,
        registry, removal, shutdown
  <1> QED BY <1>2, <1>3, <1>4, <1>5, <1>6, <1>7, <1>8, <1>9, <1>10
          DEF Next, ControlCall, RemoveStep

LEMMA LockHolds == Spec => []LockInv
  <1>1. Init => LockInv
    BY DEF Init, LockInv, Removers, Idle, Place
  <1> QED BY <1>1, ObjectsExist, LockInvStep, PTL DEF Spec

(* Shutdown is final: AddSession re-checks sm.ctx under sm.mu, so no         *)
(* registration puts a session into the map once CloseAll has begun.         *)
THEOREM StopIsFinal == Spec => []NothingAfterStop
  <1>1. LockInv => NothingAfterStop
    BY DEF LockInv, NothingAfterStop, Active
  <1> QED BY <1>1, LockHolds, PTL
-----------------------------------------------------------------------------
(* Whoever closes a queue has cancelled the context first, and a goroutine   *)
(* holds an object only while it has something to do to it.                  *)
PlaceInv ==
  /\ \A r \in Removers :
       /\ remover[r].at \in {"idle", "lookup"} => remover[r].id = NoSession
       /\ remover[r].at \in {"close", "replace"} => cancelled[remover[r].id]
  /\ \A c \in Closers : c \notin closeCalled => closing[c] = {}

LEMMA PlaceInvStep == ObjInv /\ PlaceInv /\ [Next]_vars => PlaceInv'
  <1> SUFFICES ASSUME ObjInv, PlaceInv, [Next]_vars PROVE PlaceInv'
    OBVIOUS
  <1>t. /\ remover \in [Removers -> Places] /\ closing \in [Closers -> SUBSET Ids]
        /\ closeCalled \in SUBSET Closers
        /\ cancelled \in [Ids -> BOOLEAN] /\ cancelled' \in [Ids -> BOOLEAN]
        /\ "control" \in Removers /\ "monitor" \in Removers
    BY ObjInvStep DEF ObjInv, TypeOK, Removers
  <1>o. created \in Nat /\ 1..created \subseteq Ids /\ \A r \in Removers : RemoverOK(r)
    BY ObjectIds DEF ObjInv, RefInv
  <1>c. \A i \in Ids : cancelled[i] => cancelled'[i]
    BY CtxStable
  <1>k. \A r \in Removers : remover[r].at \in {"close", "replace"} => cancelled'[remover[r].id]
    BY <1>c, <1>o DEF PlaceInv, RemoverOK
  <1>1. ASSUME UNCHANGED <<closing, closeCalled>>, NEW r \in Removers,
               NEW p, remover' = [remover EXCEPT ![r] = p],
               p.at \in {"idle", "lookup"} => p.id = NoSession,
               p.at \in {"close", "replace"} => cancelled'[p.id]
        PROVE  PlaceInv'
    <2>1. \A q \in Removers : remover'[q] = IF q = r THEN p ELSE remover[q]
      BY <1>1, <1>t
    <2> QED BY <1>1, <1>k, <2>1 DEF PlaceInv
  <1>2. ASSUME UNCHANGED <<remover, closing, closeCalled>> PROVE PlaceInv'
    BY <1>2, <1>k DEF PlaceInv
  <1>3. ASSUME NEW k \in Keys, NEW a \in ControlAddrs, UnlinkOldSession(k, a) PROVE PlaceInv'
    <2>1. sessions[k] \in Ids
      BY <1>3 DEF UnlinkOldSession, ObjInv, TypeOK
    <2>2. cancelled'[sessions[k]]
      BY <1>3, <1>t, <2>1 DEF UnlinkOldSession, CancelContext
    <2>3. LET p == Place("replace", k, a, sessions[k])
          IN p.at = "replace" /\ p.id = sessions[k]
      BY DEF Place
    <2>4. /\ remover' = [remover EXCEPT !["control"] = Place("replace", k, a, sessions[k])]
          /\ UNCHANGED <<closing, closeCalled>>
      BY <1>3 DEF UnlinkOldSession, shutdown
    <2> QED BY <1>1, <1>t, <2>2, <2>3, <2>4
  <1>4. CASE ReplaceOldSession \/ \E r \in Removers : CloseSession(r)
    <2>1. Idle.at = "idle" /\ Idle.id = NoSession
      BY DEF Idle, Place
    <2>2. /\ \E r \in Removers : remover' = [remover EXCEPT ![r] = Idle]
          /\ UNCHANGED <<closing, closeCalled>>
      BY <1>4, <1>t DEF ReplaceOldSession, CloseSession, shutdown
    <2> QED BY <1>1, <2>1, <2>2
  <1>5. ASSUME NEW a \in ControlAddrs, Leave(a) PROVE PlaceInv'
    <2>1. \A i : LET p == Place("lookup", key[i], None, NoSession)
                 IN p.at = "lookup" /\ p.id = NoSession
      BY DEF Place
    <2> QED BY <1>1, <1>5, <1>t, <2>1 DEF Leave, shutdown
  <1>6. ASSUME NEW k \in Keys, TimeOutKey(k) PROVE PlaceInv'
    <2>1. LET p == Place("lookup", k, None, NoSession)
          IN p.at = "lookup" /\ p.id = NoSession
      BY DEF Place
    <2> QED BY <1>1, <1>6, <1>t, <2>1 DEF TimeOutKey, shutdown
  <1>7. ASSUME NEW r \in Removers, UnlinkSession(r) PROVE PlaceInv'
    <2>1. Idle.at = "idle" /\ Idle.id = NoSession
      BY DEF Idle, Place
    <2>2. \A k, i : Place("stats", k, None, i).at = "stats"
      BY DEF Place
    <2>3. UNCHANGED <<closing, closeCalled>>
      BY <1>7 DEF UnlinkSession, shutdown
    <2>4. \/ remover' = [remover EXCEPT ![r] = Idle]
          \/ \E k, i : remover' = [remover EXCEPT ![r] = Place("stats", k, None, i)]
      BY <1>7 DEF UnlinkSession
    <2> QED BY <1>1, <2>1, <2>2, <2>3, <2>4
  <1>8. ASSUME NEW r \in Removers, RemoveStats(r) PROVE PlaceInv'
    <2> DEFINE p == [remover[r] EXCEPT !.at = "cancel"]
    <2>1. p.at = "cancel"
      BY <1>t DEF Places
    <2>2. remover' = [remover EXCEPT ![r] = p] /\ UNCHANGED <<closing, closeCalled>>
      BY <1>8 DEF RemoveStats, shutdown
    <2> HIDE DEF p
    <2> QED BY <1>1, <2>1, <2>2
  <1>9. ASSUME NEW r \in Removers, CancelSession(r) PROVE PlaceInv'
    <2> DEFINE p == [remover[r] EXCEPT !.at = "close"]
    <2>1. p.at = "close" /\ p.id = remover[r].id
      BY <1>t DEF Places
    <2>2. remover' = [remover EXCEPT ![r] = p] /\ UNCHANGED <<closing, closeCalled>>
      BY <1>9 DEF CancelSession, shutdown
    <2>3. remover[r].id \in Ids
      BY <1>9, <1>o DEF CancelSession, RemoverOK
    <2>4. cancelled'[remover[r].id]
      BY <1>9, <1>t, <2>3 DEF CancelSession, CancelContext
    <2> HIDE DEF p
    <2> QED BY <1>1, <2>1, <2>2, <2>4
  <1>10. ASSUME NEW c \in Closers, CloseAll(c) PROVE PlaceInv'
    BY <1>10, <1>k, <1>t DEF CloseAll, PlaceInv, removal
  <1>11. ASSUME NEW c \in Closers, NEW i \in Ids, CloseOne(c, i) PROVE PlaceInv'
    BY <1>11, <1>k, <1>t DEF CloseOne, PlaceInv, removal
  <1>12. CASE \/ \E k \in Keys, a \in ControlAddrs : AddNewSession(k, a)
              \/ \E a \in ControlAddrs : Refresh(a)
              \/ CheckTimeouts \/ Broadcast
              \/ \E i \in Ids : GoSilent(i) \/ WorkerStep(i)
              \/ UNCHANGED vars
    BY <1>2, <1>12
    DEF AddNewSession, Refresh, CheckTimeouts, Broadcast, GoSilent, WorkerStep, WorkerChecks,
        WorkerWaits, WorkerTakes, WorkerSends, WorkerWriteFails, WorkerStops, vars,
        removal, shutdown
  <1> QED BY <1>3, <1>4, <1>5, <1>6, <1>7, <1>8, <1>9, <1>10, <1>11, <1>12
          DEF Next, ControlCall, RemoveStep

(* What a step can do to one queue's closed flag. *)
LEMMA ClosedStep ==
  ASSUME ObjInv, PlaceInv, [Next]_vars, NEW i \in Ids
  PROVE  \/ queue'[i].closed = queue[i].closed
         \/ queue'[i].closed = TRUE /\ CtxDone(i)'
  <1>t. queue \in [Ids -> QueueRecord(1..MaxBroadcasts)] /\ cancelled \in [Ids -> BOOLEAN]
        /\ broadcasts \in 0..MaxBroadcasts /\ MaxBroadcasts \in Nat
    BY SessionManagerAssumption DEF ObjInv, TypeOK
  <1>1. ASSUME NEW j \in Ids, CtxDone(j)', queue' = [queue EXCEPT ![j] = ClosedQueue(@)]
        PROVE  \/ queue'[i].closed = queue[i].closed
               \/ queue'[i].closed = TRUE /\ CtxDone(i)'
    <2>1. queue'[i] = IF i = j THEN ClosedQueue(queue[i]) ELSE queue[i]
      BY <1>1, <1>t
    <2>2. ClosedQueue(queue[i]).closed = TRUE
      BY <1>t, SetClosed
    <2> QED BY <1>1, <2>1, <2>2, Zenon
  <1>2. CASE ReplaceOldSession
    <2>1. remover["control"].id \in Ids
      BY <1>2, ObjectIds DEF ReplaceOldSession, ObjInv, RefInv, RemoverOK, Removers
    <2>2. cancelled[remover["control"].id] /\ cancelled' = cancelled
      BY <1>2 DEF ReplaceOldSession, PlaceInv, Removers
    <2> QED BY <1>1, <1>2, <2>1, <2>2 DEF ReplaceOldSession, CtxDone
  <1>3. ASSUME NEW r \in Removers, CloseSession(r)
        PROVE  \/ queue'[i].closed = queue[i].closed
               \/ queue'[i].closed = TRUE /\ CtxDone(i)'
    <2>1. remover[r].id \in Ids
      BY <1>3, ObjectIds DEF CloseSession, ObjInv, RefInv, RemoverOK
    <2>2. cancelled[remover[r].id] /\ cancelled' = cancelled
      BY <1>3 DEF CloseSession, PlaceInv
    <2> QED BY <1>1, <1>3, <2>1, <2>2 DEF CloseSession, CloseQueue, CtxDone
  <1>4. ASSUME NEW c \in Closers, NEW j \in Ids, CloseOne(c, j)
        PROVE  \/ queue'[i].closed = queue[i].closed
               \/ queue'[i].closed = TRUE /\ CtxDone(i)'
    <2>1. cancelled'[j]
      BY <1>4, <1>t DEF CloseOne, CancelContext
    <2> QED BY <1>1, <1>4, <2>1 DEF CloseOne, CloseQueue, CtxDone
  <1>5. CASE Broadcast
    <2>1. broadcasts + 1 \in 1..MaxBroadcasts /\ queue[i] \in QueueRecord(1..MaxBroadcasts)
      BY <1>5, <1>t DEF Broadcast
    <2>2. Enqueued(queue[i], broadcasts + 1).closed = queue[i].closed
      BY <2>1, EnqueuedRecord
    <2>3. queue'[i] = queue[i] \/ queue'[i] = Enqueued(queue[i], broadcasts + 1)
      BY <1>5 DEF Broadcast
    <2> QED BY <2>2, <2>3, Zenon
  <1>6. ASSUME NEW j \in Ids, WorkerTakes(j)
        PROVE  queue'[i].closed = queue[i].closed
    <2>1. queue[j] \in QueueRecord(1..MaxBroadcasts) /\ queue[j].packets # <<>>
      BY <1>6, <1>t DEF WorkerTakes, MustWait
    <2>2. Dequeued(queue[j]).closed = queue[j].closed
      BY <2>1, DequeuedRecord
    <2>3. queue'[i] = IF i = j THEN Dequeued(queue[j]) ELSE queue[i]
      BY <1>6, <1>t DEF WorkerTakes
    <2> QED BY <2>2, <2>3, Zenon
  <1>7. CASE queue' = queue
    BY <1>7
  <1> QED BY <1>2, <1>3, <1>4, <1>5, <1>6, <1>7
          DEF Next, ControlCall, RemoveStep, vars, AddNewSession, UnlinkOldSession, Refresh,
              Leave, CheckTimeouts, TimeOutKey, UnlinkSession, RemoveStats, CancelSession,
              CloseAll, GoSilent, WorkerStep, WorkerChecks, WorkerWaits, WorkerSends,
              WorkerWriteFails, WorkerStops, delivery

LEMMA PlacesHold == Spec => []PlaceInv
  <1>1. Init => PlaceInv
    BY DEF Init, PlaceInv, Idle, Place
  <1> QED BY <1>1, ObjectsExist, PlaceInvStep, PTL DEF Spec

(* A queue is closed only after the context has ended, so a worker that      *)
(* finds its queue closed returns at once (session.go 307-311).              *)
THEOREM CloseFollowsCancel == Spec => []ClosedOnlyAfterCancel
  <1>1. Init => ClosedOnlyAfterCancel
    <2>1. NewPacketQueue(QueueSize).closed = FALSE
      BY SessionManagerAssumption, NewQueueRecord
    <2> QED BY <2>1 DEF Init, ClosedOnlyAfterCancel
  <1>2. ObjInv /\ PlaceInv /\ ClosedOnlyAfterCancel /\ [Next]_vars => ClosedOnlyAfterCancel'
    <2> SUFFICES ASSUME ObjInv, PlaceInv, ClosedOnlyAfterCancel, [Next]_vars, NEW i \in Ids,
                        queue'[i].closed
                 PROVE  CtxDone(i)'
      BY DEF ClosedOnlyAfterCancel
    <2>1. CtxDone(i) => CtxDone(i)'
      BY CtxStable
    <2>2. queue[i].closed => CtxDone(i)
      BY DEF ClosedOnlyAfterCancel
    <2>3. \/ queue'[i].closed = queue[i].closed
          \/ queue'[i].closed = TRUE /\ CtxDone(i)'
      BY ClosedStep
    <2> QED BY <2>1, <2>2, <2>3, Zenon
  <1> QED BY <1>1, <1>2, ObjectsExist, PlacesHold, PTL DEF Spec
-----------------------------------------------------------------------------
(* An object that leaves the map is taken over by whoever unlinked it. *)
LEMMA UnlinkedIsHeld ==
  ASSUME ObjInv, LockInv, [Next]_vars, NEW k \in Keys,
         sessions[k] # NoSession, sessions'[k] # sessions[k]
  PROVE  \/ \E r \in Removers : remover'[r].id = sessions[k]
         \/ \E c \in Closers : sessions[k] \in closing'[c]
  <1>t. /\ sessions \in [Keys -> Ids \cup {NoSession}] /\ remover \in [Removers -> Places]
        /\ closing \in [Closers -> SUBSET Ids]
        /\ "control" \in Removers /\ \A r \in Removers : RemoverOK(r)
    BY DEF ObjInv, TypeOK, RefInv, Removers
  <1>1. ASSUME NEW j \in Keys, NEW a \in ControlAddrs, UnlinkOldSession(j, a)
        PROVE  \E r \in Removers : remover'[r].id = sessions[k]
    <2>1. j = k
      BY <1>1, <1>t DEF UnlinkOldSession
    <2> QED BY <1>1, <1>t, <2>1 DEF UnlinkOldSession, Place
  <1>2. ASSUME NEW r \in Removers, UnlinkSession(r)
        PROVE  remover'[r].id = sessions[k]
    <2>1. remover[r].key = k
      BY <1>2, <1>t DEF UnlinkSession
    <2> QED BY <1>2, <1>t, <2>1 DEF UnlinkSession, Place
  <1>3. ASSUME NEW c \in Closers, CloseAll(c)
        PROVE  sessions[k] \in closing'[c]
    BY <1>3, <1>t DEF CloseAll, Live, Active
  <1>4. ASSUME NEW j \in Keys, NEW a \in ControlAddrs, AddNewSession(j, a) PROVE FALSE
    BY <1>4, <1>t DEF AddNewSession, InsertSession
  <1>5. CASE ReplaceOldSession
    <2>1. remover["control"].key \in Keys /\ sessions[remover["control"].key] = NoSession
      BY <1>5, <1>t DEF ReplaceOldSession, LockInv, RemoverOK
    <2>2. \/ sessions' = [sessions EXCEPT ![remover["control"].key] = created + 1]
          \/ sessions' = sessions
      BY <1>5, Zenon DEF ReplaceOldSession, InsertSession, registry
    <2> QED BY <1>t, <2>1, <2>2
  <1>6. CASE sessions' = sessions
    BY <1>6
  <1> QED BY <1>1, <1>2, <1>3, <1>4, <1>5, <1>6
          DEF Next, ControlCall, RemoveStep, vars, Refresh, Leave, CheckTimeouts, TimeOutKey,
              RemoveStats, CancelSession, CloseSession, Broadcast, CloseOne, GoSilent, WorkerStep,
              WorkerChecks, WorkerWaits, WorkerTakes, WorkerSends, WorkerWriteFails, WorkerStops,
              registry

(* A goroutine that lets go of an object has cancelled and closed it. *)
LEMMA ReleasedIsClosed ==
  ASSUME ObjInv, PlaceInv, [Next]_vars, NEW i \in 1..created, Teardown(i), ~Teardown(i)'
  PROVE  CtxDone(i)' /\ queue'[i].closed
  <1>t. /\ remover \in [Removers -> Places] /\ queue \in [Ids -> QueueRecord(1..MaxBroadcasts)]
        /\ closing \in [Closers -> SUBSET Ids] /\ cancelled \in [Ids -> BOOLEAN]
        /\ "control" \in Removers /\ "monitor" \in Removers /\ i \in Ids /\ i # NoSession
    BY ObjectIds DEF ObjInv, TypeOK, Removers, NoSession
  <1>0. ASSUME NEW j \in {i}, queue' = [queue EXCEPT ![j] = ClosedQueue(@)]
        PROVE  queue'[i].closed
    <2>1. queue'[i] = ClosedQueue(queue[i]) /\ queue[i] \in QueueRecord(1..MaxBroadcasts)
      BY <1>0, <1>t
    <2>2. ClosedQueue(queue[i]).closed = TRUE
      BY <2>1, SetClosed
    <2> QED BY <2>1, <2>2, Zenon
  <1>1. CASE \E c \in Closers : i \in closing[c]
    <2>1. PICK c \in Closers : i \in closing[c] /\ i \notin closing'[c]
      BY <1>1 DEF Teardown
    <2>2. ASSUME NEW d \in Closers, CloseAll(d) PROVE FALSE
      BY <2>1, <2>2, <1>t DEF CloseAll, PlaceInv
    <2>3. ASSUME NEW d \in Closers, NEW j \in Ids, CloseOne(d, j)
          PROVE  CtxDone(i)' /\ queue'[i].closed
      <3>1. j = i
        BY <2>1, <2>3, <1>t DEF CloseOne
      <3>2. cancelled'[i]
        BY <2>3, <3>1, <1>t DEF CloseOne, CancelContext
      <3> QED BY <1>0, <2>3, <3>1, <3>2 DEF CloseOne, CloseQueue, CtxDone
    <2>4. CASE closing' = closing
      BY <2>1, <2>4
    <2> QED BY <2>2, <2>3, <2>4
        DEF Next, ControlCall, RemoveStep, vars, AddNewSession, UnlinkOldSession, Refresh,
            Leave, ReplaceOldSession, CheckTimeouts, TimeOutKey, UnlinkSession, RemoveStats,
            CancelSession, CloseSession, Broadcast, GoSilent, WorkerStep, WorkerChecks,
            WorkerWaits, WorkerTakes, WorkerSends, WorkerWriteFails, WorkerStops, shutdown
  <1>2. CASE \E r \in Removers : remover[r].id = i
    <2>1. PICK r \in Removers : remover[r].id = i /\ remover'[r].id # i
      BY <1>2 DEF Teardown
    <2>2. remover[r].at \notin {"idle", "lookup"}
      BY <2>1, <1>t DEF PlaceInv
    <2>3. CASE ReplaceOldSession
      <3>1. r = "control"
        BY <2>1, <2>3, <1>t DEF ReplaceOldSession
      <3>2. cancelled[i] /\ cancelled' = cancelled
        BY <2>1, <2>3, <3>1 DEF ReplaceOldSession, PlaceInv
      <3> QED BY <1>0, <2>1, <2>3, <3>1, <3>2 DEF ReplaceOldSession, CtxDone
    <2>4. ASSUME NEW q \in Removers, CloseSession(q)
          PROVE  CtxDone(i)' /\ queue'[i].closed
      <3>1. r = q
        BY <2>1, <2>4, <1>t DEF CloseSession
      <3>2. cancelled[i] /\ cancelled' = cancelled
        BY <2>1, <2>4, <3>1 DEF CloseSession, PlaceInv
      <3> QED BY <1>0, <2>1, <2>4, <3>1, <3>2 DEF CloseSession, CloseQueue, CtxDone
    <2>5. ASSUME NEW a \in ControlAddrs, Leave(a) PROVE FALSE
      BY <2>1, <2>2, <2>5, <1>t DEF Leave, ControlFree
    <2>6. ASSUME NEW k \in Keys, NEW a \in ControlAddrs, UnlinkOldSession(k, a) PROVE FALSE
      BY <2>1, <2>2, <2>6, <1>t DEF UnlinkOldSession, ControlFree
    <2>7. ASSUME NEW k \in Keys, TimeOutKey(k) PROVE FALSE
      BY <2>1, <2>2, <2>7, <1>t DEF TimeOutKey
    <2>8. ASSUME NEW q \in Removers, UnlinkSession(q) PROVE FALSE
      BY <2>1, <2>2, <2>8, <1>t DEF UnlinkSession
    <2>9. ASSUME NEW q \in Removers, RemoveStats(q) \/ CancelSession(q) PROVE FALSE
      BY <2>1, <2>9, <1>t DEF RemoveStats, CancelSession, Places
    <2>10. CASE remover' = remover
      BY <2>1, <2>10
    <2> QED BY <2>3, <2>4, <2>5, <2>6, <2>7, <2>8, <2>9, <2>10
        DEF Next, ControlCall, RemoveStep, vars, AddNewSession, Refresh, CheckTimeouts,
            Broadcast, CloseAll, CloseOne, GoSilent, WorkerStep, WorkerChecks, WorkerWaits,
            WorkerTakes, WorkerSends, WorkerWriteFails, WorkerStops, removal
  <1> QED BY <1>1, <1>2 DEF Teardown

(* Only AddSession makes objects, and the new one is in the map. *)
LEMMA NewObjectIsLive ==
  ASSUME ObjInv, [Next]_vars
  PROVE  created' = created \/ (created' = created + 1 /\ created + 1 \in Live')
  <1>1. ASSUME NEW k \in Keys, NEW a, NEW w, InsertSession(k, a, w)
        PROVE  created' = created + 1 /\ created + 1 \in Live'
    BY <1>1, ObjectIds DEF InsertSession, Live, Active, ObjInv, TypeOK, NoSession
  <1>2. CASE ReplaceOldSession
    <2>1. remover["control"].key \in Keys
      BY <1>2 DEF ReplaceOldSession, ObjInv, RefInv, RemoverOK, Removers
    <2>2. \/ \E a, w : InsertSession(remover["control"].key, a, w)
          \/ created' = created
      BY <1>2, Zenon DEF ReplaceOldSession, registry
    <2> QED BY <1>1, <2>1, <2>2
  <1>3. ASSUME NEW k \in Keys, NEW a \in ControlAddrs, AddNewSession(k, a)
        PROVE  created' = created + 1 /\ created + 1 \in Live'
    BY <1>1, <1>3 DEF AddNewSession
  <1>4. CASE created' = created
    BY <1>4
  <1> QED BY <1>2, <1>3, <1>4
      DEF Next, ControlCall, RemoveStep, vars, UnlinkOldSession, Refresh, Leave, CheckTimeouts,
          TimeOutKey, UnlinkSession, RemoveStats, CancelSession, CloseSession, Broadcast,
          CloseAll, CloseOne, GoSilent, WorkerStep, WorkerChecks, WorkerWaits, WorkerTakes,
          WorkerSends, WorkerWriteFails, WorkerStops, registry

(* No goroutine leaks: however AddSession, RemoveSession, CheckTimeouts and  *)
(* CloseAll interleave, an object that is no longer in the map has been      *)
(* cancelled and closed, or somebody is about to do it.                      *)
THEOREM NobodyOrphaned == Spec => []NoOrphan
  <1>1. Init => NoOrphan
    BY DEF Init, NoOrphan
  <1>2. ObjInv /\ LockInv /\ PlaceInv /\ NoOrphan /\ [Next]_vars => NoOrphan'
    <2> SUFFICES ASSUME ObjInv, LockInv, PlaceInv, NoOrphan, [Next]_vars,
                        NEW i \in 1..created', i \notin Live', ~Teardown(i)'
                 PROVE  CtxDone(i)' /\ queue'[i].closed
      BY DEF NoOrphan
    <2>1. i \in 1..created /\ i \in Ids
      BY NewObjectIsLive, ObjectIds
    <2>2. i \notin Live
      <3> SUFFICES ASSUME i \in Live PROVE FALSE
        OBVIOUS
      <3>1. PICK k \in Keys : sessions[k] = i /\ sessions[k] # NoSession
        BY DEF Live, Active
      <3>2. sessions'[k] # sessions[k]
        BY <3>1 DEF Live, Active
      <3> QED BY <3>1, <3>2, UnlinkedIsHeld DEF Teardown
    <2>3. CASE Teardown(i)
      BY <2>1, <2>3, ReleasedIsClosed
    <2>4. CASE CtxDone(i) /\ queue[i].closed
      <3>1. CtxDone(i)'
        BY <2>1, <2>4, CtxStable
      <3>2. \/ queue'[i].closed = queue[i].closed
            \/ queue'[i].closed = TRUE /\ CtxDone(i)'
        BY <2>1, ClosedStep
      <3> QED BY <2>4, <3>1, <3>2, Zenon
    <2> QED BY <2>1, <2>2, <2>3, <2>4 DEF NoOrphan
  <1> QED BY <1>1, <1>2, ObjectsExist, LockHolds, PlacesHold, PTL DEF Spec
-----------------------------------------------------------------------------
(* The limit: only AddSession adds a key, and it has just counted the map    *)
(* with sm.mu held.                                                          *)
LEMMA ActiveStep ==
  ASSUME ObjInv, [Next]_vars
  PROVE  \/ Active' \subseteq Active
         \/ HasRoom /\ \E k \in Keys : Active' = Active \cup {k}
  <1>t. sessions \in [Keys -> Ids \cup {NoSession}] /\ created \in Nat /\ created + 1 # NoSession
    BY ObjectIds DEF ObjInv, TypeOK, NoSession
  <1>1. ASSUME NEW k \in Keys, NEW a, NEW w, InsertSession(k, a, w)
        PROVE  Active' = Active \cup {k}
    BY <1>1, <1>t DEF InsertSession, Active
  <1>2. CASE ReplaceOldSession
    <2>1. remover["control"].key \in Keys
      BY <1>2 DEF ReplaceOldSession, ObjInv, RefInv, RemoverOK, Removers
    <2>2. \/ HasRoom /\ \E a, w : InsertSession(remover["control"].key, a, w)
          \/ sessions' = sessions
      BY <1>2, Zenon DEF ReplaceOldSession, registry
    <2> QED BY <1>1, <2>1, <2>2 DEF Active
  <1>3. ASSUME NEW k \in Keys, NEW a \in ControlAddrs, AddNewSession(k, a)
        PROVE  HasRoom /\ Active' = Active \cup {k}
    BY <1>1, <1>3 DEF AddNewSession
  <1>4. CASE \A k \in Keys : sessions'[k] = sessions[k] \/ sessions'[k] = NoSession
    BY <1>4 DEF Active
  <1>5. ASSUME NEW k \in Keys, NEW a \in ControlAddrs, UnlinkOldSession(k, a)
        PROVE  \A j \in Keys : sessions'[j] = sessions[j] \/ sessions'[j] = NoSession
    BY <1>5, <1>t DEF UnlinkOldSession
  <1>6. ASSUME NEW r \in Removers, UnlinkSession(r)
        PROVE  \A j \in Keys : sessions'[j] = sessions[j] \/ sessions'[j] = NoSession
    BY <1>6, <1>t DEF UnlinkSession
  <1>7. ASSUME NEW c \in Closers, CloseAll(c)
        PROVE  \A j \in Keys : sessions'[j] = sessions[j] \/ sessions'[j] = NoSession
    BY <1>7 DEF CloseAll
  <1> QED BY <1>2, <1>3, <1>4, <1>5, <1>6, <1>7
      DEF Next, ControlCall, RemoveStep, vars, Refresh, Leave, CheckTimeouts, TimeOutKey,
          RemoveStats, CancelSession, CloseSession, Broadcast, CloseOne, GoSilent, WorkerStep,
          WorkerChecks, WorkerWaits, WorkerTakes, WorkerSends, WorkerWriteFails, WorkerStops,
          registry

(* The number of registered sessions never exceeds cfg.Unicast.MaxSessions.  *)
THEOREM CapacityHolds == Spec => []CapacityRespected
  <1>1. Init => CapacityRespected
    <2> SUFFICES ASSUME Init PROVE CapacityRespected
      OBVIOUS
    <2>1. Active = {}
      BY DEF Init, Active
    <2> QED BY <2>1, FS_EmptySet, SessionManagerAssumption DEF CapacityRespected
  <1>2. ObjInv /\ CapacityRespected /\ [Next]_vars => CapacityRespected'
    <2> SUFFICES ASSUME ObjInv, CapacityRespected, [Next]_vars PROVE CapacityRespected'
      OBVIOUS
    <2>1. IsFiniteSet(Active) /\ MaxSessions \in Nat
      BY FS_Subset, SessionManagerAssumption DEF Active
    <2>2. Cardinality(Active) \in Nat
      BY <2>1, FS_CardinalityType
    <2>3. CASE Active' \subseteq Active
      <3>1. IsFiniteSet(Active') /\ Cardinality(Active') <= Cardinality(Active)
        BY <2>1, <2>3, FS_Subset
      <3>2. Cardinality(Active') \in Nat
        BY <3>1, FS_CardinalityType
      <3> QED BY <2>1, <2>2, <3>1, <3>2 DEF CapacityRespected
    <2>4. CASE HasRoom /\ \E k \in Keys : Active' = Active \cup {k}
      <3>1. PICK k \in Keys : Active' = Active \cup {k}
        BY <2>4
      <3>2. \/ Cardinality(Active') = Cardinality(Active)
            \/ Cardinality(Active') = Cardinality(Active) + 1
        BY <2>1, <3>1, FS_AddElement
      <3> QED BY <2>1, <2>2, <2>4, <3>2 DEF CapacityRespected, HasRoom
    <2> QED BY <2>3, <2>4, ActiveStep
  <1> QED BY <1>1, <1>2, ObjectsExist, PTL DEF Spec

(* The operator's statistics never list a receiver without a session, except *)
(* between RemoveSession's unlock and its call of SessionRemoved.            *)
THEOREM NoGhosts == Spec => []NoGhostInStats
  <1> DEFINE Pending(k) == \E r \in Removers : remover[r].at = "stats" /\ remover[r].key = k
  <1>1. Init => NoGhostInStats
    BY DEF Init, NoGhostInStats
  <1>2. ObjInv /\ NoGhostInStats /\ [Next]_vars => NoGhostInStats'
    <2> SUFFICES ASSUME ObjInv, NoGhostInStats, [Next]_vars, ~stopped',
                        NEW k \in stats', k \notin Active'
                 PROVE  Pending(k)'
      BY DEF NoGhostInStats
    <2>t. /\ sessions \in [Keys -> Ids \cup {NoSession}] /\ remover \in [Removers -> Places]
          /\ stats \in SUBSET Keys /\ stopped \in BOOLEAN /\ created \in Nat
          /\ created + 1 # NoSession
          /\ "control" \in Removers /\ "monitor" \in Removers
          /\ \A r \in Removers : RemoverOK(r)
      BY ObjectIds DEF ObjInv, TypeOK, RefInv, Removers, NoSession
    <2>0. ~stopped /\ (k \in stats /\ k \notin Active => Pending(k))
      BY CtxStable DEF NoGhostInStats
    <2>1. ASSUME NEW j \in Keys, NEW a, NEW w, InsertSession(j, a, w)
          PROVE  k \in stats /\ k \notin Active
      BY <2>1, <2>t DEF InsertSession, Active
    <2>2. ASSUME NEW j \in Keys, NEW a \in ControlAddrs, AddNewSession(j, a)
          PROVE  Pending(k)'
      BY <2>0, <2>1, <2>2 DEF AddNewSession, removal
    <2>3. CASE ReplaceOldSession
      <3>1. remover["control"].key \in Keys
        BY <2>3, <2>t DEF ReplaceOldSession, RemoverOK
      <3>2. \/ \E a, w : InsertSession(remover["control"].key, a, w)
            \/ UNCHANGED <<sessions, stats>>
        BY <2>3, Zenon DEF ReplaceOldSession, registry
      <3>3. k \in stats /\ k \notin Active
        BY <2>1, <3>1, <3>2 DEF Active
      <3>4. \A r \in Removers : remover[r].at = "stats" => remover'[r] = remover[r]
        BY <2>3, <2>t DEF ReplaceOldSession
      <3> QED BY <2>0, <3>3, <3>4
    <2>4. ASSUME NEW j \in Keys, NEW a \in ControlAddrs, UnlinkOldSession(j, a)
          PROVE  Pending(k)'
      <3>1. k \in stats /\ k \notin Active
        BY <2>4, <2>t DEF UnlinkOldSession, Unlisted, Active
      <3>2. \A r \in Removers : remover[r].at = "stats" => remover'[r] = remover[r]
        BY <2>4, <2>t DEF UnlinkOldSession, ControlFree
      <3> QED BY <2>0, <3>1, <3>2
    <2>5. ASSUME NEW a \in ControlAddrs, Leave(a) PROVE Pending(k)'
      <3>1. k \in stats /\ k \notin Active
        BY <2>5 DEF Leave, registry, Active
      <3>2. \A r \in Removers : remover[r].at = "stats" => remover'[r] = remover[r]
        BY <2>5, <2>t DEF Leave, ControlFree
      <3> QED BY <2>0, <3>1, <3>2
    <2>6. ASSUME NEW j \in Keys, TimeOutKey(j) PROVE Pending(k)'
      <3>1. k \in stats /\ k \notin Active
        BY <2>6 DEF TimeOutKey, Unlisted, registry, Active
      <3>2. \A r \in Removers : remover[r].at = "stats" => remover'[r] = remover[r]
        BY <2>6, <2>t DEF TimeOutKey
      <3> QED BY <2>0, <3>1, <3>2
    <2>7. ASSUME NEW r \in Removers, UnlinkSession(r) PROVE Pending(k)'
      <3>1. k \in stats /\ remover[r].at = "lookup" /\ remover[r].key \in Keys
        BY <2>7, <2>t DEF UnlinkSession, RemoverOK
      <3>2. \A q \in Removers : remover[q].at = "stats" => remover'[q] = remover[q]
        BY <2>7, <2>t DEF UnlinkSession
      <3>3. CASE k \notin Active
        BY <2>0, <3>1, <3>2, <3>3
      <3>4. CASE k \in Active
        <4>1. remover[r].key = k
          BY <2>7, <2>t, <3>4 DEF UnlinkSession, Active
        <4>2. sessions[k] # NoSession
          BY <3>4 DEF Active
        <4>3. remover'[r].at = "stats" /\ remover'[r].key = k
          BY <2>7, <2>t, <4>1, <4>2 DEF UnlinkSession, Place
        <4> QED BY <4>3
      <3> QED BY <3>3, <3>4
    <2>8. ASSUME NEW r \in Removers, RemoveStats(r) PROVE Pending(k)'
      <3>1. k \in stats /\ k \notin Active /\ remover[r].key # k
        BY <2>8 DEF RemoveStats, Unlisted, registry, Active
      <3>2. \A q \in Removers \ {r} : remover'[q] = remover[q]
        BY <2>8, <2>t DEF RemoveStats
      <3> QED BY <2>0, <3>1, <3>2
    <2>9. ASSUME NEW r \in Removers, CancelSession(r) \/ CloseSession(r) PROVE Pending(k)'
      <3>1. k \in stats /\ k \notin Active
        BY <2>9 DEF CancelSession, CloseSession, registry, Active
      <3>2. \A q \in Removers : remover[q].at = "stats" => remover'[q] = remover[q]
        BY <2>9, <2>t DEF CancelSession, CloseSession
      <3> QED BY <2>0, <3>1, <3>2
    <2>10. ASSUME NEW c \in Closers, CloseAll(c) PROVE FALSE
      BY <2>10 DEF CloseAll
    <2>11. CASE UNCHANGED <<sessions, stats, remover>>
      BY <2>0, <2>11 DEF Active
    <2> QED BY <2>2, <2>3, <2>4, <2>5, <2>6, <2>7, <2>8, <2>9, <2>10, <2>11
        DEF Next, ControlCall, RemoveStep, vars, Refresh, CheckTimeouts, Broadcast, CloseOne,
            GoSilent, WorkerStep, WorkerChecks, WorkerWaits, WorkerTakes, WorkerSends,
            WorkerWriteFails, WorkerStops, registry, removal
  <1> QED BY <1>1, <1>2, ObjectsExist, PTL DEF Spec
=============================================================================
