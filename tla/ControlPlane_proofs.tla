------------------------- MODULE ControlPlane_proofs -------------------------
(* Proofs about ControlPlane, for any receivers, ports, challenges and       *)
(* numbers of attempts, KeepAlive intervals and datagrams in flight.         *)
EXTENDS ControlPlane, TLAPS

Dialogue == {"AUTH_CHALLENGE", "AUTH_RESPONSE"}

(* Registrations are plain text, and only with encryption are challenges     *)
(* sent and answered.                                                        *)
DatagramOK(m) ==
  /\ m.type \in Types /\ m.rcv \in Receivers /\ m.port \in Ports
  /\ m.sealed \in Keys /\ m.value \in Keys \cup {Success, Denied}
  /\ m.type = "REGISTER" => m.sealed = None
  /\ m.type \in Dialogue => encrypted /\ m.value \in Nonces

NetOK == \A m \in net : DatagramOK(m)

(* Sessions have a key exactly when there is encryption, and only then are   *)
(* there challenges.                                                         *)
LiveSessions == [port : Ports, key : IF encrypted THEN Nonces ELSE {None}]
LivePendings == [port : Ports, nonce : Nonces, old : BOOLEAN]

SenderOK ==
  /\ sessions \in [Receivers -> LiveSessions \cup {NoSession}]
  /\ pending \in [Receivers -> LivePendings \cup {NoPending}]
  /\ recent \subseteq Receivers
  /\ ~encrypted => pending = [r \in Receivers |-> NoPending]

ReceiverOK ==
  /\ loc \in [Receivers -> {"dial", "send", "await", "result", "up", "drop", "off"}]
  /\ port \in [Receivers -> Ports \cup {None}]
  /\ attempt \in [Receivers -> 1..Attempts]
  /\ derived \in [Receivers -> Keys]
  /\ key \in [Receivers -> Keys]
  /\ listening \in [Receivers -> BOOLEAN]
  /\ quiet \in [Receivers -> 0..Multiplier]
  /\ trigger \in [Receivers -> BOOLEAN]

EnvOK == encrypted \in Modes /\ calm \in BOOLEAN /\ forgotten \subseteq Receivers

Shape == NetOK /\ SenderOK /\ ReceiverOK /\ EnvOK

LEMMA ShapeIsTypeOK == Shape => TypeOK
  <1> SUFFICES ASSUME Shape PROVE TypeOK
    OBVIOUS
  <1>1. sessions \in [Receivers -> [port : Ports \cup {None}, key : Keys]]
    <2>1. LiveSessions \cup {NoSession} \subseteq [port : Ports \cup {None}, key : Keys]
      BY DEF LiveSessions, NoSession, Keys
    <2> QED BY <2>1 DEF Shape, SenderOK
  <1>2. pending \in [Receivers -> [port : Ports \cup {None}, nonce : Keys, old : BOOLEAN]]
    <2>1. LivePendings \cup {NoPending}
            \subseteq [port : Ports \cup {None}, nonce : Keys, old : BOOLEAN]
      <3>1. NoPending \in [port : Ports \cup {None}, nonce : Keys, old : BOOLEAN]
        BY DEF NoPending, Keys
      <3>2. LivePendings \subseteq [port : Ports \cup {None}, nonce : Keys, old : BOOLEAN]
        BY DEF LivePendings, Keys
      <3> QED BY <3>1, <3>2
    <2> QED BY <2>1 DEF Shape, SenderOK
  <1>3. \A m \in net : /\ m.type \in Types /\ m.rcv \in Receivers /\ m.port \in Ports
                      /\ m.sealed \in Keys /\ m.value \in Keys \cup {Success, Denied}
    BY DEF Shape, NetOK, DatagramOK
  <1>4. recent \subseteq Receivers /\ EnvOK /\ ReceiverOK
    BY DEF Shape, SenderOK
  <1> QED BY <1>1, <1>2, <1>3, <1>4 DEF ReceiverOK, EnvOK, TypeOK

LEMMA ShapeInit == Init => Shape
  <1> SUFFICES ASSUME Init PROVE Shape
    OBVIOUS
  <1>1. NetOK
    BY DEF Init, NetOK
  <1>2. SenderOK
    BY DEF Init, SenderOK
  <1>3. ReceiverOK
    BY ControlPlaneAssumption DEF Init, ReceiverOK, Keys
  <1> QED BY <1>1, <1>2, <1>3 DEF Shape, Init, EnvOK
-----------------------------------------------------------------------------
(* What is sent keeps the network in shape.                                  *)
LEMMA ExchangeBound ==
  ASSUME NEW ms, NEW new, Exchange(ms, new)
  PROVE  net' \subseteq (net \ ms) \cup new
  BY DEF Exchange

LEMMA ExchangeOK ==
  ASSUME Shape, NEW ms, NEW new, \A m \in new : DatagramOK(m), Exchange(ms, new),
         UNCHANGED environment
  PROVE  NetOK' /\ EnvOK'
  <1>1. UNCHANGED <<encrypted, calm, forgotten>>
    BY DEF environment
  <1>2. \A m \in (net \ ms) \cup new : DatagramOK(m)
    BY DEF Shape, NetOK
  <1>3. \A m \in net' : DatagramOK(m)
    BY <1>2, ExchangeBound
  <1>4. \A m \in net' : DatagramOK(m)'
    BY <1>1, <1>3 DEF DatagramOK
  <1> QED BY <1>1, <1>4 DEF NetOK, EnvOK, Shape

(* What does not send anything. *)
LEMMA FewerOK ==
  ASSUME Shape, net' \subseteq net, UNCHANGED encrypted
  PROVE  NetOK'
  BY DEF Shape, NetOK, DatagramOK

LEMMA PurgedOK ==
  ASSUME Shape
  PROVE  /\ Purged \in [Receivers -> LivePendings \cup {NoPending}]
         /\ ~encrypted => Purged = [r \in Receivers |-> NoPending]
  BY DEF Shape, SenderOK, Purged

LEMMA ReceiverUnchanged ==
  ASSUME Shape, UNCHANGED receiverVars
  PROVE  ReceiverOK'
  BY DEF Shape, ReceiverOK, receiverVars, socketVars, listenVars

LEMMA SenderUnchanged ==
  ASSUME Shape, UNCHANGED senderVars, UNCHANGED encrypted
  PROVE  SenderOK'
  BY DEF Shape, SenderOK, senderVars, LiveSessions

LEMMA EnvUnchanged ==
  ASSUME Shape, UNCHANGED environment
  PROVE  EnvOK' /\ UNCHANGED encrypted
  BY DEF Shape, EnvOK, environment

LEMMA ReplyOK ==
  ASSUME Shape, NEW m \in net, NEW type \in Types \ ({"REGISTER"} \cup Dialogue),
         NEW sealed \in Keys, NEW value \in Keys \cup {Success, Denied},
         Reply(m, type, sealed, value), UNCHANGED environment
  PROVE  NetOK' /\ EnvOK'
  <1>1. DatagramOK(m)
    BY DEF Shape, NetOK
  <1>2. DatagramOK(Datagram(type, m.rcv, m.port, sealed, value))
    BY <1>1 DEF DatagramOK, Datagram
  <1> QED BY <1>2, ExchangeOK DEF Reply

LEMMA NoReplyOK ==
  ASSUME Shape, NEW m, NoReply(m), UNCHANGED environment
  PROVE  NetOK' /\ EnvOK'
  BY ExchangeOK DEF NoReply
-----------------------------------------------------------------------------
LEMMA SenderReadsOK ==
  ASSUME Shape, NEW m \in net, SenderReads(m)
  PROVE  Shape'
  <1>1. DatagramOK(m)
    BY DEF Shape, NetOK
  <1>r. m.rcv \in Receivers /\ m.port \in Ports
    BY <1>1 DEF DatagramOK
  <1>2. UNCHANGED <<receiverVars, environment>>
    BY DEF SenderReads, Unreadable, RateLimited, Challenge, TooManyPending, RegisterPlain,
           RefusePlain, NothingPending, Accept, Refuse, KeepAlive, Leave, Register
  <1>3. ReceiverOK' /\ EnvOK' /\ UNCHANGED encrypted
    BY <1>2, ReceiverUnchanged, EnvUnchanged
  <1>4. recent' \subseteq Receivers
    <2>1. recent' = recent \/ recent' = recent \cup {m.rcv}
      BY DEF SenderReads, Unreadable, RateLimited, Challenge, TooManyPending,
             RegisterPlain, RefusePlain, NothingPending, Accept, Refuse, KeepAlive,
             Leave, Register
    <2> QED BY <1>r, <2>1 DEF Shape, SenderOK
  <1> DEFINE PendingOK ==
               /\ pending' \in [Receivers -> LivePendings \cup {NoPending}]
               /\ ~encrypted => pending' = [r \in Receivers |-> NoPending]
             SessionsOK == sessions' \in [Receivers -> LiveSessions \cup {NoSession}]
  <1>p. pending' = Purged => PendingOK
    BY PurgedOK
  <1>d. pending' = [Purged EXCEPT ![m.rcv] = NoPending] => PendingOK
    <2> SUFFICES ASSUME pending' = [Purged EXCEPT ![m.rcv] = NoPending] PROVE PendingOK
      OBVIOUS
    <2>1. CASE encrypted
      BY <2>1, PurgedOK
    <2>2. CASE ~encrypted
      BY <2>2, PurgedOK
    <2> QED BY <2>1, <2>2
  <1>s. UNCHANGED sessions => SessionsOK
    BY DEF Shape, SenderOK
  <1>a. ASSUME NEW k \in IF encrypted THEN Nonces ELSE {None}, Added(m.rcv, m.port, k)
        PROVE  SessionsOK
    <2>1. Session(m.port, k) \in LiveSessions
      BY <1>r, <1>a DEF Session, LiveSessions
    <2> QED BY <1>r, <1>a, <2>1 DEF Added, Shape, SenderOK
  <1>5. PendingOK /\ SessionsOK /\ NetOK'
    <2>1. CASE Unreadable(m)
      BY <2>1, <1>2, <1>p, <1>s, NoReplyOK DEF Unreadable
    <2>2. CASE RateLimited(m)
      BY <2>2, <1>2, <1>p, <1>s, NoReplyOK DEF RateLimited
    <2>3. CASE Challenge(m)
      <3>1. NewNonce \in Nonces /\ encrypted
        <4>1. Fresh # {} /\ encrypted
          BY <2>3 DEF Challenge
        <4>2. NewNonce \in Fresh
          BY <4>1 DEF NewNonce
        <4> QED BY <4>1, <4>2 DEF Fresh
      <3>2. Pending(m.port, NewNonce) \in LivePendings
        BY <3>1, <1>r DEF Pending, LivePendings
      <3>3. PendingOK
        BY <2>3, <3>1, <3>2, PurgedOK DEF Challenge
      <3>4. DatagramOK(Datagram("AUTH_CHALLENGE", m.rcv, m.port, None, NewNonce))
        BY <1>r, <3>1 DEF DatagramOK, Datagram, Types, Keys, Dialogue
      <3>5. NetOK'
        BY <2>3, <1>2, <3>4, ExchangeOK DEF Challenge, Reply
      <3> QED BY <2>3, <3>3, <3>5, <1>s DEF Challenge
    <2>4. CASE TooManyPending(m)
      BY <2>4, <1>2, <1>p, <1>s, NoReplyOK DEF TooManyPending
    <2>5. CASE RegisterPlain(m)
      <3>1. NetOK'
        BY <2>5, <1>2, ReplyOK DEF RegisterPlain, Types, Dialogue, Keys
      <3>2. SessionsOK
        BY <2>5, <1>s, <1>a DEF RegisterPlain
      <3> QED BY <2>5, <3>1, <3>2, <1>p DEF RegisterPlain
    <2>6. CASE RefusePlain(m)
      <3>1. NetOK'
        BY <2>6, <1>2, ReplyOK DEF RefusePlain, Types, Dialogue, Keys
      <3> QED BY <2>6, <3>1, <1>p, <1>s DEF RefusePlain, Full
    <2>7. CASE NothingPending(m)
      BY <2>7, <1>2, <1>p, <1>s, NoReplyOK DEF NothingPending
    <2>8. CASE Accept(m)
      <3>1. NetOK'
        BY <2>8, <1>2, ReplyOK DEF Accept, Types, Dialogue, Keys
      <3>2. Purged[m.rcv].nonce \in Nonces /\ encrypted
        <4>1. encrypted /\ m.value \in Nonces
          BY <2>8, <1>1 DEF Accept, Answers, Reads, DatagramOK, Dialogue
        <4>2. Purged[m.rcv].nonce = m.value
          BY <2>8 DEF Accept, Proves
        <4> QED BY <4>1, <4>2
      <3>3. SessionsOK
        BY <2>8, <3>2, <1>a DEF Accept
      <3> QED BY <2>8, <3>1, <3>3, <1>d DEF Accept
    <2>9. CASE Refuse(m)
      <3>1. NetOK'
        BY <2>9, <1>2, ReplyOK DEF Refuse, Types, Dialogue, Keys
      <3>2. UNCHANGED sessions
        BY <2>9 DEF Refuse, Full
      <3> QED BY <2>9, <3>1, <3>2, <1>d, <1>s DEF Refuse
    <2>10. CASE KeepAlive(m)
      <3>1. NetOK'
        BY <2>10, <1>1, <1>2, ReplyOK, NoReplyOK DEF KeepAlive, Types, Dialogue, Keys, DatagramOK
      <3> QED BY <2>10, <3>1, <1>p, <1>s DEF KeepAlive
    <2>11. CASE Leave(m)
      <3>1. SessionsOK
        BY <2>11, <1>r DEF Leave, Shape, SenderOK
      <3> QED BY <2>11, <3>1, <1>2, <1>p, NoReplyOK DEF Leave
    <2> QED BY <2>1, <2>2, <2>3, <2>4, <2>5, <2>6, <2>7, <2>8, <2>9, <2>10, <2>11
         DEF SenderReads
  <1>6. SenderOK'
    BY <1>3, <1>4, <1>5 DEF SenderOK, LiveSessions
  <1> QED BY <1>3, <1>5, <1>6 DEF Shape

LEMMA SenderAloneOK ==
  ASSUME Shape,
         \/ \E r \in Receivers : Expire(r) \/ MinutePasses(r) \/ SecondPasses(r)
         \/ \E m \in net : Lose(m) \/ Stray(m)
         \/ SenderRestarts \/ Settle
  PROVE  Shape'
  <1>1. UNCHANGED encrypted /\ net' \subseteq net
    <2>1. ASSUME NEW m \in net, Stray(m) PROVE UNCHANGED encrypted /\ net' \subseteq net
      BY <2>1, ExchangeBound DEF Stray, NoReply, environment
    <2>2. CASE \E m \in net : Lose(m)
      BY <2>2 DEF Lose, environment
    <2>3. CASE \E r \in Receivers : Expire(r) \/ MinutePasses(r) \/ SecondPasses(r)
      BY <2>3 DEF Expire, MinutePasses, SecondPasses, environment
    <2>4. CASE SenderRestarts \/ Settle
      BY <2>4 DEF SenderRestarts, Settle
    <2> QED BY <2>1, <2>2, <2>3, <2>4
  <1>2. NetOK'
    BY <1>1, FewerOK
  <1>3. EnvOK'
    <2>1. forgotten' \subseteq Receivers /\ calm' \in BOOLEAN
      BY DEF Expire, MinutePasses, SecondPasses, SenderRestarts, Settle, Lose, Stray,
             environment, Shape, EnvOK
    <2> QED BY <1>1, <2>1 DEF Shape, EnvOK
  <1>4. SenderOK'
    <2>1. ASSUME NEW r \in Receivers, Expire(r) PROVE SenderOK'
      BY <1>1, <2>1 DEF Expire, Shape, SenderOK, LiveSessions
    <2>2. ASSUME NEW r \in Receivers, MinutePasses(r) PROVE SenderOK'
      <3>1. pending[r] \in LivePendings
        BY <2>2 DEF MinutePasses, Shape, SenderOK
      <3>2. [pending[r] EXCEPT !.old = TRUE] \in LivePendings
        BY <3>1 DEF LivePendings
      <3>3. pending' = [pending EXCEPT ![r] = [pending[r] EXCEPT !.old = TRUE]]
        BY <2>2 DEF MinutePasses
      <3>4. encrypted
        BY <2>2 DEF MinutePasses, Shape, SenderOK
      <3>5. pending' \in [Receivers -> LivePendings \cup {NoPending}]
        BY <3>2, <3>3 DEF Shape, SenderOK
      <3>6. UNCHANGED <<sessions, recent>>
        BY <2>2 DEF MinutePasses
      <3> QED BY <1>1, <3>4, <3>5, <3>6 DEF Shape, SenderOK, LiveSessions
    <2>3. ASSUME NEW r \in Receivers, SecondPasses(r) PROVE SenderOK'
      BY <1>1, <2>3 DEF SecondPasses, Shape, SenderOK, LiveSessions
    <2>4. CASE SenderRestarts
      BY <1>1, <2>4 DEF SenderRestarts, SenderOK
    <2>5. CASE Settle \/ \E m \in net : Lose(m) \/ Stray(m)
      BY <1>1, <2>5, SenderUnchanged DEF Settle, Lose, Stray
    <2> QED BY <2>1, <2>2, <2>3, <2>4, <2>5
  <1>5. ReceiverOK'
    <2>1. CASE SenderRestarts
      BY <2>1 DEF SenderRestarts, socketVars, Shape, ReceiverOK
    <2>2. CASE ~SenderRestarts
      BY <2>2, ReceiverUnchanged
         DEF Expire, MinutePasses, SecondPasses, Settle, Lose, Stray
    <2> QED BY <2>1, <2>2
  <1> QED BY <1>2, <1>3, <1>4, <1>5 DEF Shape

LEMMA NextAttemptOK ==
  ASSUME Shape, NEW r \in Receivers, NextAttempt(r)
  PROVE  /\ attempt' \in [Receivers -> 1..Attempts]
         /\ derived' \in [Receivers -> Keys]
         /\ loc' \in [Receivers -> {"dial", "send", "await", "result", "up", "drop", "off"}]
         /\ loc'[r] \in {"send", "dial"}
         /\ \A q \in Receivers \ {r} : loc'[q] = loc[q] /\ derived'[q] = derived[q]
  <1>1. None \in Keys /\ 1 \in 1..Attempts
    BY ControlPlaneAssumption DEF Keys
  <1>2. CASE TriesAgain(r) /\ attempt[r] < Attempts
    <2>1. attempt[r] + 1 \in 1..Attempts
      BY <1>2, ControlPlaneAssumption DEF Shape, ReceiverOK
    <2> QED BY <1>1, <1>2, <2>1 DEF TriesAgain, Goes, Shape, ReceiverOK
  <1>3. CASE Returns(r, "dial")
    BY <1>1, <1>3 DEF Returns, Goes, Shape, ReceiverOK
  <1> QED BY <1>2, <1>3 DEF NextAttempt

LEMMA SendsOK ==
  ASSUME Shape, NEW r \in Receivers, NEW type \in Types \ Dialogue, NEW sealed \in Keys,
         type = "REGISTER" => sealed = None,
         Sends(r, type, sealed, None), UNCHANGED environment
  PROVE  NetOK' /\ EnvOK'
  <1> DEFINE new == {Datagram(type, r, p, sealed, None) : p \in {port[r]} \ {None}}
  <1>1. ASSUME NEW p \in {port[r]} \ {None}
        PROVE  DatagramOK(Datagram(type, r, p, sealed, None))
    <2>1. p \in Ports
      BY <1>1 DEF Shape, ReceiverOK
    <2> QED BY <2>1 DEF Datagram, DatagramOK, Keys
  <1>2. \A m \in new : DatagramOK(m)
    BY <1>1
  <1> QED BY <1>2, ExchangeOK DEF Sends

LEMMA ReceiverStepOK ==
  ASSUME Shape, NEW r \in Receivers,
         \/ ReceiverRuns(r) \/ KeepAliveTick(r) \/ ListenFails(r)
         \/ \E m \in net : Listen(r, m)
         \/ BadFrame(r) \/ Stop(r)
  PROVE  Shape'
  <1>e. UNCHANGED <<senderVars, encrypted, calm>> /\ forgotten' \subseteq forgotten
    BY DEF ReceiverRuns, Dial, SendRegister, AwaitTimeout, ReceiverReads, ReadOther,
           ReadChallenge, ReadSuccess, ReadDenied, TakeTrigger, EndSession, KeepAliveTick,
           ListenFails, Listen, BadFrame, Stop, environment
  <1>1. SenderOK' /\ EnvOK'
    BY <1>e, SenderUnchanged DEF Shape, EnvOK
  <1>v. /\ loc \in [Receivers -> {"dial", "send", "await", "result", "up", "drop", "off"}]
        /\ port \in [Receivers -> Ports \cup {None}]
        /\ attempt \in [Receivers -> 1..Attempts]
        /\ derived \in [Receivers -> Keys]
        /\ key \in [Receivers -> Keys]
        /\ listening \in [Receivers -> BOOLEAN]
        /\ quiet \in [Receivers -> 0..Multiplier]
        /\ trigger \in [Receivers -> BOOLEAN]
        /\ None \in Keys /\ 1 \in 1..Attempts /\ 0 \in 0..Multiplier
    BY ControlPlaneAssumption DEF Shape, ReceiverOK, Keys
  <1>2. CASE Dial(r)
    BY <1>1, <1>2, <1>e, <1>v, FewerOK DEF Dial, Goes, listenVars, ReceiverOK, Shape
  <1>3. CASE SendRegister(r)
    <2>1. NetOK'
      BY <1>3, <1>v, SendsOK DEF SendRegister, Types, Dialogue
    <2> QED BY <1>1, <1>3, <1>v, <2>1
         DEF SendRegister, Goes, socketVars, listenVars, ReceiverOK, Shape
  <1>4. CASE AwaitTimeout(r)
    BY <1>1, <1>4, <1>e, <1>v, FewerOK, NextAttemptOK
       DEF AwaitTimeout, listenVars, ReceiverOK, Shape
  <1>5. ASSUME NEW m \in net, ReadOther(r, m) PROVE Shape'
    BY <1>1, <1>5, <1>v, NoReplyOK, NextAttemptOK DEF ReadOther, listenVars, ReceiverOK, Shape
  <1>6. ASSUME NEW m \in net, ReadChallenge(r, m) PROVE Shape'
    <2>1. DatagramOK(m) /\ m.value \in Nonces /\ encrypted
      BY <1>6 DEF ReadChallenge, Shape, NetOK, DatagramOK, Dialogue
    <2>2. DatagramOK(Datagram("AUTH_RESPONSE", m.rcv, m.port, None, m.value))
      BY <2>1 DEF DatagramOK, Datagram, Types, Keys, Dialogue
    <2>3. NetOK'
      BY <1>6, <2>2, ExchangeOK DEF ReadChallenge, Reply
    <2> QED BY <1>1, <1>6, <1>v, <2>1, <2>3
         DEF ReadChallenge, Goes, listenVars, ReceiverOK, Shape, Keys
  <1>7. ASSUME NEW m \in net, ReadSuccess(r, m) PROVE Shape'
    <2>1. NetOK'
      BY <1>7, NoReplyOK DEF ReadSuccess
    <2> QED BY <1>1, <1>7, <1>v, <2>1 DEF ReadSuccess, Returns, Goes, ReceiverOK, Shape
  <1>8. ASSUME NEW m \in net, ReadDenied(r, m) PROVE Shape'
    <2>1. NetOK'
      BY <1>8, NoReplyOK DEF ReadDenied
    <2> QED BY <1>1, <1>8, <1>v, <2>1
         DEF ReadDenied, Returns, Goes, listenVars, ReceiverOK, Shape
  <1>9. CASE TakeTrigger(r)
    BY <1>1, <1>9, <1>e, <1>v, FewerOK DEF TakeTrigger, Goes, socketVars, ReceiverOK, Shape
  <1>10. CASE EndSession(r)
    BY <1>1, <1>10, <1>e, <1>v, FewerOK DEF EndSession, Goes, socketVars, ReceiverOK, Shape
  <1>11. CASE KeepAliveTick(r)
    <2>1. NetOK'
      BY <1>11, <1>v, SendsOK DEF KeepAliveTick, Types, Dialogue
    <2>2. quiet[r] + 1 \in 0..Multiplier
      BY <1>11, <1>v, ControlPlaneAssumption DEF KeepAliveTick
    <2> QED BY <1>1, <1>11, <1>v, <2>1, <2>2 DEF KeepAliveTick, socketVars, ReceiverOK, Shape
  <1>12. CASE ListenFails(r)
    BY <1>1, <1>12, <1>e, <1>v, FewerOK DEF ListenFails, socketVars, ReceiverOK, Shape
  <1>13. ASSUME NEW m \in net, Listen(r, m) PROVE Shape'
    BY <1>1, <1>13, <1>v, NoReplyOK DEF Listen, socketVars, ReceiverOK, Shape
  <1>14. CASE BadFrame(r)
    BY <1>1, <1>14, <1>e, <1>v, FewerOK DEF BadFrame, ReceiverOK, Shape
  <1>15. CASE Stop(r)
    <2>1. NetOK'
      BY <1>15, <1>v, SendsOK DEF Stop, Types, Dialogue
    <2> QED BY <1>1, <1>15, <1>v, <2>1 DEF Stop, Returns, Goes, ReceiverOK, Shape
  <1> QED BY <1>2, <1>3, <1>4, <1>5, <1>6, <1>7, <1>8, <1>9, <1>10, <1>11, <1>12, <1>13,
             <1>14, <1>15 DEF ReceiverRuns, ReceiverReads

LEMMA ShapeNext == Shape /\ [Next]_vars => Shape'
  <1> SUFFICES ASSUME Shape, [Next]_vars PROVE Shape'
    OBVIOUS
  <1>1. ASSUME NEW m \in net, SenderReads(m) PROVE Shape'
    BY <1>1, SenderReadsOK
  <1>2. ASSUME NEW m \in net, Lose(m) \/ Stray(m) PROVE Shape'
    BY <1>2, SenderAloneOK
  <1>3. ASSUME NEW r \in Receivers,
               \/ ReceiverRuns(r) \/ KeepAliveTick(r) \/ ListenFails(r)
               \/ \E m \in net : Listen(r, m)
               \/ BadFrame(r) \/ Stop(r)
        PROVE  Shape'
    BY <1>3, ReceiverStepOK
  <1>4. ASSUME NEW r \in Receivers, Expire(r) \/ MinutePasses(r) \/ SecondPasses(r)
        PROVE  Shape'
    BY <1>4, SenderAloneOK
  <1>5. CASE SenderRestarts \/ Settle
    BY <1>5, SenderAloneOK
  <1>6. CASE UNCHANGED vars
    <2>1. UNCHANGED <<senderVars, receiverVars, net, environment>>
      BY <1>6 DEF vars
    <2> QED BY <2>1, ReceiverUnchanged, SenderUnchanged, EnvUnchanged, FewerOK DEF Shape
  <1> QED BY <1>1, <1>2, <1>3, <1>4, <1>5, <1>6 DEF Next

(* Every variable has its type, and registerWithSender makes at most         *)
(* Attempts attempts with a socket.                                          *)
THEOREM TypeCorrect == Spec => []TypeOK
  <1>1. Spec => []Shape
    BY ShapeInit, ShapeNext, PTL DEF Spec
  <1> QED BY <1>1, ShapeIsTypeOK, PTL
-----------------------------------------------------------------------------
(* Why both ends agree.  While a challenge to the receiver's socket, or its  *)
(* answer, is in flight, it is the only one and it is the pending one; what  *)
(* the receiver has derived its key from, or derives it from, is what the    *)
(* sender will accept.                                                       *)
Of(r) == {m \in net : m.rcv = r /\ m.port = port[r] /\ m.type \in Dialogue}

Using(r) == sessions[r] # NoSession /\ sessions[r].port = port[r]

Expects(r, k) ==
  /\ Using(r) => sessions[r].key = k
  /\ \A m \in Of(r) : m.type = "AUTH_RESPONSE" => m.value = k

Agrees(r) ==
  /\ \A m \in Of(r) : pending[r] = Pending(port[r], m.value)
  /\ \A m, n \in Of(r) : m = n
  /\ loc[r] = "result" => Expects(r, derived[r])
  /\ loc[r] = "up" => Expects(r, key[r])

(* The sender challenges no control address that has a session: it would not *)
(* have read the REGISTER.                                                   *)
Apart(r) == pending[r].port # None => pending[r].port # sessions[r].port

PlainOK == ~encrypted => \A r \in Receivers : key[r] = None

AgreeInv ==
  /\ Shape
  /\ PlainOK
  /\ \A r \in Receivers : Apart(r)
  /\ encrypted => \A r \in Receivers \ forgotten : Agrees(r)

LEMMA AgreeInvInit == Init => AgreeInv
  <1> SUFFICES ASSUME Init PROVE AgreeInv
    OBVIOUS
  <1>1. Shape
    BY ShapeInit
  <1>2. PlainOK /\ \A r \in Receivers : Apart(r)
    BY DEF Init, PlainOK, Apart, NoPending
  <1>3. \A r \in Receivers : Agrees(r)
    BY DEF Init, Agrees, Of
  <1> QED BY <1>1, <1>2, <1>3 DEF AgreeInv

LEMMA AgreeInvIsKeyAgreement == AgreeInv => KeyAgreement
  <1> SUFFICES ASSUME AgreeInv, NEW r \in Receivers \ forgotten, loc[r] = "up",
                      sessions[r] # NoSession, sessions[r].port = port[r]
               PROVE  sessions[r].key = key[r]
    BY DEF KeyAgreement
  <1>1. CASE encrypted
    BY <1>1 DEF AgreeInv, Agrees, Expects, Using
  <1>2. CASE ~encrypted
    <2>1. sessions[r] \in LiveSessions
      BY DEF AgreeInv, Shape, SenderOK
    <2> QED BY <1>2, <2>1 DEF AgreeInv, PlainOK, LiveSessions
  <1> QED BY <1>1, <1>2

(* Facts about one datagram and one receiver.                                *)
LEMMA InNet ==
  ASSUME Shape, NEW m \in net
  PROVE  DatagramOK(m) /\ m.rcv \in Receivers /\ m.port \in Ports /\ m.port # None
  BY ControlPlaneAssumption DEF Shape, NetOK, DatagramOK

LEMMA OnePending ==
  ASSUME Shape, NEW r \in Receivers, pending[r] # NoPending
  PROVE  pending[r] \in LivePendings /\ pending[r].port \in Ports
  BY DEF Shape, SenderOK, LivePendings

LEMMA OneSession ==
  ASSUME Shape, NEW r \in Receivers, sessions[r] # NoSession
  PROVE  sessions[r].port \in Ports /\ (encrypted => sessions[r].key # None)
  BY ControlPlaneAssumption DEF Shape, SenderOK, LiveSessions

(* Who accepts a REGISTER with encryption has no session for its address.    *)
LEMMA ChallengeIsApart ==
  ASSUME Shape, encrypted, NEW m \in net, Reads(m, "REGISTER")
  PROVE  m.port # sessions[m.rcv].port
  <1>1. m.sealed = None
    BY InNet DEF Reads, DatagramOK
  <1>2. SUFFICES ASSUME Known(m) PROVE FALSE
    BY DEF Known
  <1>3. sessions[m.rcv] # NoSession
    BY <1>2, InNet DEF Known, NoSession
  <1> QED BY <1>1, <1>2, <1>3, InNet, OneSession DEF Reads, Readable
-----------------------------------------------------------------------------
LEMMA EncryptedKept ==
  ASSUME Next
  PROVE  encrypted' = encrypted
  BY DEF Next, SenderReads, Unreadable, RateLimited, Challenge, TooManyPending,
         RegisterPlain, RefusePlain, NothingPending, Accept, Refuse, KeepAlive, Leave,
         Register, Lose, Stray, ReceiverRuns, Dial, SendRegister, AwaitTimeout,
         ReceiverReads, ReadOther, ReadChallenge, ReadSuccess, ReadDenied, TakeTrigger,
         EndSession, KeepAliveTick, ListenFails, Listen, BadFrame, Stop, Expire,
         MinutePasses, SecondPasses, SenderRestarts, Settle, environment

LEMMA PlainNext ==
  ASSUME AgreeInv, Next
  PROVE  PlainOK'
  <1>1. encrypted' = encrypted
    BY EncryptedKept
  <1>2. \/ key' = key
        \/ \E r \in Receivers :
             /\ key' = [key EXCEPT ![r] = key'[r]]
             /\ ~encrypted => key'[r] = None
    <2>1. ASSUME NEW r \in Receivers, NEW m \in net, ReadSuccess(r, m)
          PROVE  /\ key' = [key EXCEPT ![r] = key'[r]]
                 /\ ~encrypted => key'[r] = None
      BY <2>1 DEF ReadSuccess, AgreeInv, Shape, ReceiverOK
    <2>2. ASSUME NEW r \in Receivers, Stop(r)
          PROVE  key' = [key EXCEPT ![r] = key'[r]] /\ key'[r] = None
      BY <2>2 DEF Stop, AgreeInv, Shape, ReceiverOK
    <2>3. ASSUME \A r \in Receivers : ~Stop(r) /\ \A m \in net : ~ReadSuccess(r, m)
          PROVE  key' = key
      BY <2>3
      DEF Next, SenderReads, Unreadable, RateLimited, Challenge, TooManyPending,
          RegisterPlain, RefusePlain, NothingPending, Accept, Refuse, KeepAlive, Leave,
          Register, Lose, Stray, ReceiverRuns, Dial, SendRegister, AwaitTimeout,
          ReceiverReads, ReadOther, ReadChallenge, ReadDenied, TakeTrigger,
          EndSession, KeepAliveTick, ListenFails, Listen, BadFrame, Expire,
          MinutePasses, SecondPasses, SenderRestarts, Settle, receiverVars, socketVars
    <2> QED BY <2>1, <2>2, <2>3
  <1> QED BY <1>1, <1>2 DEF AgreeInv, PlainOK, Shape, ReceiverOK
-----------------------------------------------------------------------------
(* What a step does with one receiver's challenge and session at the sender. *)
Kept(r) ==
  /\ pending'[r] \in {pending[r], Purged[r], NoPending, [pending[r] EXCEPT !.old = TRUE]}
  /\ sessions'[r] \in {sessions[r], NoSession}

LEMMA KeptIsApart ==
  ASSUME AgreeInv, NEW r \in Receivers, Kept(r)
  PROVE  Apart(r)'
  <1>1. Purged[r] \in {pending[r], NoPending}
    BY DEF Purged
  <1>2. pending'[r].port = pending[r].port \/ pending'[r].port = None
    <2>1. CASE pending'[r] = [pending[r] EXCEPT !.old = TRUE]
      <3>1. pending[r] \in LivePendings \/ pending[r] = NoPending
        BY DEF AgreeInv, Shape, SenderOK
      <3>2. CASE pending[r] \in LivePendings
        BY <2>1, <3>2 DEF LivePendings
      <3>3. CASE pending[r] = NoPending
        BY <2>1, <3>3 DEF NoPending
      <3> QED BY <3>1, <3>2, <3>3
    <2>2. CASE pending'[r] \in {pending[r], NoPending}
      BY <2>2 DEF NoPending
    <2> QED BY <1>1, <2>1, <2>2 DEF Kept
  <1>3. pending[r] = NoPending \/ pending[r].port \in Ports
    BY OnePending DEF AgreeInv
  <1>4. pending'[r].port # None => pending'[r].port \in Ports
    BY <1>2, <1>3 DEF NoPending
  <1>5. Apart(r)
    BY DEF AgreeInv
  <1> QED BY <1>2, <1>4, <1>5 DEF Kept, Apart, NoSession

(* What the sender's reading of a packet does, apart from the replies.       *)
LEMMA SenderReadsKept ==
  ASSUME AgreeInv, NEW m \in net, SenderReads(m), NEW r \in Receivers,
         r = m.rcv => ~Challenge(m) /\ ~Accept(m) /\ ~RegisterPlain(m)
  PROVE  Kept(r)
  <1>t. /\ pending \in [Receivers -> LivePendings \cup {NoPending}]
        /\ Purged \in [Receivers -> LivePendings \cup {NoPending}]
        /\ sessions \in [Receivers -> LiveSessions \cup {NoSession}]
        /\ m.rcv \in Receivers
    BY PurgedOK, InNet DEF AgreeInv, Shape, SenderOK
  <1>1. CASE \/ Unreadable(m) \/ RateLimited(m) \/ TooManyPending(m) \/ RefusePlain(m)
             \/ NothingPending(m) \/ KeepAlive(m)
    BY <1>1 DEF Unreadable, RateLimited, TooManyPending, RefusePlain, NothingPending,
                KeepAlive, Full, Kept
  <1>2. CASE Challenge(m)
    BY <1>2, <1>t DEF Challenge, Kept
  <1>3. CASE RegisterPlain(m)
    BY <1>3, <1>t DEF RegisterPlain, Added, Kept
  <1>4. CASE Accept(m)
    BY <1>4, <1>t DEF Accept, Added, Kept
  <1>5. CASE Refuse(m)
    BY <1>5, <1>t DEF Refuse, Full, Kept
  <1>6. CASE Leave(m)
    BY <1>6, <1>t DEF Leave, Kept
  <1> QED BY <1>1, <1>2, <1>3, <1>4, <1>5, <1>6 DEF SenderReads

LEMMA ReceiverStepIsKept ==
  ASSUME AgreeInv, NEW q,
         \/ ReceiverRuns(q) \/ KeepAliveTick(q) \/ ListenFails(q)
         \/ \E m \in net : Listen(q, m)
         \/ BadFrame(q) \/ Stop(q)
  PROVE  UNCHANGED senderVars
  BY DEF ReceiverRuns, Dial, SendRegister, AwaitTimeout, ReceiverReads, ReadOther,
         ReadChallenge, ReadSuccess, ReadDenied, TakeTrigger, EndSession, KeepAliveTick,
         ListenFails, Listen, BadFrame, Stop

LEMMA TimersKept ==
  ASSUME AgreeInv, NEW q \in Receivers, Expire(q) \/ MinutePasses(q) \/ SecondPasses(q),
         NEW r \in Receivers
  PROVE  Kept(r)
  <1>t. /\ pending \in [Receivers -> LivePendings \cup {NoPending}]
        /\ sessions \in [Receivers -> LiveSessions \cup {NoSession}]
    BY DEF AgreeInv, Shape, SenderOK
  <1>1. CASE Expire(q)
    BY <1>1, <1>t DEF Expire, Kept
  <1>2. CASE MinutePasses(q)
    BY <1>2, <1>t DEF MinutePasses, Kept
  <1>3. CASE SecondPasses(q)
    BY <1>3 DEF SecondPasses, Kept
  <1> QED BY <1>1, <1>2, <1>3

LEMMA ApartNext ==
  ASSUME AgreeInv, Next, NEW r \in Receivers
  PROVE  Apart(r)'
  <1>t. /\ pending \in [Receivers -> LivePendings \cup {NoPending}]
        /\ Purged \in [Receivers -> LivePendings \cup {NoPending}]
        /\ sessions \in [Receivers -> LiveSessions \cup {NoSession}]
    BY PurgedOK DEF AgreeInv, Shape, SenderOK
  <1>1. ASSUME NEW m \in net, SenderReads(m) PROVE Apart(r)'
    <2>1. CASE Kept(r)
      BY <2>1, KeptIsApart
    <2>2. CASE r = m.rcv /\ Challenge(m)
      <3>1. pending'[r] = Pending(m.port, NewNonce) /\ sessions' = sessions
        BY <2>2, <1>t DEF Challenge
      <3>2. m.port # sessions[r].port
        BY <2>2, ChallengeIsApart DEF Challenge, Register, AgreeInv
      <3> QED BY <3>1, <3>2 DEF Apart, Pending
    <2>3. CASE r = m.rcv /\ Accept(m)
      <3>1. pending'[r] = NoPending
        BY <2>3, <1>t DEF Accept
      <3> QED BY <3>1 DEF Apart, NoPending
    <2>4. CASE r = m.rcv /\ RegisterPlain(m)
      <3>1. pending'[r] = NoPending
        BY <2>4, PurgedOK DEF RegisterPlain, AgreeInv
      <3> QED BY <3>1 DEF Apart, NoPending
    <2> QED BY <1>1, <2>1, <2>2, <2>3, <2>4, SenderReadsKept
  <1>2. CASE UNCHANGED <<sessions, pending>>
    BY <1>2, KeptIsApart DEF Kept
  <1>3. ASSUME NEW q \in Receivers, Expire(q) \/ MinutePasses(q) \/ SecondPasses(q)
        PROVE  Apart(r)'
    BY <1>3, TimersKept, KeptIsApart
  <1>4. CASE SenderRestarts
    <2>1. pending'[r] = NoPending
      BY <1>4 DEF SenderRestarts
    <2> QED BY <2>1 DEF Apart, NoPending
  <1>5. CASE \/ Settle \/ \E m \in net : Lose(m) \/ Stray(m)
    BY <1>2, <1>5 DEF Settle, Lose, Stray, senderVars
  <1>6. ASSUME NEW q \in Receivers,
               \/ ReceiverRuns(q) \/ KeepAliveTick(q) \/ ListenFails(q)
               \/ \E m \in net : Listen(q, m)
               \/ BadFrame(q) \/ Stop(q)
        PROVE  Apart(r)'
    BY <1>2, <1>6, ReceiverStepIsKept DEF senderVars
  <1> QED BY <1>1, <1>3, <1>4, <1>5, <1>6 DEF Next
-----------------------------------------------------------------------------
(* Agreement survives what leaves the receiver waiting for the same key and  *)
(* adds nothing to its dialogue, and what ends the dialogue.                 *)
ReceiverKept(r) ==
  /\ port'[r] = port[r]
  /\ loc'[r] = "result" => loc[r] = "result" /\ derived'[r] = derived[r]
  /\ loc'[r] = "up" => loc[r] = "up" /\ key'[r] = key[r]

NetKept(r) == \A m \in net' : m \in net \/ m.rcv # r \/ m.type \notin Dialogue

LEMMA NetKeptShrinks ==
  ASSUME NEW r, NetKept(r), port'[r] = port[r]
  PROVE  Of(r)' \subseteq Of(r)
  BY DEF NetKept, Of

LEMMA AgreesIfKept ==
  ASSUME NEW r \in Receivers, Agrees(r), ReceiverKept(r), NetKept(r),
         sessions'[r] \in {sessions[r], NoSession},
         pending'[r] \in {pending[r], Purged[r]} \/ Of(r)' = {}
  PROVE  Agrees(r)'
  <1>1. Of(r)' \subseteq Of(r)
    BY NetKeptShrinks DEF ReceiverKept
  <1>2. \A m \in Of(r)' : pending'[r] = Pending(port'[r], m.value)
    <2> SUFFICES ASSUME NEW m \in Of(r)'
                 PROVE  pending'[r] = Pending(port[r], m.value)
      BY DEF ReceiverKept
    <2>1. pending[r] = Pending(port[r], m.value)
      BY <1>1 DEF Agrees
    <2>2. Purged[r] = pending[r]
      BY <2>1 DEF Purged, Pending
    <2> QED BY <2>1, <2>2
  <1>3. \A m, n \in Of(r)' : m = n
    BY <1>1 DEF Agrees
  <1>4. \A k : Expects(r, k) => Expects(r, k)'
    <2> SUFFICES ASSUME NEW k, Expects(r, k) PROVE Expects(r, k)'
      OBVIOUS
    <2>1. Using(r)' => Using(r) /\ sessions'[r] = sessions[r]
      BY DEF Using, ReceiverKept
    <2> QED BY <1>1, <2>1 DEF Expects
  <1>5. loc'[r] = "result" => Expects(r, derived[r])' /\ derived'[r] = derived[r]
    BY <1>4 DEF Agrees, ReceiverKept
  <1>6. loc'[r] = "up" => Expects(r, key[r])' /\ key'[r] = key[r]
    BY <1>4 DEF Agrees, ReceiverKept
  <1> QED BY <1>2, <1>3, <1>5, <1>6 DEF Agrees, Pending

LEMMA AgreesIfEmptied ==
  ASSUME NEW r \in Receivers, Of(r)' = {}, loc'[r] \in {"result", "up"} => ~Using(r)'
  PROVE  Agrees(r)'
  BY DEF Agrees, Expects

(* A dialogue is over when its only datagram has been read, and without its  *)
(* challenge pending there is none.                                          *)
LEMMA NoneWithout ==
  ASSUME AgreeInv, NEW r \in Receivers, Agrees(r),
         pending[r] = NoPending \/ pending[r].old \/ pending[r].port # port[r]
  PROVE  Of(r) = {}
  <1> SUFFICES ASSUME NEW m \in Of(r) PROVE FALSE
    OBVIOUS
  <1>1. pending[r] = Pending(port[r], m.value)
    BY DEF Agrees
  <1>2. m.port = port[r] /\ m.port # None
    BY InNet DEF Of, AgreeInv
  <1> QED BY <1>1, <1>2 DEF Pending, NoPending

LEMMA NoneAfter ==
  ASSUME NEW r \in Receivers, Agrees(r), NEW m \in net, m \notin net', NetKept(r),
         port'[r] = port[r], m \in Of(r) \/ Of(r) = {}
  PROVE  Of(r)' = {}
  <1>1. Of(r)' \subseteq Of(r) \ {m}
    BY NetKeptShrinks DEF Of
  <1> QED BY <1>1 DEF Agrees
-----------------------------------------------------------------------------
LEMMA ReplyKept ==
  ASSUME NEW m, NEW type, type \notin Dialogue, NEW sealed, NEW value,
         Reply(m, type, sealed, value) \/ NoReply(m), NEW r
  PROVE  NetKept(r) /\ (m.type # type => m \notin net')
  <1>1. Datagram(type, m.rcv, m.port, sealed, value).type = type
    BY DEF Datagram
  <1>2. net' \subseteq (net \ {m}) \cup {Datagram(type, m.rcv, m.port, sealed, value)}
    BY ExchangeBound DEF Reply, NoReply
  <1> QED BY <1>1, <1>2 DEF NetKept

LEMMA SenderReadsAgree ==
  ASSUME AgreeInv, encrypted, NEW m \in net, SenderReads(m), NEW r \in Receivers \ forgotten'
  PROVE  Agrees(r)'
  <1>1. UNCHANGED <<receiverVars, environment>>
    BY DEF SenderReads, Unreadable, RateLimited, Challenge, TooManyPending, RegisterPlain,
           RefusePlain, NothingPending, Accept, Refuse, KeepAlive, Leave, Register
  <1>2. Agrees(r)
    BY <1>1 DEF AgreeInv, environment
  <1>3. ReceiverKept(r)
    BY <1>1 DEF ReceiverKept, receiverVars, socketVars
  <1>t. /\ pending \in [Receivers -> LivePendings \cup {NoPending}]
        /\ Purged \in [Receivers -> LivePendings \cup {NoPending}]
        /\ sessions \in [Receivers -> LiveSessions \cup {NoSession}]
        /\ m.rcv \in Receivers /\ m.port \in Ports /\ m.port # None
    BY PurgedOK, InNet DEF AgreeInv, Shape, SenderOK
  <1>4. CASE Challenge(m) /\ r = m.rcv
    <2> PICK c : c = Datagram("AUTH_CHALLENGE", r, m.port, None, NewNonce)
      OBVIOUS
    <2>1. c.type = "AUTH_CHALLENGE" /\ c.port = m.port /\ c.value = NewNonce
      BY DEF Datagram
    <2>2. net' \subseteq net \cup {c}
      BY <1>4, ExchangeBound DEF Challenge, Reply
    <2>3. Of(r) = {}
      <3>1. Purged[r] = NoPending
        BY <1>4 DEF Challenge
      <3>2. pending[r] = NoPending \/ pending[r].old
        BY <3>1 DEF Purged
      <3> QED BY <1>2, <3>2, NoneWithout
    <2>4. Of(r)' \subseteq {c}
      BY <2>2, <2>3, <1>3 DEF Of, ReceiverKept
    <2>5. pending'[r] = Pending(m.port, NewNonce) /\ sessions' = sessions
      BY <1>4, <1>t DEF Challenge
    <2>6. \A d \in Of(r)' : d = c /\ d.port = port'[r]
      BY <2>4 DEF Of
    <2>7. \A d \in Of(r)' : pending'[r] = Pending(port'[r], d.value)
      BY <2>1, <2>5, <2>6
    <2>8. \A k : Expects(r, k) => Expects(r, k)'
      BY <2>1, <2>5, <2>6, <1>3 DEF Expects, Using, ReceiverKept
    <2>9. loc'[r] = "result" => Expects(r, derived[r])' /\ derived'[r] = derived[r]
      BY <2>8, <1>2, <1>3 DEF Agrees, ReceiverKept
    <2>10. loc'[r] = "up" => Expects(r, key[r])' /\ key'[r] = key[r]
      BY <2>8, <1>2, <1>3 DEF Agrees, ReceiverKept
    <2> QED BY <2>6, <2>7, <2>9, <2>10 DEF Agrees, Pending
  <1>5. CASE (Accept(m) \/ Refuse(m)) /\ r = m.rcv
    <2>1. m.type = "AUTH_RESPONSE" /\ Purged[r].port = m.port
      BY <1>5 DEF Accept, Refuse, Answers, Reads
    <2>2. pending[r] = Purged[r]
      BY <2>1, <1>t DEF Purged, NoPending
    <2>3. \E status : Reply(m, "AUTH_RESULT", None, status)
      BY <1>5 DEF Accept, Refuse
    <2>4. NetKept(r) /\ m \notin net'
      BY <2>1, <2>3, ReplyKept DEF Dialogue
    <2>5. m \in Of(r) \/ Of(r) = {}
      <3>1. CASE m.port = port[r]
        BY <1>5, <2>1, <3>1 DEF Of, Dialogue
      <3>2. CASE m.port # port[r]
        BY <1>2, <2>1, <2>2, <3>2, NoneWithout
      <3> QED BY <3>1, <3>2
    <2>6. Of(r)' = {}
      BY <1>2, <1>3, <2>4, <2>5, NoneAfter DEF ReceiverKept
    <2>7. CASE Refuse(m)
      <3>1. sessions' = sessions
        BY <2>7 DEF Refuse, Full
      <3> QED BY <1>2, <1>3, <2>4, <2>6, <3>1, AgreesIfKept
    <2>8. CASE Accept(m)
      <3>1. sessions'[r] = Session(m.port, m.value)
        BY <1>5, <1>t, <2>8 DEF Accept, Added, Proves
      <3>2. CASE m.port # port[r]
        <4>1. ~Using(r)'
          BY <1>3, <3>1, <3>2 DEF Using, Session, ReceiverKept
        <4> QED BY <2>6, <4>1, AgreesIfEmptied
      <3>3. CASE m.port = port[r]
        <4>1. m \in Of(r)
          BY <1>5, <2>1, <3>3 DEF Of, Dialogue
        <4>2. \A k : Expects(r, k) => Expects(r, k)'
          BY <2>1, <2>6, <3>1, <4>1 DEF Expects, Using, Session
        <4>3. loc'[r] = "result" => Expects(r, derived[r])' /\ derived'[r] = derived[r]
          BY <4>2, <1>2, <1>3 DEF Agrees, ReceiverKept
        <4>4. loc'[r] = "up" => Expects(r, key[r])' /\ key'[r] = key[r]
          BY <4>2, <1>2, <1>3 DEF Agrees, ReceiverKept
        <4> QED BY <2>6, <4>3, <4>4 DEF Agrees
      <3> QED BY <3>2, <3>3
    <2> QED BY <1>5, <2>7, <2>8
  <1>6. CASE r # m.rcv \/ ~(Challenge(m) \/ Accept(m) \/ Refuse(m))
    <2>1. pending'[r] = Purged[r]
      BY <1>6, <1>t DEF SenderReads, Unreadable, RateLimited, Challenge, TooManyPending,
         RegisterPlain, RefusePlain, NothingPending, Accept, Refuse, KeepAlive, Leave
    <2>2. Kept(r)
      BY <1>6, SenderReadsKept DEF RegisterPlain
    <2>3. NetKept(r)
      <3>1. CASE Challenge(m)
        <4>1. Datagram("AUTH_CHALLENGE", m.rcv, m.port, None, NewNonce).rcv # r
          BY <1>6, <3>1 DEF Datagram
        <4> QED BY <3>1, <4>1, ExchangeBound DEF Challenge, Reply, NetKept
      <3>2. CASE ~Challenge(m)
        <4>1. \/ NoReply(m)
              \/ \E status : Reply(m, "REGISTER_ACK", None, status)
              \/ \E status : Reply(m, "AUTH_RESULT", None, status)
              \/ Reply(m, "KEEPALIVE_ACK", m.sealed, None)
          BY <3>2 DEF SenderReads, Unreadable, RateLimited, TooManyPending, RegisterPlain,
             RefusePlain, NothingPending, Accept, Refuse, KeepAlive, Leave
        <4>2. "REGISTER_ACK" \notin Dialogue /\ "AUTH_RESULT" \notin Dialogue
              /\ "KEEPALIVE_ACK" \notin Dialogue
          BY DEF Dialogue
        <4> QED BY <4>1, <4>2, ReplyKept
      <3> QED BY <3>1, <3>2
    <2> QED BY <1>2, <1>3, <2>1, <2>2, <2>3, AgreesIfKept DEF Kept
  <1> QED BY <1>4, <1>5, <1>6
-----------------------------------------------------------------------------
LEMMA SendsKept ==
  ASSUME NEW q, NEW type, type \notin Dialogue, NEW sealed, Sends(q, type, sealed, None), NEW r
  PROVE  NetKept(r)
  <1>1. \A p : Datagram(type, q, p, sealed, None).type \notin Dialogue
    BY DEF Datagram
  <1> QED BY <1>1, ExchangeBound DEF Sends, NetKept

LEMMA NoReplyKept ==
  ASSUME NEW m, NoReply(m), NEW r
  PROVE  NetKept(r)
  BY ExchangeBound DEF NoReply, NetKept

LEMMA NextAttemptKept ==
  ASSUME AgreeInv, NEW r \in Receivers, NextAttempt(r), port' = port
  PROVE  ReceiverKept(r)
  BY NextAttemptOK DEF ReceiverKept, AgreeInv

(* The steps of one receiver that leave its socket and what it derives its   *)
(* key from alone.                                                           *)
LEMMA QuietStepsKept ==
  ASSUME AgreeInv, NEW r \in Receivers,
         \/ SendRegister(r) \/ AwaitTimeout(r)
         \/ \E m \in net : ReadOther(r, m) \/ ReadDenied(r, m) \/ Listen(r, m)
         \/ TakeTrigger(r) \/ EndSession(r) \/ KeepAliveTick(r) \/ ListenFails(r)
  PROVE  ReceiverKept(r) /\ NetKept(r) /\ UNCHANGED <<sessions, pending, forgotten>>
  <1>0. UNCHANGED <<sessions, pending, forgotten>>
    BY DEF SendRegister, AwaitTimeout, ReadOther, ReadDenied, Listen, TakeTrigger,
           EndSession, KeepAliveTick, ListenFails, senderVars, environment
  <1>v. loc \in [Receivers -> {"dial", "send", "await", "result", "up", "drop", "off"}]
    BY DEF AgreeInv, Shape, ReceiverOK
  <1>1. CASE SendRegister(r)
    <2>1. "REGISTER" \notin Dialogue
      BY DEF Dialogue
    <2> QED BY <1>0, <1>1, <1>v, <2>1, SendsKept DEF SendRegister, Goes, socketVars, ReceiverKept
  <1>2. CASE AwaitTimeout(r)
    BY <1>0, <1>2, NextAttemptKept DEF AwaitTimeout, NetKept
  <1>3. ASSUME NEW m \in net, ReadOther(r, m) PROVE ReceiverKept(r) /\ NetKept(r)
    BY <1>3, NextAttemptKept, NoReplyKept DEF ReadOther
  <1>4. ASSUME NEW m \in net, ReadDenied(r, m) PROVE ReceiverKept(r) /\ NetKept(r)
    BY <1>4, <1>v, NoReplyKept DEF ReadDenied, Returns, Goes, ReceiverKept
  <1>5. ASSUME NEW m \in net, Listen(r, m) PROVE ReceiverKept(r) /\ NetKept(r)
    BY <1>5, NoReplyKept DEF Listen, socketVars, ReceiverKept
  <1>6. CASE TakeTrigger(r)
    BY <1>0, <1>6, <1>v DEF TakeTrigger, Goes, socketVars, ReceiverKept, NetKept
  <1>7. CASE EndSession(r)
    BY <1>0, <1>7, <1>v DEF EndSession, Goes, socketVars, ReceiverKept, NetKept
  <1>8. CASE KeepAliveTick(r)
    <2>1. "KEEPALIVE" \notin Dialogue
      BY DEF Dialogue
    <2> QED BY <1>0, <1>8, <2>1, SendsKept DEF KeepAliveTick, socketVars, ReceiverKept
  <1>9. CASE ListenFails(r)
    BY <1>0, <1>9 DEF ListenFails, socketVars, ReceiverKept, NetKept
  <1> QED BY <1>0, <1>1, <1>2, <1>3, <1>4, <1>5, <1>6, <1>7, <1>8, <1>9

LEMMA ReceiverStepAgrees ==
  ASSUME AgreeInv, encrypted, Shape', NEW r \in Receivers,
         \/ ReceiverRuns(r) \/ KeepAliveTick(r) \/ ListenFails(r)
         \/ \E m \in net : Listen(r, m)
         \/ BadFrame(r) \/ Stop(r),
         r \notin forgotten'
  PROVE  Agrees(r)'
  <1>v. /\ loc \in [Receivers -> {"dial", "send", "await", "result", "up", "drop", "off"}]
        /\ port \in [Receivers -> Ports \cup {None}]
        /\ derived \in [Receivers -> Keys] /\ key \in [Receivers -> Keys]
    BY DEF AgreeInv, Shape, ReceiverOK
  <1>a. r \notin forgotten => Agrees(r)
    BY DEF AgreeInv
  <1>1. CASE \/ SendRegister(r) \/ AwaitTimeout(r)
             \/ \E m \in net : ReadOther(r, m) \/ ReadDenied(r, m) \/ Listen(r, m)
             \/ TakeTrigger(r) \/ EndSession(r) \/ KeepAliveTick(r) \/ ListenFails(r)
    BY <1>1, <1>a, QuietStepsKept, AgreesIfKept
  <1>2. CASE Dial(r)
    <2>1. loc'[r] = "send" /\ net' = net
      BY <1>2, <1>v DEF Dial, Goes
    <2>2. \A m \in net : m.rcv = r => m.port # port'[r]
      BY <1>2, <1>v DEF Dial
    <2> QED BY <2>1, <2>2, AgreesIfEmptied DEF Of
  <1>3. CASE BadFrame(r) \/ Stop(r)
    <2>1. port'[r] = None
      BY <1>3, <1>v DEF BadFrame, Stop
    <2>2. \A m \in net' : m.port \in Ports
      BY DEF Shape, NetOK, DatagramOK
    <2>3. Of(r)' = {}
      BY <2>1, <2>2, ControlPlaneAssumption DEF Of
    <2>4. ~Using(r)'
      <3>1. sessions'[r] = NoSession \/ sessions'[r].port \in Ports
        BY DEF Shape, SenderOK, LiveSessions
      <3> QED BY <2>1, <3>1, ControlPlaneAssumption DEF Using
    <2> QED BY <2>3, <2>4, AgreesIfEmptied
  <1>4. ASSUME NEW m \in net, ReadChallenge(r, m) PROVE Agrees(r)'
    <2>1. m.rcv = r /\ m.port = port[r] /\ m.type = "AUTH_CHALLENGE"
      BY <1>4 DEF ReadChallenge, ReadAwaited, Receives
    <2>2. Agrees(r) /\ m \in Of(r)
      BY <1>4, <1>a, <2>1 DEF ReadChallenge, environment, Of, Dialogue
    <2>3. pending[r] = Pending(port[r], m.value)
      BY <2>2 DEF Agrees
    <2>4. UNCHANGED <<pending, sessions, port>> /\ loc'[r] = "result" /\ derived'[r] = m.value
      BY <1>4, <1>v DEF ReadChallenge, Goes, senderVars
    <2>5. ~Using(r)'
      <3>1. sessions[r].port # port[r] \/ port[r] = None
        BY <2>3 DEF AgreeInv, Apart, Pending
      <3>2. port[r] # None
        BY <2>1, InNet DEF AgreeInv
      <3> QED BY <2>4, <3>1, <3>2 DEF Using
    <2> PICK c : c = Datagram("AUTH_RESPONSE", r, m.port, None, m.value)
      OBVIOUS
    <2>6. c.value = m.value
      BY DEF Datagram
    <2>7. net' \subseteq (net \ {m}) \cup {c}
      BY <1>4, <2>1, ExchangeBound DEF ReadChallenge, Reply
    <2>8. \A d \in Of(r)' : d = c
      BY <2>2, <2>4, <2>7 DEF Of, Agrees
    <2> QED BY <2>3, <2>4, <2>5, <2>6, <2>8 DEF Agrees, Expects, Pending
  <1>5. ASSUME NEW m \in net, ReadSuccess(r, m) PROVE Agrees(r)'
    <2>1. loc[r] = "result"
      BY <1>5 DEF ReadSuccess, ReadResult, ReadAwaited, Awaited
    <2>2. Agrees(r)
      BY <1>5, <1>a DEF ReadSuccess, environment
    <2>3. UNCHANGED <<pending, sessions, port>> /\ loc'[r] = "up" /\ key'[r] = derived[r]
      BY <1>5, <1>v DEF ReadSuccess, Returns, Goes, senderVars
    <2>4. Of(r)' \subseteq Of(r)
      BY <1>5, <2>3, NoReplyKept, NetKeptShrinks DEF ReadSuccess
    <2>5. Expects(r, derived[r])
      BY <2>1, <2>2 DEF Agrees
    <2>6. Expects(r, key[r])'
      BY <2>3, <2>4, <2>5 DEF Expects, Using
    <2> QED BY <2>2, <2>3, <2>4, <2>6 DEF Agrees, Pending
  <1> QED BY <1>1, <1>2, <1>3, <1>4, <1>5 DEF ReceiverRuns, ReceiverReads

LEMMA OtherReceiverAgrees ==
  ASSUME AgreeInv, encrypted, NEW q,
         \/ ReceiverRuns(q) \/ KeepAliveTick(q) \/ ListenFails(q)
         \/ \E m \in net : Listen(q, m)
         \/ BadFrame(q) \/ Stop(q),
         NEW r \in Receivers \ forgotten', r # q
  PROVE  Agrees(r)'
  <1>1. UNCHANGED <<sessions, pending>>
    BY ReceiverStepIsKept DEF senderVars
  <1>v. /\ loc \in [Receivers -> {"dial", "send", "await", "result", "up", "drop", "off"}]
        /\ port \in [Receivers -> Ports \cup {None}]
        /\ derived \in [Receivers -> Keys] /\ key \in [Receivers -> Keys]
    BY DEF AgreeInv, Shape, ReceiverOK
  <1>2. Agrees(r)
    <2>1. forgotten \ {q} \subseteq forgotten'
      BY DEF ReceiverRuns, Dial, SendRegister, AwaitTimeout, ReceiverReads, ReadOther,
           ReadChallenge, ReadSuccess, ReadDenied, TakeTrigger, EndSession, KeepAliveTick,
           ListenFails, Listen, BadFrame, Stop, environment
    <2> QED BY <2>1 DEF AgreeInv
  <1>3. ReceiverKept(r)
    BY <1>v DEF ReceiverRuns, Dial, SendRegister, AwaitTimeout, ReceiverReads, ReadOther,
         ReadChallenge, ReadSuccess, ReadDenied, TakeTrigger, EndSession, KeepAliveTick,
         ListenFails, Listen, BadFrame, Stop, NextAttempt, TriesAgain, Returns, Goes,
         socketVars, ReceiverKept
  <1>4. NetKept(r)
    <2>1. ASSUME NEW type, NEW sealed, Sends(q, type, sealed, None) PROVE NetKept(r)
      <3>1. \A p : Datagram(type, q, p, sealed, None).rcv = q
        BY DEF Datagram
      <3> QED BY <2>1, <3>1, ExchangeBound DEF Sends, NetKept
    <2>2. ASSUME NEW m \in net, Listen(q, m) \/ ReceiverReads(q, m) PROVE NetKept(r)
      <3>1. CASE ReadChallenge(q, m)
        <4>1. Datagram("AUTH_RESPONSE", m.rcv, m.port, None, m.value).rcv = q
          BY <3>1 DEF ReadChallenge, ReadAwaited, Receives, Datagram
        <4> QED BY <3>1, <4>1, ExchangeBound DEF ReadChallenge, Reply, NetKept
      <3>2. CASE ~ReadChallenge(q, m)
        BY <2>2, <3>2, NoReplyKept DEF Listen, ReceiverReads, ReadOther, ReadSuccess, ReadDenied
      <3> QED BY <3>1, <3>2
    <2>3. CASE SendRegister(q) \/ KeepAliveTick(q) \/ Stop(q)
      BY <2>1, <2>3 DEF SendRegister, KeepAliveTick, Stop
    <2>4. CASE \/ Dial(q) \/ AwaitTimeout(q) \/ TakeTrigger(q) \/ EndSession(q)
               \/ ListenFails(q) \/ BadFrame(q)
      BY <2>4 DEF Dial, AwaitTimeout, TakeTrigger, EndSession, ListenFails, BadFrame, NetKept
    <2> QED BY <2>2, <2>3, <2>4 DEF ReceiverRuns
  <1> QED BY <1>1, <1>2, <1>3, <1>4, AgreesIfKept
-----------------------------------------------------------------------------
LEMMA SenderAloneAgrees ==
  ASSUME AgreeInv, encrypted,
         \/ \E q \in Receivers : Expire(q) \/ MinutePasses(q) \/ SecondPasses(q)
         \/ \E m \in net : Lose(m) \/ Stray(m)
         \/ SenderRestarts \/ Settle,
         NEW r \in Receivers \ forgotten'
  PROVE  Agrees(r)'
  <1>1. /\ UNCHANGED <<loc, port, derived, key>>
        /\ forgotten \subseteq forgotten'
        /\ \A m \in net' : m \in net
    <2>1. ASSUME NEW m \in net, Stray(m)
          PROVE  UNCHANGED <<receiverVars, environment>> /\ \A d \in net' : d \in net
      BY <2>1, ExchangeBound DEF Stray, NoReply
    <2> QED BY <2>1 DEF Expire, MinutePasses, SecondPasses, Lose, SenderRestarts, Settle,
                        receiverVars, socketVars, environment
  <1>2. Agrees(r)
    BY <1>1 DEF AgreeInv
  <1>3. ReceiverKept(r) /\ NetKept(r)
    BY <1>1 DEF ReceiverKept, NetKept
  <1>4. CASE Settle \/ \E m \in net : Lose(m) \/ Stray(m)
    <2>1. UNCHANGED <<sessions, pending>>
      BY <1>4 DEF Settle, Lose, Stray, senderVars
    <2> QED BY <1>2, <1>3, <2>1, AgreesIfKept
  <1>5. ASSUME NEW q \in Receivers, Expire(q) \/ SecondPasses(q) PROVE Agrees(r)'
    <2>1. UNCHANGED pending
      BY <1>5 DEF Expire, SecondPasses
    <2>2. sessions'[r] \in {sessions[r], NoSession}
      BY <1>5, TimersKept DEF Kept
    <2> QED BY <1>2, <1>3, <2>1, <2>2, AgreesIfKept
  <1>6. ASSUME NEW q \in Receivers, MinutePasses(q) PROVE Agrees(r)'
    <2>1. UNCHANGED <<sessions, net>>
      BY <1>6 DEF MinutePasses
    <2>2. CASE q = r
      <3>1. Of(r) = {}
        <4> SUFFICES ASSUME NEW m \in Of(r) PROVE FALSE
          OBVIOUS
        <4>0. pending[r] = Pending(port[r], m.value)
          BY <1>2 DEF Agrees
        <4>1. pending[r].nonce = m.value /\ m \in net
          BY <4>0 DEF Pending, Of
        <4>2. \A d \in net : d.value # pending[q].nonce
          BY <1>6 DEF MinutePasses
        <4> QED BY <2>2, <4>1, <4>2
      <3>2. Of(r)' = {}
        BY <3>1, <1>1, <2>1 DEF Of
      <3> QED BY <1>2, <1>3, <2>1, <3>2, AgreesIfKept
    <2>3. CASE q # r
      <3>1. pending'[r] = pending[r]
        BY <1>6, <2>3 DEF MinutePasses, AgreeInv, Shape, SenderOK
      <3> QED BY <1>2, <1>3, <2>1, <3>1, AgreesIfKept
    <2> QED BY <2>2, <2>3
  <1>7. CASE SenderRestarts
    <2>1. r \in Receivers /\ ~InDialogue(r) /\ sessions'[r] = NoSession /\ net' = net
      BY <1>7 DEF SenderRestarts
    <2>2. Of(r)' = {}
      BY <1>1, <2>1 DEF InDialogue, Of, Dialogue
    <2> QED BY <2>1, <2>2, AgreesIfEmptied DEF Using
  <1> QED BY <1>4, <1>5, <1>6, <1>7

LEMMA AgreeInvNext == AgreeInv /\ [Next]_vars => AgreeInv'
  <1> SUFFICES ASSUME AgreeInv, [Next]_vars PROVE AgreeInv'
    OBVIOUS
  <1>1. Shape'
    BY ShapeNext DEF AgreeInv
  <1>2. CASE UNCHANGED vars
    <2>1. UNCHANGED <<sessions, pending, loc, port, derived, key, net, encrypted, forgotten>>
      BY <1>2 DEF vars, senderVars, receiverVars, socketVars, environment
    <2>2. \A r : Agrees(r)' <=> Agrees(r)
      BY <2>1 DEF Agrees, Of, Expects, Using
    <2> QED BY <1>1, <2>1, <2>2 DEF AgreeInv, PlainOK, Apart
  <1>3. CASE Next
    <2>1. PlainOK' /\ \A r \in Receivers : Apart(r)'
      BY <1>3, PlainNext, ApartNext
    <2>2. encrypted' = encrypted
      BY <1>3, EncryptedKept
    <2>3. ASSUME encrypted, NEW r \in Receivers \ forgotten' PROVE Agrees(r)'
      <3>1. ASSUME NEW m \in net, SenderReads(m) PROVE Agrees(r)'
        BY <2>3, <3>1, SenderReadsAgree
      <3>2. ASSUME NEW q \in Receivers,
                   \/ ReceiverRuns(q) \/ KeepAliveTick(q) \/ ListenFails(q)
                   \/ \E m \in net : Listen(q, m)
                   \/ BadFrame(q) \/ Stop(q)
            PROVE  Agrees(r)'
        BY <1>1, <2>3, <3>2, ReceiverStepAgrees, OtherReceiverAgrees
      <3>3. CASE \/ \E q \in Receivers : Expire(q) \/ MinutePasses(q) \/ SecondPasses(q)
                 \/ \E m \in net : Lose(m) \/ Stray(m)
                 \/ SenderRestarts \/ Settle
        BY <2>3, <3>3, SenderAloneAgrees
      <3> QED BY <1>3, <3>1, <3>2, <3>3 DEF Next
    <2> QED BY <1>1, <2>1, <2>2, <2>3 DEF AgreeInv
  <1> QED BY <1>2, <1>3

(* The receiver and the sender of a session use the same key, however        *)
(* challenges, answers and results are lost, delayed or repeated.            *)
THEOREM KeysAgree == Spec => []KeyAgreement
  <1>1. Spec => []AgreeInv
    BY AgreeInvInit, AgreeInvNext, PTL DEF Spec
  <1> QED BY <1>1, AgreeInvIsKeyAgreement, PTL
=============================================================================
