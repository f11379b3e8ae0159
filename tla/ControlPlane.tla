---------------------------- MODULE ControlPlane ----------------------------
(* Registration, authentication and KeepAlive between the sender's           *)
(* handleControlPackets (cmd/send.go) and the receivers' reconnect loop,     *)
(* registerWithSender, keepAliveLoop and listenForDisconnect (cmd/recv.go),  *)
(* over UDP: datagrams are lost, delayed and reordered, the sender restarts, *)
(* a receiver stops.  A session here is what the control plane sees of it;   *)
(* its teardown is in SessionManager.  A key is named by the challenge it is *)
(* derived from, and a packet sealed with it opens with that key only.  Once *)
(* things are calm, nothing restarts or is disturbed, and packets arrive     *)
(* within the code's timeouts.                                               *)
EXTENDS Integers, FiniteSets

CONSTANTS Receivers,    \* each with an IP address and a data port of its own
          Ports,        \* the ports a receiver's control socket may get
          Nonces,       \* challenges (randA)
          None,
          Modes,        \* the values cfg.Encryption.Enabled may have at both ends
          Attempts,     \* REGISTER attempts per socket: 3 in the code
          Multiplier,   \* KeepAlive intervals without an answer that are a timeout
          MaxInFlight   \* bound: datagrams in the network; more are lost

ASSUME ControlPlaneAssumption ==
  /\ IsFiniteSet(Receivers)
  /\ None \notin Nonces \cup Ports
  /\ Modes \subseteq BOOLEAN
  /\ Attempts \in Nat \ {0} /\ Multiplier \in Nat \ {0}
  /\ MaxInFlight \in Nat

VARIABLES
  encrypted,  \* cfg.Encryption.Enabled
  sessions,   \* sender: per receiver (data address) its session, or NoSession
  pending,    \* sender, pendingAuths: per receiver the challenge sent to it
  recent,     \* sender, lastRegisterTime: receivers heard within the last second
  loc,        \* receiver: where its reconnect loop is
  port,       \* receiver: the port of its control socket, None when closed
  attempt,    \* receiver: the attempt of registerWithSender
  derived,    \* receiver: the key of the challenge it has answered
  key,        \* receiver: globalSessionKey
  listening,  \* receiver: listenForDisconnect of the current session runs
  quiet,      \* receiver: KeepAlive intervals since it last read a packet
  trigger,    \* receiver: a token is in triggerReconnect
  net,        \* the datagrams in flight
  calm,       \* disturbances are over
  forgotten   \* history: receivers whose dialogue a restart of the sender
              \* broke off, until they dial again

senderVars == <<sessions, pending, recent>>
socketVars == <<port, attempt, derived, key>>
listenVars == <<listening, quiet, trigger>>
receiverVars == <<loc, socketVars, listenVars>>
environment == <<encrypted, calm, forgotten>>
vars == <<senderVars, receiverVars, net, environment>>

NoSession == [port |-> None, key |-> None]
Session(p, k) == [port |-> p, key |-> k]

NoPending == [port |-> None, nonce |-> None, old |-> FALSE]
Pending(p, n) == [port |-> p, nonce |-> n, old |-> FALSE]

(* A datagram from or to port p of receiver r; sealed is the key it is       *)
(* encrypted with, value a challenge, the key a response proves, or a status.*)
Datagram(type, r, p, sealed, value) ==
  [type |-> type, rcv |-> r, port |-> p, sealed |-> sealed, value |-> value]

Success == "success"
Denied == "denied"

(* The datagrams ms are read, new ones are sent; until all is calm, what     *)
(* finds MaxInFlight others on their way is lost.                            *)
Exchange(ms, new) ==
  LET all == (net \ ms) \cup new
  IN net' = IF calm \/ Cardinality(all) <= MaxInFlight THEN all ELSE net \ ms

Init ==
  /\ encrypted \in Modes
  /\ sessions = [r \in Receivers |-> NoSession]
  /\ pending = [r \in Receivers |-> NoPending]
  /\ recent = {}
  /\ loc = [r \in Receivers |-> "dial"]
  /\ port = [r \in Receivers |-> None]
  /\ attempt = [r \in Receivers |-> 1]
  /\ derived = [r \in Receivers |-> None]
  /\ key = [r \in Receivers |-> None]
  /\ listening = [r \in Receivers |-> FALSE]
  /\ quiet = [r \in Receivers |-> 0]
  /\ trigger = [r \in Receivers |-> FALSE]
  /\ net = {}
  /\ calm = FALSE
  /\ forgotten = {}
-----------------------------------------------------------------------------
(* handleControlPackets.  Every packet first clears the challenges that are  *)
(* older than a minute; then it is decrypted if its control address has a    *)
(* session with a key, and otherwise has to be plain text.                   *)
PurgedMutant == pending

Purged == [r \in Receivers |-> IF pending[r].old THEN NoPending ELSE pending[r]]

Known(m) == sessions[m.rcv].port = m.port

ReadableMutant(m) ==
  m.sealed = None \/ (encrypted /\ Known(m) /\ m.sealed = sessions[m.rcv].key)

Readable(m) ==
  m.sealed = IF encrypted /\ Known(m) THEN sessions[m.rcv].key ELSE None

Reads(m, type) ==
  /\ m \in net
  /\ m.type = type
  /\ Readable(m)

Reply(m, type, sealed, value) ==
  Exchange({m}, {Datagram(type, m.rcv, m.port, sealed, value)})

NoReply(m) == Exchange({m}, {})

ToSender == {"REGISTER", "AUTH_RESPONSE", "KEEPALIVE", "LEAVE"}

Unreadable(m) ==
  /\ m \in net
  /\ m.type \in ToSender
  /\ ~Readable(m)
  /\ NoReply(m)
  /\ pending' = Purged
  /\ UNCHANGED <<sessions, recent, receiverVars, environment>>

(* REGISTER, at most one a second per IP address. *)
RateLimited(m) ==
  /\ Reads(m, "REGISTER")
  /\ m.rcv \in recent
  /\ NoReply(m)
  /\ pending' = Purged
  /\ UNCHANGED <<sessions, recent, receiverVars, environment>>

Register(m) ==
  /\ Reads(m, "REGISTER")
  /\ m.rcv \notin recent
  /\ recent' = recent \cup {m.rcv}
  /\ UNCHANGED <<receiverVars, environment>>

(* With encryption: one pending challenge per IP address.  randA is random:  *)
(* any challenge that nothing in the system refers to will do.               *)
Fresh ==
  Nonces \ (UNION {{pending[r].nonce, sessions[r].key, derived[r], key[r]} : r \in Receivers}
              \cup UNION {{m.value, m.sealed} : m \in net})

NewNonce == CHOOSE n \in Fresh : TRUE

Challenge(m) ==
  /\ encrypted
  /\ Register(m)
  /\ Purged[m.rcv] = NoPending
  /\ Fresh # {}
  /\ pending' = [Purged EXCEPT ![m.rcv] = Pending(m.port, NewNonce)]
  /\ Reply(m, "AUTH_CHALLENGE", None, NewNonce)
  /\ UNCHANGED sessions

TooManyPending(m) ==
  /\ encrypted
  /\ Register(m)
  /\ Purged[m.rcv] # NoPending
  /\ pending' = Purged
  /\ NoReply(m)
  /\ UNCHANGED sessions

(* AddSession replaces the receiver's session, if it has one; otherwise it   *)
(* fails while others have taken all of max_sessions.                        *)
Added(r, p, k) == sessions' = [sessions EXCEPT ![r] = Session(p, k)]
Full(r) == ~calm /\ sessions[r] = NoSession /\ UNCHANGED sessions

(* Without encryption: a known control address is only refreshed.  That puts *)
(* off Expire, which states when a session can be silent for too long.       *)
RegisterPlain(m) ==
  /\ ~encrypted
  /\ Register(m)
  /\ IF Known(m) THEN UNCHANGED sessions ELSE Added(m.rcv, m.port, None)
  /\ Reply(m, "REGISTER_ACK", None, Success)
  /\ pending' = Purged

RefusePlain(m) ==
  /\ ~encrypted
  /\ Register(m)
  /\ Full(m.rcv)
  /\ Reply(m, "REGISTER_ACK", None, Denied)
  /\ pending' = Purged

(* AUTH_RESPONSE: the HMAC is right if it answers the pending challenge.     *)
Answers(m) == Reads(m, "AUTH_RESPONSE") /\ Purged[m.rcv].port = m.port

Proves(m) == m.value = Purged[m.rcv].nonce

NothingPending(m) ==
  /\ Reads(m, "AUTH_RESPONSE")
  /\ Purged[m.rcv].port # m.port
  /\ NoReply(m)
  /\ pending' = Purged
  /\ UNCHANGED <<sessions, recent, receiverVars, environment>>

Accept(m) ==
  /\ Answers(m)
  /\ Proves(m)
  /\ Added(m.rcv, m.port, Purged[m.rcv].nonce)
  /\ Reply(m, "AUTH_RESULT", None, Success)
  /\ pending' = [Purged EXCEPT ![m.rcv] = NoPending]
  /\ UNCHANGED <<recent, receiverVars, environment>>

Refuse(m) ==
  /\ Answers(m)
  /\ IF Proves(m) THEN Full(m.rcv) ELSE UNCHANGED sessions
  /\ Reply(m, "AUTH_RESULT", None, Denied)
  /\ pending' = [Purged EXCEPT ![m.rcv] = NoPending]
  /\ UNCHANGED <<recent, receiverVars, environment>>

(* KEEPALIVE: answered in plain text whether or not there is a session. *)
KeepAlive(m) ==
  /\ Reads(m, "KEEPALIVE")
  /\ IF encrypted /\ ~Known(m) THEN NoReply(m)
     ELSE Reply(m, "KEEPALIVE_ACK", m.sealed, None)
  /\ pending' = Purged
  /\ UNCHANGED <<sessions, recent, receiverVars, environment>>

Leave(m) ==
  /\ Reads(m, "LEAVE")
  /\ sessions' = IF Known(m) THEN [sessions EXCEPT ![m.rcv] = NoSession] ELSE sessions
  /\ NoReply(m)
  /\ pending' = Purged
  /\ UNCHANGED <<recent, receiverVars, environment>>

SenderReads(m) ==
  \/ Unreadable(m) \/ RateLimited(m)
  \/ Challenge(m) \/ TooManyPending(m) \/ RegisterPlain(m) \/ RefusePlain(m)
  \/ NothingPending(m) \/ Accept(m) \/ Refuse(m) \/ KeepAlive(m) \/ Leave(m)
-----------------------------------------------------------------------------
(* The code's timeouts.  Registered(r): the sender has the session that the  *)
(* receiver is using, so their KeepAlives arrive; UnderWay(r): datagrams     *)
(* between the receiver and the sender are on their way.                     *)
Registered(r) ==
  /\ loc[r] \in {"result", "up"}
  /\ sessions[r] # NoSession
  /\ sessions[r].port = port[r]

UnderWay(r) == \E m \in net : m.rcv = r

(* monitorSessionTimeouts: no packet for KeepAlive.Interval times            *)
(* TimeoutMultiplier.  That is longer than a receiver awaits a result, and   *)
(* once things are calm, a receiver that sends KeepAlives is heard.          *)
ExpireMutant(r) == FALSE /\ UNCHANGED vars

Expire(r) ==
  /\ sessions[r] # NoSession
  /\ Registered(r) => loc[r] = "up" /\ ~calm
  /\ sessions' = [sessions EXCEPT ![r] = NoSession]
  /\ UNCHANGED <<pending, recent, receiverVars, net, environment>>

(* A minute after a challenge: no datagram of its dialogue is still on its   *)
(* way and its receiver awaits no result of it.                              *)
MinutePasses(r) ==
  /\ pending[r] # NoPending
  /\ ~pending[r].old
  /\ \A m \in net : m.value # pending[r].nonce
  /\ ~(loc[r] = "result" /\ derived[r] = pending[r].nonce)
  /\ pending' = [pending EXCEPT ![r].old = TRUE]
  /\ UNCHANGED <<sessions, recent, receiverVars, net, environment>>

SecondPasses(r) ==
  /\ r \in recent
  /\ recent' = recent \ {r}
  /\ UNCHANGED <<sessions, pending, receiverVars, net, environment>>

(* A challenge to the receiver's socket, or its answer, is on its way. *)
InDialogue(r) ==
  \E m \in net : /\ m.rcv = r /\ m.port = port[r]
                 /\ m.type \in {"AUTH_CHALLENGE", "AUTH_RESPONSE"}

(* The sender process ends and is started again.  It tells nobody; a         *)
(* receiver that sends while it is down may get a read error.                *)
SenderRestarts ==
  /\ ~calm
  /\ sessions' = [r \in Receivers |-> NoSession]
  /\ pending' = [r \in Receivers |-> NoPending]
  /\ recent' = {}
  /\ \E hit \in SUBSET {r \in Receivers : listening[r]} :
       /\ listening' = [r \in Receivers |-> listening[r] /\ r \notin hit]
       /\ trigger' = [r \in Receivers |-> trigger[r] \/ r \in hit]
  /\ forgotten' = forgotten \cup {r \in Receivers : InDialogue(r)}
  /\ UNCHANGED <<loc, socketVars, quiet, net, encrypted, calm>>

Settle ==
  /\ ~calm
  /\ calm' = TRUE
  /\ UNCHANGED <<senderVars, receiverVars, net, encrypted, forgotten>>

Lose(m) ==
  /\ ~calm
  /\ net' = net \ {m}
  /\ UNCHANGED <<senderVars, receiverVars, environment>>
-----------------------------------------------------------------------------
(* The receiver's reconnect loop: a new socket, whose port nothing on its    *)
(* way to or from the receiver has used.                                     *)
Goes(r, l) == loc' = [loc EXCEPT ![r] = l]

Dial(r) ==
  /\ loc[r] = "dial"
  /\ \E p \in Ports \ {m.port : m \in {d \in net : d.rcv = r}} :
       port' = [port EXCEPT ![r] = p]
  /\ Goes(r, "send")
  /\ forgotten' = forgotten \ {r}
  /\ UNCHANGED <<senderVars, attempt, derived, key, listenVars, net, encrypted, calm>>

Sends(r, type, sealed, value) ==
  Exchange({}, {Datagram(type, r, p, sealed, value) : p \in {port[r]} \ {None}})

(* registerWithSender: writing to a closed socket takes the attempt as well. *)
SendRegister(r) ==
  /\ loc[r] = "send"
  /\ Sends(r, "REGISTER", None, None)
  /\ Goes(r, "await")
  /\ UNCHANGED <<senderVars, socketVars, listenVars, environment>>

Returns(r, l) ==
  /\ attempt' = [attempt EXCEPT ![r] = 1]
  /\ derived' = [derived EXCEPT ![r] = None]
  /\ Goes(r, l)

TriesAgain(r) ==
  /\ attempt' = [attempt EXCEPT ![r] = @ + 1]
  /\ derived' = [derived EXCEPT ![r] = None]
  /\ Goes(r, "send")

NextAttemptMutant(r) ==
  IF attempt[r] <= Attempts THEN TriesAgain(r) ELSE Returns(r, "dial")

NextAttempt(r) ==
  IF attempt[r] < Attempts THEN TriesAgain(r) ELSE Returns(r, "dial")

(* A second without an answer, or the socket was closed. *)
AwaitTimeout(r) ==
  /\ loc[r] \in {"await", "result"}
  /\ calm => ~UnderWay(r)
  /\ NextAttempt(r)
  /\ UNCHANGED <<senderVars, port, key, listenVars, net, environment>>

Receives(r, m) ==
  /\ m \in net
  /\ m.type \notin ToSender
  /\ m.rcv = r /\ m.port = port[r]

Awaited(r) ==
  CASE loc[r] = "result" -> "AUTH_RESULT"
    [] loc[r] = "await" /\ encrypted -> "AUTH_CHALLENGE"
    [] OTHER -> "REGISTER_ACK"

ReadAwaited(r, m) ==
  /\ loc[r] \in {"await", "result"}
  /\ Receives(r, m)
  /\ m.type = Awaited(r)

ReadOther(r, m) ==
  /\ loc[r] \in {"await", "result"}
  /\ Receives(r, m)
  /\ m.type # Awaited(r)
  /\ NextAttempt(r)
  /\ NoReply(m)
  /\ UNCHANGED <<senderVars, port, key, listenVars, environment>>

ReadChallenge(r, m) ==
  /\ ReadAwaited(r, m)
  /\ m.type = "AUTH_CHALLENGE"
  /\ derived' = [derived EXCEPT ![r] = m.value]
  /\ Reply(m, "AUTH_RESPONSE", None, m.value)
  /\ Goes(r, "result")
  /\ UNCHANGED <<senderVars, port, attempt, key, listenVars, environment>>

(* AUTH_RESULT or REGISTER_ACK.  On success the session key is published,    *)
(* keepAliveLoop and listenForDisconnect start; triggerReconnect keeps what  *)
(* it holds.                                                                 *)
ReadResult(r, m) == ReadAwaited(r, m) /\ m.type # "AUTH_CHALLENGE"

ReadSuccess(r, m) ==
  /\ ReadResult(r, m)
  /\ m.value = Success
  /\ key' = [key EXCEPT ![r] = IF encrypted THEN derived[r] ELSE None]
  /\ listening' = [listening EXCEPT ![r] = TRUE]
  /\ quiet' = [quiet EXCEPT ![r] = 0]
  /\ NoReply(m)
  /\ Returns(r, "up")
  /\ UNCHANGED <<senderVars, port, trigger, environment>>

ReadDenied(r, m) ==
  /\ ReadResult(r, m)
  /\ m.value = Denied
  /\ NoReply(m)
  /\ Returns(r, "dial")
  /\ UNCHANGED <<senderVars, port, key, listenVars, environment>>

ReceiverReads(r, m) ==
  ReadOther(r, m) \/ ReadChallenge(r, m) \/ ReadSuccess(r, m) \/ ReadDenied(r, m)

(* keepAliveLoop: every interval.  When things are calm, answers take less.  *)
KeepAliveTick(r) ==
  /\ loc[r] = "up"
  /\ quiet[r] < Multiplier
  /\ calm => ~UnderWay(r)
  /\ Sends(r, "KEEPALIVE", key[r], None)
  /\ quiet' = [quiet EXCEPT ![r] = @ + 1]
  /\ UNCHANGED <<senderVars, loc, socketVars, listening, trigger, environment>>

(* listenForDisconnect: any packet will do, even one it cannot decrypt. *)
Listen(r, m) ==
  /\ listening[r]
  /\ Receives(r, m)
  /\ quiet' = [quiet EXCEPT ![r] = 0]
  /\ NoReply(m)
  /\ UNCHANGED <<senderVars, loc, socketVars, listening, trigger, environment>>

ListenFails(r) ==
  /\ listening[r]
  /\ quiet[r] = Multiplier \/ port[r] = None
  /\ listening' = [listening EXCEPT ![r] = FALSE]
  /\ trigger' = [trigger EXCEPT ![r] = TRUE]
  /\ UNCHANGED <<senderVars, loc, socketVars, quiet, net, environment>>

(* The forwarding loop reads a data frame of another major version: it takes *)
(* the control socket, closes it and triggers a reconnect.                   *)
BadFrame(r) ==
  /\ loc[r] # "off"
  /\ port[r] # None
  /\ ~calm
  /\ port' = [port EXCEPT ![r] = None]
  /\ trigger' = [trigger EXCEPT ![r] = TRUE]
  /\ UNCHANGED <<senderVars, loc, attempt, derived, key, listening, quiet, net,
                 environment>>

TakeTrigger(r) ==
  /\ loc[r] = "up"
  /\ trigger[r]
  /\ trigger' = [trigger EXCEPT ![r] = FALSE]
  /\ Goes(r, "drop")
  /\ UNCHANGED <<senderVars, socketVars, listening, quiet, net, environment>>

(* sessionCancel, and two seconds later the loop starts over. *)
EndSession(r) ==
  /\ loc[r] = "drop"
  /\ listening' = [listening EXCEPT ![r] = FALSE]
  /\ quiet' = [quiet EXCEPT ![r] = 0]
  /\ Goes(r, "dial")
  /\ UNCHANGED <<senderVars, socketVars, trigger, net, environment>>

(* CleanUpRecv, and the process ends: the LEAVE is sealed with the key of    *)
(* the last session, whatever registration is going on.                      *)
Stop(r) ==
  /\ loc[r] # "off"
  /\ Sends(r, "LEAVE", key[r], None)
  /\ Returns(r, "off")
  /\ port' = [port EXCEPT ![r] = None]
  /\ listening' = [listening EXCEPT ![r] = FALSE]
  /\ trigger' = [trigger EXCEPT ![r] = FALSE]
  /\ quiet' = [quiet EXCEPT ![r] = 0]
  /\ key' = [key EXCEPT ![r] = None]
  /\ UNCHANGED <<senderVars, environment>>

(* A datagram for a socket that is closed or that nobody reads any more. *)
Stray(m) ==
  /\ m \in net
  /\ m.type \notin ToSender
  /\ port[m.rcv] = m.port => loc[m.rcv] \notin {"send", "await", "result"} /\ ~listening[m.rcv]
  /\ NoReply(m)
  /\ UNCHANGED <<senderVars, receiverVars, environment>>
-----------------------------------------------------------------------------
ReceiverRuns(r) ==
  \/ Dial(r) \/ SendRegister(r) \/ AwaitTimeout(r)
  \/ \E m \in net : ReceiverReads(r, m)
  \/ TakeTrigger(r) \/ EndSession(r)

Next ==
  \/ \E m \in net : SenderReads(m) \/ Lose(m) \/ Stray(m)
  \/ \E r \in Receivers :
       \/ ReceiverRuns(r)
       \/ KeepAliveTick(r) \/ ListenFails(r) \/ \E m \in net : Listen(r, m)
       \/ BadFrame(r) \/ Stop(r)
       \/ Expire(r) \/ MinutePasses(r) \/ SecondPasses(r)
  \/ SenderRestarts
  \/ Settle

(* Disturbances end; every goroutine runs, every timer fires and every       *)
(* socket that is open is read.  Nothing has to stop, restart or be lost.    *)
Fairness ==
  /\ WF_vars(Settle)
  /\ WF_vars(\E m \in net : SenderReads(m))
  /\ WF_vars(\E m \in net : Stray(m))
  /\ \A r \in Receivers :
       /\ WF_vars(ReceiverRuns(r))
       /\ WF_vars(KeepAliveTick(r))
       /\ WF_vars(ListenFails(r))
       /\ WF_vars(\E m \in net : Listen(r, m))
       /\ WF_vars(Expire(r))
       /\ WF_vars(MinutePasses(r))
       /\ WF_vars(SecondPasses(r))

Spec == Init /\ [][Next]_vars
FairSpec == Spec /\ Fairness
-----------------------------------------------------------------------------
Keys == Nonces \cup {None}
Types == {"REGISTER", "AUTH_CHALLENGE", "AUTH_RESPONSE", "AUTH_RESULT", "REGISTER_ACK",
          "KEEPALIVE", "KEEPALIVE_ACK", "LEAVE"}

(* Every variable has its type; registerWithSender (cmd/recv.go) makes at    *)
(* most Attempts attempts with a socket.                                     *)
TypeOK ==
  /\ encrypted \in Modes
  /\ sessions \in [Receivers -> [port : Ports \cup {None}, key : Keys]]
  /\ pending \in [Receivers -> [port : Ports \cup {None}, nonce : Keys, old : BOOLEAN]]
  /\ recent \subseteq Receivers
  /\ loc \in [Receivers -> {"dial", "send", "await", "result", "up", "drop", "off"}]
  /\ port \in [Receivers -> Ports \cup {None}]
  /\ attempt \in [Receivers -> 1..Attempts]
  /\ derived \in [Receivers -> Keys]
  /\ key \in [Receivers -> Keys]
  /\ listening \in [Receivers -> BOOLEAN]
  /\ quiet \in [Receivers -> 0..Multiplier]
  /\ trigger \in [Receivers -> BOOLEAN]
  /\ \A m \in net : /\ m.type \in Types
                    /\ m.rcv \in Receivers
                    /\ m.port \in Ports
                    /\ m.sealed \in Keys
                    /\ m.value \in Keys \cup {Success, Denied}
  /\ calm \in BOOLEAN
  /\ forgotten \subseteq Receivers

(* A receiver that runs a session and the sender's session for its control   *)
(* address use the same key (registerWithSender, cmd/recv.go, and the        *)
(* AUTH_RESPONSE case of handleControlPackets, cmd/send.go), whatever        *)
(* results, challenges and retries were delayed: nothing in AUTH_RESULT says *)
(* which challenge it answers.  The exception is a sender that restarts in   *)
(* the middle of the dialogue: it may challenge the same socket again while  *)
(* the first challenge is still on its way, and the receiver, retrying, may  *)
(* take the result of the one for that of the other.                         *)
KeyAgreement ==
  \A r \in Receivers \ forgotten :
    loc[r] = "up" /\ sessions[r] # NoSession /\ sessions[r].port = port[r]
      => sessions[r].key = key[r]

InSync(r) ==
  /\ loc[r] = "up" /\ listening[r]
  /\ sessions[r] # NoSession
  /\ sessions[r].port = port[r]

(* With encryption, once things are calm, every receiver that is not         *)
(* stopped ends up with a session the sender has too, and keeps it: no       *)
(* restart, lost result, unanswered challenge or stale trigger leaves it     *)
(* without one (the reconnect loop and listenForDisconnect, cmd/recv.go).    *)
Recovers ==
  encrypted => \A r \in Receivers : <>[](loc[r] = "off" \/ InSync(r))

(* The session of a receiver that has stopped goes away for good, even when  *)
(* its LEAVE is lost or cannot be decrypted (monitorSessionTimeouts,         *)
(* cmd/send.go).                                                             *)
Drained ==
  \A r \in Receivers : loc[r] = "off" ~> [](sessions[r] = NoSession)

Orphaned(r) == loc[r] = "up" /\ sessions[r] = NoSession

(* "Set timeout to detect silent connection drop" (cmd/recv.go:945): a       *)
(* receiver whose session the sender no longer has does not stay in it.      *)
SilentDropNoticed ==
  \A r \in Receivers : Orphaned(r) ~> ~Orphaned(r)
=============================================================================
