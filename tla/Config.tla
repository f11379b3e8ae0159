------------------------------- MODULE Config -------------------------------
(* SendConfig and RecvConfig (internal/config/config.go): what Load accepts, *)
(* and the numbers the other modules take as constants, as the program       *)
(* derives them from an accepted configuration: the FEC parameters, the      *)
(* timeouts, the limit on payloads.  Addresses and the files themselves are  *)
(* not spelled out: net.ParseIP, IsMulticast and the YAML parser are         *)
(* external.                                                                 *)
EXTENDS FECHeader, TLC

CONSTANTS IPs,          \* what net.ParseIP accepts
          MulticastIPs  \* the multicast addresses among them

Within(low, x, high) == low <= x /\ x <= high

ValidPort(p) == Within(1, p, 65535)
ValidDSCP(d) == Within(0, d, 63)
LogLevels == {"DEBUG", "INFO", "WARN", "ERROR"}

DefaultCommon ==
  [multicastAddress |-> "239.0.0.1", multicastPort |-> 5004,
   interface |-> "",  \* has to be given
   interval |-> 1, timeoutMultiplier |-> 3,
   encryption |-> FALSE, passphrase |-> "", iterations |-> 600000,
   logLevel |-> "INFO", statsInterval |-> 10, controlDSCP |-> 0,
   socketBufferSize |-> 2097152]

NewDefaultSendConfig ==
  [controlPort |-> 5100, dataPort |-> 5101, maxSessions |-> 8,
   fecEnabled |-> FALSE, fecK |-> 8, fecN |-> 10,
   MTU |-> 1500, DSCP |-> 0, senderDataPort |-> 0] @@ DefaultCommon

NewDefaultRecvConfig ==
  [senderAddress |-> "127.0.0.1", controlPort |-> 5100, dataPort |-> 5101,
   TTL |-> 1, DSCP |-> 0, fecEnabled |-> FALSE, fecTest |-> FALSE,
   unicastBindPort |-> 0] @@ DefaultCommon

Given(text) == text # ""

(* The checks the two Validate methods share. *)
ValidCommon(c) ==
  /\ ValidPort(c.multicastPort)
  /\ c.multicastAddress \in MulticastIPs
  /\ Given(c.interface)
  /\ ValidPort(c.controlPort) /\ ValidPort(c.dataPort)
  /\ c.interval > 0   \* timeoutMultiplier is not looked at
  /\ c.encryption => Given(c.passphrase) /\ c.iterations > 0
  /\ c.socketBufferSize > 0
  /\ c.logLevel \in LogLevels /\ c.statsInterval > 0
  /\ ValidDSCP(c.DSCP) /\ ValidDSCP(c.controlDSCP)

(* The FEC parameters count only when FEC is enabled. *)
ValidateSend(c) ==
  /\ ValidCommon(c)
  /\ c.maxSessions > 0
  /\ c.fecEnabled => c.fecK > 0 /\ c.fecN >= c.fecK /\ c.fecN <= 16
  /\ Within(576, c.MTU, 65535)
  /\ Within(0, c.senderDataPort, 65535)

ValidateRecv(r) ==
  /\ ValidCommon(r)
  /\ r.senderAddress \in IPs
  /\ Within(1, r.TTL, 255)
  /\ Within(0, r.unicastBindPort, 65535)

(* A file, or the command line, overrides the defaults field by field; the   *)
(* whole is accepted, or the program exits: no configuration.                *)
LoadSendConfig(file) == {c \in {file @@ NewDefaultSendConfig} : ValidateSend(c)}

LoadRecvConfig(file) == {r \in {file @@ NewDefaultRecvConfig} : ValidateRecv(r)}
-----------------------------------------------------------------------------
(* From configuration to FEC *)

(* NewSessionManager and NewFECManager switch FEC off unless there is parity *)
(* to send: a valid N = K means no FEC.                                      *)
Usable(k, n) == k > 0 /\ n > k

EncoderOn(c) == c.fecEnabled /\ Usable(c.fecK, c.fecN)

(* Both acks carry uint8(cfg.FEC.K) and uint8(cfg.FEC.N), enabled or not. *)
Announced(c) == [k |-> c.fecK % 256, n |-> c.fecN % 256]

(* registerWithSender gives up on more than 16 packets to a group. *)
Refuses(ack) == ack.n > 16

ManagerOn(r, ack) == r.fecEnabled /\ Usable(ack.k, ack.n)
-----------------------------------------------------------------------------
(* Timeouts, in seconds *)

(* The multiplier nobody validates is replaced where it is used. *)
Multiplier(c) == IF c.timeoutMultiplier <= 0 THEN 3 ELSE c.timeoutMultiplier

(* monitorSessionTimeouts and listenForDisconnect guard against an interval  *)
(* below 1 once more; the reconnect loop, for FEC groups, does not, and      *)
(* NewFECManager has a default of its own.                                   *)
Interval(c) == IF c.interval <= 0 THEN 1 ELSE c.interval

PeerTimeout(c) == Interval(c) * Multiplier(c)

GroupTimeout(r) ==
  LET configured == r.interval * Multiplier(r)
  IN  IF configured <= 0 THEN 2 ELSE configured
-----------------------------------------------------------------------------
(* Sizes, in bytes *)

HeaderSize == 17
IPUDPHeaders == 20 + 8
NonceAndTag == 12 + 16

EncryptionOverhead(c) == IF c.encryption THEN NonceAndTag ELSE 0

LinkMTU(c) == IF c.MTU < 576 THEN 1500 ELSE c.MTU

(* runSendNormal discards larger packets. *)
MaxPayloadSize(c) == LinkMTU(c) - IPUDPHeaders - HeaderSize - HeaderSize - EncryptionOverhead(c)

(* PayloadLen of a data frame and of a parity frame: sessionWorker seals the *)
(* payload; a parity block is as long as the longest frame of its group.     *)
DataLen(c, payload) == payload + EncryptionOverhead(c)
ParityLen(c, longest) == HeaderSize + DataLen(c, longest)

Datagram(payloadLen) == IPUDPHeaders + HeaderSize + payloadLen
=============================================================================
