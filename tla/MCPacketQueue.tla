---------------------------- MODULE MCPacketQueue ----------------------------
(* The instances of PacketQueue that TLC checks. *)
EXTENDS PacketQueue

CONSTANTS c1, c2, c3   \* model values

ThreeConsumers == {c1, c2, c3}
TwoConsumers == {c1, c2}
=============================================================================
