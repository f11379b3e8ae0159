---------------------------- MODULE FramedStream ----------------------------
(* What the sending half of the FEC path promises.  The stream is a sequence *)
(* of slots 0, 1, 2, ...: N consecutive slots make a generation, the first K *)
(* of them carry data packets and the others the parity computed from these. *)
(* Slots are offered to the network in order, each at most once; some are    *)
(* lost before they get there.                                               *)
EXTENDS Integers

VARIABLES nextSlot,  \* the first slot not offered yet
          onWire     \* the slots that reached the network

streamVars == <<nextSlot, onWire>>

StreamInit == nextSlot = 0 /\ onWire = {}

Offer ==
  /\ nextSlot' = nextSlot + 1
  /\ onWire' \in {onWire, onWire \cup {nextSlot}}

StreamSpec == StreamInit /\ [][Offer]_streamVars
=============================================================================
