---------------------------- MODULE MCStreamStats ----------------------------
(* StreamStats with one simulated FEC size.                                  *)
EXTENDS StreamStats

MCSims == {<<2, 3>>}
=============================================================================
