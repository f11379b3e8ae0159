--------------------------- MODULE MCControlPlane ---------------------------
(* ControlPlane for TLC's safety run.  The model treats all ports of a       *)
(* control socket alike, so that they are interchangeable there.             *)
EXTENDS ControlPlane, TLC

Symmetry == Permutations(Ports)
=============================================================================
