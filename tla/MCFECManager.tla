--------------------------- MODULE MCFECManager ---------------------------
(* The instances of FECManager that TLC checks. *)
EXTENDS FECManager

Frame(p, n, i, q) == [isFEC |-> p, group |-> n, index |-> i, gen |-> q]

(* Two generations in group number 0 and one in group number 1, every index, *)
(* and the frames the index checks refuse: parity below K, data from K on,   *)
(* an index beyond N.                                                        *)
AnyFrames ==
  {Frame(i >= K, 0, i, q) : i \in AllIdx, q \in {1, 2}}
    \cup {Frame(i >= K, 1, i, 3) : i \in AllIdx}
    \cup {Frame(TRUE, 0, 0, 1), Frame(FALSE, 0, K, 1), Frame(TRUE, 0, N, 1)}
=============================================================================
