-------------------------- MODULE MCSessionManager --------------------------
(* The instances of SessionManager that TLC checks. *)
EXTENDS SessionManager, TLC

CONSTANTS k1, k2, a1, a2, main, deferred   \* model values

TwoKeys == {k1, k2}
OneAddr == {a1}
TwoClosers == {main, deferred}
OneCloser == {main}

(* Data addresses are interchangeable. *)
AddressSymmetry == Permutations(TwoKeys)
=============================================================================
