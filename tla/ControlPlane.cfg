SPECIFICATION Spec
CONSTANTS
  Receivers = {r1}
  Ports = {p1, p2}
  Nonces = {n1, n2, n3, n4}
  None = None
  Modes = {TRUE, FALSE}
  Attempts = 3
  Multiplier = 2
  MaxInFlight = 2
INVARIANTS TypeOK KeyAgreement
SYMMETRY Symmetry
CHECK_DEADLOCK FALSE
