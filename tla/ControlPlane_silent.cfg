SPECIFICATION FairSpec
CONSTANTS
  Receivers = {r1}
  Ports = {p1, p2}
  Nonces = {n1, n2, n3, n4}
  None = None
  Modes = {FALSE}
  Attempts = 3
  Multiplier = 2
  MaxInFlight = 1

PROPERTY SilentDropNoticed
CHECK_DEADLOCK FALSE
