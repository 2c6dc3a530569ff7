\* Captures of up to four rows of two handshakes, time past two windows.
SPECIFICATION Spec
CONSTANTS
  Handshake = {h1, h2}
  max_time_window = 2
  grace = 1
  hard_limit = 3
  MaxRows = 4
  MaxTime = 6
INVARIANT HandshakeInFlightKept
CHECK_DEADLOCK FALSE
