\* Two tokens, half a token refilled in a tick; calls may be a tick late.
SPECIFICATION Spec
CONSTANTS
  Users = {u1, u2}
  Addresses = {ip}
  Address <- SharedAddress
  Unit = 2
  Capacity = 4
  Rate = 1
  Expiry = 5
  MaxDelay = 1
  MaxClock = 7
  MaxLate = 2
SYMMETRY Symmetry
CHECK_DEADLOCK FALSE
INVARIANT WindowBound
PROPERTY LimitedOnlyWhenSpent
