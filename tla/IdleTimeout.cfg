SPECIFICATION IdleSpec
CONSTANTS
  Clients = {c1, c2}
  Gone = gone
  Interval = 2
  Timeout = 2
  EpollTimeout = 1
  Seconds = 32
  MaxTime = 6
  MaxSkip = 2
INVARIANTS NeverTooLate
PROPERTY NeverTooEarly
SYMMETRY ClientSymmetry
CHECK_DEADLOCK FALSE
