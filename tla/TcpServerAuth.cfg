SPECIFICATION Spec
CONSTANTS
  i1 = i1
  i2 = i2
  Fds = {f1, f2}
  Identities = {i1, i2}
  NoId = noid
  NoClient = null
  NoEntry = none
  Threads = {t1}
  TagMod = 8
  PipeCap = 2
  Foreign = FALSE
  IdentityOf <- MixedLogin
  MaxConns = 3
  MaxCmds = 3
INVARIANTS MapExact HitsItsConnection IdentityReachesOwner CountNeverHigh
PROPERTIES CastExact
SYMMETRY FdSymmetry
CHECK_DEADLOCK FALSE
