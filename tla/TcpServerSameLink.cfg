SPECIFICATION Spec
CONSTANTS
  i1 = i1
  i2 = i2
  Fds = {f1, f2}
  Identities = {i1, i2}
  NoId = noid
  NoClient = null
  NoEntry = none
  Threads = {t1}
  TagMod = 8
  PipeCap = 3
  Foreign = FALSE
  IdentityOf <- AnyLogin
  MaxConns = 2
  MaxCmds = 3
INVARIANTS SameFdSameLink
SYMMETRY FdSymmetry
CHECK_DEADLOCK FALSE
