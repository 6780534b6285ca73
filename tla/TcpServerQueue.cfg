SPECIFICATION FairSpec
CONSTANTS
  i1 = i1
  i2 = i2
  Fds = {f1, f2}
  Identities = {i1, i2}
  NoId = noid
  NoClient = null
  NoEntry = none
  Threads = {t1, t2}
  TagMod = 8
  PipeCap = 3
  Foreign = TRUE
  IdentityOf <- OneLogin
  MaxConns = 1
  MaxCmds = 3
INVARIANTS TypeOK Paired
PROPERTIES CommandsExecuted
CHECK_DEADLOCK FALSE
