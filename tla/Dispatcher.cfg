SPECIFICATION FairSpec
CONSTANTS
  Conns = {c1, c2}
  Keys = {k1}
  Tokens = {t1}
  NoKey = nokey
  NoToken = notoken
  NoJob = nojob
  NoConn = noconn
  Workers = {w1, w2}
  MaxMsgs = 3
  MaxFaults = 1
INVARIANTS TypeOK ToldMeansAuthed KeyUseBounded OneOfflineEach WakeFindsMessage
CHECK_DEADLOCK FALSE
PROPERTIES OfflineReachesRouter RefusedIsClosed
