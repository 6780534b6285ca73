SPECIFICATION WorkFairSpec
CONSTANTS
  Committers = {p1}
  Workers = {w1, w2}
  Tasks = {t1, t2}
  NoTask = none
  MaxCommits = 3
  Users = {w1, w2}
  Objects = {o1}
  NoObj = none
  Retries = 5
  MaxGuards = 1
INVARIANTS OnePlace
PROPERTIES ImplementsTaskFifo  EveryFetchEnds
CHECK_DEADLOCK FALSE
