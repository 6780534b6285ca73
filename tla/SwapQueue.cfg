SPECIFICATION FairSpec
CONSTANTS
  Producers = {p1, p2}
  Consumer = c
  Free = free
  Data = {a, b}
  MaxPuts = 4
INVARIANTS TokenInv TakeFindsNode FreeReleasesRest Inv
PROPERTIES ImplementsFifo EveryPutIsGot
CHECK_DEADLOCK FALSE
