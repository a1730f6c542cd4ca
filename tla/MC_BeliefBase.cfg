CONSTANTS
  number = number
  open = open
  tick = tick
  sieve = sieve
  Threads = {t1, t2}
  Formulas <- MCFormulas
  Kind <- MCKind
  Matchable <- MCMatchable
  MaxCalls = 4
  NoThread = NoThread
SPECIFICATION EventsSpec
INVARIANTS TypeOK NoDuplicates EventBalance StoreInv EventsFollowKB
CHECK_DEADLOCK FALSE
