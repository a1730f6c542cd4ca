CONSTANTS
  a = a
  b = b
  tim1 = tim1
  tim2 = tim2
  state = state
  go = go
  Agents = {a, b}
  Sensors = {tim1, tim2}
  Clients <- MCClients
  Embedded = TRUE
  Nobody = Nobody
  NoEvent = NoEvent
  MaxTicks = 2
SPECIFICATION FairSpec
INVARIANT WholeProgram
CHECK_DEADLOCK FALSE
