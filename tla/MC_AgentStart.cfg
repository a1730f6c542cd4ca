CONSTANTS
  a = a
  b = b
  tim1 = tim1
  tim2 = tim2
  state = state
  go = go
  Agents = {a, b}
  Sensors = {tim1, tim2}
  Clients <- MCClients
  Embedded = FALSE
  Nobody = Nobody
  NoEvent = NoEvent
  MaxTicks = 2
SPECIFICATION FairSpec
INVARIANTS TypeOK OwnPlans WholeProgram
PROPERTIES EventsExecuted TimersTick
CHECK_DEADLOCK FALSE
