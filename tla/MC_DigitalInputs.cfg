CONSTANTS
  flash = flash
  other = other
  tick = tick
  state = state
  Mappings <- MCMappings
  Beliefs = {state}
  Agents = {flash, other}
  Nothing = Nothing
  MaxEdges = 3
SPECIFICATION FairSpec
INVARIANTS NoSpuriousEvents CrashNeedsRace
PROPERTY EdgesAnswered
CHECK_DEADLOCK FALSE
