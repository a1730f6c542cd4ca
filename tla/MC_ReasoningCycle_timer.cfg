CONSTANTS
  X = X
  Y = Y
  Vars <- MCVars
  Values <- MCValues
  Predicates <- MCPredicates
  Plans <- TimerPlans
  Beliefs <- TimerBeliefs
  Reactors <- MCReactors
  Procedures <- MCProcedures
  Clients = {main}
  EngineThread = EngineThread
  NoEvent = NoEvent
  MaxPosts = 3
  MaxStatements = 2
  MaxDepth = 2
  MaxContexts = 24
SPECIFICATION Spec
INVARIANT ShowPlansReadsLiveContexts
CHECK_DEADLOCK FALSE
