CONSTANTS
  X = X
  Y = Y
  Vars <- MCVars
  Values <- MCValues
  Predicates <- MCPredicates
  Plans <- MCPlans
  Beliefs <- MCBeliefs
  Reactors <- MCReactors
  Procedures <- MCProcedures
  Clients = {main}
  EngineThread = EngineThread
  NoEvent = NoEvent
  MaxPosts = 3
  MaxStatements = 2
  MaxDepth = 2
  MaxContexts = 24
SPECIFICATION FairSpec
INVARIANTS TypeOK ContextsOwned CollectorExact NothingLeaks SelectionCorrect
PROPERTIES ImplementsEngine EngineReturns
CHECK_DEADLOCK FALSE
