CONSTANTS
  X = X
  Y = Y
  Vars <- MCVars
  Values <- MCValues
  Predicates <- MCPredicates
  Facts <- MCFacts
  Conditions <- MCConditions
SPECIFICATION JoinSpec
INVARIANTS EvalIsSolutions FirstIsOldest
