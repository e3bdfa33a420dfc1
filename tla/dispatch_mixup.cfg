\* Two threads in one handler mix up their parameters.
CONSTANTS
  w1 = w1
  w2 = w2
  Threads <- MCTwoThreads
  Routes <- MCProductRoutes
  Method <- MCMethod
  Pattern <- MCPattern
  Dynamic <- MCDynamic
  Needs <- MCNeeds
  Outcomes <- MCOutcomes
  Guarded <- MCGuarded
  Orders <- MCOrders
  ParamName <- MCParamName
  Numeric <- MCNumeric
  SlugLike <- MCSlugLike
  Tagged <- MCTagged
  Requests <- MCIdRequests
  Budget = 2
SPECIFICATION Spec
INVARIANTS
  AnswersOwnParams
