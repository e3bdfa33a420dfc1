\* A registered product route is answered Route Not Found.
CONSTANTS
  w1 = w1
  w2 = w2
  Threads <- MCOneThread
  Routes <- MCProductRoutes
  Method <- MCMethod
  Pattern <- MCPattern
  Dynamic <- MCDynamic
  Needs <- MCNeeds
  Outcomes <- MCOutcomes
  Guarded <- MCGuarded
  Orders <- MCOrders
  ParamName <- MCParamName
  Numeric <- MCNumeric
  SlugLike <- MCSlugLike
  Tagged <- MCTagged
  Requests <- ProductRequests
  Budget = 1
SPECIFICATION Spec
INVARIANTS
  NotFoundMeansUnregistered
