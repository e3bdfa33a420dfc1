\* A request with a body is told that it has none.
CONSTANTS
  w1 = w1
  w2 = w2
  Threads <- MCOneThread
  Routes <- MCPostRoutes
  Method <- MCMethod
  Pattern <- MCPattern
  Dynamic <- MCDynamic
  Needs <- MCNeeds
  Outcomes <- MCOutcomes
  Guarded <- MCGuarded
  Orders <- MCOrders
  ParamName <- MCParamName
  Numeric <- MCNumeric
  SlugLike <- MCSlugLike
  Tagged <- MCTagged
  Requests <- MCPostRequests
  Budget = 1
SPECIFICATION Spec
INVARIANTS
  MissingBodyMeansNoBody
