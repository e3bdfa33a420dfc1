\* Two threads in the router, every kind of request.
CONSTANTS
  w1 = w1
  w2 = w2
  Threads <- MCTwoThreads
  Routes <- MCRoutes
  Method <- MCMethod
  Pattern <- MCPattern
  Dynamic <- MCDynamic
  Needs <- MCNeeds
  Outcomes <- MCOutcomes
  Guarded <- MCGuarded
  Orders <- MCOrders
  ParamName <- MCParamName
  Numeric <- MCNumeric
  SlugLike <- MCSlugLike
  Tagged <- MCTagged
  Requests <- MCRequests
  Budget = 2
SYMMETRY MCSymmetry
SPECIFICATION Spec
INVARIANTS
  TypeOK
  ParamsValidated
  UniqueMatchServed
  SearchIsRight
  OnlyOverlapMixesParams
