SPECIFICATION FairSpec
CONSTANTS
  c1 = c1
  c2 = c2
  r1 = r1
  r2 = r2
  u1 = u1
  u2 = u2
  n1 = n1
  n2 = n2
  h1 = h1
  h2 = h2
  None = None
  Categories <- TwoCategories
  Requests <- TwoRequests
  Users <- TwoUsers
  Names <- TwoNames
  Handlers <- TwoHandlers
  Deciders <- OneDecider
  Faulty <- TheOther
CHECK_DEADLOCK FALSE
INVARIANTS
  VerdictAgrees
PROPERTIES
  DecisionFinal
  DecidedIsApplied
  CreatedIsRequested
  AtomicSpec
