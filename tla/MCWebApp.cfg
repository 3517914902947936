SPECIFICATION Spec
CONSTANTS
  r1 = r1
  r2 = r2
  r3 = r3
  Requests <- MCRequests
  Count <- MCCount
  Malformed = {}
  Calculators = {k1, k2}
  Stop = Stop
INVARIANTS TypeOK PageShowsRequest PointersValid PackerStopsLast DeletesIdleThreads
PROPERTY ImplementsService
CHECK_DEADLOCK FALSE
