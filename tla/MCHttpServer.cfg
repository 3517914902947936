SPECIFICATION SafeSpec
CONSTANTS
  Connections = {c1, c2}
  MaxRequests = 2
  Handlers = {h1, h2}
  Apps = {fact}
  NotFound = NotFound
  Http10 = {}
  Stop = Stop
INVARIANTS TypeOK DispatcherStopsLast OnlyVersionReadAfterDelete StopDrains
CHECK_DEADLOCK FALSE
