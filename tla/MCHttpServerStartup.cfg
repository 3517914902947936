SPECIFICATION Spec
CONSTANTS
  Connections = {c1, c2}
  MaxRequests = 1
  Handlers = {h1, h2}
  Apps = {fact, goldbach}
  NotFound = NotFound
  Http10 = {}
  Stop = Stop
INVARIANT JoinsStartedThreads
CHECK_DEADLOCK FALSE
