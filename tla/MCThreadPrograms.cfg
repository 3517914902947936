SPECIFICATION Spec
CONSTANTS
  UnitCount = 2
  ProducerCount = 2
  ConsumerCount = 2
  BufferCapacity = 2
  Rounds = 2
  ThreadCount = 3
  LifePinata = 3
  AthleteCount = 3
  MaxNumber = 2
  MaxPhilosophers = 3
  Rows = 3
  Columns = 3
  FenceThreads = 2
  TeamCount = 2
  Base = 2
  MaxCharPass = 2
  FileCount = 2
  ShownArchives <- MCShownArchives
  SearchThreads = 3
  SearchConsumers = 2
INVARIANTS TypeOK NothingLost ResultsComplete AnswersRight
PROPERTIES AllGetThere
CHECK_DEADLOCK FALSE
