SPECIFICATION Spec
CONSTANTS
  MaxProcesses = 5
  ProcessCounts = {1, 2, 3}
  RaceProcessCounts = {1, 4, 5}
  LuckyNumbers = {1, 4}
  InputValues <- MCInputValues
  OmpThreads = 2
  OverallRanges <- MCOverallRanges
  MaxServes = 3
  MaxLength = 5
  Numbers = {1, 2, 3}
  SortThreads = 2
  ValueLists <- MCValueLists
  StatThreads = 3
  Letters <- MCLetters
  Garbage <- MCGarbage
  LoopThreads = 2
  IterationCounts = {0, 3}
  StageCounts = {0, 2}
  BlockSizes = {0, 1, 2}
  Plates <- MCPlates
  NoPlate = NoPlate
  JobFiles <- MCJobFiles
  NumThreads = 3
  DblMin = 1
  MaxStates = 12
INVARIANTS TypeOK ResultsRight MessagesArrive
PROPERTIES ProgramsEnd
CHECK_DEADLOCK FALSE
