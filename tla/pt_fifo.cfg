CONSTANTS
  PageCount = 3
  FrameCount = 2
  Policy = "FIFO"
  TraceLength = 5
  Lines <- MCLines
  Pids = {101}
  PatientStart = TRUE
  MaxStray = 0
SPECIFICATION FairSpec
INVARIANTS
  QueueMatchesFrames
  NoSharedFrame
  OneRequest
  StopsOnlyWhenDone
  StatisticsAgree
PROPERTIES
  ImplementsDemandPaging
  WaitEnds
  OsEnds
