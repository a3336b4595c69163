CONSTANTS
  PageCount = 3
  FrameCount = 2
  Policy = "LFU"
  TraceLength = 2
  Lines <- FewLines
  Pids = {101, 102}
  PatientStart = FALSE
  MaxStray = 1
SPECIFICATION Spec
INVARIANTS
  QueueMatchesFrames
