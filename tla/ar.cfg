SPECIFICATION Spec
CONSTANTS
  numactivities = 2
  MAXALENGTH = 6
  MaxLines = 5
  Hour <- MCHour
  Radix = 2
  DOUBLELIMIT = 3
  Modes = {"TRAIN", "TEST", "BOTH"}
  Models = {"NB", "HMM"}
  CROSS_VALIDATION_FOLDS = 2
  numfeaturevalues <- MCnumfeaturevalues
  LinesOf <- MCLinesOf
  LinesUsed = 3
  Terms <- MCTerms
INVARIANTS
  OccurrenceIsItsEvents
  PreviousHadFinished
  TrainedOnOthers
  EachTestedOnce
  RangesOfTraining
  PredictsMostLikely
CHECK_DEADLOCK FALSE
