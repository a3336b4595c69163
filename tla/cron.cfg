CONSTANTS
  MAX_MIN = 3
  MAX_HOUR = 1
  MAX_MONTH = 2
  MAX_DATE = 3
  MAX_DAYS_WEEK = 2
  SecondsPerMinute = 2
  Clock <- MCClock
  Files <- MCFiles
  MayBecome <- MCMayBecome
  MixedLines <- MCMixedLines
  NoCommand = NoCommand
  MaxTime <- MCMaxTime
  MaxEdits = 2
SPECIFICATION FairSpec
INVARIANTS
  OneScheduler
  WholeList
PROPERTIES
  OnlyLastStarts
  OncePerMinute
  DueExactly
  LoadedOnceWatched
CHECK_DEADLOCK FALSE
