SPECIFICATION Spec
CONSTANTS
  Lines <- MCLines
  InitialFiles <- MCFiles
  PathOf <- MCPathOf
  HelpFile <- MCHelpFile
  MaxCommands = 2
INVARIANTS
  OnlyLastFileChanges
  FileHoldsWhatWasAsked
  MkdirMakesPaths
CHECK_DEADLOCK FALSE
