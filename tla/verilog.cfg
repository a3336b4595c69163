SPECIFICATION Spec
CONSTANTS
  InputPorts <- MCInputPorts
  Indeterminate <- MCIndeterminate
  Files <- MCFiles
INVARIANTS CodesDistinct NamesResolve
PROPERTIES ImplementsSchedule EnteredStatesCompute
CHECK_DEADLOCK FALSE
