SPECIFICATION Spec
CONSTANTS
  InputPaths <- MCInputPaths
  OutputPaths <- MCOutputPaths
  LongPaths <- MCLongPaths
  MaxIncludeDirectories = 1
  MaxErrors = 2
  None = None
INVARIANTS
  ReportedSuccessIsComplete
PROPERTIES
  ErrorsTouchNothing
CHECK_DEADLOCK FALSE
