SPECIFICATION Spec
CONSTANTS
  Macros = {"m"}
  Builtins = {"m"}
  Names = {"main", "once", "deep"}
  Directories = {"here", "inc"}
  SearchPath <- MCSearchPath
  Existing <- MCExisting
  TooLong <- MCTooLong
  Root <- MCRoot
  MaxDepth = 2
  MaxConditionalDepth = 2
INVARIANTS
  ActiveMeansSelected
  SuccessMeansBalanced
  SourcesAreDisposed
PROPERTIES
  SkippedGroupsDoNothing
CHECK_DEADLOCK FALSE
