\* Loops, switches, gotos.  Conditions of type int: the low half of rax holds
\* all of their values.  A run ends when the function returns.
SPECIFICATION Spec
CONSTANTS
  MaxStatements = 4
  Names = {TheLabel}
  Programs <- MCPrograms
  MaxDepth = 3
  Values = {0, 1}
  EaxRange = 3
INVARIANTS
  TargetArraysSuffice
  NoInternalError
  OnlyUserLabelsFailToAssemble
  RunsAsWritten
PROPERTIES
  EventsAreReached
CHECK_DEADLOCK FALSE
