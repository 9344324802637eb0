SPECIFICATION Spec
CONSTANTS
  Basics <- MCBasics
  BasicSize <- MCBasicSize
  PointerSize = 8
  SizeMax = 31
  Tags <- MCTags
  Counts <- MCCounts
  MaxTypes = 4
  MaxParameters = 2
  MaxMembers = 4
  ParameterLimit = 1
  MemberLimit = 2
CONSTRAINT
  OneFeature
INVARIANTS
  NoTypeTwice
  RecordsAreLaidOut
  RecordPointersAreAssignedAsC
PROPERTIES
  TypesAreStable
CHECK_DEADLOCK FALSE
