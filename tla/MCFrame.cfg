\* Two names, one of them also an object of the file.
SPECIFICATION FrameSpec
CONSTANTS
  LocalNames = {"x", "y"}
  FileScope = {"x"}
  Storages = {"auto"}
  Programs <- MCPrograms
  MaxDepth = 4
  MaxOffset = 40
INVARIANTS
  HomesAreDisjoint
  NoInternalError
  SecondWalkNestsNoDeeper
  OperandsAreMeant
CHECK_DEADLOCK FALSE
