SPECIFICATION Spec
CONSTANTS
  ByteBits = 2
  WordBits = 16
  Objects <- MCObjects
  Functions <- MCFunctions
  Strings <- MCStrings
  Programs <- MCPrograms
  InitialMemories <- MCMemories
  Operands = {"i", "u", "l", "b", "c"}
INVARIANTS
  PlainIsComputedAsC
  FoldsAsC
  AcceptedIsLowered
  OutermostCallsAreAligned
CHECK_DEADLOCK FALSE
