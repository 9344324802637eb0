SPECIFICATION Spec
CONSTANTS
  Names <- MCNames
  Texts <- MCTexts
  MaxParseDepth = 40
INVARIANTS
  ReadsAsC
  NamesMeanAsC
  VerdictIsC
CHECK_DEADLOCK FALSE
