\* Macro tables, definitions, conditions, and lines of many tokens.
SPECIFICATION Spec
CONSTANTS
  Letters = {"a", "b", "c", "e", "f", "g", "l", "r", "n", "t", "v", "u", "x", "y", "F", "L", "U", "X", "__VA_ARGS__", "defined", "int", "sizeof"}
  Digits = {"0", "1", "2", "3", "4", "5", "6", "8", "7", "9"}
  Code <- MCCode
  WordBits = 8
  Programs <- MCPrograms
  RescanLimit = 3
  NestingLimit = 3
  MaxArguments = 2
  Names <- MCNames
  Hash <- MCHash
  FirstCapacity = 2
  MaxCapacity = 16
INVARIANTS
  ExpandsAsC
  LimitsStopOnlyLongLines
  ConditionsAsC
  TokensAsC
  NamesAreInterned
CHECK_DEADLOCK FALSE
