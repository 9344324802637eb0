SPECIFICATION Spec
CONSTANTS
  Names = {x, y}
  Types = {t}
  FirstSymbolCapacity = 1
  FirstScopeCapacity = 1
  MaxSymbols = 3
  MaxScopes = 2
  Garbage = Garbage
INVARIANTS
  SlotsInUseAreValid
  SlicesAreScopes
PROPERTIES
  ImplementsScopedEnvironment
