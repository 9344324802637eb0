SPECIFICATION Spec
CONSTANTS
  Objects <- MCObjects
  Pad <- MCPad
  SectionAlignment = 8
  FileAlignment = 4
  HeadersSize <- MCHeadersSize
  ResourceSize = 3
  WordSize = 2
  ImageBase = 100
  MaxRva = 40
  MaxDisplacement = 10
  MaxInputSections = 3
INVARIANTS
  SectionsDoNotOverlap
  ImageHoldsEverySection
  ReferencesReachTheirSymbols
  EntryIsMain
PROPERTIES
  LinkEnds
  KeepsLinkPromise
CHECK_DEADLOCK FALSE
