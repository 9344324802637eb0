SPECIFICATION Spec
CONSTANTS
  Objects <- BssObjects
  Pad <- MCPad
  SectionAlignment = 8
  FileAlignment = 4
  HeadersSize <- MCHeadersSize
  ResourceSize = 3
  WordSize = 2
  ImageBase = 100
  MaxRva = 40
  MaxDisplacement = 10
  MaxInputSections = 3
INVARIANTS
  UninitializedDataIsZero
CHECK_DEADLOCK FALSE
