SPECIFICATION FairSpec
CONSTANTS
  Types <- AllTypes
  Layouts <- SomeLayouts
  Lengths = {46, 54, 256, 301}
  Caps = {48, 320}
  MaxFile = 300
  MLe = 59
  WriteSz = 54
  MaxOps = 2
  MaxFails = 2
INVARIANTS ReadableIsExact ReadableIsReported T4TAllOrNothing SectorsRespected InBounds
PROPERTIES OperationEnds
CHECK_DEADLOCK FALSE
