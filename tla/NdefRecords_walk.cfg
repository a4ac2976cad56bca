SPECIFICATION FairSpec
CONSTANTS
  Messages <- SomeMessages
  BufferSize = 500
INVARIANTS PrintedRight 
PROPERTIES WalkEnds
