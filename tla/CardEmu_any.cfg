SPECIFICATION FairSpec
CONSTANTS
  Message <- OwnMessage
  Reads <- SomeReads
  Writes <- SomeWrites
  Leftover = {8}
  MaxFile = 4
  MaxActivations = 2
INVARIANTS EmulatesFile PushTells SelectedFirst
PROPERTIES ListensAgain
