SPECIFICATION FairSpec
CONSTANTS
  Traffic <- SomeTraffic
  Frame = 2
  Pieces = {1}
  MaxPuts = 1
  MaxConnects = 1
  MaxResends = 1
  MaxActivations = 2
INVARIANTS SuccessMeansAll PushSound
PROPERTIES TransfersComplete LinkReleased
