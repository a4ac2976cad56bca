SPECIFICATION FairSpec
CONSTANTS
  CtrlA = CtrlA
  CtrlX = CtrlX
  Key = Key
  RingSize = 2
  MaxTyped = 3
INVARIANTS ConsoleOwned ByteStream
PROPERTIES OneWorker BridgeEnds BytesGetSent
