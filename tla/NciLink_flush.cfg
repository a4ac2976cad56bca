SPECIFICATION FairSpec
CONSTANTS
  T1T = T1T
  T2T = T2T
  T3T = T3T
  T5T = T5T
  IsoDep = IsoDep
  Mifare = Mifare
  NoTag = NoTag
  Tags <- AllTags
  Protocol <- ProtocolOf
  Kind <- ProtocolOf
  Crowds <- SomeCrowds
  MaxReads = 0
PROPERTY FlushEnds
