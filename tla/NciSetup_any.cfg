SPECIFICATION FairSpec
CONSTANT Modes <- SomeModes
INVARIANTS TimestampTells SuccessIsSound RestoredIsReapplied
PROPERTIES Recovers
