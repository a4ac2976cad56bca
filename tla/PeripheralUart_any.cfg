SPECIFICATION PeripheralFairSpec
INVARIANTS SemaphoreTells StoppedIsSilent
PROPERTIES WorkIntact EnabledAdvertises
