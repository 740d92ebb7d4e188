SPECIFICATION Spec
CONSTANTS
    Package <- MCPackage
    Units <- MCUnits
    ChunkUnits = 2
    Lists <- MCLists
    MaxCalls = 3
    MaxFaults = 2
    MaxReturns = 1
INVARIANTS
    TypeOK
    FlashedUnlessStrayed
    LandsInItsPartition
    SessionAgrees
PROPERTY
    FlashIsReliable
    CallsReturn
CHECK_DEADLOCK FALSE
