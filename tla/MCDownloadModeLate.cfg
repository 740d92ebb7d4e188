SPECIFICATION Spec
CONSTANTS
    Package <- MCPackage
    Units <- MCUnits
    ChunkUnits = 2
    Lists <- MCLists
    MaxCalls = 3
    MaxFaults = 0
    MaxReturns = 1
INVARIANT
    FlashedIsOnDevice
CHECK_DEADLOCK FALSE
