SPECIFICATION Spec
CONSTANTS
    Entries <- MCEntries
    Setups <- MCSetups
    MaxFaults = 2
INVARIANTS
    TypeOK
    RestoredIsStock
    RestoredLeavesLittle
PROPERTIES
    FlashIsReliable
    DryRunTouchesNothing
    Terminates
CHECK_DEADLOCK FALSE
