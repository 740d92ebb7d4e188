SPECIFICATION Spec
CONSTANTS
    NSectors = 2
    NoFile = NoFile
    Unreadable = Unreadable
    Gpt <- MCGpt
    Critical <- MCCritical
    MagiskChecked <- MCMagiskChecked
    BootSlots <- MCBootSlots
    VbmetaOf <- MCVbmetaOf
    NeverRestore <- MCNeverRestore
    Userdata = "userdata"
    FirstSample = 1
    LastSample = 1
    Devices <- MCDevices
    Backups <- MCBackups
    Options <- MCOptions
    MaxFaults = 1
INVARIANTS
    TypeOK
    DryRunTouchesNothing
    BlocklistHolds
    WipeGated
    RepairedIsStock
    VerifiedIsStock
PROPERTIES
    SparseWritesStock
    GuardHolds
    Terminates
