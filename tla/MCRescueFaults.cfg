SPECIFICATION Spec
CONSTANTS
    NSectors = 2
    NoFile = NoFile
    Unreadable = Unreadable
    Gpt <- MCGpt
    Critical <- MCCritical
    MagiskChecked <- MCMagiskChecked
    BootSlots <- MCBootSlots
    VbmetaOf <- MCVbmetaOf
    NeverRestore <- MCNeverRestore
    Userdata = "userdata"
    FirstSample = 1
    LastSample = 1
    Devices <- TwoFaultDevices
    Backups <- TwoFaultBackups
    Options <- TwoFaultOptions
    MaxFaults = 2
INVARIANTS
    RestoredIsStock
    UnrepairedIsSeen
    VerityOverWholeBoot
    WipedAsSampled
