SPECIFICATION Spec
CONSTANTS
    NSectors = 2
    NoFile = NoFile
    Unreadable = Unreadable
    Gpt <- DdrGpt
    Critical <- DdrCritical
    MagiskChecked <- MCMagiskChecked
    BootSlots <- MCBootSlots
    VbmetaOf <- MCVbmetaOf
    NeverRestore <- DdrNeverRestore
    Userdata = "userdata"
    FirstSample = 1
    LastSample = 1
    Devices <- DdrDevices
    Backups <- DdrBackups
    Options <- TwoFaultOptions
    MaxFaults = 1
INVARIANT NowMatchStock
