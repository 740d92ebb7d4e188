SPECIFICATION Spec
CONSTANTS
    LoaderLen = 3
    Word = 16
    Offsets <- MCOffsets
    Sizes <- MCSizes
    Replies <- MCReplies
    MaxCalls = 3
    MaxAsks = 2
    MaxResets = 1
    MaxReply = 2
INVARIANTS
    TypeOK
    DeviceHoldsLoader
    HostEndsPastLoader
PROPERTIES
    OneWayHandshake
    CommandsEnd
CHECK_DEADLOCK FALSE
