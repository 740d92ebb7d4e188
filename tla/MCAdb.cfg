SPECIFICATION Spec
CONSTANTS
    Transports <- MCTransports
    Greetings <- MCGreetings
    Lengths <- MCLengths
    Pieces = 1
    MaxPolls = 2
    MaxOps = 2
    MaxFaults = 1
INVARIANTS
    TypeOK
    ConnectedIsAuthorised
    ShellReturnsItsOutput
    FilesAreWhole
PROPERTIES
    OperationsEnd
CHECK_DEADLOCK FALSE
