SPECIFICATION Spec
CONSTANTS
    NameSize <- MCNameSize
    FstabLineSize = 40
    RcLineSize = 25
    Images <- MCImages
    Contents <- MCContents
    Options <- MCOptions
    MaxRuns = 2
INVARIANTS
    TypeOK
    OutputReadsBack
    CleanIsClean
    DoneIsClean
    StockSurvives
CHECK_DEADLOCK FALSE
