\* Four ids that come and go for ever, windows of two, calls that examine
\* three: a lap takes several windows and several calls, and calls wrap into
\* the next lap.
CONSTANTS
    N = 4
    WindowSize = 2
    MaxExamined = 3
    MaxLimit = 2
SPECIFICATION CursorFairSpec
INVARIANTS
    LiveIsExact
    LapCovers
PROPERTY EveryRecordOffered
CHECK_DEADLOCK TRUE
