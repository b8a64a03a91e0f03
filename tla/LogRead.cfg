CONSTANTS
    Requests <- MCRequests
    DefaultTail = 2
    MaxTail = 2
    MaxLogBytes = 3
    Bytes <- MCBytes
    PerSecond = 2
    MaxLines = 4
    MaxTime = 3
    MaxUnstamped = 1
SPECIFICATION Spec
INVARIANTS
    NothingRecentIsMissing
    OneStory
    LongestWindow
\* The container may rest and the call be answered.
CHECK_DEADLOCK FALSE
