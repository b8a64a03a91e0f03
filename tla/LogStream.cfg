CONSTANTS
    FollowTail = 2
    MaxRate = 2
    MaxLines = 3
    MaxBare = 1
    MaxTime = 2
    MaxFaults = 2
    MaxGone = 1
SPECIFICATION Spec
INVARIANTS
    NoGapWithinTail
    RepeatsAreBoundary
    NotesFillTheGaps
    CutsNeedAFault
PROPERTIES
    LastLineIsDecided
\* The container may write no more and the stream stay open.
CHECK_DEADLOCK FALSE
