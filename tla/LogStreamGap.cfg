\* --follow-tail at its default.
CONSTANTS
    FollowTail = 0
    MaxRate = 2
    MaxLines = 4
    MaxBare = 0
    MaxTime = 2
    MaxFaults = 2
    MaxGone = 0
SPECIFICATION Spec
INVARIANTS
    NoGap
CHECK_DEADLOCK FALSE
