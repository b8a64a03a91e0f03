CONSTANTS
    c1 = c1
    c2 = c2
    c3 = c3
    cpu = cpu
    bytes = bytes
    Ids <- MCIds
    NameOf <- MCNameOf
    Kinds <- MCKinds
    Cpu = cpu
    Counted <- MCCounted
    MaxWork = 2
    MaxChanges = 2
    MaxFailures = 1
SPECIFICATION MCSpec
INVARIANTS
    NoSpike
    RunningHasRow
PROPERTIES
    RatesComeBack
\* After stop() the thread has ended and the host may rest.
CHECK_DEADLOCK FALSE
