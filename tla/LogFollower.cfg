CONSTANTS
    n1 = n1
    Names <- OneName
    MaxFollowers = 2
    MaxChanges = 5
SPECIFICATION FollowersSpec
INVARIANTS
    OneFollowerPerContainer
    LiveIsRegistered
    ReaderCanBeClosed
PROPERTIES
    RunningIsFollowed
    RemovedIsForgotten
    StopEndsReaders
\* After stop() every thread may have finished.
CHECK_DEADLOCK FALSE
