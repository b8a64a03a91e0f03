CONSTANTS
    c1 = c1
    c2 = c2
    Ids <- MCIds
    States <- MCStates
    Hosts <- MCHosts
    Taggings <- MCTaggings
    HeartbeatTicks = 2
    Wrap = 2
    MaxChanges = 2
    MaxFailures = 1
    MaxLosses = 1
    MaxRestarts = 1
SPECIFICATION Spec
INVARIANTS
    CurrentAfterTick
PROPERTIES
    EveryRowWasTrue
    HeartbeatMeansUnchanged
    SubscriberCatchesUp
\* After stop() the thread has ended and the host may rest.
CHECK_DEADLOCK FALSE
