CONSTANTS
    c1 = c1
    c2 = c2
    Containers <- MCContainers
    Capacity = 2
    MaxLines = 3
SPECIFICATION Spec
INVARIANT EveryDropCounted
PROPERTIES
    PublishedInOrder
    ImplementsChannel
    QueueMoves
\* After stop() every thread may have finished.
CHECK_DEADLOCK FALSE
