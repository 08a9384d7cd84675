SPECIFICATION FairSpec
CONSTANTS
    Requests = {1, 2, 3}
    LaneOf <- MCLaneOf
    Slots = {1, 2}
    FastBatch = 2
    MaxFaults = 1
INVARIANTS
    StartedOnceInOrder
    AnswersTrue
    QueueConsistent
PROPERTIES
    QueuedIsAnswered
    StaysHealthy
CHECK_DEADLOCK FALSE
