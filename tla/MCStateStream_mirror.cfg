SPECIFICATION FairSpec
CONSTANTS
    w1 = w1
    w2 = w2
    Windows = {w1}
    Contents <- MCContents
    Absent = Absent
    Keep = Keep
    Requests <- MCRequests
    Watches = {"sampled", "native", "x11"}
    SocketRoom = 4
    MaxEvents = 3
    FailureLimit = 2
    MaxStimuli = 3
INVARIANTS
    MirrorFollowsTable
    PollIsExact
PROPERTIES
    SequenceIsFence
    Converges
CHECK_DEADLOCK FALSE
