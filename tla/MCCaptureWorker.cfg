CONSTANTS
    MaxRows = 2
    MaxKwins = 2
    Backends = {"X11", "GENERIC"}
    Operations = {"query", "area", "desktop", "watch"}
    Scenes <- MCScenes
    None = None
    MaxRequests = 2
    MaxDeaths = 1
SPECIFICATION FairSpec
INVARIANTS
    CaptureIsWhole
    NothingOutlivesCapture
    HealthyDisplayServes
    PictureIsFaithful
PROPERTIES
    CapturesReturn
CHECK_DEADLOCK FALSE
