SPECIFICATION FairSpec
CONSTANTS
    Environments = {"none", "shell", "wayland", "x11"}
    Graphical = {"shell", "wayland", "x11"}
    Desktop <- MCDesktop
    Features <- MCFeatures
    Supported <- MCSupported
    AtBoot = "none"
    Slots = {1, 2}
    MaxAttempts = 1
    Burst = 1
    MaxChanges = 2
    Callers = {1, 2}
    Connections <- MCConnections
INVARIANTS
    ConnectionsCounted
    CallsReachAdmittedShell
PROPERTIES
    Settles
CHECK_DEADLOCK FALSE
