\* Two clouds, two resources that come and go; no request fails.
SPECIFICATION Spec
CONSTANTS
    Clouds = {cloudA, cloudB}
    Hrefs = {light, heat}
    Conns = {k1, k2}
    NoCloud = NoCloud
    NoConn = NoConn
    NoCreds = NoCreds
    TriggerCap = 2
    UnpublishBatch = 1
    ManagedCAs = FALSE
    MayClose = FALSE
    Faults = {"expire"}
    MaxPosts = 2
    MaxReconnects = 0
    MaxCrashes = 0
INVARIANTS PublishOnlyInSession DirectoryMatchesDevice UnregisteredIsClean
SYMMETRY Symmetry
\* An unregistered device that nobody asks anything has nothing to do.
CHECK_DEADLOCK FALSE
