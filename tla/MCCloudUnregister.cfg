\* Two clouds, two changes of configuration; requests and connections may fail
\* for ever.
SPECIFICATION FairSpec
CONSTANTS
    Clouds = {cloudA, cloudB}
    Hrefs = {}
    Conns = {k1, k2}
    NoCloud = NoCloud
    NoConn = NoConn
    NoCreds = NoCreds
    TriggerCap = 2
    UnpublishBatch = 1
    ManagedCAs = TRUE
    MayClose = TRUE
    Faults = {"lose", "dial", "timeout", "error", "unauthorized"}
    MaxPosts = 2
    MaxReconnects = 0
    MaxCrashes = 0
PROPERTIES UnregisterCompletes
INVARIANTS SessionOnOwnConnection StaleRegistrationIsReset
\* An unregistered device that nobody asks anything has nothing to do.
CHECK_DEADLOCK FALSE
