\* A restart, a reconnect, an expiring token and two changes of configuration.
SPECIFICATION FairSpec
CONSTANTS
    Clouds = {cloudA}
    Hrefs = {}
    Conns = {k1, k2}
    NoCloud = NoCloud
    NoConn = NoConn
    NoCreds = NoCreds
    TriggerCap = 2
    UnpublishBatch = 1
    ManagedCAs = TRUE
    MayClose = TRUE
    Faults = {"expire"}
    MaxPosts = 2
    MaxReconnects = 1
    MaxCrashes = 1
PROPERTIES RegistersWithCloud
\* An unregistered device that nobody asks anything has nothing to do.
CHECK_DEADLOCK FALSE
