\* Two devices, offline after three rounds, the default; two multicast addresses,
\* a secured device found by multicast and by IP.
SPECIFICATION DiscoverySpec
CONSTANTS
    d1 = d1
    d2 = d2
    c1 = c1
    c2 = c2
    Devices = {d1, d2}
    FailureThreshold = 3
    None = None
    Conns = {c1, c2}
    Devs = {d1}
    Secured = {d1}
    ByIP = {d1}
    EpLists <- SomeEndpoints
    OwnerChanges = 1
    NoDoxm = NoDoxm
INVARIANTS EndedInv NothingIsLeft
PROPERTIES PresenceKept GoneIsReported StopReturns DetailsReturn ResultIsTrue
\* GetDevicesDetails is called once, and its goroutines end.
CHECK_DEADLOCK FALSE
