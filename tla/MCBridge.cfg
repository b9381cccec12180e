\* One address with two connections, and three events of these: requests, of which
\* two may be under way together, copies of them, and new descriptions, at most two.
SPECIFICATION Spec
CONSTANTS
    Peers = {p1}
    MaxReqs = 3
    MaxConns = 2
    MaxChanges = 2
    MaxEvents = 3
    MaxUnderWay = 2
    None = None
INVARIANTS PeersInv SubscriptionsInv LatestIsSent
\* When all requests are through and the device is closed, nothing happens.
CHECK_DEADLOCK FALSE
