\* Two clients; contexts end, requests and connections are lost.
SPECIFICATION Spec
CONSTANTS
    p1 = p1
    p2 = p2
    p3 = p3
    o1 = o1
    o2 = o2
    Procs = {p1, p2, p3}
    Owners = {o1, o2}
    Id <- MCId
    Kind <- MCKind
    OtmClients <- MCOtmClients
    Supported = {"manufacturer", "justWorks"}
    Schemes = {"coaps", "coaps+tcp"}
    Nobody = Nobody
    MayTimeout = TRUE
    MayLose = TRUE
SYMMETRY Symmetry
INVARIANTS OwnershipInv NoHalfOwnedDevice
PROPERTIES OwnSucceedsForOwner
