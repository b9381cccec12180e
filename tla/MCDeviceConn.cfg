\* Two goroutines connect to a device with two endpoints, their contexts end,
\* connections break, the device is closed again and again.
SPECIFICATION Spec
CONSTANTS
    a1 = a1
    a2 = a2
    Endpoints <- MCTwoEndpoints
    Callers = {p1, p2}
    Conns = {k1, k2, k3}
    Clients = {x1, x2}
    None = None
    MayTimeout = TRUE
    MayLose = TRUE
    MayClose = TRUE
SYMMETRY MCSymmetry
PROPERTIES CloseClosesPooled
INVARIANTS OneConnectionPerConn FailedIsForgotten
\* All objects may be in use: a bound of the model.
CHECK_DEADLOCK FALSE
