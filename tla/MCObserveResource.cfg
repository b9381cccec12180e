\* Two subscribers, one change of the resource; calls fail and observations end
\* in every way but with their connection.
SPECIFICATION Spec
CONSTANTS
    Subs = {s1, s2}
    None = None
    MaxNotify = 1
    MayFail = TRUE
    MayStop = TRUE
    MayLose = FALSE
    MayDecodeFail = TRUE
    MayEnd = TRUE
    MayClose = TRUE
SYMMETRY MCSymmetry
INVARIANTS SubscribersInv
PROPERTIES DeliveredInOrder
\* When all calls have returned and nothing changes any more, nothing happens.
CHECK_DEADLOCK FALSE
