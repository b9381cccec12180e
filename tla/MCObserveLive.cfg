\* Two subscribers whose connections end; they may stop and calls may fail.
SPECIFICATION FairSpec
CONSTANTS
    Subs = {s1, s2}
    None = None
    MaxNotify = 0
    MayFail = TRUE
    MayStop = TRUE
    MayLose = TRUE
    MayDecodeFail = FALSE
    MayEnd = FALSE
    MayClose = FALSE
PROPERTIES EndIsTold CallsReturn
INVARIANTS ObservationInv
\* When all calls have returned and nothing changes any more, nothing happens.
CHECK_DEADLOCK FALSE
