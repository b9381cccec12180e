\* Two callers and the loop's own handlers edit the list of two channels; every
\* event of a registered channel is handled.
SPECIFICATION FairSpec
CONSTANTS
    Callers = {g1, g2}
    Loop = loop
    c1 = c1
    c2 = c2
    Channels <- MCChannels
    AddArgs <- MCAddArgs
    RemoveArgs <- MCRemoveArgs
    MaxCalls = 2
    MaxSends = 1
INVARIANTS NoLostWakeUp HandlerCallsInv
PROPERTIES ImplementsHandlerList EveryEventHandled
\* A loop that waits for events, or has been stopped, has nothing to do.
CHECK_DEADLOCK FALSE
