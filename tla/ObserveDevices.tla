--------------------------- MODULE ObserveDevices ---------------------------
(* ObserveDevices of the client (client/observeDevices.go) and the client's *)
(* subscriptions (client/client.go).  A goroutine polls: it discovers by    *)
(* multicast and, at the same time, pings the devices the cache says were   *)
(* found by IP, counts how often a device has been missing, and reports to  *)
(* the caller's handler.  Devices come and go, answers are lost, and the    *)
(* observation is stopped by StopObservingDevices, by Client.Close, by an   *)
(* error of the discovery or by an error of the handler.                    *)
EXTENDS Integers, FiniteSets

CONSTANTS
    Devices,
    FailureThreshold, \* ObserverConfig.FailureThreshold
    None

ASSUME ThresholdAssumption == FailureThreshold \in 1..255
ASSUME NoneAssumption == None \notin Devices

Absent == FailureThreshold \* not a key of onlineDeviceIDs

VARIABLES
    \* the network and the cache
    present,  \* devices that answer to multicast
    host,     \* the device at the IP address, if any
    byIP,     \* the device the cache has for that address
    \* devicesObserver
    pc,       \* where its goroutine is
    task,     \* the device that is pinged in this round
    found,    \* newDevices of this round
    onlineDeviceIDs, \* failures of the devices that are online
    current,  \* onlineDeviceIDs of the next round
    added, removed,  \* devices still to be reported
    event,    \* the event about to be given to the handler
    failed,   \* observe has returned an error
    cancelled,\* its context is cancelled
    isClosed, \* of devicesObservationHandler
    \* the client and its caller
    subscribed, \* it is in Client.subscriptions
    caller,   \* where ObserveDevices and StopObservingDevices are
    closing,  \* Client.Close has taken it out and is about to cancel it
    \* history
    view,     \* devices last reported online
    missed,   \* rounds since a device was last found
    early     \* it ended before it was inserted into subscriptions

envVars == <<present, host, byIP>>
roundVars == <<task, found, onlineDeviceIDs, current, added, removed, failed>>
vars == <<envVars, pc, roundVars, event, cancelled, isClosed, subscribed, caller, closing,
          view, missed, early>>

TypeOK ==
    /\ present \subseteq Devices
    /\ {host, byIP, task} \subseteq Devices \union {None}
    /\ pc \in {"new", "poll", "wait", "report", "handle", "polled", "remove", "done"}
    /\ {found, added, removed, view} \subseteq SUBSET Devices
    /\ onlineDeviceIDs \in [Devices -> 0..Absent]
    /\ current \in [Devices -> 0..Absent]
    /\ event \in ({"online", "offline"} \X Devices) \union {None}
    /\ {failed, cancelled, isClosed, subscribed, closing, early} \subseteq BOOLEAN
    /\ caller \in {"idle", "insert", "observing", "cancel", "wait", "stopped"}
    /\ missed \in [Devices -> 0..FailureThreshold]

Init ==
    /\ present = {} /\ host = None /\ byIP = None
    /\ pc = "new" /\ task = None /\ found = {}
    /\ onlineDeviceIDs = [d \in Devices |-> Absent]
    /\ current = [d \in Devices |-> Absent]
    /\ added = {} /\ removed = {} /\ event = None
    /\ failed = FALSE /\ cancelled = FALSE /\ isClosed = FALSE
    /\ subscribed = FALSE /\ caller = "idle" /\ closing = FALSE
    /\ view = {}
    /\ missed = [d \in Devices |-> FailureThreshold]
    /\ early = FALSE

------------------------------------------------------------------------------
(* The network                                                              *)

Appear(d) ==
    /\ d \notin present
    /\ present' = present \union {d}
    /\ UNCHANGED <<host, byIP, pc, roundVars, event, cancelled, isClosed, subscribed, caller,
                   closing, view, missed, early>>

Leave(d) ==
    /\ d \in present
    /\ present' = present \ {d}
    /\ UNCHANGED <<host, byIP, pc, roundVars, event, cancelled, isClosed, subscribed, caller,
                   closing, view, missed, early>>

\* Another device, or none, gets the address.
Readdress(d) ==
    /\ host # d
    /\ host' = d
    /\ UNCHANGED <<present, byIP, pc, roundVars, event, cancelled, isClosed, subscribed, caller,
                   closing, view, missed, early>>

\* The application finds the device at the address (GetDeviceByIP).
GetDeviceByIP ==
    /\ host # None
    /\ byIP' = host
    /\ UNCHANGED <<present, host, pc, roundVars, event, cancelled, isClosed, subscribed, caller,
                   closing, view, missed, early>>

------------------------------------------------------------------------------
(* A round                                                                  *)

\* observe begins: GetAllDeviceIDsFoundByIP.
Observe ==
    /\ pc = "poll"
    /\ pc' = "wait"
    /\ task' = byIP
    /\ found' = {}
    /\ UNCHANGED <<envVars, onlineDeviceIDs, current, added, removed, failed, event, cancelled,
                   isClosed, subscribed, caller, closing, view, missed, early>>

\* listDeviceIds.Handle: a device has answered.
Discovered(d) ==
    /\ pc = "wait"
    /\ d \in present \ found
    /\ found' = found \union {d}
    /\ UNCHANGED <<envVars, pc, task, onlineDeviceIDs, current, added, removed, failed, event,
                   cancelled, isClosed, subscribed, caller, closing, view, missed, early>>

\* getDeviceByIPWithUpdateCache: any answer from the address counts for the
\* device that was expected there; the cache gets the one that has answered.
Ping ==
    /\ pc = "wait" /\ task # None
    /\ \/ /\ host # None
          /\ found' = found \union {task}
          /\ byIP' = IF byIP = task THEN host ELSE byIP
       \/ UNCHANGED <<found, byIP>>
    /\ task' = None
    /\ UNCHANGED <<present, host, pc, onlineDeviceIDs, current, added, removed, failed, event,
                   cancelled, isClosed, subscribed, caller, closing, view, missed, early>>

\* Mutation: offline one round too early.
ProcessDevicesEarly(d, F) ==
    IF d \in F THEN 0
    ELSE IF onlineDeviceIDs[d] < FailureThreshold - 2 THEN onlineDeviceIDs[d] + 1
    ELSE Absent

\* Mutation: the failures are not counted.
ProcessDevicesSame(d, F) ==
    IF d \in F THEN 0
    ELSE onlineDeviceIDs[d]

\* processDevices: the failures of d after a round in which F was found.
ProcessDevices(d, F) ==
    IF d \in F THEN 0
    ELSE IF onlineDeviceIDs[d] < FailureThreshold - 1 THEN onlineDeviceIDs[d] + 1
    ELSE Absent

\* The round is over: the poll context has ended and the pings have too.
RoundOver ==
    /\ pc = "wait" /\ task = None /\ ~cancelled
    /\ current' = [d \in Devices |-> ProcessDevices(d, found)]
    /\ added' = {d \in Devices : current'[d] # Absent /\ onlineDeviceIDs[d] = Absent}
    /\ removed' = {d \in Devices : current'[d] = Absent /\ onlineDeviceIDs[d] # Absent}
    /\ missed' = [d \in Devices |-> IF d \in found THEN 0
                                    ELSE IF missed[d] < FailureThreshold THEN missed[d] + 1
                                    ELSE missed[d]]
    /\ pc' = "report"
    /\ UNCHANGED <<envVars, task, found, onlineDeviceIDs, failed, event, cancelled, isClosed,
                   subscribed, caller, closing, view, early>>

\* The discovery fails, or finds that the context is cancelled.
DiscoveryError ==
    /\ pc = "wait" /\ task = None
    /\ failed' = TRUE
    /\ pc' = "polled"
    /\ UNCHANGED <<envVars, task, found, onlineDeviceIDs, current, added, removed, event,
                   cancelled, isClosed, subscribed, caller, closing, view, missed, early>>

------------------------------------------------------------------------------
(* Reporting                                                                *)

\* emit: the added devices first; a closed handler is not called.
Emit ==
    /\ pc = "report" /\ added \union removed # {}
    /\ \E d \in IF added # {} THEN added ELSE removed :
          /\ added' = added \ {d}
          /\ removed' = IF added # {} THEN removed ELSE removed \ {d}
          /\ IF isClosed THEN UNCHANGED <<event, pc>>
             ELSE event' = <<IF added # {} THEN "online" ELSE "offline", d>> /\ pc' = "handle"
    /\ UNCHANGED <<envVars, task, found, onlineDeviceIDs, current, failed, cancelled, isClosed,
                   subscribed, caller, closing, view, missed, early>>

\* The caller's handler runs, and may return an error.
Handle ==
    /\ pc = "handle"
    /\ view' = IF event[1] = "online" THEN view \union {event[2]} ELSE view \ {event[2]}
    /\ event' = None
    /\ \/ pc' = "report" /\ UNCHANGED failed
       \/ pc' = "polled" /\ failed' = TRUE
    /\ UNCHANGED <<envVars, task, found, onlineDeviceIDs, current, added, removed, cancelled,
                   isClosed, subscribed, caller, closing, missed, early>>

Reported ==
    /\ pc = "report" /\ added \union removed = {}
    /\ pc' = "polled"
    /\ UNCHANGED <<envVars, roundVars, event, cancelled, isClosed, subscribed, caller, closing,
                   view, missed, early>>

\* poll goes on, or ends: OnClose if its context is cancelled, else Error, each
\* of which does something only if the handler is not closed yet.
PollNext ==
    /\ pc = "polled"
    /\ IF ~cancelled /\ ~failed
       THEN /\ onlineDeviceIDs' = current
            /\ pc' = "poll"
            /\ UNCHANGED <<isClosed, early>>
       ELSE /\ isClosed' = TRUE
            /\ early' = (caller = "insert")
            /\ pc' = IF isClosed THEN "done" ELSE "remove"
            /\ UNCHANGED onlineDeviceIDs
    /\ UNCHANGED <<envVars, task, found, current, added, removed, failed, event, cancelled,
                   subscribed, caller, closing, view, missed>>

\* removeSubscription, if somebody else has not done it, and the handler's
\* OnClose or Error.
RemoveSubscription ==
    /\ pc = "remove"
    /\ subscribed' = FALSE
    /\ cancelled' = (cancelled \/ subscribed)
    /\ early' = (caller = "insert")
    /\ pc' = "done"
    /\ UNCHANGED <<envVars, roundVars, event, isClosed, caller, closing, view, missed>>

------------------------------------------------------------------------------
(* The client                                                               *)

\* newDevicesObserver starts the goroutine.
ObserveDevices ==
    /\ caller = "idle"
    /\ caller' = "insert"
    /\ pc' = "poll"
    /\ UNCHANGED <<envVars, roundVars, event, cancelled, isClosed, subscribed, closing,
                   view, missed, early>>

InsertSubscription ==
    /\ caller = "insert"
    /\ caller' = "observing"
    /\ subscribed' = TRUE
    /\ UNCHANGED <<envVars, pc, roundVars, event, cancelled, isClosed, closing, view, missed, early>>

\* StopObservingDevices: popSubscription; without it there is nothing to do.
StopObservingDevices ==
    /\ caller = "observing"
    /\ caller' = IF subscribed THEN "cancel" ELSE "observing"
    /\ subscribed' = FALSE
    /\ UNCHANGED <<envVars, pc, roundVars, event, cancelled, isClosed, closing, view, missed, early>>

\* Mutation: the goroutine's context is not cancelled.
CancelHandlerOnly ==
    /\ \/ caller = "cancel" /\ caller' = "wait" /\ UNCHANGED closing
       \/ closing /\ closing' = FALSE /\ UNCHANGED caller
    /\ isClosed' = TRUE
    /\ UNCHANGED <<envVars, pc, roundVars, event, cancelled, subscribed, view, missed, early>>

\* Cancel: the handler is closed before the context is cancelled.
Cancel ==
    /\ \/ caller = "cancel" /\ caller' = "wait" /\ UNCHANGED closing
       \/ closing /\ closing' = FALSE /\ UNCHANGED caller
    /\ isClosed' = TRUE
    /\ cancelled' = TRUE
    /\ UNCHANGED <<envVars, pc, roundVars, event, subscribed, view, missed, early>>

\* Mutation: StopObservingDevices does not wait for the goroutine.
WaitNot ==
    /\ caller = "wait"
    /\ caller' = "stopped"
    /\ UNCHANGED <<envVars, pc, roundVars, event, cancelled, isClosed, subscribed, closing,
                   view, missed, early>>

\* Wait: StopObservingDevices returns.
Wait ==
    /\ caller = "wait" /\ pc = "done"
    /\ caller' = "stopped"
    /\ UNCHANGED <<envVars, pc, roundVars, event, cancelled, isClosed, subscribed, closing,
                   view, missed, early>>

\* Client.Close: popSubscriptions; it does not wait.
Close ==
    /\ subscribed
    /\ subscribed' = FALSE
    /\ closing' = TRUE
    /\ UNCHANGED <<envVars, pc, roundVars, event, cancelled, isClosed, caller, view, missed, early>>

------------------------------------------------------------------------------

Environment ==
    \/ \E d \in Devices : Appear(d) \/ Leave(d)
    \/ \E d \in Devices \union {None} : Readdress(d)
    \/ GetDeviceByIP

Observer ==
    \/ Observe \/ Ping \/ RoundOver \/ DiscoveryError
    \/ Emit \/ Handle \/ Reported \/ PollNext \/ RemoveSubscription

Client ==
    \/ ObserveDevices \/ InsertSubscription \/ StopObservingDevices \/ Cancel \/ Wait \/ Close

Next ==
    \/ Environment
    \/ Observer
    \/ \E d \in Devices : Discovered(d)
    \/ Client

Spec == Init /\ [][Next]_vars

\* The goroutine runs, a round ends after the polling interval, handlers
\* return, and a call that has been made goes on.
Fairness ==
    /\ WF_vars(Observer)
    /\ WF_vars(InsertSubscription \/ Cancel \/ Wait)

FairSpec == Spec /\ Fairness

------------------------------------------------------------------------------
(* Properties                                                               *)

\* The observation keeps what DevicePresence promises: the two events of a
\* device alternate, it is online only after a round that has found it and
\* offline only after FailureThreshold rounds that have not, whatever is lost or
\* fails on the way.  Found is a device that has answered to the multicast, or
\* whose address has answered to the ping, the latter whoever has it by now.
Presence == INSTANCE DevicePresence WITH ended <- (pc = "done")
PresenceKept == Presence!Spec

\* When StopObservingDevices has returned, the handler is not called again,
\* although its last call may have been running when Stop was called.
NoEventAfterStop == caller = "stopped" => pc = "done" /\ event = None

\* An observation that has ended by itself is not left behind in the client's
\* subscriptions, unless it ended before ObserveDevices inserted it.
NoDanglingSubscription == pc = "done" /\ subscribed => early

\* A device that has gone for good is reported offline, or the observation
\* ends.
GoneIsReported == \A d \in Devices :
    <>[](d \notin present /\ host # d) => <>[](d \notin view \/ pc \in {"new", "done"})

\* StopObservingDevices returns.
StopReturns == caller = "cancel" ~> caller = "stopped"

\* Every variable has its type, the count of failures below the threshold
\* included, and an observation that has ended, or was stopped, leaves neither
\* an event nor a subscription behind, except one that was inserted only after
\* its end (early).
EndedInv == TypeOK /\ NoEventAfterStop /\ NoDanglingSubscription
=============================================================================
