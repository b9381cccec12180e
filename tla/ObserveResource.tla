-------------------------- MODULE ObserveResource --------------------------
(* Observation of one resource of one device by the subscribers of a client *)
(* (client/observeResource.go) over the core client's observation           *)
(* (client/core/observeResource.go).  The first subscriber creates a shared *)
(* observationsHandler, stores it in observeResourceCache and starts the    *)
(* observation on the device; later ones find the handler and join it, the  *)
(* last one to stop cancels the observation.  An observation ends when its  *)
(* connection ends, when a notification cannot be decoded, when the device  *)
(* answers that it cannot be observed, or when the device is closed.        *)
(*                                                                          *)
(* Every subscriber calls ObserveResource once; a handler is named after    *)
(* the subscriber that created it.                                          *)
EXTENDS Integers, FiniteSets

CONSTANTS
    Subs,           \* calls of ObserveResource
    None,
    MaxNotify,      \* bound on the number of changes of the resource
    MayFail,        \* connecting and observing may fail
    MayStop,        \* subscribers may call StopObservingResource
    MayLose,        \* connections may end
    MayDecodeFail,  \* a notification may not be decodable
    MayEnd,         \* an answer may come without the Observe option
    MayClose        \* Device.Close may be called

ASSUME NoneAssumption == None \notin Subs
ASSUME BoundAssumption == MaxNotify \in Nat
ASSUME SwitchesAssumption ==
    {MayFail, MayStop, MayLose, MayDecodeFail, MayEnd, MayClose} \subseteq BOOLEAN

VARIABLES
    \* Client
    cache,       \* observeResourceCache: the handler under the resource's key
    cacheLock,   \* who holds the cache's lock while waiting for a handler's
    at,          \* where a subscriber's calls are
    my,          \* the handler it has got from the cache
    \* observationsHandler
    lock,        \* who holds its mutex
    observations,\* its subscribers
    lastMessage, \* the last message, 0 for none
    device,      \* device and observationID: not set, the device it is
                 \* observed on, or another object for that device
    \* observationHandler of a subscriber
    firstMessage,\* the message to begin with, 0 for nil
    starting,    \* its HandleFirstMessage goroutine has not run
    got,         \* the last message given to the subscriber
    told,        \* how often it was told that the observation has ended
    \* core observation of a handler
    active,      \* the device notifies it
    isClosed,    \* its handlers are disabled
    hook,        \* its close handler is registered on the connection
    conn,        \* its connection: conn, then about to run the handler, or done
    known,       \* it is in Device.observations
    closing,     \* Device.Close has taken it out and is about to close it
    run,         \* what holds the mutex of its handler, and where that is
    why,         \* why it is being closed
    todo,        \* whom the current message has still to be given to
    received,    \* the last message received
    \* the device
    value,       \* the number of changes of the resource
    \* history
    evicted      \* handlers that the end of another one took out of the cache

clientVars == <<cache, cacheLock, at, my>>
sharedVars == <<lock, observations, lastMessage, device>>
subVars == <<firstMessage, starting, got, told>>
coreVars == <<active, isClosed, hook, conn, known, closing>>
runVars == <<run, why, todo, received>>
vars == <<clientVars, sharedVars, subVars, coreVars, runVars, value, evicted>>

Places == {"new", "wait", "read", "store", "connect", "observe", "register",
           "publish", "observing", "cancel", "stopped", "failed"}
Positions == {"idle", "range", "close", "uncache", "lock", "notify", "after"}
Messages == 0..(MaxNotify + 1)

TypeOK ==
    /\ cache \in Subs \union {None}
    /\ cacheLock \in Subs \union {None}
    /\ at \in [Subs -> Places]
    /\ my \in [Subs -> Subs \union {None}]
    /\ lock \in [Subs -> Subs \union {None}]
    /\ observations \in [Subs -> SUBSET Subs]
    /\ lastMessage \in [Subs -> Messages]
    /\ device \in [Subs -> {"nil", "observed", "other"}]
    /\ firstMessage \in [Subs -> Messages]
    /\ starting \in [Subs -> BOOLEAN]
    /\ got \in [Subs -> Messages]
    /\ told \in [Subs -> 0..1]
    /\ active \in [Subs -> BOOLEAN]
    /\ isClosed \in [Subs -> BOOLEAN]
    /\ hook \in [Subs -> BOOLEAN]
    /\ conn \in [Subs -> {"open", "ended", "closing", "done"}]
    /\ known \in [Subs -> BOOLEAN]
    /\ closing \in [Subs -> BOOLEAN]
    /\ run \in [Subs -> Positions]
    /\ why \in [Subs -> {"error", "lost", "end", "deviceClose"}]
    /\ todo \in [Subs -> SUBSET Subs]
    /\ received \in [Subs -> Messages]
    /\ value \in Messages
    /\ evicted \in SUBSET Subs

Init ==
    /\ cache = None
    /\ cacheLock = None
    /\ at = [s \in Subs |-> "new"]
    /\ my = [s \in Subs |-> None]
    /\ lock = [h \in Subs |-> None]
    /\ observations = [h \in Subs |-> {}]
    /\ lastMessage = [h \in Subs |-> 0]
    /\ device = [h \in Subs |-> "nil"]
    /\ firstMessage = [s \in Subs |-> 0]
    /\ starting = [s \in Subs |-> FALSE]
    /\ got = [s \in Subs |-> 0]
    /\ told = [s \in Subs |-> 0]
    /\ active = [h \in Subs |-> FALSE]
    /\ isClosed = [h \in Subs |-> FALSE]
    /\ hook = [h \in Subs |-> FALSE]
    /\ conn = [h \in Subs |-> "open"]
    /\ known = [h \in Subs |-> FALSE]
    /\ closing = [h \in Subs |-> FALSE]
    /\ run = [h \in Subs |-> "idle"]
    /\ why = [h \in Subs |-> "error"]
    /\ todo = [h \in Subs |-> {}]
    /\ received = [h \in Subs |-> 0]
    /\ value = 1
    /\ evicted = {}

------------------------------------------------------------------------------
(* ObserveResource                                                          *)

Goto(s, l) == at' = [at EXCEPT ![s] = l]
Unlock(h) == lock' = [lock EXCEPT ![h] = None]

\* LoadOrStoreWithFunc, nothing in the cache: a new handler, created locked.
CreateHandler(s) ==
    /\ at[s] = "new"
    /\ cacheLock = None
    /\ cache = None
    /\ cache' = s
    /\ my' = [my EXCEPT ![s] = s]
    /\ lock' = [lock EXCEPT ![s] = s]
    /\ Goto(s, "read")
    /\ UNCHANGED <<cacheLock, observations, lastMessage, device, subVars,
                   coreVars, runVars, value, evicted>>

\* LoadOrStoreWithFunc, a handler in the cache: its mutex is taken under the
\* lock of the cache, which nobody else can use meanwhile.
LoadHandler(s) ==
    /\ at[s] = "new"
    /\ cacheLock = None
    /\ cache # None
    /\ cacheLock' = s
    /\ my' = [my EXCEPT ![s] = cache]
    /\ Goto(s, "wait")
    /\ UNCHANGED <<cache, sharedVars, subVars, coreVars, runVars, value, evicted>>

LockHandler(s) ==
    /\ at[s] = "wait"
    /\ lock[my[s]] = None
    /\ lock' = [lock EXCEPT ![my[s]] = s]
    /\ cacheLock' = None
    /\ Goto(s, "read")
    /\ UNCHANGED <<cache, my, observations, lastMessage, device, subVars,
                   coreVars, runVars, value, evicted>>

ReadLastMessage(s) ==
    /\ at[s] = "read"
    /\ firstMessage' = [firstMessage EXCEPT ![s] = lastMessage[my[s]]]
    /\ Goto(s, "store")
    /\ UNCHANGED <<cache, cacheLock, my, sharedVars, starting, got, told,
                   coreVars, runVars, value, evicted>>

\* The subscriber is stored. One that has joined is done, and a goroutine
\* gives it the message it begins with; the creator goes on.
StoreSubscriber(s) ==
    /\ at[s] = "store"
    /\ observations' = [observations EXCEPT ![my[s]] = @ \union {s}]
    /\ IF my[s] = s
       THEN Goto(s, "connect") /\ UNCHANGED <<lock, starting>>
       ELSE /\ Goto(s, "observing")
            /\ Unlock(my[s])
            /\ starting' = [starting EXCEPT ![s] = TRUE]
    /\ UNCHANGED <<cache, cacheLock, my, lastMessage, device, firstMessage, got,
                   told, coreVars, runVars, value, evicted>>

\* GetDeviceLinkForHref, connectToEndpoints and RegisterCloseHandler
Connect(s) ==
    /\ at[s] = "connect"
    /\ hook' = [hook EXCEPT ![s] = TRUE]
    /\ Goto(s, "observe")
    /\ UNCHANGED <<cache, cacheLock, my, sharedVars, subVars, active, isClosed,
                   conn, known, closing, runVars, value, evicted>>

\* client.Observe: the device's answer is the first message.
Observe(s) ==
    /\ at[s] = "observe"
    /\ conn[s] = "open"
    /\ active' = [active EXCEPT ![s] = TRUE]
    /\ Goto(s, "register")
    /\ UNCHANGED <<cache, cacheLock, my, sharedVars, subVars, isClosed, hook,
                   conn, known, closing, runVars, value, evicted>>

\* Mutation: the mutex of the handler is not released on an error.
ObserveFailsLocked(s) ==
    /\ at[s] \in {"connect", "observe"}
    /\ MayFail \/ conn[s] # "open"
    /\ hook' = [hook EXCEPT ![s] = FALSE]
    /\ Goto(s, "failed")
    /\ UNCHANGED <<cache, cacheLock, my, sharedVars, subVars, active, isClosed,
                   conn, known, closing, runVars, value, evicted>>

\* Finding the device, connecting or observing fails and the call returns an
\* error; the handler stays in the cache and the subscriber in the handler.
ObserveFails(s) ==
    /\ at[s] \in {"connect", "observe"}
    /\ MayFail \/ conn[s] # "open"
    /\ hook' = [hook EXCEPT ![s] = FALSE]
    /\ Unlock(s)
    /\ Goto(s, "failed")
    /\ UNCHANGED <<cache, cacheLock, my, observations, lastMessage, device,
                   subVars, active, isClosed, conn, known, closing, runVars,
                   value, evicted>>

\* observation.Set and Device.observations.Store
RegisterObservation(s) ==
    /\ at[s] = "register"
    /\ known' = [known EXCEPT ![s] = TRUE]
    /\ Goto(s, "publish")
    /\ UNCHANGED <<cache, cacheLock, my, sharedVars, subVars, active, isClosed,
                   hook, conn, closing, runVars, value, evicted>>

\* The handler learns device and observation id, and the call returns.  When
\* the cache of devices has another object for the device by now, it is that
\* one, which does not know the observation.
PublishDevice(s) ==
    /\ at[s] = "publish"
    /\ \E d \in {"observed", "other"} : device' = [device EXCEPT ![s] = d]
    /\ Unlock(s)
    /\ Goto(s, "observing")
    /\ UNCHANGED <<cache, cacheLock, my, observations, lastMessage, subVars,
                   coreVars, runVars, value, evicted>>

\* observationHandler.HandleFirstMessage of a subscriber that has joined
HandleFirstMessage(s) ==
    /\ starting[s]
    /\ starting' = [starting EXCEPT ![s] = FALSE]
    /\ got' = IF firstMessage[s] = 0 THEN got ELSE [got EXCEPT ![s] = firstMessage[s]]
    /\ UNCHANGED <<clientVars, sharedVars, firstMessage, told, coreVars,
                   runVars, value, evicted>>

------------------------------------------------------------------------------
(* StopObservingResource                                                    *)

\* The core client's StopObservingResource: nothing when the observation is
\* not known any more; otherwise it is forgotten, its close handler removed,
\* its handlers disabled and the device told.
CoreStop(h) ==
    IF known[h]
    THEN /\ known' = [known EXCEPT ![h] = FALSE]
         /\ hook' = [hook EXCEPT ![h] = FALSE]
         /\ isClosed' = [isClosed EXCEPT ![h] = TRUE]
         /\ active' = [active EXCEPT ![h] = FALSE]
    ELSE UNCHANGED <<known, hook, isClosed, active>>

\* That, of the device the handler knows
StopOnDevice(h) ==
    IF device[h] = "observed" THEN CoreStop(h) ELSE UNCHANGED <<known, hook, isClosed, active>>

\* Mutation: whoever stops takes the handler out of the cache and cancels it.
StopForAll(s) ==
    /\ MayStop
    /\ at[s] = "observing"
    /\ cacheLock = None
    /\ IF cache # None /\ s \in observations[cache]
       THEN /\ observations' = [observations EXCEPT ![cache] = @ \ {s}]
            /\ cache' = None
            /\ Goto(s, IF device[cache] = "nil" THEN "stopped" ELSE "cancel")
       ELSE UNCHANGED <<cache, observations>> /\ Goto(s, "stopped")
    /\ UNCHANGED <<cacheLock, my, lock, lastMessage, device, subVars, coreVars,
                   runVars, value, evicted>>

\* ReplaceWithFunc: the subscriber leaves the handler that is in the cache
\* now, and takes it out of the cache when it was the last.
StopObservingResource(s) ==
    /\ MayStop
    /\ at[s] = "observing"
    /\ cacheLock = None
    /\ IF cache # None /\ s \in observations[cache]
       THEN /\ observations' = [observations EXCEPT ![cache] = @ \ {s}]
            /\ IF observations[cache] = {s}
               THEN /\ cache' = None
                    /\ Goto(s, IF device[cache] = "nil" THEN "stopped" ELSE "cancel")
               ELSE UNCHANGED cache /\ Goto(s, "stopped")
       ELSE UNCHANGED <<cache, observations>> /\ Goto(s, "stopped")
    /\ UNCHANGED <<cacheLock, my, lock, lastMessage, device, subVars, coreVars,
                   runVars, value, evicted>>

\* Mutation: the observation on the device is not cancelled.
ForgetToCancel(s) ==
    /\ at[s] = "cancel"
    /\ Goto(s, "stopped")
    /\ UNCHANGED <<cache, cacheLock, my, sharedVars, subVars, coreVars, runVars,
                   value, evicted>>

CancelObservation(s) ==
    /\ at[s] = "cancel"
    /\ StopOnDevice(my[s])
    /\ Goto(s, "stopped")
    /\ UNCHANGED <<cache, cacheLock, my, sharedVars, subVars, conn, closing,
                   runVars, value, evicted>>

------------------------------------------------------------------------------
(* Notifications: Handle of the core's and of the client's handler, under   *)
(* the mutex of the former                                                  *)

\* A message that can be decoded is kept as the last one and given to every
\* subscriber; the others, and those after disableHandlers, are not.
Handle(h, last) ==
    /\ run[h] = "idle"
    /\ active[h]
    /\ received[h] < value
    /\ received' = [received EXCEPT ![h] = value]
    /\ IF isClosed[h]
       THEN UNCHANGED <<lastMessage, run, why, todo>>
       ELSE /\ lastMessage' = [lastMessage EXCEPT ![h] = value]
            /\ todo' = [todo EXCEPT ![h] = observations[h]]
            /\ run' = [run EXCEPT ![h] = "range"]
            /\ why' = [why EXCEPT ![h] = IF last THEN "end" ELSE "error"]
    /\ UNCHANGED <<clientVars, lock, observations, device, subVars, coreVars,
                   value, evicted>>

\* Mutation: the first message is kept when a later one has come.
HandleKeepsFirst(h, s) ==
    /\ run[h] = "range"
    /\ s \in todo[h]
    /\ todo' = [todo EXCEPT ![h] = @ \ {s}]
    /\ got' = [got EXCEPT ![s] = lastMessage[h]]
    /\ UNCHANGED <<clientVars, sharedVars, firstMessage, starting, told, coreVars,
                   run, why, received, value, evicted>>

\* observationHandler.HandleMessage; one that has left while the message is
\* given to the others may be skipped or not.
HandleMessage(h, s) ==
    /\ run[h] = "range"
    /\ s \in todo[h]
    /\ todo' = [todo EXCEPT ![h] = @ \ {s}]
    /\ got' = [got EXCEPT ![s] = lastMessage[h]]
    /\ firstMessage' = [firstMessage EXCEPT ![s] = 0]
    /\ UNCHANGED <<clientVars, sharedVars, starting, told, coreVars, run, why,
                   received, value, evicted>>

\* A message without the Observe option closes the handler.
HandleDone(h) ==
    /\ run[h] = "range"
    /\ todo[h] \intersect observations[h] = {}
    /\ todo' = [todo EXCEPT ![h] = {}]
    /\ run' = [run EXCEPT ![h] = IF why[h] = "end" THEN "close" ELSE "idle"]
    /\ UNCHANGED <<clientVars, sharedVars, subVars, coreVars, why, received,
                   value, evicted>>

\* The message cannot be decoded: observationsHandler.Error
HandleFails(h, last) ==
    /\ MayDecodeFail
    /\ run[h] = "idle"
    /\ active[h]
    /\ received[h] < value
    /\ ~isClosed[h]
    /\ received' = [received EXCEPT ![h] = value]
    /\ run' = [run EXCEPT ![h] = "uncache"]
    /\ why' = [why EXCEPT ![h] = IF last THEN "end" ELSE "error"]
    /\ UNCHANGED <<clientVars, sharedVars, subVars, coreVars, todo, value, evicted>>

------------------------------------------------------------------------------
(* The end of an observation                                                *)

\* The connection collects its close handlers; one that is removed later is
\* called all the same.
CollectHandlers(h) ==
    /\ conn[h] = "ended"
    /\ conn' = [conn EXCEPT ![h] = IF hook[h] THEN "closing" ELSE "done"]
    /\ UNCHANGED <<clientVars, sharedVars, subVars, active, isClosed, hook,
                   known, closing, runVars, value, evicted>>

\* Mutation: the observation is stopped before its handler is closed.
StopThenClose(h) ==
    /\ conn[h] = "closing"
    /\ run[h] = "idle"
    /\ conn' = [conn EXCEPT ![h] = "done"]
    /\ CoreStop(h)
    /\ run' = [run EXCEPT ![h] = "close"]
    /\ why' = [why EXCEPT ![h] = "lost"]
    /\ UNCHANGED <<clientVars, sharedVars, subVars, closing, todo, received, value, evicted>>

\* The close handler calls OnClose once the core handler's mutex is free.
ConnectionClosed(h) ==
    /\ conn[h] = "closing"
    /\ run[h] = "idle"
    /\ conn' = [conn EXCEPT ![h] = "done"]
    /\ run' = [run EXCEPT ![h] = "close"]
    /\ why' = [why EXCEPT ![h] = "lost"]
    /\ UNCHANGED <<clientVars, sharedVars, subVars, active, isClosed, hook,
                   known, todo, received, closing, value, evicted>>

\* closeObservations of Device.Close: the observation is forgotten and its
\* close handler removed, then it is closed once the mutex is free.
ForgetObservation(h) ==
    /\ MayClose
    /\ known[h]
    /\ known' = [known EXCEPT ![h] = FALSE]
    /\ hook' = [hook EXCEPT ![h] = FALSE]
    /\ closing' = [closing EXCEPT ![h] = TRUE]
    /\ UNCHANGED <<clientVars, sharedVars, subVars, active, isClosed, conn,
                   runVars, value, evicted>>

CloseObservation(h) ==
    /\ closing[h]
    /\ run[h] = "idle"
    /\ closing' = [closing EXCEPT ![h] = FALSE]
    /\ run' = [run EXCEPT ![h] = "close"]
    /\ why' = [why EXCEPT ![h] = "deviceClose"]
    /\ UNCHANGED <<clientVars, sharedVars, subVars, active, isClosed, hook,
                   conn, known, todo, received, value, evicted>>

\* The core handler's OnClose, unless its handlers are disabled
OnClose(h) ==
    /\ run[h] = "close"
    /\ isClosed' = [isClosed EXCEPT ![h] = TRUE]
    /\ run' = [run EXCEPT ![h] = IF isClosed[h] THEN "after" ELSE "uncache"]
    /\ UNCHANGED <<clientVars, sharedVars, subVars, active, hook, conn, known,
                   why, todo, received, closing, value, evicted>>

\* closeObservingResource: whatever handler is under the key is taken out of
\* the cache; if there was none, somebody else stops the observation.
DeleteFromCache(h) ==
    /\ run[h] = "uncache"
    /\ cacheLock = None
    /\ cache' = None
    /\ evicted' = evicted \union ({cache} \ {h, None})
    /\ run' = [run EXCEPT ![h] = IF cache = None THEN "notify" ELSE "lock"]
    /\ UNCHANGED <<cacheLock, at, my, sharedVars, subVars, coreVars, why, todo,
                   received, value>>

StopLocked(h) ==
    /\ run[h] = "lock"
    /\ lock[h] = None
    /\ StopOnDevice(h)
    /\ run' = [run EXCEPT ![h] = "notify"]
    /\ UNCHANGED <<clientVars, sharedVars, subVars, conn, why, todo, received,
                   closing, value, evicted>>

\* OnClose or Error of every subscriber
NotifyEnd(h) ==
    /\ run[h] = "notify"
    /\ told' = [s \in Subs |-> IF s \in observations[h] THEN told[s] + 1 ELSE told[s]]
    /\ observations' = [observations EXCEPT ![h] = {}]
    /\ run' = [run EXCEPT ![h] = "after"]
    /\ UNCHANGED <<clientVars, lock, lastMessage, device, firstMessage,
                   starting, got, coreVars, why, todo, received, value, evicted>>

\* The connection's close handler stops what is still known, Device.Close
\* cancels the observation, and a message that could not be decoded and came
\* without the Observe option closes the handler.
Ended(h) ==
    /\ run[h] = "after"
    /\ CASE why[h] = "lost" -> CoreStop(h)
         [] why[h] = "deviceClose" ->
              /\ active' = [active EXCEPT ![h] = FALSE]
              /\ UNCHANGED <<known, hook, isClosed>>
         [] OTHER -> UNCHANGED <<known, hook, isClosed, active>>
    /\ run' = [run EXCEPT ![h] =
                IF why[h] = "end" /\ ~isClosed[h] THEN "close" ELSE "idle"]
    /\ why' = [why EXCEPT ![h] = "error"]
    /\ UNCHANGED <<clientVars, sharedVars, subVars, conn, todo, received,
                   closing, value, evicted>>

------------------------------------------------------------------------------
(* The device and the connection                                            *)

Change ==
    /\ value <= MaxNotify
    /\ value' = value + 1
    /\ UNCHANGED <<clientVars, sharedVars, subVars, coreVars, runVars, evicted>>

\* Nothing in this model depends on the connection of a handler without a
\* registered close handler.
LoseConnection(h) ==
    /\ MayLose
    /\ conn[h] = "open"
    /\ hook[h]
    /\ conn' = [conn EXCEPT ![h] = "ended"]
    /\ active' = [active EXCEPT ![h] = FALSE]
    /\ UNCHANGED <<clientVars, sharedVars, subVars, isClosed, hook, known,
                   closing, runVars, value, evicted>>

------------------------------------------------------------------------------

SubStep(s) ==
    \/ CreateHandler(s) \/ LoadHandler(s) \/ ReadLastMessage(s)
    \/ StoreSubscriber(s) \/ Connect(s) \/ Observe(s) \/ ObserveFails(s)
    \/ RegisterObservation(s) \/ PublishDevice(s) \/ CancelObservation(s)

HandlerStep(h) ==
    \/ \E s \in Subs : HandleMessage(h, s)
    \/ HandleDone(h) \/ CollectHandlers(h) \/ ConnectionClosed(h) \/ CloseObservation(h)
    \/ OnClose(h) \/ DeleteFromCache(h) \/ StopLocked(h) \/ NotifyEnd(h) \/ Ended(h)

Receive(h) ==
    \/ Handle(h, FALSE) \/ HandleFails(h, FALSE)
    \/ MayEnd /\ (Handle(h, TRUE) \/ HandleFails(h, TRUE))

Next ==
    \/ \E s \in Subs :
        \/ SubStep(s) \/ LockHandler(s) \/ HandleFirstMessage(s)
        \/ StopObservingResource(s)
        \/ HandlerStep(s) \/ Receive(s) \/ ForgetObservation(s) \/ LoseConnection(s)
    \/ Change

Spec == Init /\ [][Next]_vars

\* Goroutines are scheduled, connecting and observing end (they have a
\* context), mutexes are passed on, and ended connections call their handlers.
Fairness ==
    \A s \in Subs :
        /\ WF_vars(SubStep(s)) /\ SF_vars(LockHandler(s))
        /\ WF_vars(HandleFirstMessage(s))
        /\ WF_vars(HandlerStep(s)) /\ SF_vars(StopLocked(s))
        /\ WF_vars(Receive(s))

FairSpec == Spec /\ Fairness

------------------------------------------------------------------------------
(* Properties                                                               *)

\* Something is still under way with handler h: its creator has not returned,
\* somebody cancels it, or it is handling a message or its end.
Busy(h) ==
    \/ at[h] \in {"connect", "observe", "register", "publish"}
    \/ run[h] # "idle"
    \/ conn[h] \in {"ended", "closing"}
    \/ closing[h]
    \/ \E s \in Subs : at[s] = "cancel" /\ my[s] = h

\* A subscriber whose ObserveResource returned without an error, and who has
\* neither stopped nor been told of the end, is being notified.
IsObserved(s) ==
    at[s] = "observing" /\ told[s] = 0 /\ ~Busy(my[s]) =>
        active[my[s]] /\ s \in observations[my[s]]

\* That holds for whoever created the handler, whatever others do to the
\* shared handler and to the cache.
CreatorIsObserved == \A s \in Subs : my[s] = s => IsObserved(s)

\* The device does not go on notifying a handler whose subscribers have all
\* stopped or been told of the end: the last one to leave cancels the
\* observation.  It cannot when the handler was taken out of the cache with
\* another one's end, or was given an object that does not know the
\* observation.
NoLeakedObservation ==
    \A h \in Subs :
        active[h] /\ ~Busy(h) /\ h \notin evicted /\ device[h] # "other" =>
            \E s \in observations[h] : at[s] = "observing"

\* Every variable has its type, by which nobody is told of the end twice, and
\* creators are notified.
SubscribersInv == TypeOK /\ CreatorIsObserved

\* The device notifies a handler for as long as its creator wants it, and no
\* longer than anybody does.
ObservationInv == CreatorIsObserved /\ NoLeakedObservation

\* No subscriber is given an older message after a newer one, although the
\* message it begins with is handled by a goroutine of its own.
DeliveredInOrder == [][\A s \in Subs : got'[s] >= got[s]]_vars

\* Every subscriber of the handler in the cache is told when its connection
\* has ended, unless it leaves.
EndIsTold ==
    \A h, s \in Subs :
        cache = h /\ conn[h] = "ended" /\ known[h] /\ s \in observations[h]
            ~> told[s] = 1 \/ at[s] \in {"cancel", "stopped"}

\* Every ObserveResource and StopObservingResource returns, although callers
\* wait for each other's network requests under the lock of the cache.
CallsReturn ==
    \A s \in Subs :
        at[s] \notin {"observing", "stopped", "failed"}
            ~> at[s] \in {"observing", "stopped", "failed"}
=============================================================================
