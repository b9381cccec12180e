------------------------------- MODULE Bridge -------------------------------
(* The local side of a bridge: the CoAP servers (bridge/net), the service   *)
(* that dispatches requests to its devices (bridge/service), a device       *)
(* (bridge/device), an observable resource (bridge/resources) and the thing *)
(* description manager that notifies it, composed.  Every request runs in a *)
(* goroutine of its own, next to the device's event loop, the goroutine     *)
(* that publishes a new thing description, and those that serve, shut the   *)
(* service down, or delete the device or the resource.  A peer is an        *)
(* address: when its connection is over it may come back with another one.  *)
(* Datagrams are lost and duplicated.                                       *)
EXTENDS Integers, FiniteSets

CONSTANTS
    Peers,
    MaxReqs,    \* bound: requests, copies made by the network included
    MaxConns,   \* bound: connections of a peer
    MaxChanges, \* bound: thing descriptions published after the first
    MaxEvents,  \* bound: requests, copies and publications together
    MaxUnderWay, \* bound: requests of a peer, copies included, under way together
    None

ASSUME BoundsAssumption == MaxReqs \in Nat /\ MaxConns \in Nat /\ MaxChanges \in Nat
ASSUME NoneAssumption == None \notin Peers \union Int

Reqs == 1..MaxReqs
Versions == 0..MaxChanges

\* The body of an error response; all of them are alike here.
ErrorBody == -1

VARIABLES
    \* Net and Service
    cache,    \* message IDs: an ID is the number of the first request that has it
    \* the peers
    conn,     \* number of a peer's connection
    alive,    \* it is not over
    dialog,   \* the ID of the request a peer waits for
    status,   \* what the peer knows: that it observes, or not any more;
              \* "silent": it observes something that was closed silently
    \* the requests and their goroutines
    req,
    \* the device and its resource
    closer,   \* where Device.Close is; "open": the device is in Service.devices
    telling,  \* the subscriptions it has yet to tell of the end
    closed,   \* Resource.closed: it is not in Device.resources any more
    \* the thing description manager
    value,    \* the device's current thing description
    notifier, \* where NotifySubscriptions is
    lastTD,
    subChan,  \* a value is in the channel
    subscriptions,
    \* the resource
    createdSubscription,
    deduplicationNotification,
    \* the event loop
    loop,     \* where Run is
    td,       \* the description it is notifying
    todo, visited, \* the subscriptions it has to call, and has called
    watched,  \* requests with a handler for the end of their connection
    \* history
    sent,     \* observers to which the current description was written, or an
              \* error where it could not be put into a message
    stolen    \* the peer's subscription was taken by a goroutine of an earlier
              \* connection, or because notifying it failed

peerVars == <<conn, alive, dialog, status>>
devVars == <<closer, telling, closed>>
tdVars == <<value, notifier, lastTD, subChan>>
subVars == <<subscriptions, createdSubscription, deduplicationNotification>>
loopVars == <<loop, td, todo, visited, watched>>
ghosts == <<sent, stolen>>
vars == <<cache, peerVars, req, devVars, tdVars, subVars, loopVars, ghosts>>

Labels == {"free", "sent", "subscribe", "get", "replace", "remove", "answer", "done"}

Request == [
    at   : Labels,
    peer : Peers \union {None},
    conn : 0..MaxConns,
    kind : {"observe", "cancel"}, \* GET with observe 0, and with 1
    mid  : Reqs \union {None}, 
    ok   : BOOLEAN,                        \* the answer is no error response
    body : Versions]                       \* the description it has read

TypeOK ==
    /\ {closed, subChan} \subseteq BOOLEAN
    /\ cache \subseteq Reqs
    /\ conn \in [Peers -> 0..MaxConns]
    /\ alive \in [Peers -> BOOLEAN]
    /\ dialog \in [Peers -> Reqs \union {None}]
    /\ status \in [Peers -> {"unknown", "observed", "cancelled", "silent"}]
    /\ req \in [Reqs -> Request]
    /\ closer \in {"open", "td", "tell", "closed"}
    /\ value \in Versions
    /\ notifier \in {"idle", "send"}
    /\ lastTD \in Versions \union {None}
    /\ {subscriptions, telling, todo, visited, watched, sent} \subseteq SUBSET Reqs
    /\ createdSubscription \in [Peers -> Reqs \union {None}]
    /\ deduplicationNotification \in [Reqs -> Versions \union {None, ErrorBody}]
    /\ loop \in {"select", "notify", "stopped"}
    /\ td \in Versions \union {None} /\ (loop = "notify" => td # None)
    /\ stolen \in [Peers -> BOOLEAN]

NoRequest == [at |-> "free", peer |-> None, conn |-> 0, kind |-> "cancel", mid |-> None,
              ok |-> FALSE, body |-> 0]

\* The service serves, and CreateDevice and Init of a device have returned.
Init ==
    /\ cache = {}
    /\ conn = [p \in Peers |-> 0]
    /\ alive = [p \in Peers |-> FALSE]
    /\ dialog = [p \in Peers |-> None]
    /\ status = [p \in Peers |-> "unknown"]
    /\ req = [q \in Reqs |-> NoRequest]
    /\ closer = "open" /\ telling = {} /\ closed = FALSE
    /\ value = 0 /\ notifier = "idle" /\ lastTD = None /\ subChan = FALSE
    /\ subscriptions = {}
    /\ createdSubscription = [p \in Peers |-> None]
    /\ deduplicationNotification = [q \in Reqs |-> None]
    /\ loop = "select" /\ td = None /\ todo = {} /\ visited = {} /\ watched = {}
    /\ sent = {}
    /\ stolen = [p \in Peers |-> FALSE]

\* The connection a request came with is not over.
Live(q) == LET p == req[q].peer IN alive[p] /\ conn[p] = req[q].conn

------------------------------------------------------------------------------
(* The service                                                              *)

\* LoadDevice finds the device in Service.devices.
LoadDevice == closer = "open"

\* Who takes the device out of the map closes it, without waiting for the
\* goroutines of requests.  The application is assumed not to publish a
\* description meanwhile.
DeleteAndCloseDevice ==
    /\ LoadDevice /\ notifier = "idle"
    /\ closer' = "td"
    /\ UNCHANGED <<cache, peerVars, req, telling, closed, tdVars, subVars, loopVars, ghosts>>

\* Shutdown does the same, once Net.Close has stopped the servers, which ends
\* the connections, and Serve has returned.
Shutdown ==
    /\ \A p \in Peers : ~alive[p]
    /\ DeleteAndCloseDevice

------------------------------------------------------------------------------
(* Device.Close                                                             *)

\* removeSubscription(key) by a goroutine that works for connection c of p, and
\* that may have failed to notify it: what is stored for the address is
\* cancelled, whichever connection it is of.
RemoveSubscription(p, c, failed) ==
    LET q == createdSubscription[p] IN
    /\ createdSubscription' = [createdSubscription EXCEPT ![p] = None]
    /\ subscriptions' = subscriptions \ {q}
    /\ stolen' = [stolen EXCEPT ![p] = @ \/ failed \/ (q # None /\ req[q].conn > c)]

\* Manager.Close: the channel is closed, the subscriptions are taken.
CloseManager ==
    /\ closer = "td"
    /\ closer' = "tell"
    /\ subChan' = FALSE
    /\ telling' = subscriptions
    /\ subscriptions' = {}
    /\ UNCHANGED <<cache, peerVars, req, closed, value, notifier, lastTD,
                   createdSubscription, deduplicationNotification, loopVars, ghosts>>

\* The handler of a subscription is called with an error: it tells the peer, if
\* that can be written, and removes what is stored for its address.
ObserveError(q) ==
    LET p == req[q].peer IN
    /\ \/ UNCHANGED status
       \/ Live(q) /\ status' = [status EXCEPT ![p] = "unknown"]
    /\ RemoveSubscription(p, req[q].conn, Live(q))

Tell(q) ==
    /\ closer = "tell" /\ q \in telling
    /\ telling' = telling \ {q}
    /\ ObserveError(q)
    /\ UNCHANGED <<cache, conn, alive, dialog, req, closer, closed, tdVars,
                   deduplicationNotification, loopVars, sent>>

\* The resources are taken out and closed, and the loop is told to stop.
\* Resource.Close cancels the subscriptions and leaves them stored.
CloseResources ==
    /\ closer = "tell" /\ telling = {}
    /\ closer' = "closed"
    /\ closed' = TRUE
    /\ subscriptions' = IF closed THEN subscriptions
                        ELSE subscriptions \ {createdSubscription[p] : p \in Peers}
    /\ UNCHANGED <<cache, peerVars, req, telling, tdVars, createdSubscription,
                   deduplicationNotification, loopVars, ghosts>>

\* CloseAndDeleteResource: nobody tells the observers.
CloseAndDeleteResource ==
    /\ ~closed /\ closer = "open"
    /\ closed' = TRUE
    /\ subscriptions' = subscriptions \ {createdSubscription[p] : p \in Peers}
    /\ status' = [p \in Peers |-> IF status[p] = "observed" THEN "silent" ELSE status[p]]
    /\ UNCHANGED <<cache, conn, alive, dialog, req, closer, telling, tdVars, createdSubscription,
                   deduplicationNotification, loopVars, ghosts>>

------------------------------------------------------------------------------
(* The peers and the network (external)                                     *)

Free == {q \in Reqs : req[q].at = "free"}
Busy == value + Cardinality(Reqs \ Free) >= MaxEvents
NextFree == CHOOSE q \in Free : \A r \in Free : q <= r

\* The requests of p that are under way, or going to be.
UnderWay(p) == {q \in Reqs :
    /\ req[q].peer = p
    /\ \/ req[q].at \in {"subscribe", "get", "replace", "remove", "answer"}
       \/ req[q].at = "sent" /\ req[q].mid \notin cache}

\* A peer sends a request, with an ID that it does not use again.  When another
\* of its requests is under way it cannot tell from the answers whether it
\* observes, and waits for none of them.  A request that is never received is
\* lost.  (Requests for what is not there any more are answered with an error and
\* change nothing.)
Send(p, kind) ==
    /\ Free # {} /\ ~Busy /\ Cardinality(UnderWay(p)) < MaxUnderWay /\ closer = "open" /\ ~closed
    /\ req' = [req EXCEPT ![NextFree] = [NoRequest EXCEPT !.at = "sent", !.peer = p, !.kind = kind,
                                                         !.mid = NextFree]]
    /\ dialog' = [dialog EXCEPT ![p] = IF UnderWay(p) = {} THEN NextFree ELSE None]
    /\ status' = [status EXCEPT ![p] = "unknown"]
    /\ UNCHANGED <<cache, conn, alive, devVars, tdVars, subVars, loopVars, ghosts>>

\* The network makes a copy of a request that is not confirmable.  (Copies of
\* the others are dropped by the CoAP library.)
Duplicate(q) ==
    /\ Free # {} /\ ~Busy /\ req[q].at = "sent" /\ req[q].mid = q
    /\ req' = [req EXCEPT ![NextFree] = req[q]]
    /\ UNCHANGED <<cache, peerVars, devVars, tdVars, subVars, loopVars, ghosts>>

\* The connection of a peer is over: closed, or idle for too long.
Disconnect(p) ==
    /\ alive[p]
    /\ alive' = [alive EXCEPT ![p] = FALSE]
    /\ status' = [status EXCEPT ![p] = "unknown"]
    /\ UNCHANGED <<cache, conn, dialog, req, devVars, tdVars, subVars, loopVars, ghosts>>

------------------------------------------------------------------------------
(* A request                                                                *)

\* What the model keeps of a request that is through.
Done(r) == [NoRequest EXCEPT !.at = "done", !.peer = r.peer, !.conn = r.conn]

Goto(q, label) == req' = [req EXCEPT ![q].at = label]

\* Mutation: messages are not remembered.
RememberNot(mid) == cache

\* LoadOrStore of the ID of a message that is not confirmable.  It expires when
\* no copy of the message is under way any more, and that changes nothing here.
Remember(mid) == cache \union {mid}

\* Device.HandleRequest finds the resource.
GetResource == ~closed

\* Resource.HandleRequest looks at the observe option of the GET.
HandleRequest(kind) == IF kind = "observe" THEN "subscribe" ELSE "remove"

\* ServeCOAP: a message whose ID is in the cache is dropped, whoever sent it.
\* DefaultRequestHandler and HandleRequest of the device answer with an error
\* when the device or the resource is not there.
ServeCOAP(q) ==
    LET p == req[q].peer
        drop == req[q].mid \in cache
    IN
    /\ req[q].at = "sent"
    /\ alive[p] \/ conn[p] < MaxConns
    /\ conn' = [conn EXCEPT ![p] = IF alive[p] THEN @ ELSE @ + 1]
    /\ alive' = [alive EXCEPT ![p] = TRUE]
    /\ cache' = Remember(req[q].mid)
    /\ IF drop \/ ~LoadDevice \/ ~GetResource
       THEN /\ req' = [req EXCEPT ![q] = Done(@)]
            /\ dialog' = [dialog EXCEPT ![p] = IF ~drop /\ @ = req[q].mid THEN None ELSE @]
       ELSE /\ req' = [req EXCEPT ![q].at = HandleRequest(req[q].kind),
                                  ![q].conn = conn'[p]]
            /\ UNCHANGED dialog
    /\ UNCHANGED <<status, devVars, tdVars, subVars, loopVars, ghosts>>

\* createSubscription: RegisterSubscription, of a closed manager too.
CreateSubscription(q) ==
    /\ req[q].at = "subscribe"
    /\ subscriptions' = subscriptions \union {q}
    /\ Goto(q, "get")
    /\ UNCHANGED <<cache, peerVars, devVars, tdVars, createdSubscription,
                   deduplicationNotification, loopVars, ghosts>>

\* getHandler makes an answer of the description, or an error response, which is
\* an answer too; or it fails and the subscription is cancelled.
GetHandler(q) ==
    /\ req[q].at = "get"
    /\ \/ /\ \E made \in BOOLEAN :
                req' = [req EXCEPT ![q].at = "replace", ![q].ok = made, ![q].body = value]
          /\ UNCHANGED subscriptions
       \/ /\ Goto(q, "answer")
          /\ subscriptions' = subscriptions \ {q}
    /\ UNCHANGED <<cache, peerVars, devVars, tdVars, createdSubscription,
                   deduplicationNotification, loopVars, ghosts>>

\* The body of the answer.
Body(q) == IF req[q].ok THEN req[q].body ELSE ErrorBody

\* Mutation: the subscription that is replaced is not cancelled.
ReplaceOnly(q) ==
    LET p == req[q].peer
        old == createdSubscription[p]
    IN
    /\ req[q].at = "replace"
    /\ deduplicationNotification' = [deduplicationNotification EXCEPT ![q] = Body(q)]
    /\ createdSubscription' = [createdSubscription EXCEPT ![p] = q]
    /\ subscriptions' = subscriptions
    /\ watched' = watched \union {q}
    /\ stolen' = [stolen EXCEPT ![p] = \/ old # None /\ req[old].conn > req[q].conn
                                       \/ @ /\ req[q].conn < conn[p]]
    /\ Goto(q, "answer")
    /\ UNCHANGED <<cache, peerVars, devVars, tdVars, loop, td, todo, visited, sent>>

\* What the answer holds is noted as sent; the subscription is stored for the
\* address, and the one that was is cancelled; the loop gets a handler for the
\* end of the connection.
Replace(q) ==
    LET p == req[q].peer
        old == createdSubscription[p]
    IN
    /\ req[q].at = "replace"
    /\ deduplicationNotification' = [deduplicationNotification EXCEPT ![q] = Body(q)]
    /\ createdSubscription' = [createdSubscription EXCEPT ![p] = q]
    /\ subscriptions' = subscriptions \ {old}
    /\ watched' = watched \union {q}
    /\ stolen' = [stolen EXCEPT ![p] = \/ old # None /\ req[old].conn > req[q].conn
                                       \/ @ /\ req[q].conn < conn[p]]
    /\ Goto(q, "answer")
    /\ UNCHANGED <<cache, peerVars, devVars, tdVars, loop, td, todo, visited, sent>>

\* A GET with observe 1.  (An error that getHandler answers with afterwards is
\* for the peer what a lost answer is.)
Cancel(q) ==
    /\ req[q].at = "remove"
    /\ RemoveSubscription(req[q].peer, req[q].conn, FALSE)
    /\ req' = [req EXCEPT ![q].at = "answer", ![q].ok = TRUE]
    /\ UNCHANGED <<cache, peerVars, devVars, tdVars, deduplicationNotification, loopVars, sent>>

\* WriteMessage is called for q with what was made of the description v.
Sent(q, v) == IF v = value /\ Live(q) THEN sent \union {q} ELSE sent

\* The answer is written.  It reaches the peer, or the write fails or it is lost,
\* and the peer gives up; a connection that is over cannot be written to.
Answer(q) ==
    LET p == req[q].peer
        r == req[q]
    IN
    /\ r.at = "answer"
    /\ req' = [req EXCEPT ![q] = Done(r)]
    /\ sent' = IF r.kind = "observe" THEN Sent(q, r.body) ELSE sent
    /\ \/ /\ dialog[p] = r.mid /\ Live(q)
          /\ dialog' = [dialog EXCEPT ![p] = None]
          /\ \/ UNCHANGED status
             \/ /\ r.ok
                /\ status' = [status EXCEPT ![p] =
                       IF r.kind = "cancel" THEN "cancelled"
                       ELSE IF closed \/ closer \in {"tell", "closed"} THEN "silent"
                       ELSE "observed"]
       \/ /\ ~(dialog[p] = r.mid /\ Live(q))
          /\ dialog' = [dialog EXCEPT ![p] = IF @ = r.mid THEN None ELSE @]
          /\ UNCHANGED status
    /\ UNCHANGED <<cache, conn, alive, devVars, tdVars, subVars, loopVars, stolen>>

------------------------------------------------------------------------------
(* The thing description manager and the event loop                         *)

\* NotifySubscriptions: the new description is stored, and then the loop is
\* woken unless it has been already.
NotifySubscriptions ==
    /\ closer = "open" /\ notifier = "idle" /\ value < MaxChanges /\ ~Busy
    /\ value' = value + 1
    /\ lastTD' = value'
    /\ notifier' = "send"
    /\ sent' = {}
    /\ UNCHANGED <<cache, peerVars, req, devVars, subChan, subVars, loopVars, stolen>>

NotifySend ==
    /\ notifier = "send"
    /\ notifier' = "idle"
    /\ subChan' = TRUE
    /\ UNCHANGED <<cache, peerVars, req, devVars, value, lastTD, subVars, loopVars, ghosts>>

\* subscriptionHandler: the description, if one is left, is given to every
\* subscription.
SubscriptionHandler ==
    /\ loop = "select" /\ subChan
    /\ subChan' = FALSE
    /\ td' = lastTD
    /\ IF lastTD = None
       THEN UNCHANGED <<loop, todo, visited>>
       ELSE loop' = "notify" /\ todo' = subscriptions /\ visited' = {}
    /\ UNCHANGED <<cache, peerVars, req, devVars, value, notifier, lastTD, subVars, watched,
                   ghosts>>

\* Range calls the handler of a subscription with a message, of the description
\* or an error response: the resource drops what it has sent already, and forgets
\* a peer it cannot write to, on a connection that is over or not.  A subscription
\* that is registered meanwhile may be called or not.
NotifySubscription(q) ==
    /\ loop = "notify" /\ q \in subscriptions \ visited
    /\ visited' = visited \union {q}
    /\ \E body \in {td, ErrorBody} :
          /\ deduplicationNotification' = [deduplicationNotification EXCEPT ![q] = body]
          /\ \/ /\ deduplicationNotification[q] = body \/ Live(q)
                /\ UNCHANGED <<subscriptions, createdSubscription, stolen>>
             \/ /\ deduplicationNotification[q] # body
                /\ RemoveSubscription(req[q].peer, req[q].conn, Live(q))
          /\ sent' = IF deduplicationNotification[q] = body /\ body = td THEN sent
                     ELSE Sent(q, td)
    /\ UNCHANGED <<cache, peerVars, req, devVars, tdVars, loop, td, todo, watched>>

\* No message can be made of the description, not even an error response.
NotifyError(q) ==
    /\ loop = "notify" /\ q \in subscriptions \ visited
    /\ visited' = visited \union {q}
    /\ ObserveError(q)
    /\ sent' = Sent(q, td)
    /\ UNCHANGED <<cache, conn, alive, dialog, req, devVars, tdVars, deduplicationNotification,
                   loop, td, todo, watched>>

\* Mutation: a description that came meanwhile is thrown away.
ClearLastTDAlways == None

\* lastTD.CompareAndSwap(td, nil)
ClearLastTD == IF lastTD = td THEN None ELSE lastTD

SubscriptionHandlerReturns ==
    /\ loop = "notify" /\ todo \intersect subscriptions \subseteq visited
    /\ lastTD' = ClearLastTD
    /\ loop' = "select" /\ td' = None /\ todo' = {} /\ visited' = {}
    /\ UNCHANGED <<cache, peerVars, req, devVars, value, notifier, subChan, subVars, watched,
                   ghosts>>

\* The handler for the end of a connection: the loop drops every handler of
\* the connection and calls one, which removes what is stored for the address.
ConnectionDone(q) ==
    /\ loop = "select" /\ q \in watched /\ ~Live(q)
    /\ watched' = {r \in watched : <<req[r].peer, req[r].conn>> # <<req[q].peer, req[q].conn>>}
    /\ RemoveSubscription(req[q].peer, req[q].conn, FALSE)
    /\ UNCHANGED <<cache, peerVars, req, devVars, tdVars, deduplicationNotification, loop, td,
                   todo, visited, sent>>

LoopStops ==
    /\ loop = "select" /\ closer = "closed"
    /\ loop' = "stopped"
    /\ UNCHANGED <<cache, peerVars, req, devVars, tdVars, subVars, td, todo, visited, watched,
                   ghosts>>

------------------------------------------------------------------------------

CloseStep == CloseManager \/ (\E q \in Reqs : Tell(q)) \/ CloseResources

RequestStep(q) ==
    \/ CreateSubscription(q) \/ GetHandler(q)
    \/ Replace(q) \/ Cancel(q) \/ Answer(q)

LoopStep ==
    \/ SubscriptionHandler \/ SubscriptionHandlerReturns \/ LoopStops
    \/ \E q \in Reqs : NotifySubscription(q) \/ NotifyError(q) \/ ConnectionDone(q)

Next ==
    \/ DeleteAndCloseDevice \/ Shutdown \/ CloseStep \/ CloseAndDeleteResource
    \/ \E p \in Peers : Disconnect(p)
    \/ \E p \in Peers, kind \in {"observe", "cancel"} : Send(p, kind)
    \/ \E q \in Reqs : Duplicate(q) \/ ServeCOAP(q) \/ RequestStep(q)
    \/ NotifySubscriptions \/ NotifySend
    \/ LoopStep

Spec == Init /\ [][Next]_vars

------------------------------------------------------------------------------
(* Properties                                                               *)

\* A peer that was answered that it observes is registered and stored, as long
\* as it sends nothing else and nothing is closed, unless something
\* that belongs to an earlier connection of the address came late, or a
\* notification could not be made or written.
AnsweredIsServed ==
    closer = "open" =>
        \A p \in Peers :
            status[p] = "observed" /\ dialog[p] = None /\ ~stolen[p] =>
                LET q == createdSubscription[p]
                IN q # None /\ q \in subscriptions /\ Live(q)

\* A subscription that is registered can be cancelled: it is stored for its
\* peer, unless the request that made it is still under way.
NoOrphan ==
    \A q \in subscriptions :
        \/ createdSubscription[req[q].peer] = q
        \/ req[q].at \in {"get", "replace"}

\* A peer that was answered that it does not observe any more is not
\* subscribed again by a late copy of its request.
CancelIsFinal ==
    \A p \in Peers :
        status[p] = "cancelled" /\ dialog[p] = None =>
            \A q \in subscriptions : req[q].peer = p => ~Live(q)

\* The subscription of a peer whose connection is over is going to be removed:
\* the loop has a handler for that.
GonePeerIsWatched ==
    \A q \in subscriptions :
        ~Live(q) /\ req[q].at = "done" /\ closer = "open" =>
            \E r \in watched : <<req[r].peer, req[r].conn>> = <<req[q].peer, req[q].conn>>

\* A peer that observes when the device is closed is told, unless its request
\* came too late, as the manager is closed before the resources are, or telling
\* it failed.
CloseIsTold ==
    closer = "closed" => \A p \in Peers : status[p] = "observed" => stolen[p]

\* When nothing is under way any more every observer was sent the description
\* that was published last, although the channel holds one wake-up only and the
\* manager clears what it has notified.  An observer may have been sent an error
\* instead: a Get, or a notification, that cannot put this very description into
\* a message is answered with one, and the observer stays registered.  What is
\* sent may not arrive.
LatestIsSent ==
    notifier = "idle" /\ ~subChan /\ loop = "select" /\ closer = "open" =>
        \A q \in subscriptions : Live(q) /\ req[q].at = "done" => q \in sent

\* Every variable has its type, and what a peer was told about its observation
\* is so: it is served, it is cancelled for good, or it ended with the device.
PeersInv == TypeOK /\ AnsweredIsServed /\ CancelIsFinal /\ CloseIsTold

\* Every subscription ends: its peer can cancel it, and the end of the peer's
\* connection removes it.
SubscriptionsInv == NoOrphan /\ GonePeerIsWatched
=============================================================================
