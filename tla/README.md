# Verification of plgd-dev/device

This directory holds TLA+ models of the Go repository `plgd-dev/device`: an OCF
(Open Connectivity Foundation) client library (`client/`, `client/core/`) and a
library that exposes non-OCF devices as OCF devices and registers them with a
cloud (`bridge/`), both over shared packages (`pkg/`) and data types
(`schema/`).

The modules are checked by TLC on small instances and, where the proof system
reaches, proved with TLAPS for every value of the constants.

## Running

    tlc -workers 2 -config MCEventLoop.cfg MCEventLoop
    tlapm EventLoopProofs.tla

`PROJECT.json` lists every run with its module and configuration, the source
lines of every definition, the hazards and the theorems.

## Inventory of the system

| component | state | operations | interacts with |
|---|---|---|---|
| event loop (`pkg/eventloop`) | atomic pointer to a slice of handlers, wake channel of capacity 1 | Add, Remove, RemoveByChannels, Wake, Run | called by every manager of a device, from any goroutine and from inside its own handlers |
| cloud manager (`bridge/device/cloud`) | configuration, credentials, connection, signedIn, resources to publish and unpublish, trigger channel | Post, Unregister, Reconnect, PublishResources, UnpublishResources, Close; on the loop: handleTrigger, handleTimer, done | event loop, CoAP connection, cloud, credential manager, device |
| bridged device (`bridge/device/device.go`) | map of resources, stopped flag, managers | New, Init, AddResources, CloseAndDeleteResource, HandleRequest, Close | all managers |
| credential manager (`bridge/device/credential`) | credentials by ID, CA pool | AddOrReplace, Remove, RemoveBySubjects, ImportConfig, Close | cloud manager (CAs), device (save) |
| thing description manager (`bridge/device/thingDescription`) | subscriptions, update channel, last description | RegisterSubscription, NotifySubscriptions, Close | event loop, resource observation |
| bridge resources (`bridge/resources`) | observation subscriptions by address | HandleRequest, observe, cancel, Close | event loop, CoAP connection |
| bridge network and service (`bridge/net`, `bridge/service`) | sockets, servers, message IDs, map of devices | New, Serve, ServeCOAP, CreateDevice, DeleteAndCloseDevice, Shutdown | devices |
| client device cache (`client/deviceCache.go`) | devices by ID, each with an expiration | GetDevice, UpdateOrStoreDevice(WithExpiration), LoadAndDelete, clean-up timer | client API |
| client observations (`client/observe*.go`) | shared observation handlers by resource, subscriptions by ID, online devices with their failures | ObserveResource, ObserveDevices, StopObserving, Close | core client |
| client ownership and onboarding | identity certificate | OwnDevice, DisownDevice, OnboardDevice, OffboardDevice | core client, device cache |
| core client (`client/core`) | connection pool of a device, its observations, sockets of a discovery | DialDevice, Own, Disown, Provision, ObserveResource, Discover, Close | CoAP client, OTM clients |
| links (`schema/link.go`, `client/patchResourceLinksEndpoints.go`) | endpoints of a device | PatchEndpoint, filters | discovery, connecting |
| CoAP client, codecs, security tools, logging, schemas | none or I/O | encoding, certificates, sockets | — |

What is hard in this code is concurrency without a test harness that could
produce it: goroutines that meet in mutex-protected structs whose fields are
read, unlocked and used later; callbacks of connections; channels of limited
capacity written with `select ... default`; retries that depend on a timer;
restarts from a saved configuration; and long protocols with a device that any
other client may interrupt. `PROJECT.json` lists each place under "hazards".

What makes each component correct:

* event loop: no edit of the handler list is lost, the loop never sleeps on a
  stale list, a removed handler does not keep running, every event of a
  registered handler is served;
* cloud manager: `signedIn` speaks about the current connection; publishing
  happens only inside a session; a change of cloud resets the old registration;
  the cloud's directory ends up equal to the device's resources; registration
  and unregistration eventually complete; the token is refreshed in time;
* credentials: none is overwritten by a concurrent addition, and one whose
  request was answered survives a crash;
* the local side of a bridge: a peer that was told that it observes is served
  and gets the last description; one that has cancelled or gone is forgotten;
  Shutdown returns, and leaves neither sockets nor devices open;
* connection pool of a device: one connection per endpoint however many
  goroutines ask for it; a failed attempt is forgotten; closing the device
  closes its connections;
* observations of the client: a subscriber is notified, in order, until it
  stops or is told of the end, once; the shared observation is cancelled when
  nobody uses it; devices are reported online and offline in turn;
* device cache: a device is found under its ID, of two objects for one device
  one is kept and the other closed, and a device found by IP stays;
* ownership: a transfer succeeds completely or is undone;
* discovery: a call returns in time, with nothing left behind, and with the
  ownership and the endpoints the devices really have;
* links: whatever a device sends, its resources stay reachable, over allowed
  transports only.

## Modules

| module | models | kind |
|---|---|---|
| `HandlerList` | what Add and RemoveByChannels promise | abstract specification |
| `EventLoop` | `pkg/eventloop/eventloop.go` | component, implements `HandlerList` |
| `CloudManager` | `bridge/device/cloud`, and Device.AddResources and CloseAndDeleteResource | component, composed with connection and cloud |
| `TokenExpiry` | the arithmetic of `isCredsExpiring` against the ticker | component |
| `Credentials` | `bridge/device/credential` with the saving of the device | component |
| `Bridge` | ServeCOAP, dispatch, observation of a resource, thing description manager, Device.Close | five components, composed |
| `BridgeService` | life of sockets and devices in `bridge/net` and `bridge/service` | two components, composed |
| `DeviceConn` | the connection pool in `client/core/device.go` with the close handlers of `pkg/net/coap/client.go` | component |
| `ObserveResource` | `client/observeResource.go` over `client/core/observeResource.go` | two components, composed |
| `OwnDevice` | Own, Disown, Provision, Onboard, Offboard against a device | component, composed with the device |
| `DeviceCache` | `client/deviceCache.go` and the calls that use it | component |
| `DevicePresence` | what ObserveDevices promises | abstract specification |
| `ObserveDevices` | `client/observeDevices.go` and the client's subscriptions | component, implements `DevicePresence` |
| `DevicesDetails` | GetDevicesDetails over `client/core/discover.go` | component |
| `ResourceLinks` | `schema/link.go` and the patching of links in the client | algorithm between three reads |
| `Slices` | the loops over slices that these two share: filter and sort | operators |
| `MC...` | instances for TLC | |
| `EventLoopProofs`, `CloudManagerProofs`, `DeviceConnProofs`, `OwnDeviceProofs`, `BridgeProofs`, `ObserveProofs` | the module of that name, `ObserveResource` for the last | proofs |
| `ComponentProofs` | `BridgeService`, `Credentials`, `TokenExpiry` | proofs |
| `DiscoveryProofs` | `ObserveDevices`, `DevicesDetails`, `DeviceCache`, `ResourceLinks`, `Slices` | proofs |

Definitions whose comment starts with "Mutation:" are plausible slips in the
definition that follows them. They are used by no specification; putting one in
the place of the original must make the property listed with it in
`PROJECT.json` fail, which shows that the property depends on that code.
An invariant whose name ends in `Inv` is the conjunction of the type invariant
and of the named parts that are about one thing; a run checks it as a whole.

### EventLoop

One action is one access to shared memory. `Call` enters Add or
RemoveByChannels with its arguments, `Load` reads the pointer
(`origHandlers`), `CompareAndSwap`/`CasFails` try to install the edited copy,
`ReturnFromCall` is the deferred `Wake`. `GetCases`, `SelectStop`,
`SelectWake`, `SelectValue`, `SelectClosed`, `HandleClosed` and
`HandlerReturns` are `Run`. A pointer to a slice is a pair of a version number
and a list: a slice is installed only over the one it was computed from, and Go
does not reuse memory that is still referenced, so pointer equality is equality
of versions. A handler is named by its channel, and a channel may be registered
several times, as every observe request does with its connection's Done
(`bridge/resources/resource.go:303`); the loop gives an event to any one of a
channel's handlers. Handlers may themselves call Add and
RemoveByChannels (`Call(Loop, r)`), as the managers' done handlers do.

### CloudManager

State: the fields of `Manager` (the ones under `private.mutex` first), the
position of the loop goroutine (`pc`, named after the Go function it is in),
the request it waits for (`call`), the connections with what the OnClose
callback and the cloud know about them (`conn`), the device's resources, the
cloud's resource directory (`rd`) and what was last saved. An action is one
critical section of the mutex or a run of code in which nobody else can see a
difference; the places where the loop goroutine blocks (dialling, `client.Do`)
and the gaps between reading configuration, client and credentials and using
them are interleaving points.

* The API: `Configure` (first half of Post and Unregister), `TriggerReset`
  (their second half), `Reconnect`, `Close`, `AddResource`/`PublishResources`
  and `DeleteResource`/`UnpublishResources` (the two halves of
  Device.AddResources and CloseAndDeleteResource).
* handleTrigger: `HandleTrigger`, then `SignOff*`, `ResetCredentials`,
  `CheckReconnect`, `CheckInitialized`, `CheckSignedIn`; handleTimer:
  `HandleTimer`; the done handler: `HandleDone`.
* connect and dial: `UseConnection`, `StartDial`, `Dial`, `DialLost`,
  `DialFails`, then the actions of refreshToken, signUp, signIn,
  publishResources and unpublishResources: a `...Skip` action for the early
  return, one that sends the request, a `...Done` for the good answer.
  `StepImpossible` is a function that finds no connection (or no authorization
  code), `StepRefused` an error or an unexpected code, `Finish` the end of a
  successful connect.
* External: `LoseConnection`, `CloudAccepts`, `CloudRefuses`, `CallFails` (a
  request may fail after the cloud carried it out), `Expire`; `OnClose` is the
  callback `dial` registers, run any time after the close. `Crash` stops the
  process between any two steps and runs New and Init on what was saved.

Abstractions: a cloud is one value for its URL, its id and its CA; credentials
are the cloud they belong to, whether there is a refresh token and whether they
are expiring; resources are those with the PublishToCloud policy. Each of
`resetCredentials` and `cleanup` is one action: the loop goroutine makes several
critical sections there, and a Post that falls between them differs from one
before or after only in which CAs are removed and which configuration is saved
last, until the reset that Post itself asked for runs. The application adds and
deletes one resource in one goroutine. `save` is taken to write exactly what
ExportConfig returns (the write itself is done by a callback of the
application).

### TokenExpiry

Time in whole units. The ticker fires every `TickInterval` into a channel of
capacity one and drops a tick that finds it full; `HandleTimer` and
`HandleTrigger` begin a connect whenever the loop is free, `OtherHandler` keeps
it busy for however long; `Refreshed` brings a token of any lifetime (-1: no
expiry), perhaps without a refresh token, `RefreshFails` ends the connect. The
duration arithmetic, truncating division included, is that of `isCredsExpiring`.
What the margin cannot help (`BeyondTheMargin`) is part of the property, not an
assumption. A reset, which discards the token, is in `CloudManager` only.

### DeviceConn

`pool` is the map from addresses to `conn` objects, `c`, `err` and `mutex` the
fields of a conn, `net` and `hook` a CoAP client's connection and the close
handler `connectToEndpoint` registers on it (with the address and the conn it
captures). A goroutine in `connectToEndpoints` goes through `LoadConn` or
`CreateConn` (loadORCreate), `Acquire` or `AcquireTimesOut`, `DialReuses`,
`DialRefuses` or `StartDial` and `DialSucceeds` or `DialFails` (conn.Dial),
`Register`, or `RemoveFailed` and the next endpoint. `RemoveConn` is
removeConn, one critical section, used by a failing caller and by
`RunCloseHandlers`. `PopConnections`, `CloseConn`, `Done`, `SocketClosed` and
`CloseReturns` are Device.Close after closeObservations. The context of a
connection ends (`Lose`, `CloseConn`) before its close handlers run, which is
before Done is closed. Conns and clients nothing refers to are allocated again
(`FreshConn`, `FreshClient`): the sets bound what exists at a time.

### ObserveResource

Observers of one resource (one key of `observeResourceCache`). A subscriber's
call of ObserveResource is `CreateHandler`, or `LoadHandler` and `LockHandler`
(the handler's mutex is taken under the lock of the cache), `ReadLastMessage`,
`StoreSubscriber`, and for the creator `Connect`, `Observe`,
`RegisterObservation`, `PublishDevice` or `ObserveFails`; `HandleFirstMessage`
is the goroutine of a joiner. `StopObservingResource` and `CancelObservation`
are the two halves of the call of that name. `run` says what holds the mutex of
the core's observationHandler: a message being given to the subscribers
(`Handle`, `HandleMessage`, `HandleDone`, `HandleFails`) or the end of the
observation (`OnClose`, `DeleteFromCache`, `StopLocked`, `NotifyEnd`, `Ended`),
started by the connection (`CollectHandlers`, `ConnectionClosed`), by
Device.Close (`ForgetObservation`, `CloseObservation`), by a message that
cannot be decoded or by one without the Observe option.

Abstractions: the value of the resource is the number of its changes, and an
observation that is notified gets the newest. A handler has its own
connection; handlers that share one would lose it together, which is one of
the behaviours here. The core's StopObservingResource (`CoreStop`) is one
action: its parts (forget, remove the close handler, disable, cancel) are
idempotent. Cancelling is taken to end the delivery of notifications also when
the request to the device fails: go-coap drops the handler first. The device
cache's expiration times are not part of this module; that it may have another
object for the device when the observation has been made is (`PublishDevice`).

### OwnDevice

`dev` is the security state of one device: its onboarding state (RFOTM, RFPRO,
RFNOP), owner, selected transfer method, resource owners, credentials, access
rules and cloud configuration. The device is external and modelled by which
requests the code counts on it to accept. `at` is the place of a goroutine in
Own, Disown, Onboard or Offboard. Own is `OwnGetOwnership`, `SelectOTM`,
`GetTLSClient`, the steps of ownershipTransfer (`CheckProvisionState` to
`SetResourceOwner`), those of configure (`SetRFPRO` to `SetRFNOP`),
`ActionAfterOwn` and `OwnReturns`, with `DisownAndLogError` as the roll-back of
configure. `Request` is what every step shares: the request is answered,
refused, carried out without an answer, or lost; the caller's context may be
over (`over`); a device whose transfer connection ends while it is in RFOTM
undoes the transfer itself (`AfterHangUp`). `lossy` and `abandoned` are history:
a request was lost, or the reset of a roll-back cut short by its caller's
context, since the last reset; and a step failed after which the code has nobody
left to lead the device on.

### DeviceCache

`cache` and `exp` are the elements of `devicesCache` with their ValidUntil,
reduced to never, fresh and expired; `idOf`, `foundByIP` and `open` are fields of
device objects, whose identities are reused when nothing refers to them. A call
is a record that moves through labels: GetDevice (`Load`, `Touch`, `Links`,
checkAndUpdateCacheByLinks as `CheckByLinks`, `Rekey`, `Rename`, `Store` and
`CloseRenamed`, `UnlessIP`, `DeleteDeviceNotFoundByIP`, then `Multicast`, `MulticastLinks`,
`Store`, `CloseNew`), by IP (`IPFind` to `IPLinks`), the handler of
GetDevicesDetails (`Handle...`), and what is done with a device: `Request`,
`ResetRequest` and `RemoveTemporaryDeviceFromCache`, `ObserveResource`,
`OwnDevice`, `Owned` and the moving of the entry when the ID has changed
(`MoveExp`, `Store`, `MoveDelete`). `CheckExpirations` is the clean-up.
`stored`, `stale` and `raced` are history for the properties. `stale` holds the
devices whose ID was changed without the cache following: Own has failed after
the change, a late answer has changed the ID back, a second Own of the same
device has changed it again while the first was still moving it (each Own deletes
only the entry of the ID it was called with, so that the entry of the ID in
between stays), or a GetDevice has renamed it while an Own had it in the cache
under two IDs.

### ObserveDevices, DevicePresence

`Observe` begins a round; `Discovered` and `Ping` are the answers to multicast
and to the pings of devices found by IP, in any order; `RoundOver` runs
processDevices; `Emit`, `Handle` and `Reported` report one device after the
other; `PollNext` decides whether to go on; `RemoveSubscription` is the end.
`InsertSubscription` of the caller comes after the goroutine has started, as in
the code. `StopObservingDevices` is `Cancel` and `Wait`; `Close` is
Client.Close, which does not wait. `DevicePresence` is the abstract
specification: `view`, the rounds `missed`, and the two kinds of event. A round
finds the devices that answer to multicast, and the pinged devices if anything
answers from their address.

### DevicesDetails

`GetDevicesDetails` starts a goroutine per device found by IP and goes into
`Discover`, which has a goroutine per multicast socket (`Build`, `Publish`,
`RunDone`, `SelectError`). A device that answers (`HandleResponse`) is read by a
goroutine too: `GetDetails`, `GetOwnership`, `GetDeviceDetails`, `AppendDevice`.
`MergeDevices`, which takes one entry after the other (`MergeDevice`,
`MergeEndpoints`), and `SetOwnership` make the result. Each read of the ownership
may fail or be refused, and the device, that anybody may own at first, may get
another owner in between. `PanicByIP` is the index out of range of GetDeviceByIP:
it ends the process, so nothing else happens then. Of the URIs of
endpoints only their order matters, so they are numbers; endpoints without a URI,
which mergeEndpoints drops, are left out.

### ResourceLinks

`PatchEndpoint`, `PatchResourceLinksEndpoints` and the filters are translated as
operators on sequences of endpoints; an endpoint is its scheme, the kind of its
host (an IP address, a link-local one with or without zone, a name) and its
priority. `HandleAnswer`, `ConnectToEndpoints` and `GetLinksDevice` apply them
in the order of the code; the endpoints may be replaced between any two.

### Slices

`Selected` is the loop that appends what a filter keeps to a new slice,
`SortedBy` a sort by a field, as an insertion of one element after the other
behind its equals. Both are recursive functions of the position, which TLC
evaluates and the provers can be led through. Go's `sort.Slice`, which
`Endpoints.Sort` uses, need not keep equal elements in their order when there are
more than twelve; no property depends on that order.

### Credentials

A request adds a credential (`AddOrReplaceCredential`, `Add`, `GetNextID`, a loop
of LoadOrStore as in the code) and is answered after saving (`Post`); the cloud
manager removes by subject in two steps; `CloseCredentials` and `ImportConfig`
are the end and the restart. History: `kept`, `answered`, `late`.

### BridgeService and Bridge

`BridgeService` has the life of sockets, servers and devices: New (`NewServers`,
`AppendMCastServers`), `Serve`, `CheckStopped`, `NetServe`, `ServeReturns`,
`Shutdown`, `NetClose`, `CloseUnserved`, `StopServers`, `TakeDevices`,
`CreateDevice`, `DeleteAndCloseDevice` and `CloseDevice`. The server of a socket
is the CoAP library's and external: it returns when it is stopped, when its
socket is closed, or with an error.

`Bridge` has one service that serves, one device with one observable resource.
A request is a record with a goroutine: `ServeCOAP` (deduplication, finding the
device and the resource), `CreateSubscription`, `GetHandler`, `Replace`,
`Cancel`, `Answer`. The loop runs `SubscriptionHandler`, `NotifySubscription` or
`NotifyError` for every subscription, `ClearLastTD`, and `ConnectionDone` for
connections that are over. `NotifySubscriptions` and `NotifySend` publish a
description. Device.Close is `CloseManager`, `Tell`, `CloseResources`, and the loop
stops. A peer is an address; its connections are numbered, so that what belongs to
an earlier one can come late (`stolen`). A peer may send a request while others of
it are under way, each with its goroutine; then it cannot tell from the answers
whether it observes, and the model does not let it believe anything (`dialog` and
`status`) before it has sent one when nothing was under way. An answer or a
notification may be an error response (`ErrorBody`), and a write may fail on a
connection that lasts.

## Runs

| run | what it shows |
|---|---|
| `eventloop` | two goroutines, the loop's handlers, two channels: `NoLostWakeUp`, `HandlerCallsInv`, `ImplementsHandlerList`, `EveryEventHandled` |
| `cloud_publish` | two clouds, two resources that come and go: `DirectoryMatchesDevice`, `UnregisteredIsClean`, `PublishOnlyInSession` |
| `cloud_register` | `RegistersWithCloud` with a restart, a reconnect, an expiring token and the credential manager's CA pool |
| `cloud_unregister` | two clouds, two changes of configuration, everything may keep failing: `SessionOnOwnConnection`, `StaleRegistrationIsReset`, `UnregisterCompletes` |
| `components` | four modules, each on its own: `TokenStaysValid`; `LinksInv`; `CredentialsInv`; `OneCloses`, `NothingLeftOpen`, `ShutdownReturns` |
| `deviceconn` | two endpoints, every fault, repeated Device.Close: `OneConnectionPerConn`, `FailedIsForgotten`, `CloseClosesPooled` |
| `observe` | two subscribers, a change of the resource, failing calls, every way an observation ends but with its connection: `SubscribersInv`, `DeliveredInOrder` |
| `observe_live` | failing calls, ending connections: `ObservationInv`, `EndIsTold`, `CallsReturn` |
| `own` | two clients, three goroutines, every fault: `OwnershipInv`, `NoHalfOwnedDevice`, `OwnSucceedsForOwner` |
| `cache` | two goroutines, three objects for two devices, two changes of ID, evictions, Close: `CacheInv`, `FoundByIPIsPermanent` |
| `discovery` | two modules, each on its own: `EndedInv`, `PresenceKept` (the refinement of `DevicePresence`), `GoneIsReported`, `StopReturns`; `NothingIsLeft`, `DetailsReturn`, `ResultIsTrue` |
| `bridge` | an address with two connections, three requests, copies or descriptions in any mixture, failing writes: `PeersInv`, `SubscriptionsInv`, `LatestIsSent` |

All runs hold. `MCComponents` and `MCDiscovery` put modules that do not interact
into one run: each of them moves only while the others are in their initial
state, so that their state spaces are added and not multiplied.

`DirectoryMatchesDevice` is checked without failing requests and without
reconnects: a request that fails is not repeated by the code (what was popped is
gone), and for reconnects see the next section. `EndIsTold` speaks of the handler in the cache: one outside it has lost
its observation.

### Where the code does less than one might expect

The models contain these behaviours; the properties are stated so that they name
them as exceptions, most of them by a history variable.

* A resource added while the device is signed out for a reconnect is never
  published: `handleTrigger` empties the ready set ("resources will be published
  after sign in", `bridge/device/cloud/manager.go:213`), but
  `resourcesPublished` is still true. Hence no reconnects in `cloud_publish`.
* A reset that meets a full trigger channel is dropped for good
  (`manager.go:284`, `lostReset`).
* A second Post for the cloud that is already configured makes that cloud its own
  predecessor (`manager.go:336`); the reset then removes the CA that the Post has
  just installed (`manager.go:271` and `:329`), and with the credential manager's
  pool every later dial is refused until another cloud is configured.
  `RegistersWithCloud` names the case (`Trusted`).
* That the certificate is of another cloud than the configured one is found and
  ignored: `NewVerifyPeerCertificate` returns the error of an earlier call, which
  is nil (`pkg/net/coap/client.go:434`). `Dialled` succeeds so.
* A device that is unregistered while it signs up, and whose sign-in then fails,
  keeps the status `registering`: signing off without a connection returns before
  it touches the status (`bridge/device/cloud/signOff.go`). Hence no failing
  requests for `UnregisteredIsClean`.
* A closed channel is removed with all its handlers and one of them is called
  (`pkg/eventloop/eventloop.go:148`): of several resources a peer observes over one
  connection, only one learns that it is over. `EveryEventHandled` says that the
  loop takes the event and gives it to a handler, not to each of them.
* The test for the last third of a token's lifetime (`manager.go:392`) never
  decides, which `ThirdTestIsDead` proves.
* `removeConn` can take an open connection out of the pool, and Device.Close
  ("closes open connections to the device", `client/core/device.go:188`) leaves
  it open: after a caller whose context ended while another's dial succeeded
  (`:320`), or from the close handler of a client that has been replaced.
  `CloseClosesPooled` speaks of the connections in the pool.
* Device.Close may wait for a connection dialled after it closed the old one
  (`client/core/device.go:200`).
* A subscriber that joins an observation while the last one stops, or one whose
  creator has failed, succeeds and observes nothing
  (`client/observeResource.go:270`); hence `CreatorIsObserved`.
* `closeObservingResource` deletes by key: an observation whose end is handled
  late takes a newer handler out of the cache
  (`client/observeResource.go:289`). StopObservingResource then finds nothing, and
  the device goes on notifying subscribers that have stopped (`evicted` in
  `NoLeakedObservation`).
* When the device cache has another object for the device by the time an
  observation is made, the handler gets that one (`client/observeResource.go:243`),
  and stopping, which asks it, does nothing (`device[h] = "other"`).
* An observation of devices that ends before ObserveDevices has inserted it
  stays in the subscriptions (`client/observeDevices.go:330`, `early`).
* A ping counts for the device that was expected at the address, whoever answers
  (`client/observeDevices.go:220`): a device that is gone can be reported online,
  and is kept online for one more round, when another one has its address.
  `PresenceKept` therefore speaks of rounds that have found a device.
* PatchEndpoint keeps every endpoint with an address, whatever its scheme
  (`schema/link.go:280`), and Device.dial refuses a scheme it does not know
  (`client/core/device.go:280`): a device that sends only such endpoints for a
  resource leaves it unreachable, although it has others (`Foreign` in
  `EveryLinkReachable`).
* GetDeviceByIP takes the first element of a list that is empty when the links of
  the device at the address cannot be read (`client/getDevice.go:216`): it panics,
  in GetDevicesDetails in a goroutine of its own, and `DetailsReturn` names it.
  `DeviceCache` models GetDevicesByIP, which returns the empty list.
* Two errors of a discovery are sent without regard to the context
  (`client/core/discover.go:211` and `:215`): Discover hangs if it no longer
  receives (named in `DetailsReturn`).
* A roll-back of an ownership transfer may fail itself and is then only logged:
  its reset may be lost, and it uses the caller's context as long as that has a
  second left (`client/core/ownDevice.go:308`), so that a cancellation during the
  roll-back leaves the device half owned. Onboard's Close uses the caller's
  context too (`lossy`, `abandoned`). Disown
  takes any closed connection for success (`client/core/disownDevice.go:31`).
* A device may get an expiration that was decided on before it was found by IP
  (`client/deviceCache.go:170`, `raced`); an Own that fails after it has changed
  the device's ID leaves the entry under the old one (`stale`).
* A GetDevice that has read the links of a device when an Own changes its ID takes
  the device out of the cache, gives it the old ID back and stores it again, with
  an expiration also if it was found by IP, and fails
  (`client/getDevice.go:158`, `raced`).
* A device that leaves the cache is not always closed: LoadOrStore replaces an
  expired one, deleteDeviceNotFoundByIP and updateCache delete whatever is under
  the ID, and a call may connect a device that was deleted meanwhile.
  `LoserIsClosed` speaks of the devices that never got into the cache.
* The end of an old connection removes the subscription that the same address
  has made over a new one (`bridge/resources/resource.go:303`, `stolen`).
* A notification that cannot be written, or of which no message can be made, ends
  the observation also on a connection that lasts (`bridge/resources/resource.go:277`,
  `stolen`): the peer goes on believing that it observes.
* A thing description that cannot be put into a message is answered with an error
  response and no error (`bridge/resources/thingDescription/resource.go:57`), so
  that the peer that got the error is registered and notified from then on; `sent`
  counts such an error as what there was to send.
* Only the first of two concurrent Shutdowns waits for the devices; a device
  created after LoadAndDeleteAll stays open; a server that is stopped before it
  begins leaves its socket open (`bridge/service/service.go:166`, `left`).
* A thing description published during Manager.Close would be sent on a closed
  channel (`bridge/device/thingDescription/manager.go:67`); the model assumes
  that the application does not.

### Bounds

`MaxCalls = 2` in `eventloop` lets an Add and a Remove overlap so that a
compare-and-swap fails (the proofs cover any number of calls); one value per
channel is enough for a handler to run late and once more. Two connections let
the callback of the old one run after the new one is in use; identities are
reused once nothing refers to them, so the number of reconnections is not
bounded by `Conns`. Two clouds and two configuration requests give
register–move and register–unregister; the trigger channel has capacity 2
instead of 10, so that it fills up within the other bounds.
`UnpublishBatch = 1` instead of 10 makes unpublishing take several requests.
`Lifetimes` has one below the margin of two intervals, that margin, a longer one
and the one that never ends.

Two goroutines on a conn give every pair of a dialling and a waiting caller;
three conns are one per goroutine and one in the pool (or in Device.Close), two
clients an ended and a new one. Two subscribers make creator and joiner, or an
old and a new handler. `MaxNotify` is the number of changes of the resource
after the first message.

In `own` two goroutines of one client and one of another give a transfer that
its own client and a stranger disturb; the number of calls is not bounded. In
`cache`, three calls of two goroutines are enough for a call to find an entry
that a second one replaces and a third moves; three objects are the one in the
cache and one per goroutine. In `discovery` the threshold is the default, 3; two
multicast sockets let one fail while the other runs, and one device that is also
known by IP has the two entries that are merged. The links are all with one to
two entries, six lists of endpoints and four policies. Three credentials of two
subjects with three IDs let two additions race for an ID while a removal
is under way. One unicast and one multicast socket, three goroutines and two
objects under one ID let Serve, Shutdown and a deletion overlap. In `bridge`
three requests are an observation, its copy or a second one, and a cancellation;
two requests with one publication, or one with two, are the other mixtures that
`MaxEvents = 3` leaves, with up to two connections each, and `MaxUnderWay = 2`
lets two requests of the peer overlap (the proofs have none of these bounds).
In `DevicesDetails` anybody may own a device at first, and `OwnerChanges = 1` gives
it one other owner during the call.

CHECK_DEADLOCK is off where the system may really have nothing to do: a loop
without events, an unregistered device nobody calls, subscribers that have all
stopped, a call that has returned (and, in `DeviceConn`, because all objects of
a bounded memory may be in use).

### Fairness

`EventLoop`: goroutines are scheduled and handlers return (weak fairness);
`reflect.Select` chooses uniformly among the ready cases, so a case that is
ready infinitely often is taken (strong fairness).
`CloudManager`: the loop goroutine makes progress (its requests have timeouts),
the ticker and the trigger channel are cases of that select (strong fairness of
`HandleTrigger` and `HandleTimer`), the cloud answers or the request fails,
callbacks and started API calls finish. No fairness is assumed of `Dial`
succeeding against `DialFails`, of the cloud's consent or of the API being
called; `RegistersWithCloud` is checked in an instance whose faults are only
those after which the device can still register.
`ObserveResource`: calls and handlers make progress, connecting and observing
end since they have a context (weak fairness), ended connections run their
close handlers, and Go's mutexes hand over to a waiter that has starved (strong
fairness of `LockHandler` and `StopLocked`).
`ObserveDevices`: the goroutine runs, a round ends with its poll context, the
caller's handler returns, a call that was made goes on (weak fairness). Nothing
is assumed of devices answering.
`DevicesDetails`: goroutines run, requests end with their context, whose
deadline comes (weak fairness); Discover refuses a context without one.
`BridgeService`: goroutines of calls and of servers run (weak fairness); a
server is not assumed to fail, and nobody is assumed to call Shutdown.
`DeviceConn`, `OwnDevice`, `DeviceCache`, `ResourceLinks`, `Credentials` and
`Bridge` are checked for safety only.
Nothing is assumed of connections ending, of calls succeeding or of subscribers
stopping.

## Proofs

Eight modules hold the theorems. Each safety theorem has the form
`Spec => []Inv`; `Inv` is seldom inductive, so it is proved from a conjunction of
named parts that was checked with TLC on the instance of its run before it was
proved. Nothing is assumed but the named assumptions of the modules
(`LoopNotCaller`, `NullsAssumption`, `CapsAssumption`, `ProcsAssumption`, ...),
which say that null values are not elements, that arguments, bounds and what
devices send (`ResponsesAssumption`, `EpListsAssumption`) have their types, that the goroutine of the loop is not a caller, that the failure
threshold is the positive byte the code takes, and that a lifetime is a natural
number or -1. The bounds of the models (`MaxCalls`,
`MaxNotify`, ...) stay parameters.

`EventLoopProofs`, for any goroutines, channels and arguments
* `NoLostWakeUpHolds`: `Spec => []NoLostWakeUp`. The invariant is strengthened
  by the bookkeeping of the calls (who is between its compare-and-swap and its
  wake, and that the loop's own removal of a closed channel, which never wakes,
  happens outside the select).
* `RefinesHandlerList`: `Spec => HL!Spec`, under the mapping that takes a call
  to "applied" at its successful compare-and-swap. It rests on the fact that a
  snapshot with the current version has the current contents.
* `RemoveKeepsOthersInOrder`: what removeByChannels does to any list: the
  handlers of the other channels stay, in their order and with their
  multiplicity (the positions kept are enumerated by `Kept`).
* `HandlerCallsHold`: `Spec => []HandlerCallsInv`: types, and a removed handler
  runs at most once more. `CallsInv` adds that the cases the loop selects from
  are those of an older list, that a handler called late is gone from the list,
  and that a channel is removed once.

`CloudManagerProofs`, for any clouds, connections, resources and faults
* `TypeCorrect`: `Spec => []TypeOK`.
* `SessionOnOwnConnectionHolds`: `Spec => []SessionOnOwnConnection`. That a
  sign-in answer is only applied to the connection it came from needs that the
  pending call belongs to the step the loop is in, that its connection is the
  client or the client is gone, and that an accepted sign-in has marked its
  connection (`ControlInv`).
* `PublishOnlyInSessionHolds`: `Spec => []PublishOnlyInSession`, from `ControlInv`
  and `PubInv`: the loop is in publish or unpublish only when it is signed in or
  has lost its client on the way.
* `StaleRegistrationIsResetHolds`: `Spec => [](crashes = 0 =>
  StaleRegistrationIsReset)`, for every capacity of the trigger channel. `StaleInv`
  follows the reset through the channel into the loop. Only until the first
  restart: a Post between the dial and the answer to the sign-up saves the new
  cloud together with the credentials of the old one, and a process that crashes
  then comes back with the pair and with no reset under way.
* `UnregisteredKeepsNothing`: the same for a manager without a cloud: when
  nothing is left to do, neither credentials nor a client remain. This is the part
  of `UnregisteredIsClean` that holds whatever fails.
* `DirectoryMatchesDeviceHolds`: `NothingFails => (Spec =>
  []DirectoryMatchesDevice)`. `NothingFails` rules out lost connections, requests
  that time out or are refused, reconnects and restarts; tokens may expire,
  dialling may fail and the device may be closed. It is a hypothesis because the
  code does not repeat a publish or unpublish request that failed. The invariant
  `DirectoryInv` accounts for every resource: one the device has is in the
  directory, in the request on the way, ready to be published, about to be made
  ready, or the loop is going to publish all (`MissingInv`); one in the directory
  that the device no longer has is on its way out (`ExtraInv`); and the loop
  sleeps with an empty trigger channel only when nothing is ready (`AwakeInv`).
  That the ready sets may be thrown away in between needs that a reset is then on
  its way, which is `StaleInv`; that other clouds list nothing needs that signing
  off precedes every loss of the client (`RegisteredInv`).
* `UnregisteredIsCleanHolds`: `NothingFails => (Spec => []UnregisteredIsClean)`.
  `StatusInv` says that the status of a device without a cloud differs from
  uninitialized only while there is a client to sign off. The hypothesis is
  needed for the status: sign-off without a connection leaves it alone, so a
  registration that fails after Unregister would leave `registering`.

`ComponentProofs`, three parts that nothing else interferes with
* `OneClosesHolds` and `NothingLeftOpenHolds`: `SvcSpec => []OneCloses` and
  `SvcSpec => []NothingLeftOpen`. An open device is in the service under one ID or
  with one goroutine (`HoldInv`), at most one Shutdown is past its first step
  (`OneShutter`), and what it has not yet closed is what it is going to close
  (`ServersInv`, `SocketsInv`, `BeforeInv`).
* `CredentialsKept`: `CredSpec => []CredentialsInv`.
* `TokenStaysValidHolds`: `Spec => []TokenStaysValid`, for any delays and
  failures. The strengthening `ValidAtNextTick` says that the tick that waits, or
  else the next one, is taken while the token is valid, or the token is beyond
  the margin (shorter than it, not refreshable, its refresh failed, a tick of its
  time dropped).
* `ThirdTestIsDead`: the second test of `isCredsExpiring` never decides, for
  every interval and time.

`DeviceConnProofs`, for any sets of goroutines, endpoints, conns and clients
* `TypeCorrect`: `Spec => []TypeOK`.
* `FailedIsForgottenHolds`: `Spec => []FailedIsForgotten`. removeConn gives up
  when somebody holds the semaphore; that this somebody will call it again
  needs that only callers in their critical section hold a semaphore
  (`MutexInv`), that a conn is in the pool under the address its callers use
  (`AddressInv`), and that a caller about to dial has found no error
  (`ErrorInv`).
* `OneConnectionPerConnHolds`: `Spec => []OneConnectionPerConn`. Needs that an
  open client with a close handler is the one its conn holds (`ClientInv`),
  which in turn needs the above.
* `CloseClosesPooledHolds`: `Spec => CloseClosesPooled`, from `DueInv`: a
  connection Close found in the pool is closed, or the conn that holds it is
  still to be closed. A conn taken out of the pool is dialled again only when its
  client is dead.

`DiscoveryProofs`, for any devices, sockets, addresses and failure threshold
* `EndedInvHolds`: `Spec => []EndedInv`. Who has closed the handler and who has
  taken the subscription out of the client (`CallerInv`, `ClosedInv`), and that
  the only subscription left behind is one inserted after the end (`EarlyInv`).
* `PresenceIsKept`: ObserveDevices implements `DevicePresence`. Between two
  rounds the counts of failures are the rounds missed (`BetweenRounds`); within
  a round every report the goroutine has still to make is due, exactly once
  (`AfterRound`, `ReportsAreDue`, `RestIsReported`).
* `NothingIsLeftHolds`: `DetailsSpec => []NothingIsLeft`: no socket outlives the
  loop that reads it, and no loop outlives the call.
* `CacheInvHolds`, `FoundByIPIsPermanentHolds`: `CacheSpec => []CacheInv` and
  `CacheSpec => []FoundByIPIsPermanent`, for any goroutines, IDs, device objects
  and changes of IDs. What a call has depends on where it is (`Fields`). What is
  in the cache or was got from it has been stored, and a device that has not
  been is in the hands of one call, which closes it if it has opened it
  (`ObjectsInv`). A device under an ID that is not its own has a call that moves
  it away from this very ID (`KeysInv`; that some call moves it, as
  `KeyIsDeviceID` says, is not inductive). A call that only reads the cache,
  deletes from it or opens what it got from it keeps all of these at once
  (`Tame`); the proof looks closer at the steps that find, store, touch and move
  devices.
* `ResultIsTrueHolds`: `DetailsSpec => ResultIsTrue`, for any lists of endpoints.
  `DetailsTrue` says that every ownership on its way into the result, in the map
  that getDetails fills, with a goroutine and in the entries, is one the device
  had since the call began, and that a goroutine has read one only by IP and just
  before it appends its entry. What the entries become is `MergedMap`, kept by
  every entry that joins.
* `LinksInvHolds`: `LinksSpec => []LinksInv`, for every set of answers, of any
  length. `KnownAddressed` adds that the address of the connection can be dialled
  and is one of the device's endpoints unless they were replaced: this is why a
  secured connection leaves a secured endpoint, and why no link is left without
  one. The rest is about a single read: a filter keeps every element it should, in
  order, and nothing else (`SelectedPicks`), so the link of a device before and
  after patching is at the same position (`OwnLinksPatched`).
* `SortsStably`, `MergeEndpointsMerges`: what the sorts return, and that
  mergeEndpoints, which drops an endpoint only behind one with its URI, still
  returns none twice, since equal endpoints are neighbours after the two sorts.
  It may return a URI twice, with two priorities.

`OwnDeviceProofs`, for any clients, goroutines, transfer methods and losses
* `OwnershipInvHolds`, `NoHalfOwnedDeviceHolds`, `OwnSucceedsForOwnerHolds`. The
  argument follows the one ownership transfer connection: whoever holds it is at
  a step that tells how far the device is (`HolderStage`), nobody else takes a
  device out of RFOTM, and every way of losing the connection resets a device in
  RFOTM or is a loss the properties name.

`BridgeProofs`, for any peers, requests, copies of messages and descriptions
* `SubscriptionsInvHolds`, `PeersInvHolds`, `LatestIsSentHolds`. Of a peer that
  waits for an answer, or was told something, no other request is being handled, by
  the cache of message IDs (`RequestsInv`; requests that overlap leave the peer
  waiting for none); what is registered is stored and watched or about to be
  (`StoreInv`); what a peer was told is so (`ToldInv`); and whoever has not been
  sent the current description, or the error made of it, is going to be
  (`DeliveryInv`). A connection that is over stays over, so that the
  removal for it can hit only a subscription of a later connection, which is, with
  a notification that fails, the case the properties name.

`ObserveProofs`, for any subscribers and changes
* `SubscribersInvHolds`: `Spec => []SubscribersInv`, for all faults. A handler that
  has lost its observation or its close handler is on the way to telling its
  creator (`DyingInv`), which needs who holds the mutex of a handler (`MyInv`),
  who is in it (`MemberInv`), and that a handler that is not observed yet has
  nothing to end (`EarlyInv`).
* `DeliveredInOrderHolds`: `Spec => DeliveredInOrder`, for all faults, from
  `OrderInv`: the message a subscriber begins with is no newer than what the
  handler is giving out.
* `ObservationInvHolds`: `Spec => []ObservationInv`, for all faults. The handler in
  the cache has a subscriber that has not stopped, and one that has left the cache
  is being cancelled (`LeakInv`) unless it is one of the two exceptions; for the
  moment at which the device begins to notify, a handler that is being created is
  in the cache (`CreatedInv`).

The type invariants of `CloudManager` and `DeviceConn` are proved and not checked
again by TLC. Facts about all positions of a list are proved by induction over
sets of numbers, with the well-foundedness of the natural numbers as it stands in
the library.

Only model-checked: the liveness properties (`EveryEventHandled`,
`RegistersWithCloud`, `UnregisterCompletes`, `ShutdownReturns`, `EndIsTold`,
`CallsReturn`, `GoneIsReported`, `StopReturns`, `DetailsReturn`), since fairness
is out of the prover's reach. Every invariant and every action property of the
runs is proved, three of them under the hypotheses named above.

## Plan

1. an abstract specification of an observation (each subscriber gets changes in
   order until it stops or is told of the end) that `ObserveResource`
   implements for creators;
2. liveness of `DeviceConn` (connectToEndpoints returns) and of `Bridge`.

## Not modelled

Encodings (`pkg/codec`), certificates and TLS (`pkg/security`, the handshakes of
`client/core/otm`), logging, most data types (`schema/`), the options of the
clients (`client/options.go`, data) and the example programs (`cmd/`): libraries,
I/O or data without control. Requests the cloud sends to the device
(`serveCOAP`) are handled by the device's resources and change nothing in the
cloud manager. `observeDeviceResources` decodes the notifications of one resource
and adds no state; GetOwnerships is the discovery of `DevicesDetails` for another
resource. The resources of a bridged device other than the thing description are
adapters between requests and the managers.
