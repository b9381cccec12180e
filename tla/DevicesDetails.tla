--------------------------- MODULE DevicesDetails ---------------------------
(* GetDevicesDetails (client/getDevices.go) and the discovery by multicast  *)
(* below it (client/core/getDevices.go, discover.go, discoverDevices.go): a *)
(* socket and a goroutine per multicast address, a goroutine per device     *)
(* that was found by IP, a call of the handler per device that answers, and *)
(* their results merged into one map.  What they do to the cache of devices *)
(* is in DeviceCache, what they do to the links in ResourceLinks.           *)
EXTENDS Slices, FiniteSets

CONSTANTS
    Conns,   \* multicast addresses
    Devs,    \* devices of the network
    Secured, \* those with a secured endpoint
    ByIP,    \* those that the cache may have found by IP
    EpLists, \* endpoints a device may be seen with
    OwnerChanges, \* bound: other owners of a device in a call
    NoDoxm

\* Endpoints; of the URIs only the order matters, "" is left out.
Ep == [uri : Nat, pri : Nat]

ASSUME EpListsAssumption == EpLists \subseteq Seq(Ep)

Tasks == Devs \X {"multicast", "ip"}

Owners == {"nil", "me", "other"}

VARIABLES
    dpc,     \* where GetDevicesDetails is, or that the process has panicked
    expired, \* the deadline of the context is over
    left,    \* Discover has returned: its context is cancelled
    err,     \* the error of GetDevicesByMulticast
    conn,    \* the socket of a DiscoveryClient
    run,     \* the goroutine of runDiscovery
    seen,    \* filterDiscoveredDevices
    reader,    \* the goroutines that read devices
    draft,   \* what they have read
    owner,   \* who owns a device
    resOwnerships, res, \* of GetDevicesDetails
    result,  \* the map it returned
    \* history
    had      \* owners of a device since the call began

discVars == <<expired, left, err, conn, run, seen>>
readVars == <<reader, draft, resOwnerships, res>>
detailsVars == <<dpc, discVars, readVars, owner, result, had>>

Blank == [own |-> NoDoxm, status |-> "unknown"]

DetailsInit ==
    /\ dpc = "idle" /\ expired = FALSE /\ left = FALSE /\ err = FALSE
    /\ conn = [c \in Conns |-> "none"]
    /\ run = [c \in Conns |-> "none"]
    /\ seen = {}
    /\ reader = [t \in Tasks |-> "none"]
    /\ draft = [t \in Tasks |-> Blank]
    /\ owner \in [Devs -> Owners]
    /\ resOwnerships = [d \in Devs |-> NoDoxm] /\ res = <<>>
    /\ result = <<>>
    /\ had = [d \in Devs |-> {owner[d]}]

------------------------------------------------------------------------------
(* The environment                                                          *)

\* The deadline of the caller's context.
Deadline ==
    /\ dpc \notin {"idle", "panicked"} /\ ~expired
    /\ expired' = TRUE
    /\ UNCHANGED <<dpc, left, err, conn, run, seen, readVars, owner, result, had>>

\* A device is owned, or disowned, meanwhile.
ChangeOwner(d, o) ==
    /\ dpc \notin {"idle", "returned", "panicked"} /\ d \in Secured /\ owner[d] # o
    /\ Cardinality(had[d]) <= OwnerChanges
    /\ owner' = [owner EXCEPT ![d] = o]
    /\ had' = [had EXCEPT ![d] = @ \union {o}]
    /\ UNCHANGED <<dpc, discVars, readVars, result>>

------------------------------------------------------------------------------
(* The discovery                                                            *)

\* A goroutine per device found by IP is started first.
GetDevicesDetails ==
    /\ dpc = "idle"
    /\ dpc' = "dial"
    /\ \E ips \in SUBSET ByIP :
          reader' = [t \in Tasks |-> IF t[2] = "ip" /\ t[1] \in ips THEN "links" ELSE "none"]
    /\ UNCHANGED <<discVars, draft, resOwnerships, res, owner, result, had>>

\* Addresses that cannot be used are skipped; a context without deadline is an
\* error, that GetDevicesDetails returns while devices are still read by IP.
DialDiscoveryAddresses ==
    /\ dpc = "dial"
    /\ \/ /\ \E used \in SUBSET Conns :
                conn' = [c \in Conns |-> IF c \in used THEN "open" ELSE "none"]
          /\ dpc' = "discover" /\ UNCHANGED err
       \/ dpc' = "returned" /\ err' = TRUE /\ UNCHANGED conn
    /\ UNCHANGED <<expired, left, run, seen, readVars, owner, result, had>>

Discover ==
    /\ dpc = "discover"
    /\ dpc' = "select"
    /\ run' = [c \in Conns |-> IF conn[c] = "open" THEN "build" ELSE "none"]
    /\ UNCHANGED <<expired, left, err, conn, seen, readVars, owner, result, had>>

Runs(c, l) ==
    /\ run' = [run EXCEPT ![c] = l]
    /\ UNCHANGED <<dpc, expired, left, err, conn, seen, readVars, owner, result, had>>

\* A request that cannot be built is sent to Discover, whether it waits or not,
Build(c) ==
    /\ run[c] = "build"
    /\ Runs(c, "publish") \/ Runs(c, "unbuilt")

\* and one that cannot be published unless Discover has returned.
Publish(c) ==
    /\ run[c] = "publish"
    /\ Runs(c, "published") \/ Runs(c, "unpublished")

\* Mutation: as for a request that cannot be built.
RunDonePublished(c) ==
    /\ run[c] = "published" /\ (expired \/ left)
    /\ Runs(c, "done")

RunDone(c) ==
    /\ run[c] \in {"published", "unpublished"} /\ (expired \/ left)
    /\ Runs(c, IF run[c] = "published" THEN "done" ELSE "failed")

\* Discover takes the first error,
SelectError(c) ==
    /\ dpc = "select" /\ run[c] \in {"unbuilt", "unpublished"}
    /\ run' = [run EXCEPT ![c] = "failed"]
    /\ dpc' = "wait" /\ err' = TRUE /\ left' = TRUE
    /\ UNCHANGED <<expired, conn, seen, readVars, owner, result, had>>

\* or has collected answers until the deadline.
SelectDone ==
    /\ dpc = "select" /\ expired
    /\ dpc' = "wait" /\ left' = TRUE
    /\ UNCHANGED <<expired, err, conn, run, seen, readVars, owner, result, had>>

\* Mutation: Discover does not wait for its goroutines.
WaitDiscoveryNot ==
    /\ dpc = "wait"
    /\ dpc' = "close"
    /\ UNCHANGED <<discVars, readVars, owner, result, had>>

WaitDiscovery ==
    /\ dpc = "wait" /\ \A c \in Conns : run[c] \in {"none", "done", "failed"}
    /\ dpc' = "close"
    /\ UNCHANGED <<discVars, readVars, owner, result, had>>

\* The deferred Close of every DiscoveryClient.
CloseConns ==
    /\ dpc = "close"
    /\ conn' = [c \in Conns |-> IF conn[c] = "open" THEN "closed" ELSE conn[c]]
    /\ dpc' = IF err THEN "returned" ELSE "waitIP"
    /\ UNCHANGED <<expired, left, err, run, seen, readVars, owner, result, had>>

------------------------------------------------------------------------------
(* Reading the devices                                                      *)

\* A device answers; its later answers, also to other sockets, are dropped.
HandleResponse(c, d) ==
    /\ dpc # "panicked"
    /\ conn[c] = "open" /\ run[c] \in {"published", "done"} /\ d \notin seen
    /\ seen' = seen \union {d}
    /\ reader' = [reader EXCEPT ![<<d, "multicast">>] = "links"]
    /\ UNCHANGED <<dpc, expired, left, err, conn, run, draft, resOwnerships, res, owner, result, had>>

Goto(t, l) == reader' = [reader EXCEPT ![t] = l]

\* getLinksDevice or GetDeviceByIP, the filter by type, and the details; each of
\* them ends the goroutine when it fails with an error.
GetDetails(t) ==
    /\ reader[t] = "links"
    /\ Goto(t, "done") \/ Goto(t, IF t[1] \in Secured THEN "doxm" ELSE "details")
    /\ UNCHANGED <<dpc, discVars, draft, resOwnerships, res, owner, result, had>>

\* GetDeviceByIP takes the first of the devices at the address whose links could
\* be read: without one it panics, and with it the process.
PanicByIP(t) ==
    /\ reader[t] = "links" /\ t[2] = "ip"
    /\ dpc' = "panicked"
    /\ UNCHANGED <<discVars, readVars, owner, result, had>>

\* GetOwnership: the owner, a refusal when it is another one, or an error.
Reads(d) == {owner[d], NoDoxm} \union IF owner[d] = "other" THEN {"refused"} ELSE {}

Got(d, o) == [resOwnerships EXCEPT ![d] = IF o = NoDoxm THEN @ ELSE o]

\* The getDetails of GetDevicesDetails.
GetOwnership(t) ==
    /\ reader[t] = "doxm"
    /\ \E o \in Reads(t[1]) : resOwnerships' = Got(t[1], o)
    /\ Goto(t, "details")
    /\ UNCHANGED <<dpc, discVars, draft, res, owner, result, had>>

StatusOf(o) == CASE o = "nil" -> "readytobeowned" [] o = "me" -> "owned" [] OTHER -> "ownedbyother"

\* Mutation: the status is not resolved.
SetOwnershipOnly(d, o) ==
    IF d.own # NoDoxm THEN d
    ELSE [d EXCEPT !.own = IF o = "refused" THEN NoDoxm ELSE o]

\* setOwnership of one device, with the ownership o.
SetOwnership(d, o) ==
    IF d.own # NoDoxm THEN d
    ELSE [d EXCEPT !.own = IF o = "refused" THEN NoDoxm ELSE o, !.status = StatusOf(o)]

\* Client.getDeviceDetails: the ownership is read once more, and an ownership
\* without doxm and status is set when it cannot be.
GetDeviceDetails(t) ==
    /\ reader[t] = "details"
    /\ IF t[2] = "multicast" THEN UNCHANGED draft
       ELSE \E o \in IF t[1] \in Secured THEN Reads(t[1]) ELSE {NoDoxm} :
               draft' = [draft EXCEPT ![t] = IF o = NoDoxm THEN [@ EXCEPT !.status = ""] ELSE SetOwnership(@, o)]
    /\ Goto(t, "append")
    /\ UNCHANGED <<dpc, discVars, resOwnerships, res, owner, result, had>>

AppendDevice(t) ==
    /\ reader[t] = "append"
    /\ \E e \in EpLists :
          res' = Append(res, [id |-> t[1], own |-> draft[t].own, status |-> draft[t].status, eps |-> e])
    /\ Goto(t, "done")
    /\ UNCHANGED <<dpc, discVars, draft, resOwnerships, owner, result, had>>

\* Without an endpoint that follows one of its URI.
Distinct == [eps \in Seq(Ep) |-> Selected(eps, {n \in DOMAIN eps : n > 1 => eps[n - 1].uri # eps[n].uri})]

\* Sorted by URI and then by priority.
MergeEndpoints(a, b) == Distinct[SortedBy("pri", Ep)[SortedBy("uri", Ep)[a \o b]]]

\* An entry i joins the map m: the first of a device's entries stays, with the
\* endpoints of all.
MergeDevice(m, i) ==
    IF i.id \in DOMAIN m THEN [m EXCEPT ![i.id].eps = MergeEndpoints(@, i.eps)]
    ELSE [d \in DOMAIN m \union {i.id} |-> IF d = i.id THEN i ELSE m[d]]

MergeDevices(list) ==
    LET m[n \in 0 .. Len(list)] == IF n = 0 THEN <<>> ELSE MergeDevice(m[n - 1], list[n])
    IN  m[Len(list)]

\* The rest of GetDevicesDetails, when every device was read by IP.
ReturnDevices ==
    /\ dpc = "waitIP" /\ \A d \in Devs : reader[<<d, "ip">>] \in {"none", "done"}
    /\ dpc' = "returned"
    /\ result' = LET m == MergeDevices(res)
                 IN  [d \in DOMAIN m |->
                        IF resOwnerships[d] = NoDoxm THEN m[d] ELSE SetOwnership(m[d], resOwnerships[d])]
    /\ UNCHANGED <<discVars, readVars, owner, had>>

------------------------------------------------------------------------------

Main == DialDiscoveryAddresses \/ Discover \/ SelectDone \/ WaitDiscovery \/ CloseConns \/ ReturnDevices

RunStep(c) ==
    /\ dpc # "panicked"
    /\ Build(c) \/ Publish(c) \/ RunDone(c) \/ SelectError(c)

Read(t) ==
    /\ dpc # "panicked"
    /\ GetDetails(t) \/ PanicByIP(t) \/ GetOwnership(t) \/ GetDeviceDetails(t) \/ AppendDevice(t)

DetailsNext ==
    \/ GetDevicesDetails \/ Deadline \/ Main
    \/ \E c \in Conns : RunStep(c) \/ \E d \in Devs : HandleResponse(c, d)
    \/ \E t \in Tasks : Read(t)
    \/ \E d \in Devs, o \in Owners : ChangeOwner(d, o)

DetailsSpec == DetailsInit /\ [][DetailsNext]_detailsVars

\* Goroutines run, requests end with their context, and its deadline comes.
DetailsFairness ==
    /\ WF_detailsVars(Deadline) /\ WF_detailsVars(Main)
    /\ \A c \in Conns : WF_detailsVars(RunStep(c))
    /\ \A t \in Tasks : WF_detailsVars(Read(t))

------------------------------------------------------------------------------
(* Properties                                                               *)

\* GetDevicesDetails returns, unless a request could not be built and Discover
\* no longer takes the error (runDiscovery then waits to send it for ever), or
\* the links of a device that was found by IP could not be read (GetDeviceByIP
\* then panics).
DetailsReturn ==
    dpc = "dial" ~> \/ dpc \in {"returned", "panicked"}
                    \/ dpc = "wait" /\ \E c \in Conns : run[c] = "unbuilt"

\* When it has returned, every socket of the discovery is closed and every
\* goroutine that used it has ended, also after an error; without one, nobody
\* reads a device by IP any more.
NothingIsLeft == dpc = "returned" =>
    /\ \A c \in Conns : conn[c] # "open" /\ run[c] \in {"none", "done", "failed"}
    /\ ~err => \A d \in Devs : reader[<<d, "ip">>] \in {"none", "done"}

\* A device whose ownership could be read, by whichever goroutine, is returned
\* with a status that it had during the call, although the device may be read up
\* to three times, be owned in between, and have two entries; no endpoint is
\* returned twice for a device that was found in two ways, whatever lists of
\* endpoints it was found with; and every device that was read is returned.
ResultIsTrue == [][
    dpc # "returned" /\ dpc' = "returned" /\ ~err' =>
       /\ DOMAIN result' = {res[k].id : k \in DOMAIN res}
       /\ \A d \in DOMAIN result' :
             LET e == result'[d].eps
             IN  /\ resOwnerships[d] # NoDoxm => result'[d].status \in {StatusOf(o) : o \in had[d]}
                 /\ (\E k, l \in DOMAIN res : k # l /\ res[k].id = d /\ res[l].id = d) =>
                       \A i, j \in DOMAIN e : e[i] = e[j] => i = j]_detailsVars
=============================================================================
